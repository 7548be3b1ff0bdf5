------------------------- MODULE BackendHealthProofs -------------------------
(* Proofs about BackendHealth, for any requests and any threshold. *)
EXTENDS BackendHealth, TLAPS

(* At most one request is in initOnce, the one that once names, and the     *)
(* configuration is there from then on.                                     *)
OneInOnce ==
    /\ \A q \in Requests : at[q] \in {"copy", "publish"} => once = q
    /\ once # NoRequest => at[once] \in {"copy", "publish"}
    /\ \A q \in Requests : at[q] = "copy" => conf = NoRequest
    /\ \A q \in Requests : at[q] \in {"publish", "send", "sent"} => conf # NoRequest

(* What is handed to OnProbeChange is a state the probe has been in. *)
ReportsAreValid ==
    /\ probe = "report" => state # "invalid"
    /\ \A q \in Requests : at[q] = "publish" => copied # "invalid"

IInv ==
    /\ TypeOK
    /\ OneInOnce
    /\ ReportsAreValid
    /\ ThresholdRespected
    /\ HealthIsCurrent
    /\ OriginIsPinned

(* The type invariant without the Boolean variables, which the provers      *)
(* treat apart.                                                             *)
Flags == up \in BOOLEAN /\ ended \in BOOLEAN /\ lost \in BOOLEAN

LEMMA InitFlags == Init => Flags
  BY Zenon DEF Init, Flags

LEMMA InitInv == Init => IInv
  <1> SUFFICES ASSUME Init PROVE IInv
    OBVIOUS
  <1>1. Flags
    BY InitFlags
  <1>2. TypeOK
    BY <1>1, HealthAssumption DEF Init, TypeOK, State, Flags
  <1>3. OneInOnce /\ ReportsAreValid /\ ThresholdRespected /\ HealthIsCurrent /\ OriginIsPinned
    BY DEF Init, OneInOnce, ReportsAreValid, ThresholdRespected, HealthIsCurrent, OriginIsPinned
  <1> QED
    BY <1>2, <1>3 DEF IInv

(* The probe's check: the state and the count of failures keep in step, and *)
(* only an unchanged state goes unreported.                                 *)
LEMMA CheckInv == IInv /\ Check => IInv'
  <1> SUFFICES ASSUME IInv, Check PROVE IInv'
    OBVIOUS
  <1> USE DEF IInv, Check, backend
  <1>1. /\ failure' \in 0 .. Threshold + 1
        /\ state' \in State \ {"invalid"}
        /\ ThresholdRespected'
    BY HealthAssumption, SMT DEF TypeOK, ThresholdRespected, Failed, OneMore, State
  <1>2. probe' \in {"sleep", "report"} /\ (probe' = "sleep" => state' = state)
    BY SMT
  <1>3. TypeOK'
    BY <1>1, <1>2 DEF TypeOK
  <1>4. OneInOnce' /\ OriginIsPinned'
    BY DEF OneInOnce, OriginIsPinned
  <1>5. ReportsAreValid'
    BY <1>1 DEF ReportsAreValid
  <1>6. HealthIsCurrent'
    BY <1>1, <1>2 DEF HealthIsCurrent
  <1> QED
    BY <1>1, <1>3, <1>4, <1>5, <1>6

LEMMA ReportInv == IInv /\ Report => IInv'
  <1> SUFFICES ASSUME IInv, Report PROVE IInv'
    OBVIOUS
  <1> USE DEF IInv, Report, OnProbeChange
  <1>1. lost' \in BOOLEAN
    BY Zenon
  <1>2. TypeOK'
    BY <1>1 DEF TypeOK, ReportsAreValid
  <1>3. OneInOnce' /\ ReportsAreValid' /\ ThresholdRespected' /\ OriginIsPinned'
    BY DEF OneInOnce, ReportsAreValid, ThresholdRespected, OriginIsPinned
  <1>4. HealthIsCurrent'
    BY DEF HealthIsCurrent
  <1> QED
    BY <1>2, <1>3, <1>4

(* The steps of the probe and of its surroundings that leave the backend    *)
(* and the state alone.                                                     *)
LEMMA QuietInv == IInv /\ (Wake \/ ProbeQuits \/ OriginChanges \/ End) => IInv'
  <1> SUFFICES ASSUME IInv, Wake \/ ProbeQuits \/ OriginChanges \/ End PROVE IInv'
    OBVIOUS
  <1> USE DEF IInv, Wake, ProbeQuits, OriginChanges, End, backend, checking
  <1>1. up' \in BOOLEAN /\ ended' \in BOOLEAN
    BY Zenon DEF TypeOK
  <1>2. TypeOK'
    BY <1>1 DEF TypeOK
  <1>3. OneInOnce' /\ ReportsAreValid' /\ ThresholdRespected' /\ OriginIsPinned'
    BY DEF OneInOnce, ReportsAreValid, ThresholdRespected, OriginIsPinned
  <1>4. HealthIsCurrent'
    BY DEF HealthIsCurrent
  <1> QED
    BY <1>2, <1>3, <1>4

(* A step of a request: initOnce is entered by one request only, and what   *)
(* it publishes is the health it has read.                                  *)
LEMMA RequestInv ==
    ASSUME NEW q \in Requests, IInv, RequestStep(q)
    PROVE  IInv'
  <1> USE HealthAssumption DEF IInv, checking, Go
  <1>1. CASE CheckHealth(q)
    BY <1>1, SMT DEF CheckHealth, TypeOK, OneInOnce, ReportsAreValid, ThresholdRespected,
                     HealthIsCurrent, OriginIsPinned
  <1>0. CASE Evaluate(q)
    BY <1>0, SMT DEF Evaluate, TypeOK, OneInOnce, ReportsAreValid, ThresholdRespected,
                     HealthIsCurrent, OriginIsPinned
  <1>2. CASE BeginOnce(q)
    BY <1>2, SMT DEF BeginOnce, TypeOK, OneInOnce, ReportsAreValid, ThresholdRespected,
                     HealthIsCurrent, OriginIsPinned
  <1>3. CASE CopyHealth(q)
    BY <1>3, SMT DEF CopyHealth, TypeOK, OneInOnce, ReportsAreValid, ThresholdRespected,
                     HealthIsCurrent, OriginIsPinned, State
  <1>4. CASE PublishHealth(q)
    <2> USE <1>4 DEF PublishHealth, OnProbeChange
    <2>1. lost' \in BOOLEAN
      OBVIOUS
    <2>2. TypeOK'
      BY <2>1 DEF TypeOK, ReportsAreValid
    <2>3. OneInOnce' /\ ReportsAreValid' /\ ThresholdRespected'
      BY DEF TypeOK, OneInOnce, ReportsAreValid, ThresholdRespected
    <2>4. ~lost' => health' = health /\ ~lost
      OBVIOUS
    <2>5. HealthIsCurrent'
      BY <2>4 DEF HealthIsCurrent
    <2>6. OriginIsPinned'
      BY DEF TypeOK, OneInOnce, OriginIsPinned
    <2> QED
      BY <2>2, <2>3, <2>5, <2>6
  <1>5. CASE SkipOnce(q)
    BY <1>5, SMT DEF SkipOnce, TypeOK, OneInOnce, ReportsAreValid, ThresholdRespected,
                     HealthIsCurrent, OriginIsPinned
  <1>6. CASE Send(q)
    BY <1>6, SMT DEF Send, TypeOK, OneInOnce, ReportsAreValid, ThresholdRespected,
                     HealthIsCurrent, OriginIsPinned
  <1> QED
    BY <1>0, <1>1, <1>2, <1>3, <1>4, <1>5, <1>6 DEF RequestStep

LEMMA StutterInv == IInv /\ UNCHANGED vars => IInv'
  BY DEF IInv, vars, TypeOK, OneInOnce, ReportsAreValid, ThresholdRespected, HealthIsCurrent,
         OriginIsPinned

LEMMA Invariance == Spec => []IInv
  <1>1. IInv /\ [Next]_vars => IInv'
    BY CheckInv, ReportInv, QuietInv, RequestInv, StutterInv DEF Next, ProbeStep
  <1> QED
    BY InitInv, <1>1, PTL DEF Spec

(* Every variable keeps its type; no report and no copy carries the state   *)
(* "invalid" to the backend.                                                *)
THEOREM TypeCorrect == Spec => []TypeOK
  BY Invariance, PTL DEF IInv

(* The probe calls the origin unhealthy from the failure_threshold-th       *)
(* failure in a row on, and not before.                                     *)
THEOREM ThresholdIsRespected == Spec => []ThresholdRespected
  BY Invariance, PTL DEF IInv

(* The backend's health is the probe's last state, unless the probe is      *)
(* about to report or initOnce has overwritten its report.                  *)
THEOREM HealthAgrees == Spec => []HealthIsCurrent
  BY Invariance, PTL DEF IInv

(* However many first requests race for initOnce, all requests go to the    *)
(* one origin it has stored.                                                *)
THEOREM OneOrigin == Spec => []OriginIsPinned
  BY Invariance, PTL DEF IInv

=============================================================================
