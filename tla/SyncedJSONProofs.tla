-------------------------- MODULE SyncedJSONProofs --------------------------
(***************************************************************************)
(* Theorems about SyncedJSON, for any TTL, max_stale, backoff cap and      *)
(* number of readers.                                                      *)
(***************************************************************************)
EXTENDS SyncedJSON, TLAPS

(* A timer that runs never has more than the TTL or the largest backoff to  *)
(* go, the backoff stays below twice the cap, and the loop is in its select *)
(* or its initial fetch only with the expired timer running.                *)
DueBy(timer) == timer = Never \/ timer <= Ttl \/ timer < 2 * BackoffCap

RefreshInv ==
    /\ backoff >= 1 /\ backoff < 2 * BackoffCap
    /\ DueBy(expired)
    /\ loop \in {"initial", "select"} => expired # Never

Inv == TypeOK /\ RefreshInv

(* One tick leaves a timer a timer and brings it no further away. *)
LEMMA LessDue ==
    ASSUME NEW timer \in Timer
    PROVE  /\ Less(timer) \in Timer
           /\ timer # Never => Less(timer) # Never
           /\ DueBy(timer) => DueBy(Less(timer))
  BY DurationsAssumption, VersionsAssumption DEF Less, Timer, DueBy

LEMMA InvInit == Init => Inv
<1> SUFFICES ASSUME Init PROVE Inv
  OBVIOUS
<1>1. /\ err \in BOOLEAN
      /\ ended \in BOOLEAN
      /\ up \in BOOLEAN
  BY Zenon DEF Init
<1>2. reply \in [Readers -> [data : Document, err : BOOLEAN]]
  BY DEF Init, NoReply, Document
<1>3. /\ version \in Version
      /\ data \in Document
      /\ queue \in Seq(Readers)
  BY VersionsAssumption DEF Init, Version, Document
<1>4. RefreshInv
  BY DurationsAssumption, VersionsAssumption DEF Init, RefreshInv, DueBy
<1>5. QED
  BY <1>1, <1>2, <1>3, <1>4, DurationsAssumption, VersionsAssumption
  DEF Init, Inv, TypeOK, Timer

LEMMA InvNext == Inv /\ [Next]_vars => Inv'
<1> SUFFICES ASSUME Inv, [Next]_vars PROVE Inv'
  OBVIOUS
<1> USE DurationsAssumption, VersionsAssumption
    DEF Inv, TypeOK, RefreshInv, timers, origin
<1>1. CASE FetchSucceeds
  <2>1. /\ data' \in Document
        /\ err' \in BOOLEAN
    <3>1. data' = version /\ err' = FALSE
      BY <1>1 DEF FetchSucceeds
    <3>2. err' \in BOOLEAN
      BY <3>1
    <3>3. QED
      BY <3>1, <3>2 DEF Document
  <2>2. CASE loop = "initial"
    BY <1>1, <2>1, <2>2 DEF FetchSucceeds
  <2>3. CASE loop # "initial"
    BY <1>1, <2>1, <2>3 DEF FetchSucceeds, Rearm, Timer, DueBy
  <2>4. QED
    BY <2>2, <2>3
<1>2. CASE FetchFails
  <2>1. data' \in Document /\ err' \in BOOLEAN
    BY <1>2 DEF FetchFails, Document
  <2>2. CASE loop = "initial"
    BY <1>2, <2>1, <2>2 DEF FetchFails, RetryNow, Timer, DueBy
  <2>3. CASE loop # "initial"
    BY <1>2, <2>1, <2>3 DEF FetchFails, RetryLater, Timer, DueBy
  <2>4. QED
    BY <2>2, <2>3
<1>3. CASE Done
  BY <1>3 DEF Done
<1>4. CASE Expire
  BY <1>4 DEF Expire, Timer, DueBy
<1>5. CASE Invalidate
  BY <1>5 DEF Invalidate, Timer, Document
<1>6. CASE Answer
  <2>1. queue' \in Seq(Readers)
    BY <1>6 DEF Answer
  <2>2. reply' \in [Readers -> [data : Document, err : BOOLEAN]]
    BY <1>6 DEF Answer
  <2>3. QED
    BY <1>6, <2>1, <2>2 DEF Answer
<1>7. ASSUME NEW r \in Readers, Data(r) PROVE Inv'
  BY <1>7 DEF Data
<1>8. CASE OriginChanges
  <2>1. version' \in Version
    BY <1>8 DEF OriginChanges, Version
  <2>2. QED
    BY <1>8, <2>1 DEF OriginChanges
<1>9. CASE End
  BY <1>9 DEF End
<1>10. CASE Tick
  BY <1>10, LessDue DEF Tick
<1>11. CASE UNCHANGED vars
  BY <1>11 DEF vars
<1>12. QED
  BY <1>1, <1>2, <1>3, <1>4, <1>5, <1>6, <1>7, <1>8, <1>9, <1>10, <1>11
  DEF Next, Fetched

(* Every variable keeps its type; in particular no timer runs below zero. *)
THEOREM TypeCorrect == Spec => []TypeOK
<1>1. Inv => TypeOK
  BY DEF Inv
<1>2. QED
  BY <1>1, InvInit, InvNext, PTL DEF Spec

(* Whenever sync waits in its select, its next fetch is at most the TTL or  *)
(* less than twice the backoff cap away: a long row of failures, a drained  *)
(* timer channel or a dropped document never leaves it without a next       *)
(* attempt.                                                                 *)
THEOREM RefreshAlwaysDue == Spec => []RefreshIsDue
<1>1. Inv => RefreshIsDue
  BY DEF Inv, RefreshInv, RefreshIsDue, DueBy
<1>2. QED
  BY <1>1, InvInit, InvNext, PTL DEF Spec

=============================================================================
