---------------------------- MODULE BackendHealth ----------------------------
(***************************************************************************)
(* The health of a backend and its first request: the probe goroutine      *)
(* (handler/transport/probe.go) checks the origin again and again and      *)
(* reports changes of its state to the backend, whose RoundTrip            *)
(* (handler/transport/backend.go) refuses requests while the backend is    *)
(* unhealthy and whose first request sets up the transport in initOnce.    *)
(*                                                                         *)
(* What the backend knows of its health, HealthInfo, is here its State:    *)
(* Healthy is FALSE in state "unhealthy" only.                             *)
(***************************************************************************)
EXTENDS Integers

CONSTANTS
    Requests,      \* the calls of RoundTrip
    UseUnhealthy,  \* those for which use_when_unhealthy is true
    Threshold,     \* failure_threshold
    NoRequest      \* no request

ASSUME HealthAssumption ==
    /\ UseUnhealthy \subseteq Requests
    /\ Threshold \in Nat
    /\ NoRequest \notin Requests

State == {"invalid", "healthy", "failing", "unhealthy"}

VARIABLES
    up,       \* whether a check of the origin succeeds
    ended,    \* whether the configuration's context has ended
    probe,    \* where the probe goroutine is
    failure,  \* p.failure; beyond the threshold they are not told apart
    state,    \* p.state
    health,   \* b.healthInfo
    at,       \* where each request is in RoundTrip
    once,     \* the request that is in initOnce
    conf,     \* whose origin is in b.transportConfResult; NoRequest: no one's yet
    copied,   \* the health initOnce has read under the lock
    origin,   \* the origin each request was sent to
    lost      \* history: initOnce has overwritten the probe's last report

vars == <<up, ended, probe, failure, state, health, at, once, conf, copied, origin, lost>>

TypeOK ==
    /\ up \in BOOLEAN
    /\ ended \in BOOLEAN
    /\ probe \in {"check", "report", "sleep", "quit"}
    /\ failure \in 0 .. Threshold + 1
    /\ state \in State
    /\ health \in State \ {"invalid"}
    /\ at \in [Requests -> {"new", "eval", "once", "copy", "publish", "send", "sent", "failed"}]
    /\ once \in Requests \cup {NoRequest}
    /\ conf \in Requests \cup {NoRequest}
    /\ copied \in State
    /\ origin \in [Requests -> Requests \cup {NoRequest}]
    /\ lost \in BOOLEAN

(* NewBackend and NewProbe. *)
Init ==
    /\ up \in BOOLEAN
    /\ ended = FALSE
    /\ probe = "check"
    /\ failure = 0
    /\ state = "invalid"
    /\ health = "healthy"
    /\ at = [q \in Requests |-> "new"]
    /\ once = NoRequest
    /\ conf = NoRequest
    /\ copied = "invalid"
    /\ origin = [q \in Requests |-> NoRequest]
    /\ lost = FALSE

backend  == <<health, at, once, conf, copied, origin, lost>>
checking == <<probe, failure, state>>

-----------------------------------------------------------------------------
(* The probe. *)

OneMore(n) == IF n > Threshold THEN n ELSE n + 1

(* The state after one more failed check, n of them failed before. *)
Failed(n) == IF OneMore(n) < Threshold THEN "failing" ELSE "unhealthy"

(* Mutant of Check: a success does not set the count of failures back. *)
CheckAndCount ==
    /\ probe = "check"
    /\ ~ended
    /\ IF up
       THEN state' = "healthy" /\ UNCHANGED failure
       ELSE state' = Failed(failure) /\ failure' = OneMore(failure)
    /\ probe' = IF state' = state THEN "sleep" ELSE "report"
    /\ UNCHANGED <<up, ended, backend>>

(* Mutant of Check: only what changes Healthy is reported. *)
CheckHealthy ==
    /\ probe = "check"
    /\ ~ended
    /\ IF up
       THEN state' = "healthy" /\ failure' = 0
       ELSE state' = Failed(failure) /\ failure' = OneMore(failure)
    /\ probe' = IF (state' = "unhealthy") = (state = "unhealthy") THEN "sleep" ELSE "report"
    /\ UNCHANGED <<up, ended, backend>>

(* One check and the state that follows from it. *)
Check ==
    /\ probe = "check"
    /\ ~ended
    /\ IF up
       THEN state' = "healthy" /\ failure' = 0
       ELSE state' = Failed(failure) /\ failure' = OneMore(failure)
    /\ probe' = IF state' = state THEN "sleep" ELSE "report"
    /\ UNCHANGED <<up, ended, backend>>

(* Mutant of OnProbeChange: only what is worse is passed on. *)
OnProbeWorsens(new) == health' = IF new = "healthy" THEN health ELSE new

(* Backend.OnProbeChange. *)
OnProbeChange(new) == health' = new

Report ==
    /\ probe = "report"
    /\ OnProbeChange(state)
    /\ lost' = FALSE
    /\ probe' = "sleep"
    /\ UNCHANGED <<up, ended, failure, state, at, once, conf, copied, origin>>

(* The interval is over. *)
Wake ==
    /\ probe = "sleep"
    /\ probe' = "check"
    /\ UNCHANGED <<up, ended, failure, state, backend>>

ProbeQuits ==
    /\ probe = "check"
    /\ ended
    /\ probe' = "quit"
    /\ UNCHANGED <<up, ended, failure, state, backend>>

-----------------------------------------------------------------------------
(* RoundTrip. *)

Go(q, to) == at' = [at EXCEPT ![q] = to]

(* isUnhealthy. *)
CheckHealth(q) ==
    /\ at[q] = "new"
    /\ Go(q, IF health # "unhealthy" \/ q \in UseUnhealthy THEN "eval" ELSE "failed")
    /\ UNCHANGED <<up, ended, checking, health, once, conf, copied, origin, lost>>

(* evalTransport, to an origin of the request's own or an error. *)
Evaluate(q) ==
    /\ at[q] = "eval"
    /\ \E to \in {"once", "failed"} : Go(q, to)
    /\ UNCHANGED <<up, ended, checking, health, once, conf, copied, origin, lost>>

(* Mutant of BeginOnce: the flag is checked without the lock. *)
BeginUnlocked(q) ==
    /\ at[q] = "once"
    /\ conf = NoRequest
    /\ once' = q
    /\ Go(q, "copy")
    /\ UNCHANGED <<up, ended, checking, health, conf, copied, origin, lost>>

(* transportOnce.Do: the first request runs initOnce ... *)
BeginOnce(q) ==
    /\ at[q] = "once"
    /\ conf = NoRequest
    /\ once = NoRequest
    /\ once' = q
    /\ Go(q, "copy")
    /\ UNCHANGED <<up, ended, checking, health, conf, copied, origin, lost>>

(* ... which sets the transport, stores its configuration and copies the    *)
(* health under the lock ...                                                *)
CopyHealth(q) ==
    /\ at[q] = "copy"
    /\ conf' = q
    /\ copied' = health
    /\ Go(q, "publish")
    /\ UNCHANGED <<up, ended, checking, health, once, origin, lost>>

(* ... and takes the lock again to set the health to the copy. *)
PublishHealth(q) ==
    /\ at[q] = "publish"
    /\ OnProbeChange(copied)
    /\ lost' = (lost \/ copied # health)
    /\ once' = NoRequest
    /\ Go(q, "send")
    /\ UNCHANGED <<up, ended, checking, conf, copied, origin>>

(* The others wait until initOnce is over and then skip it. *)
SkipOnce(q) ==
    /\ at[q] = "once"
    /\ conf # NoRequest
    /\ once = NoRequest
    /\ Go(q, "send")
    /\ UNCHANGED <<up, ended, checking, health, once, conf, copied, origin, lost>>

(* The request goes to the origin in transportConfResult. *)
Send(q) ==
    /\ at[q] = "send"
    /\ origin' = [origin EXCEPT ![q] = conf]
    /\ Go(q, "sent")
    /\ UNCHANGED <<up, ended, checking, health, once, conf, copied, lost>>

-----------------------------------------------------------------------------
OriginChanges ==
    /\ up' = ~up
    /\ UNCHANGED <<ended, checking, backend>>

(* Shutdown or reload. *)
End ==
    /\ ~ended
    /\ ended' = TRUE
    /\ UNCHANGED <<up, checking, backend>>

ProbeStep == Check \/ Report \/ Wake \/ ProbeQuits

RequestStep(q) ==
    \/ CheckHealth(q)
    \/ Evaluate(q)
    \/ BeginOnce(q)
    \/ CopyHealth(q)
    \/ PublishHealth(q)
    \/ SkipOnce(q)
    \/ Send(q)

Next ==
    \/ ProbeStep
    \/ \E q \in Requests : RequestStep(q)
    \/ OriginChanges
    \/ End

Spec == Init /\ [][Next]_vars

(* The goroutines are scheduled, and every check ends by its timeout. *)
FairSpec ==
    /\ Spec
    /\ WF_vars(ProbeStep)
    /\ \A q \in Requests : WF_vars(RequestStep(q) /\ at[q] # "new")

-----------------------------------------------------------------------------
(* Properties. *)

(* "Failed checks needed to consider backend unhealthy" (health.md): the    *)
(* probe's state and its count of consecutive failures never disagree.      *)
ThresholdRespected ==
    /\ state \in {"invalid", "healthy"} => failure = 0
    /\ state = "failing" => failure \in 1 .. Threshold - 1
    /\ state = "unhealthy" => failure >= Threshold

(* What the backend knows is what the probe found, except while the probe   *)
(* is about to report it, or when the probe has reported between the two    *)
(* steps of initOnce and not again since.                                   *)
HealthIsCurrent ==
    (probe # "report" /\ state # "invalid" /\ ~lost) => health = state

(* All requests go to one origin: that of the first request.  None finds    *)
(* the transport unset.                                                     *)
OriginIsPinned ==
    \A q \in Requests : at[q] = "sent" => origin[q] = conf /\ conf # NoRequest

(* An origin that answers for good is used again, one that is gone for good *)
(* is not used any more, provided no report was lost.                       *)
HealthSettles ==
    /\ <>[](up /\ ~ended /\ ~lost) => <>[](health = "healthy")
    /\ <>[](~up /\ ~ended /\ ~lost) => <>[](health = "unhealthy")

(* "health: the current health state" (variables.md): an origin that        *)
(* answers for good is used again. The code does not keep to it, see        *)
(* section 6 of the README.                                                 *)
BackendRecovers == <>[](up /\ ~ended) => <>[](health # "unhealthy")

=============================================================================
