------------------------------- MODULE RoundTrip -------------------------------
(***************************************************************************)
(* One request of a backend to its origin and the goroutines that measure  *)
(* it (handler/transport/backend.go): withTimeout starts a guard that      *)
(* cancels the request when a timeout has passed; the time to the first    *)
(* byte is measured by a timer that a third goroutine resets when the      *)
(* request has been written; innerRoundTrip tells what the error of the    *)
(* transport means.                                                        *)
(***************************************************************************)
EXTENDS Naturals

VARIABLES
    timings,     \* which of ttfb_timeout and timeout are set
    call,        \* "idle", "open", "header" (the first byte is there), "body", "failed", "done"
    wrote,       \* the request has been written, or could not be
    timer,       \* ttfbTimer: armed or not, and whether its channel holds a tick
    resetter,    \* the goroutine of WroteRequest: "none", "spawned", "waiting", "ended"
    timeoutCh,   \* whether the channel ttfbTimeout holds a tick
    deadline,    \* the timer of timeout: "off", "running", "expired"
    guard,       \* the goroutine of withTimeout: "none", "waiting", "sent", "ended"
    errCh,       \* the channel deadlineErr: "" or the timeout it holds
    canceled,    \* who canceled the context first: "no", "guard", "caller"
    cause,       \* why the transport failed: "", "origin" or who canceled
    result       \* "", "response", "backend" or a timeout, "cut" when the body ended too early

time  == <<timer, resetter, timeoutCh, deadline, guard>>
trip  == <<timings, call, wrote, timer, resetter, timeoutCh, deadline, guard, errCh, canceled, cause, result>>

Guarded(t) == t.ttfb \/ t.timeout

(* Nothing has been sent; t is what evalTransport made of the timings.     *)
Idle(t) ==
    /\ timings = t
    /\ call = "idle" /\ wrote = FALSE
    /\ timer = [armed |-> FALSE, tick |-> FALSE] /\ resetter = "none" /\ timeoutCh = FALSE
    /\ deadline = "off" /\ guard = "none" /\ errCh = ""
    /\ canceled = "no" /\ cause = "" /\ result = ""

(* A request like this one takes the place of the one before.              *)
Renew(t) ==
    /\ timings' = t
    /\ call' = "idle" /\ wrote' = FALSE
    /\ timer' = [armed |-> FALSE, tick |-> FALSE] /\ resetter' = "none" /\ timeoutCh' = FALSE
    /\ deadline' = "off" /\ guard' = "none" /\ errCh' = ""
    /\ canceled' = "no" /\ cause' = "" /\ result' = ""

-------------------------------------------------------------------------------
(* The caller                                                              *)

(* withTimeout. The timer of the first byte runs from here on.             *)
Start ==
    /\ call = "idle"
    /\ call' = "open"
    /\ timer' = [timer EXCEPT !.armed = Guarded(timings)]
    /\ deadline' = IF timings.timeout THEN "running" ELSE "off"
    /\ guard' = IF Guarded(timings) THEN "waiting" ELSE "none"
    /\ UNCHANGED <<timings, wrote, resetter, timeoutCh, errCh, canceled, cause, result>>

(* Mutant of ReturnError: the error of the transport counts. *)
TransportErrorFirst ==
    /\ call = "failed"
    /\ call' = "done"
    /\ result' = "backend"
    /\ UNCHANGED <<time, timings, wrote, errCh, canceled, cause>>

(* innerRoundTrip: a timeout that is in the channel goes first.            *)
ReturnError ==
    /\ call = "failed"
    /\ call' = "done"
    /\ result' = IF errCh # "" THEN errCh ELSE "backend"
    /\ errCh' = ""
    /\ UNCHANGED <<time, timings, wrote, canceled, cause>>

(* The client has gone, or the endpoint has returned.                      *)
CallerCancels ==
    /\ call # "idle" /\ canceled = "no"
    /\ canceled' = "caller"
    /\ UNCHANGED <<time, timings, call, wrote, errCh, cause, result>>

-------------------------------------------------------------------------------
(* net/http                                                                *)

(* The writing goroutine of the transport calls the hook whenever it is    *)
(* done with the request, be the answer there or not.                      *)
WroteRequest ==
    /\ call # "idle" /\ ~wrote
    /\ wrote' = TRUE
    /\ resetter' = IF timings.ttfb THEN "spawned" ELSE resetter
    /\ UNCHANGED <<timings, call, timer, timeoutCh, deadline, guard, errCh, canceled, cause, result>>

(* Stop leaves a tick in the channel.                                      *)
FirstByte ==
    /\ call = "open"
    /\ call' = "header"
    /\ timer' = [timer EXCEPT !.armed = FALSE]
    /\ UNCHANGED <<timings, wrote, resetter, timeoutCh, deadline, guard, errCh, canceled, cause, result>>

HeaderRead ==
    /\ call = "header"
    /\ call' = "body"
    /\ result' = "response"
    /\ UNCHANGED <<time, timings, wrote, errCh, canceled, cause>>

OriginFails ==
    /\ call \in {"open", "header"}
    /\ call' = "failed"
    /\ cause' = "origin"
    /\ UNCHANGED <<time, timings, wrote, errCh, canceled, result>>

TransportCanceled ==
    /\ call \in {"open", "header"} /\ canceled # "no"
    /\ call' = "failed"
    /\ cause' = canceled
    /\ UNCHANGED <<time, timings, wrote, errCh, canceled, result>>

BodyEnds ==
    /\ call = "body"
    /\ call' = "done"
    /\ UNCHANGED <<time, timings, wrote, errCh, canceled, cause, result>>

BodyCut ==
    /\ call = "body" /\ canceled # "no"
    /\ call' = "done"
    /\ result' = "cut"
    /\ UNCHANGED <<time, timings, wrote, errCh, canceled, cause>>

-------------------------------------------------------------------------------
(* The time to the first byte                                              *)

TimerFires ==
    /\ timer.armed
    /\ timer' = [armed |-> FALSE, tick |-> TRUE]
    /\ UNCHANGED <<timings, call, wrote, resetter, timeoutCh, deadline, guard, errCh, canceled, cause, result>>

(* Reset arms the timer again and leaves a tick in the channel.            *)
ResetTimer ==
    /\ resetter = "spawned"
    /\ resetter' = "waiting"
    /\ timer' = [timer EXCEPT !.armed = TRUE]
    /\ UNCHANGED <<timings, call, wrote, timeoutCh, deadline, guard, errCh, canceled, cause, result>>

ResetterTicks ==
    /\ resetter = "waiting" /\ timer.tick
    /\ resetter' = "ended"
    /\ timer' = [timer EXCEPT !.tick = FALSE]
    /\ timeoutCh' = TRUE
    /\ UNCHANGED <<timings, call, wrote, deadline, guard, errCh, canceled, cause, result>>

ResetterStops ==
    /\ resetter = "waiting" /\ canceled # "no"
    /\ resetter' = "ended"
    /\ timer' = [armed |-> FALSE, tick |-> FALSE]
    /\ UNCHANGED <<timings, call, wrote, timeoutCh, deadline, guard, errCh, canceled, cause, result>>

-------------------------------------------------------------------------------
(* The guard                                                               *)

DeadlineExpires ==
    /\ deadline = "running" /\ guard = "waiting"
    /\ deadline' = "expired"
    /\ UNCHANGED <<timings, call, wrote, timer, resetter, timeoutCh, guard, errCh, canceled, cause, result>>

GuardSends ==
    /\ guard = "waiting"
    /\ guard' = "sent"
    /\ \/ deadline = "expired" /\ errCh' = "deadline" /\ UNCHANGED timeoutCh
       \/ timeoutCh /\ timeoutCh' = FALSE /\ errCh' = "ttfb"
    /\ UNCHANGED <<timings, call, wrote, timer, resetter, deadline, canceled, cause, result>>

(* Mutant of GuardCancels: the request goes on. *)
GuardForgets ==
    /\ guard = "sent"
    /\ guard' = "ended"
    /\ UNCHANGED <<timings, call, wrote, timer, resetter, timeoutCh, deadline, errCh, canceled, cause, result>>

(* The deferred cancel.                                                    *)
GuardCancels ==
    /\ guard = "sent"
    /\ guard' = "ended"
    /\ canceled' = IF canceled = "no" THEN "guard" ELSE canceled
    /\ UNCHANGED <<timings, call, wrote, timer, resetter, timeoutCh, deadline, errCh, cause, result>>

GuardEnds ==
    /\ guard = "waiting" /\ canceled # "no"
    /\ guard' = "ended"
    /\ UNCHANGED <<timings, call, wrote, timer, resetter, timeoutCh, deadline, errCh, canceled, cause, result>>

-------------------------------------------------------------------------------

Transport == WroteRequest \/ FirstByte \/ HeaderRead \/ OriginFails \/ TransportCanceled \/ BodyEnds \/ BodyCut
Timers    == TimerFires \/ ResetTimer \/ ResetterTicks \/ ResetterStops
            \/ DeadlineExpires \/ GuardSends \/ GuardCancels \/ GuardEnds

TripInit == \E t \in [ttfb : BOOLEAN, timeout : BOOLEAN] : Idle(t)
TripNext == Start \/ ReturnError \/ CallerCancels \/ Transport \/ Timers
TripSpec == TripInit /\ [][TripNext]_trip

(* A request that the guard has canceled is reported as the timeout it     *)
(* was, not as an error of the backend: the error is in the channel before *)
(* the context is canceled, and innerRoundTrip looks there first.          *)
TimeoutsAreReported == result = "backend" => cause # "guard"
===============================================================================
