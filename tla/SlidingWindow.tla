---------------------------- MODULE SlidingWindow ---------------------------
(***************************************************************************)
(* What a sliding-window rate limit promises (docs: rate_limit.md): only   *)
(* PerPeriod requests are sent in any interval of length Period.           *)
(*                                                                         *)
(* It knows nothing of channels, ring buffers or timers: a request may     *)
(* pass when the one PerPeriod places before it passed at least Period     *)
(* ago.                                                                    *)
(***************************************************************************)
LOCAL INSTANCE Integers
LOCAL INSTANCE Sequences

CONSTANTS Period, PerPeriod

VARIABLES
    now,      \* the clock
    released  \* when the requests passed, oldest first

vars == <<now, released>>

Init == now = 0 /\ released = <<>>

Room ==
    Len(released) >= PerPeriod =>
        released[Len(released) - PerPeriod + 1] + Period <= now

Pass ==
    /\ Room
    /\ released' = Append(released, now)
    /\ UNCHANGED now

Tick ==
    /\ now' = now + 1
    /\ UNCHANGED released

Next == Pass \/ Tick

Spec == Init /\ [][Next]_vars

(* Requests PerPeriod places apart are at least Period apart in time, so no *)
(* interval of length Period holds more than PerPeriod of them.             *)
WindowRespected ==
    \A i \in 1 .. Len(released) - PerPeriod :
        released[i + PerPeriod] - released[i] >= Period

=============================================================================
