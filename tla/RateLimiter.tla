---------------------------- MODULE RateLimiter -----------------------------
(***************************************************************************)
(* The rate limiter of a backend, handler/ratelimit/limiter.go.            *)
(*                                                                         *)
(* Every caller of Limiter.RoundTrip offers a trip on the unbuffered       *)
(* channel l.check.  One goroutine, slowTripper, takes a trip, looks at    *)
(* the limits, and refuses it, lets it through or sleeps with it; while it *)
(* sleeps nobody else is looked at.  A trip that is let through is handed  *)
(* to the transport in a goroutine of its own.                             *)
(*                                                                         *)
(* Time is a counter of ticks.  The limiter's own computation takes no     *)
(* time; a timer fires at most Lateness ticks after it is due.             *)
(***************************************************************************)
EXTENDS Integers, Sequences, FiniteSets, RingBuffer

CONSTANTS
    Requests,     \* the calls of RoundTrip
    Cancellable,  \* those whose request context may end
    Limits,       \* the configured limits, longest period first (see SortedLimits)
    Lateness,     \* how late a timer may fire
    MaxTime,      \* the clock stops here unless the limiter sleeps on a timer
    NoRequest     \* no trip in slowTripper's hands

Index == 1 .. Len(Limits)

(* What config.go builds: periods and counts are not 0, the periods are    *)
(* pairwise different and sorted in descending order.                      *)
Limit == [period    : Nat \ {0},
          perPeriod : Nat \ {0},
          window    : {"fixed", "sliding"},
          mode      : {"block", "wait"}]

SortedLimits ==
    /\ Limits \in Seq(Limit)
    /\ Len(Limits) > 0
    /\ \A i, j \in Index : i < j => Limits[i].period > Limits[j].period

ASSUME LimitsAssumption == SortedLimits
ASSUME BoundsAssumption == Lateness \in Nat /\ MaxTime \in Nat
ASSUME RequestsAssumption == Cancellable \subseteq Requests /\ NoRequest \notin Requests

VARIABLES
    now,          \* the clock
    call,         \* where each call of RoundTrip is
    canceled,     \* the calls whose context has ended
    tripper,      \* where slowTripper is
    cur,          \* the trip in its hands
    wakeAt,       \* when the timer it sleeps on is due
    mu,           \* whether l.mu is held
    quit,         \* whether quitCh is closed
    count,        \* rl.count of each limit
    periodStart,  \* rl.periodStart of each limit
    ring,         \* rl.ringBuffer of each limit; used by the sliding ones only
    released      \* history: when a trip was handed to the transport

limits  == <<count, periodStart, ring>>
vars    == <<now, call, canceled, tripper, cur, wakeAt, mu, quit, limits, released>>

Final == {"ok", "limited", "error", "canceled"}

TypeOK ==
    /\ now \in Nat
    /\ call \in [Requests -> {"new", "offer", "wait", "sent"} \cup Final]
    /\ canceled \in SUBSET Requests
    /\ tripper \in {"select", "check", "lock", "sleep", "quit"}
    /\ cur \in Requests \cup {NoRequest}
    /\ wakeAt \in Nat
    /\ mu \in BOOLEAN
    /\ quit \in BOOLEAN
    /\ count \in [Index -> Nat]
    /\ periodStart \in [Index -> Nat]
    /\ DOMAIN ring = Index
    /\ \A l \in Index : ring[l] \in Ring(Limits[l].perPeriod)
    /\ released \in Seq(Nat)

(* NewLimiter, which the first request to the backend calls. *)
Init ==
    /\ now = 0
    /\ call = [q \in Requests |-> "new"]
    /\ canceled = {}
    /\ tripper = "select"
    /\ cur = NoRequest
    /\ wakeAt = 0
    /\ mu = FALSE
    /\ quit = FALSE
    /\ count = [l \in Index |-> 0]
    /\ periodStart = [l \in Index |-> 0]
    /\ ring = [l \in Index |-> newRingBuffer(Limits[l].perPeriod)]
    /\ released = <<>>

-----------------------------------------------------------------------------
(* checkCapacity: the fixed windows are moved to the period that holds now, *)
(* then the limits are looked at in their order, each exceeded one          *)
(* overwriting the time to wait and the mode of those before it.            *)

Fixed(l)   == Limits[l].window = "fixed"
Sliding(l) == Limits[l].window = "sliding"

(* multiplicator: the whole periods gone by since periodStart. *)
Elapsed(l) == (now - periodStart[l]) \div Limits[l].period

CurrentStart == [l \in Index |->
    IF Fixed(l) THEN periodStart[l] + Limits[l].period * Elapsed(l) ELSE periodStart[l]]

(* Mutant of CurrentCount: a new period goes on with the old count. *)
KeptCount == count

CurrentCount == [l \in Index |->
    IF Fixed(l) /\ Elapsed(l) > 0 THEN 0 ELSE count[l]]

(* Mutant of Exceeded: the period ends a tick early. *)
ExceededEarly(l) ==
    IF Fixed(l) THEN CurrentCount[l] >= Limits[l].perPeriod
    ELSE get(ring[l]) # NoTime /\ get(ring[l]) + Limits[l].period > now + 1

Exceeded(l) ==
    IF Fixed(l) THEN CurrentCount[l] >= Limits[l].perPeriod
    ELSE get(ring[l]) # NoTime /\ get(ring[l]) + Limits[l].period > now

(* When a limit that is exceeded has room again. *)
RoomAt(l) ==
    IF Fixed(l) THEN CurrentStart[l] + Limits[l].period
    ELSE get(ring[l]) + Limits[l].period

(* The limit whose time to wait and mode checkCapacity returns. *)
Decisive(l) == Exceeded(l) /\ \A k \in Index : k > l => ~Exceeded(k)

RefreshPeriods ==
    /\ periodStart' = CurrentStart
    /\ count' = CurrentCount
    /\ UNCHANGED ring

(* countRequest of every limit. *)
countRequest ==
    /\ count' = [l \in Index |-> IF Fixed(l) THEN count[l] + 1 ELSE count[l]]
    /\ ring' = [l \in Index |-> IF Sliding(l) THEN put(ring[l], now) ELSE ring[l]]
    /\ UNCHANGED periodStart

-----------------------------------------------------------------------------
(* The callers. *)

Call(q) ==
    /\ call[q] = "new"
    /\ call' = [call EXCEPT ![q] = "offer"]
    /\ UNCHANGED <<now, canceled, tripper, cur, wakeAt, mu, quit, limits, released>>

(* The client goes away or the backend's timeout ends the context. *)
Cancel(q) ==
    /\ q \in Cancellable \ canceled
    /\ call[q] \in {"offer", "wait", "sent"}
    /\ canceled' = canceled \cup {q}
    /\ UNCHANGED <<now, call, tripper, cur, wakeAt, mu, quit, limits, released>>

(* RoundTrip leaves its select by ctx.Done. *)
GiveUp(q) ==
    /\ call[q] = "offer"
    /\ q \in canceled
    /\ call' = [call EXCEPT ![q] = "canceled"]
    /\ UNCHANGED <<now, canceled, tripper, cur, wakeAt, mu, quit, limits, released>>

(* The transport's answer reaches RoundTrip over trip.out; a 429 becomes    *)
(* the limiter's own error.                                                 *)
Answer(q) ==
    /\ call[q] = "sent"
    /\ \E outcome \in {"ok", "limited", "error"} : call' = [call EXCEPT ![q] = outcome]
    /\ UNCHANGED <<now, canceled, tripper, cur, wakeAt, mu, quit, limits, released>>

-----------------------------------------------------------------------------
(* slowTripper. *)

(* The rendezvous on l.check: RoundTrip goes on to wait for trip.out, where *)
(* its context does not count any more.                                     *)
Accept(q) ==
    /\ tripper = "select"
    /\ call[q] = "offer"
    /\ call' = [call EXCEPT ![q] = "wait"]
    /\ cur' = q
    /\ tripper' = "check"
    /\ UNCHANGED <<now, canceled, wakeAt, mu, quit, limits, released>>

(* slowTripper answers the trip it holds with outcome and takes the next. *)
ReplyAndContinue(outcome) ==
    /\ call' = [call EXCEPT ![cur] = outcome]
    /\ cur' = NoRequest
    /\ tripper' = "select"

DropCanceled ==
    /\ tripper = "check"
    /\ cur \in canceled
    /\ ReplyAndContinue("canceled")
    /\ UNCHANGED <<now, canceled, wakeAt, mu, quit, limits, released>>

PassCanceledCheck ==
    /\ tripper = "check"
    /\ cur \notin canceled
    /\ tripper' = "lock"
    /\ UNCHANGED <<now, call, canceled, cur, wakeAt, mu, quit, limits, released>>

(* The lock is taken and given back within the step. *)
Reject ==
    /\ tripper = "lock"
    /\ ~mu
    /\ \E l \in Index : Decisive(l) /\ Limits[l].mode = "block"
    /\ RefreshPeriods
    /\ ReplyAndContinue("limited")
    /\ UNCHANGED <<now, canceled, wakeAt, mu, quit, released>>

(* The lock is taken and the timer started; it is due at once when no limit *)
(* is exceeded.                                                             *)
StartTimer ==
    /\ tripper = "lock"
    /\ ~mu
    /\ \/ /\ \A l \in Index : ~Exceeded(l)
          /\ wakeAt' = now
       \/ \E l \in Index :
             /\ Decisive(l)
             /\ Limits[l].mode = "wait"
             /\ wakeAt' = RoomAt(l)
    /\ RefreshPeriods
    /\ mu' = TRUE
    /\ tripper' = "sleep"
    /\ UNCHANGED <<now, call, canceled, cur, quit, released>>

(* Mutant of Release: the lock is kept. *)
ReleaseHoldingLock ==
    /\ tripper = "sleep"
    /\ now >= wakeAt
    /\ countRequest
    /\ wakeAt' = 0
    /\ released' = Append(released, now)
    /\ ReplyAndContinue("sent")
    /\ UNCHANGED <<now, canceled, mu, quit>>

Release ==
    /\ tripper = "sleep"
    /\ now >= wakeAt
    /\ countRequest
    /\ mu' = FALSE
    /\ wakeAt' = 0
    /\ released' = Append(released, now)
    /\ ReplyAndContinue("sent")
    /\ UNCHANGED <<now, canceled, quit>>

(* The context ends while slowTripper sleeps: the trip is answered and the  *)
(* loop continues without l.mu.Unlock().                                    *)
AbandonSleep ==
    /\ tripper = "sleep"
    /\ cur \in canceled
    /\ wakeAt' = 0
    /\ ReplyAndContinue("canceled")
    /\ UNCHANGED <<now, canceled, mu, quit, limits, released>>

TripperQuits ==
    /\ tripper = "select"
    /\ quit
    /\ tripper' = "quit"
    /\ UNCHANGED <<now, call, canceled, cur, wakeAt, mu, quit, limits, released>>

-----------------------------------------------------------------------------
(* The configuration's context ends: shutdown or reload. *)
Quit ==
    /\ ~quit
    /\ quit' = TRUE
    /\ UNCHANGED <<now, call, canceled, tripper, cur, wakeAt, mu, limits, released>>

Tick ==
    /\ IF tripper = "sleep" THEN now < wakeAt + Lateness ELSE now < MaxTime
    /\ now' = now + 1
    /\ UNCHANGED <<call, canceled, tripper, cur, wakeAt, mu, quit, limits, released>>

TripperStep ==
    \/ \E q \in Requests : Accept(q)
    \/ DropCanceled
    \/ PassCanceledCheck
    \/ Reject
    \/ StartTimer
    \/ Release
    \/ AbandonSleep
    \/ TripperQuits

CallerStep(q) == Call(q) \/ Cancel(q) \/ GiveUp(q) \/ Answer(q)

Next ==
    \/ TripperStep
    \/ \E q \in Requests : CallerStep(q)
    \/ Quit
    \/ Tick

Spec == Init /\ [][Next]_vars

(* slowTripper is a goroutine that is scheduled whenever it can run, time   *)
(* passes, a context that has ended is noticed, and the transport answers   *)
(* (at the latest when the backend's timeout ends the context).             *)
Fairness ==
    /\ WF_vars(TripperStep)
    /\ WF_vars(Tick)
    /\ \A q \in Requests : WF_vars(GiveUp(q)) /\ WF_vars(Answer(q))

FairSpec == Spec /\ Fairness

-----------------------------------------------------------------------------
(* Properties. *)

(* The limit checkCapacity lets decide: the last one, whose period is the   *)
(* shortest.                                                                *)
Shortest == Limits[Len(Limits)]

Window == INSTANCE SlidingWindow WITH Period <- Shortest.period, PerPeriod <- Shortest.perPeriod

(* The sliding window "ensures that only per_period requests are sent in    *)
(* any interval of length period" (rate_limit.md): the limiter implements   *)
(* the abstract window of the limit with the shortest period.  Checked and  *)
(* proved for a backend whose shortest limit is a sliding one.              *)
ImplementsSlidingWindow == Window!Spec

(* The slot of a ring buffer written i puts ago. *)
Slot(rb, i) == IF rb.w >= i THEN rb.w - i ELSE rb.w - i + rb.len

(* The buffer holds the last elements of times, the newest in the slot last *)
(* written, and reads the oldest of them.                                   *)
HoldsLast(rb, times) ==
    /\ rb.r = Slot(rb, rb.len - 1)
    /\ \A i \in 0 .. rb.len - 1 :
          rb.buf[Slot(rb, i)] =
              IF i < Len(times) THEN times[Len(times) - i] ELSE NoTime

(* A sliding limit's ring buffer holds the last per_period releases, so the *)
(* element get returns is the request that has to be a period old.          *)
RingHoldsLastReleases ==
    \A l \in Index : Sliding(l) => HoldsLast(ring[l], released)

ReleasedWithin(lo, hi) == {i \in DOMAIN released : released[i] \in lo .. hi - 1}

(* "A fixed window permits per_period requests within period": no more are  *)
(* let through from the start of a period, counted from the limiter's       *)
(* creation, to the next one.                                               *)
FixedWindowsRespected ==
    \A l \in Index : Fixed(l) =>
        \A k \in 0 .. now \div Limits[l].period :
            Cardinality(ReleasedWithin(k * Limits[l].period, (k + 1) * Limits[l].period))
                <= Limits[l].perPeriod

(* What the decisive limit has seen of the period that counts for it. *)
Exhausted(l) ==
    Cardinality(IF Fixed(l) THEN ReleasedWithin(CurrentStart[l], now + 1)
                            ELSE ReleasedWithin(now - Limits[l].period + 1, now + 1))
        >= Limits[l].perPeriod

(* checkCapacity never refuses or delays a request while every limit still  *)
(* has room: the bookkeeping in count and in the ring buffers never runs    *)
(* ahead of what was really let through.                                    *)
DelayedOnlyWhenExhausted ==
    [][ (Reject \/ (StartTimer /\ wakeAt' > now)) => \E l \in Index : Exhausted(l) ]_vars

(* A request that slowTripper has taken is answered: it "waits for the next *)
(* free rate limiting period" (rate_limit.md) and no longer.                *)
TakenIsAnswered ==
    \A q \in Requests : (call[q] = "wait") ~> (call[q] \in Final)

(* Somebody gave up and slowTripper went on without giving the lock back.   *)
LostLock == mu /\ tripper # "sleep" /\ \E q \in Requests : call[q] = "canceled"

(* Nothing but a lost lock keeps a request that slowTripper has taken from  *)
(* its answer: not the queue, not the windows, not a late timer, and not    *)
(* the callers who leave the queue or go before their turn.                 *)
AnsweredUnlessLockIsLost ==
    \A q \in Requests : (call[q] = "wait") ~> (call[q] \in Final \/ LostLock)

=============================================================================
