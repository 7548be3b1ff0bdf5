------------------------- MODULE RateLimiterProofs --------------------------
(***************************************************************************)
(* Theorems about RateLimiter, for any requests, limits and lateness: it   *)
(* is type correct, its ring buffers hold what they should, it implements  *)
(* the sliding window of its shortest limit, delays nobody without need,   *)
(* and fixed windows are respected where every shorter limit blocks.       *)
(***************************************************************************)
EXTENDS RateLimiter, FiniteSetTheorems, TLAPS

-----------------------------------------------------------------------------
(* Arithmetic of the ring buffer's indices and of the fixed windows. *)

LEMMA ModSucc ==
    ASSUME NEW n \in Nat \ {0}, NEW w \in 0 .. n - 1
    PROVE  (w + 1) % n = IF w + 1 = n THEN 0 ELSE w + 1
  OBVIOUS

LEMMA DivBounds ==
    ASSUME NEW x \in Nat, NEW p \in Nat \ {0}
    PROVE  x \div p \in Nat /\ p * (x \div p) \in 0 .. x
  OBVIOUS

-----------------------------------------------------------------------------
(* The ring buffer: its operations keep its shape and its meaning. *)

(* A new buffer is a buffer, and holds the last elements of nothing. *)
LEMMA NewRingHoldsNothing ==
    ASSUME NEW len \in Nat \ {0}
    PROVE  /\ newRingBuffer(len) \in Ring(len)
           /\ HoldsLast(newRingBuffer(len), <<>>)
  BY DEF newRingBuffer, Ring, HoldsLast, Slot, NoTime

(* put keeps a buffer a buffer. *)
LEMMA PutKeepsRing ==
    ASSUME NEW len \in Nat \ {0}, NEW rb \in Ring(len), NEW t \in Nat
    PROVE  put(rb, t) \in Ring(len)
<1>1. /\ (rb.w + 1) % len \in 0 .. len - 1
      /\ (rb.r + 1) % len \in 0 .. len - 1
  BY ModSucc DEF Ring
<1>2. QED
  BY <1>1 DEF put, Ring

(* What the buffer holds after put is what it held, moved by one place, and *)
(* the new element in place of the oldest.                                  *)
LEMMA PutHoldsLast ==
    ASSUME NEW len \in Nat \ {0}, NEW rb \in Ring(len),
           NEW times \in Seq(Nat), NEW t \in Nat,
           HoldsLast(rb, times)
    PROVE  HoldsLast(put(rb, t), Append(times, t))
<1> DEFINE new  == put(rb, t)
           more == Append(times, t)
           w    == IF rb.w + 1 = len THEN 0 ELSE rb.w + 1
<1>1. /\ rb.len = len
      /\ rb.w \in 0 .. len - 1
      /\ rb.r \in 0 .. len - 1
      /\ rb.buf \in [0 .. len - 1 -> Nat \cup {NoTime}]
  BY DEF Ring
<1>2. /\ w \in 0 .. len - 1
      /\ w = IF rb.w + 1 = len THEN 0 ELSE rb.w + 1
  BY <1>1
<1>3. /\ new.len = len
      /\ new.w = w
      /\ new.r = (rb.r + 1) % len
      /\ new.buf = [rb.buf EXCEPT ![w] = t]
  <2>1. (rb.w + 1) % len = w
    BY <1>1, ModSucc
  <2>2. QED
    BY <1>1, <2>1 DEF put, Ring
<1> HIDE DEF new, w
<1>4. new.r = Slot(new, new.len - 1)
  <2>1. rb.r = w
    BY <1>1, <1>2 DEF HoldsLast, Slot
  <2>2. (w + 1) % len = IF w + 1 = len THEN 0 ELSE w + 1
    BY <1>2, ModSucc
  <2>3. new.r = IF w + 1 = len THEN 0 ELSE w + 1
    BY <1>3, <2>1, <2>2
  <2>4. QED
    BY <1>2, <1>3, <2>3 DEF Slot
<1>5. ASSUME NEW i \in 0 .. len - 1
      PROVE  new.buf[Slot(new, i)] =
                 IF i < Len(more) THEN more[Len(more) - i] ELSE NoTime
  <2>1. /\ Len(more) = Len(times) + 1
        /\ Len(times) \in Nat
        /\ more[Len(times) + 1] = t
        /\ \A j \in 1 .. Len(times) : more[j] = times[j]
    OBVIOUS
  <2>2. CASE i = 0
    <3>1. Slot(new, i) = w
      BY <1>2, <1>3, <2>2 DEF Slot
    <3>2. QED
      BY <1>1, <1>2, <1>3, <2>1, <2>2, <3>1
  <2>3. CASE i # 0
    <3>1. i - 1 \in 0 .. len - 1
      BY <2>3
    <3>2. /\ Slot(new, i) = Slot(rb, i - 1)
          /\ Slot(new, i) \in 0 .. len - 1
          /\ Slot(new, i) # w
      <4>1. Slot(new, i) = IF w >= i THEN w - i ELSE w - i + len
        BY <1>3 DEF Slot
      <4>2. Slot(rb, i - 1) =
                IF rb.w >= i - 1 THEN rb.w - (i - 1) ELSE rb.w - (i - 1) + len
        BY <1>1 DEF Slot
      <4>3. CASE rb.w + 1 = len
        <5>1. /\ w = 0
              /\ rb.w = len - 1
              /\ i \in 1 .. len - 1
          BY <1>1, <1>2, <2>3, <4>3
        <5>2. /\ Slot(new, i) = len - i
              /\ Slot(rb, i - 1) = len - i
          BY <4>1, <4>2, <5>1
        <5>3. QED
          BY <5>1, <5>2
      <4>4. CASE rb.w + 1 # len
        <5>1. /\ w = rb.w + 1
              /\ w \in 1 .. len - 1
              /\ i \in 1 .. len - 1
              /\ len \in Nat
          BY <1>1, <1>2, <2>3, <4>4
        <5>2. Slot(rb, i - 1) = IF w >= i THEN w - i ELSE w - i + len
          BY <1>1, <4>2, <5>1
        <5>3. QED
          BY <4>1, <5>1, <5>2
      <4>5. QED
        BY <4>3, <4>4
    <3>3. new.buf[Slot(new, i)] = rb.buf[Slot(rb, i - 1)]
      BY <1>1, <1>3, <3>2
    <3>4. rb.buf[Slot(rb, i - 1)] =
              IF i - 1 < Len(times) THEN times[Len(times) - (i - 1)] ELSE NoTime
      BY <1>1, <3>1 DEF HoldsLast
    <3>5. i - 1 < Len(times) <=> i < Len(more)
      BY <2>1, <2>3
    <3>6. CASE i < Len(more)
      <4>1. /\ Len(times) - (i - 1) \in 1 .. Len(times)
            /\ Len(more) - i = Len(times) - (i - 1)
        BY <2>1, <2>3, <3>6
      <4>2. QED
        BY <2>1, <3>3, <3>4, <3>5, <3>6, <4>1
    <3>7. CASE ~(i < Len(more))
      BY <3>3, <3>4, <3>5, <3>7
    <3>8. QED
      BY <3>6, <3>7
  <2>4. QED
    BY <2>2, <2>3
<1>6. QED
  BY <1>3, <1>4, <1>5 DEF HoldsLast, new

-----------------------------------------------------------------------------
(* The parameters. *)

LEMMA LimitTypes ==
    /\ Len(Limits) \in Nat \ {0}
    /\ Len(Limits) \in Index
    /\ \A l \in Index : /\ Limits[l].period \in Nat \ {0}
                        /\ Limits[l].perPeriod \in Nat \ {0}
                        /\ Limits[l].window \in {"fixed", "sliding"}
                        /\ Limits[l].mode \in {"block", "wait"}
<1>1. Limits \in Seq(Limit) /\ Len(Limits) > 0
  BY LimitsAssumption DEF SortedLimits
<1>2. \A l \in Index : Limits[l] \in Limit
  BY <1>1 DEF Index
<1>3. Len(Limits) \in Nat \ {0} /\ Len(Limits) \in Index
  BY <1>1 DEF Index
<1>4. QED
  BY <1>2, <1>3 DEF Limit

-----------------------------------------------------------------------------
(* Type correctness.  The fixed windows' arithmetic stays within the naturals *)
(* because a period never starts in the future.                             *)

StartsInThePast == \A l \in Index : periodStart[l] <= now

TypeInv == TypeOK /\ StartsInThePast

LEMMA CurrentTypes ==
    ASSUME TypeInv
    PROVE  /\ CurrentStart \in [Index -> Nat]
           /\ CurrentCount \in [Index -> Nat]
           /\ \A l \in Index : CurrentStart[l] <= now
<1>1. ASSUME NEW l \in Index
      PROVE  periodStart[l] + Limits[l].period * Elapsed(l) \in 0 .. now
  <2>1. /\ now \in Nat
        /\ periodStart[l] \in Nat
        /\ now - periodStart[l] \in Nat
    BY DEF TypeInv, TypeOK, StartsInThePast
  <2>2. /\ Elapsed(l) \in Nat
        /\ Limits[l].period * Elapsed(l) \in 0 .. now - periodStart[l]
    BY <2>1, LimitTypes, DivBounds DEF Elapsed
  <2>3. QED
    BY <2>1, <2>2
<1>2. \A l \in Index : periodStart[l] \in Nat /\ periodStart[l] <= now /\ count[l] \in Nat
  BY DEF TypeInv, TypeOK, StartsInThePast
<1>3. now \in Nat
  BY DEF TypeInv, TypeOK
<1>4. QED
  BY <1>1, <1>2, <1>3 DEF CurrentStart, CurrentCount

(* When an exceeded limit has room again is a time. *)
LEMMA RoomAtType ==
    ASSUME TypeInv, NEW l \in Index, Exceeded(l)
    PROVE  RoomAt(l) \in Nat
<1>1. CASE Fixed(l)
  BY <1>1, CurrentTypes, LimitTypes DEF RoomAt
<1>2. CASE ~Fixed(l)
  <2>1. ring[l] \in Ring(Limits[l].perPeriod)
    BY DEF TypeInv, TypeOK
  <2>2. get(ring[l]) \in Nat
    BY <1>2, <2>1, LimitTypes DEF Exceeded, get, Ring
  <2>3. QED
    BY <1>2, <2>2, LimitTypes DEF RoomAt
<1>3. QED
  BY <1>1, <1>2

LEMMA TypeInvInit == Init => TypeInv
<1> SUFFICES ASSUME Init PROVE TypeInv
  OBVIOUS
<1>1. \A l \in Index : newRingBuffer(Limits[l].perPeriod) \in Ring(Limits[l].perPeriod)
  BY LimitTypes, NewRingHoldsNothing
<1>2. /\ DOMAIN ring = Index
      /\ \A l \in Index : ring[l] \in Ring(Limits[l].perPeriod)
  BY <1>1 DEF Init
<1>3. /\ count \in [Index -> Nat]
      /\ periodStart \in [Index -> Nat]
      /\ \A l \in Index : periodStart[l] <= now
  BY DEF Init
<1>4. now \in Nat /\ wakeAt \in Nat /\ released \in Seq(Nat)
  BY DEF Init
<1>5. mu \in BOOLEAN /\ quit \in BOOLEAN
  BY Zenon DEF Init
<1>6. QED
  BY <1>2, <1>3, <1>4, <1>5 DEF Init, TypeInv, TypeOK, StartsInThePast

LEMMA TypeInvNext == TypeInv /\ [Next]_vars => TypeInv'
<1> SUFFICES ASSUME TypeInv, [Next]_vars PROVE TypeInv'
  OBVIOUS
<1> USE DEF TypeInv, TypeOK, StartsInThePast, Final
<1>1. ASSUME NEW q \in Requests, Call(q) PROVE TypeInv'
  BY <1>1 DEF Call, limits
<1>2. ASSUME NEW q \in Requests, Cancel(q) PROVE TypeInv'
  BY <1>2, RequestsAssumption DEF Cancel, limits
<1>3. ASSUME NEW q \in Requests, GiveUp(q) PROVE TypeInv'
  BY <1>3 DEF GiveUp, limits
<1>4. ASSUME NEW q \in Requests, Answer(q) PROVE TypeInv'
  BY <1>4 DEF Answer, limits
<1>5. ASSUME NEW q \in Requests, Accept(q) PROVE TypeInv'
  BY <1>5 DEF Accept, limits
<1>6. CASE DropCanceled
  BY <1>6 DEF DropCanceled, ReplyAndContinue, limits
<1>7. CASE PassCanceledCheck
  BY <1>7 DEF PassCanceledCheck, limits
<1>8. CASE Reject
  BY <1>8, CurrentTypes DEF Reject, RefreshPeriods, ReplyAndContinue
<1>9. CASE StartTimer
  <2>1. wakeAt' \in Nat
    BY <1>9, RoomAtType DEF StartTimer, Decisive
  <2>2. QED
    BY <1>9, <2>1, CurrentTypes DEF StartTimer, RefreshPeriods
<1>10. CASE Release
  <2>1. count' \in [Index -> Nat] /\ periodStart' = periodStart
    BY <1>10 DEF Release, countRequest
  <2>2. /\ DOMAIN ring' = Index
        /\ \A l \in Index : ring'[l] \in Ring(Limits[l].perPeriod)
    BY <1>10, LimitTypes, PutKeepsRing DEF Release, countRequest
  <2>3. released' \in Seq(Nat)
    BY <1>10 DEF Release
  <2>4. QED
    BY <1>10, <2>1, <2>2, <2>3 DEF Release, ReplyAndContinue
<1>11. CASE AbandonSleep
  BY <1>11 DEF AbandonSleep, ReplyAndContinue, limits
<1>12. CASE TripperQuits
  BY <1>12 DEF TripperQuits, limits
<1>13. CASE Quit
  BY <1>13 DEF Quit, limits
<1>14. CASE Tick
  BY <1>14 DEF Tick, limits
<1>15. CASE UNCHANGED vars
  BY <1>15 DEF vars, limits
<1>16. QED
  BY <1>1, <1>2, <1>3, <1>4, <1>5, <1>6, <1>7, <1>8, <1>9, <1>10, <1>11,
     <1>12, <1>13, <1>14, <1>15 DEF Next, TripperStep, CallerStep

(* Every variable keeps its type: no clock, count or period start leaves    *)
(* the naturals and no index its buffer, whatever the limits are.           *)
THEOREM TypeCorrect == Spec => []TypeOK
<1>1. Spec => []TypeInv
  BY TypeInvInit, TypeInvNext, PTL DEF Spec
<1>2. TypeInv => TypeOK
  BY DEF TypeInv
<1>3. QED
  BY <1>1, <1>2, PTL

-----------------------------------------------------------------------------
(* The ring buffers against the history. *)

RingInv == TypeInv /\ RingHoldsLastReleases

LEMMA RingInvInit == Init => RingInv
<1> SUFFICES ASSUME Init PROVE RingInv
  OBVIOUS
<1>1. ASSUME NEW l \in Index PROVE HoldsLast(ring[l], released)
  BY LimitTypes, NewRingHoldsNothing DEF Init
<1>2. QED
  BY <1>1, TypeInvInit DEF RingInv, RingHoldsLastReleases

(* Only Release touches the buffers or the history. *)
LEMMA RingOrRelease ==
    ASSUME Next PROVE Release \/ UNCHANGED <<ring, released>>
  BY DEF Next, TripperStep, CallerStep, Call, Cancel, GiveUp, Answer, Accept,
         DropCanceled, PassCanceledCheck, Reject, RefreshPeriods, StartTimer,
         AbandonSleep, TripperQuits, Quit, Tick, limits

LEMMA RingInvNext == RingInv /\ [Next]_vars => RingInv'
<1> SUFFICES ASSUME RingInv, [Next]_vars PROVE RingHoldsLastReleases'
  BY TypeInvNext DEF RingInv
<1>1. CASE Release
  <2>1. ASSUME NEW l \in Index, Sliding(l)
        PROVE  HoldsLast(ring[l], released)'
    <3>1. /\ ring[l] \in Ring(Limits[l].perPeriod)
          /\ released \in Seq(Nat)
          /\ now \in Nat
      BY DEF RingInv, TypeInv, TypeOK
    <3>2. /\ ring'[l] = put(ring[l], now)
          /\ released' = Append(released, now)
      BY <1>1, <2>1 DEF Release, countRequest
    <3>3. HoldsLast(ring[l], released)
      BY <2>1 DEF RingInv, RingHoldsLastReleases
    <3>4. HoldsLast(put(ring[l], now), Append(released, now))
      BY <3>1, <3>3, LimitTypes, PutHoldsLast
    <3>5. QED
      BY <3>2, <3>4 DEF HoldsLast, Slot
  <2>2. QED
    BY <2>1 DEF RingHoldsLastReleases, Sliding
<1>2. CASE UNCHANGED <<ring, released>>
  BY <1>2 DEF RingInv, RingHoldsLastReleases, HoldsLast, Slot, Sliding
<1>3. QED
  BY <1>1, <1>2, RingOrRelease DEF vars, limits

(* However many limits there are, and whatever is refused, delayed or       *)
(* abandoned, the buffer of every sliding limit holds exactly the last      *)
(* per_period requests that were let through.                               *)
THEOREM RingsHoldLastReleases == Spec => []RingHoldsLastReleases
<1>1. Spec => []RingInv
  BY RingInvInit, RingInvNext, PTL DEF Spec
<1>2. RingInv => RingHoldsLastReleases
  BY DEF RingInv
<1>3. QED
  BY <1>1, <1>2, PTL

-----------------------------------------------------------------------------
(* The refinement, for a backend whose shortest limit is a sliding one. *)

Last == Len(Limits)

(* The trip that slowTripper sleeps with leaves no earlier than a period    *)
(* after the request its limit's buffer reads.                              *)
SleepsLongEnough ==
    tripper = "sleep" =>
        \/ get(ring[Last]) = NoTime
        \/ get(ring[Last]) + Shortest.period <= wakeAt
        \/ get(ring[Last]) + Shortest.period <= now

WindowInv == RingInv /\ SleepsLongEnough

LEMMA WindowInvInit == Init => WindowInv
  BY RingInvInit DEF WindowInv, SleepsLongEnough, Init

LEMMA WindowInvNext ==
    ASSUME Sliding(Last), WindowInv, [Next]_vars
    PROVE  WindowInv'
<1> SUFFICES SleepsLongEnough'
  BY RingInvNext DEF WindowInv
<1>1. /\ now \in Nat
      /\ wakeAt \in Nat
      /\ get(ring[Last]) \in Nat \cup {NoTime}
      /\ Shortest.period \in Nat \ {0}
  <2>1. ring[Last] \in Ring(Shortest.perPeriod)
    BY LimitTypes DEF WindowInv, RingInv, TypeInv, TypeOK, Last, Shortest
  <2>2. QED
    BY <2>1, LimitTypes DEF WindowInv, RingInv, TypeInv, TypeOK, get, Ring, Last, Shortest
<1>2. CASE StartTimer
  <2>1. ring' = ring /\ now' = now
    BY <1>2 DEF StartTimer, RefreshPeriods
  <2>2. CASE Exceeded(Last)
    <3>1. wakeAt' = RoomAt(Last)
      BY <1>2, <2>2, LimitTypes DEF StartTimer, Decisive, Last, Index
    <3>2. RoomAt(Last) = get(ring[Last]) + Shortest.period
      BY DEF RoomAt, Fixed, Sliding, Shortest, Last
    <3>3. QED
      BY <1>1, <2>1, <3>1, <3>2 DEF SleepsLongEnough
  <2>3. CASE ~Exceeded(Last)
    <3>1. get(ring[Last]) = NoTime \/ get(ring[Last]) + Shortest.period <= now
      BY <1>1, <2>3 DEF Exceeded, Fixed, Sliding, Shortest, Last, NoTime
    <3>2. QED
      BY <2>1, <3>1 DEF SleepsLongEnough
  <2>4. QED
    BY <2>2, <2>3
<1>3. CASE Tick
  BY <1>1, <1>3 DEF Tick, limits, WindowInv, SleepsLongEnough
<1>4. CASE tripper' # "sleep"
  BY <1>4 DEF SleepsLongEnough
<1>5. CASE UNCHANGED <<tripper, now, wakeAt, ring>>
  BY <1>5 DEF WindowInv, SleepsLongEnough
<1>6. StartTimer \/ Tick \/ tripper' # "sleep" \/ UNCHANGED <<tripper, now, wakeAt, ring>>
  BY DEF Next, TripperStep, CallerStep, Call, Cancel, GiveUp, Answer, Accept,
         DropCanceled, PassCanceledCheck, Reject, RefreshPeriods, Release,
         AbandonSleep, TripperQuits, ReplyAndContinue, Quit, limits, vars
<1>7. QED
  BY <1>2, <1>3, <1>4, <1>5, <1>6

LEMMA ReleasePasses ==
    ASSUME Sliding(Last), WindowInv, Release
    PROVE  Window!Pass
<1> DEFINE N == Shortest.perPeriod
           rb == ring[Last]
<1>1. /\ N \in Nat \ {0}
      /\ Shortest.period \in Nat \ {0}
      /\ rb \in Ring(N)
      /\ released \in Seq(Nat)
      /\ now \in Nat
      /\ wakeAt \in Nat
  BY LimitTypes DEF WindowInv, RingInv, TypeInv, TypeOK, Last, Shortest
<1>2. /\ now >= wakeAt
      /\ tripper = "sleep"
      /\ released' = Append(released, now)
      /\ now' = now
  BY DEF Release
<1>3. ASSUME Len(released) >= N
      PROVE  released[Len(released) - N + 1] + Shortest.period <= now
  <2>1. HoldsLast(rb, released)
    BY LimitTypes DEF WindowInv, RingInv, RingHoldsLastReleases, Last
  <2>2. rb.len = N /\ N - 1 \in 0 .. N - 1 /\ N - 1 < Len(released)
    BY <1>1, <1>3 DEF Ring
  <2>3. get(rb) = released[Len(released) - (N - 1)]
    BY <2>1, <2>2 DEF HoldsLast, get
  <2>4. /\ Len(released) - (N - 1) = Len(released) - N + 1
        /\ Len(released) - (N - 1) \in 1 .. Len(released)
    BY <1>1, <1>3
  <2>5. get(rb) \in Nat
    BY <1>1, <2>3, <2>4
  <2>6. get(rb) + Shortest.period <= now
    BY <1>1, <1>2, <2>5 DEF WindowInv, SleepsLongEnough, NoTime
  <2>7. QED
    BY <2>3, <2>4, <2>6
<1>4. QED
  BY <1>2, <1>3 DEF Window!Pass, Window!Room

(* A backend whose shortest limit is a sliding one implements the abstract  *)
(* window of that limit: a request leaves only when the one per_period      *)
(* places before it left a period ago.  Requests that are refused, canceled *)
(* or late do not count, and it does not matter how late timers fire.       *)
THEOREM Refinement ==
    ASSUME Sliding(Last)
    PROVE  Spec => ImplementsSlidingWindow
<1>1. Init => Window!Init
  BY DEF Init, Window!Init
<1>2. WindowInv /\ [Next]_vars => [Window!Next]_Window!vars
  <2> SUFFICES ASSUME WindowInv, [Next]_vars PROVE [Window!Next]_Window!vars
    OBVIOUS
  <2>1. CASE Release
    BY <2>1, ReleasePasses DEF Window!Next
  <2>2. CASE Tick
    BY <2>2 DEF Tick, Window!Next, Window!Tick
  <2>3. CASE UNCHANGED <<now, released>>
    BY <2>3 DEF Window!vars
  <2>4. Release \/ Tick \/ UNCHANGED <<now, released>>
    BY DEF Next, TripperStep, CallerStep, Call, Cancel, GiveUp, Answer, Accept,
           DropCanceled, PassCanceledCheck, Reject, RefreshPeriods, StartTimer,
           AbandonSleep, TripperQuits, Quit, vars
  <2>5. QED
    BY <2>1, <2>2, <2>3, <2>4
<1>3. WindowInv /\ [Next]_vars => WindowInv'
  BY WindowInvNext
<1>4. QED
  BY <1>1, <1>2, <1>3, WindowInvInit, PTL DEF Spec, Window!Spec, ImplementsSlidingWindow

(* The promise itself, for such a backend: requests per_period places apart *)
(* leave at least a period apart, so no interval of length period holds     *)
(* more than per_period of them.                                            *)
THEOREM ShortestWindowRespected ==
    ASSUME Sliding(Last)
    PROVE  Spec => []Window!WindowRespected
<1> DEFINE Inv == WindowInv /\ Window!WindowRespected
<1>1. Init => Inv
  BY WindowInvInit, LimitTypes DEF Init, Window!WindowRespected, Shortest
<1>2. Inv /\ [Next]_vars => Inv'
  <2> SUFFICES ASSUME Inv, [Next]_vars PROVE Window!WindowRespected'
    BY WindowInvNext
  <2>1. CASE Release
    <3>1. /\ Window!Room
          /\ released' = Append(released, now)
      BY <2>1, ReleasePasses DEF Window!Pass
    <3>2. /\ released \in Seq(Nat)
          /\ now \in Nat
          /\ Shortest.perPeriod \in Nat \ {0}
          /\ Shortest.period \in Nat \ {0}
      BY LimitTypes DEF WindowInv, RingInv, TypeInv, TypeOK, Shortest
    <3>3. ASSUME NEW i \in 1 .. Len(released') - Shortest.perPeriod
          PROVE  released'[i + Shortest.perPeriod] - released'[i] >= Shortest.period
      <4>0. /\ Len(released') = Len(released) + 1
            /\ Len(released) \in Nat
            /\ i \in Nat \ {0}
            /\ i + Shortest.perPeriod <= Len(released) + 1
        BY <3>1, <3>2
      <4>1. CASE i + Shortest.perPeriod <= Len(released)
        <5>1. /\ i \in 1 .. Len(released) - Shortest.perPeriod
              /\ i \in 1 .. Len(released)
              /\ i + Shortest.perPeriod \in 1 .. Len(released)
          BY <3>2, <4>0, <4>1
        <5>2. released[i + Shortest.perPeriod] - released[i] >= Shortest.period
          BY <5>1 DEF Window!WindowRespected
        <5>3. QED
          BY <3>1, <3>2, <5>1, <5>2
      <4>2. CASE i + Shortest.perPeriod = Len(released) + 1
        <5>1. /\ i = Len(released) - Shortest.perPeriod + 1
              /\ i \in 1 .. Len(released)
          BY <3>2, <4>0, <4>2
        <5>2. released[i] + Shortest.period <= now
          BY <3>1, <3>2, <5>1 DEF Window!Room
        <5>3. released'[i + Shortest.perPeriod] = now /\ released'[i] = released[i]
          BY <3>1, <3>2, <4>2, <5>1
        <5>4. released[i] \in Nat
          BY <3>2, <5>1
        <5>5. QED
          BY <3>2, <5>2, <5>3, <5>4
      <4>3. QED
        BY <3>2, <4>0, <4>1, <4>2
    <3>4. QED
      BY <3>3 DEF Window!WindowRespected, Shortest
  <2>2. CASE UNCHANGED released
    BY <2>2 DEF Window!WindowRespected, Shortest
  <2>3. QED
    BY <2>1, <2>2, RingOrRelease DEF vars
<1>3. QED
  BY <1>1, <1>2, PTL DEF Spec

-----------------------------------------------------------------------------
(* The releases: none lies in the future, and they are in their order.      *)

ReleasesInOrder ==
    /\ \A i \in DOMAIN released : released[i] <= now
    /\ \A i, j \in DOMAIN released : i <= j => released[i] <= released[j]

HistoryInv == RingInv /\ ReleasesInOrder

LEMMA HistoryInit == Init => HistoryInv
  BY RingInvInit DEF HistoryInv, ReleasesInOrder, Init

(* What a release adds to the history. *)
LEMMA Appended ==
    ASSUME TypeInv, Release
    PROVE  /\ DOMAIN released = 1 .. Len(released)
           /\ DOMAIN released' = DOMAIN released \cup {Len(released) + 1}
           /\ Len(released) + 1 \notin DOMAIN released
           /\ \A i \in DOMAIN released : released'[i] = released[i] /\ released[i] \in Nat
           /\ released'[Len(released) + 1] = now
           /\ now' = now
  BY DEF Release, TypeInv, TypeOK

LEMMA HistoryNext ==
    ASSUME HistoryInv, [Next]_vars
    PROVE  HistoryInv'
<1> SUFFICES ReleasesInOrder'
  BY RingInvNext DEF HistoryInv
<1>0. TypeInv /\ now \in Nat
  BY DEF HistoryInv, RingInv, TypeInv, TypeOK
<1>1. CASE Release
  BY <1>0, <1>1, Appended DEF HistoryInv, ReleasesInOrder
<1>2. CASE Tick
  <2>1. released' = released /\ now' = now + 1 /\ \A i \in DOMAIN released : released[i] \in Nat
    BY <1>0, <1>2 DEF Tick, TypeInv, TypeOK
  <2>2. QED
    BY <1>0, <2>1 DEF HistoryInv, ReleasesInOrder
<1>3. CASE UNCHANGED <<now, released>>
  BY <1>3 DEF HistoryInv, ReleasesInOrder
<1>4. Release \/ Tick \/ UNCHANGED <<now, released>>
  BY DEF Next, TripperStep, CallerStep, Call, Cancel, GiveUp, Answer, Accept,
         DropCanceled, PassCanceledCheck, Reject, RefreshPeriods, StartTimer,
         AbandonSleep, TripperQuits, Quit, vars
<1>5. QED
  BY <1>1, <1>2, <1>3, <1>4

-----------------------------------------------------------------------------
(* Sets of releases. *)

ReleasedSince(t) == {i \in DOMAIN released : released[i] >= t}

(* Every set of releases is finite, and no greater than one it is part of.  *)
LEMMA FinitelyMany ==
    ASSUME released \in Seq(Nat), NEW S \in SUBSET DOMAIN released, NEW T \in SUBSET S
    PROVE  /\ IsFiniteSet(S) /\ Cardinality(S) \in Nat
           /\ IsFiniteSet(T) /\ Cardinality(T) \in Nat
           /\ Cardinality(T) <= Cardinality(S)
<1>1. IsFiniteSet(DOMAIN released)
  <2>1. DOMAIN released = 1 .. Len(released) /\ Len(released) \in Int
    OBVIOUS
  <2>2. QED
    BY <2>1, FS_Interval
<1>2. IsFiniteSet(S)
  BY <1>1, FS_Subset
<1>3. QED
  BY <1>2, FS_Subset, FS_CardinalityType

-----------------------------------------------------------------------------
(* The counters against the history. *)

(* What a fixed limit has counted has been let through in its period, or    *)
(* later.                                                                   *)
CountsReleases ==
    \A l \in Index : Fixed(l) => count[l] <= Cardinality(ReleasedSince(periodStart[l]))

CountInv == HistoryInv /\ CountsReleases

LEMMA CountInit == Init => CountInv
<1> SUFFICES ASSUME Init PROVE CountsReleases
  BY HistoryInit DEF CountInv
<1>1. ASSUME NEW l \in Index
      PROVE  count[l] <= Cardinality(ReleasedSince(periodStart[l]))
  <2>1. ReleasedSince(periodStart[l]) = {}
    BY DEF Init, ReleasedSince
  <2>2. count[l] = 0
    BY DEF Init
  <2>3. QED
    BY <2>1, <2>2, FS_EmptySet
<1>2. QED
  BY <1>1 DEF CountsReleases

LEMMA CountNext ==
    ASSUME CountInv, [Next]_vars
    PROVE  CountInv'
<1> SUFFICES ASSUME NEW l \in Index, Fixed(l)
             PROVE  count'[l] <= Cardinality(ReleasedSince(periodStart[l])')
  BY HistoryNext DEF CountInv, CountsReleases, Fixed
<1> DEFINE Since == ReleasedSince(periodStart[l])
<1>1. /\ TypeInv
      /\ now \in Nat
      /\ released \in Seq(Nat)
      /\ periodStart[l] \in Nat
      /\ periodStart[l] <= now
      /\ count[l] \in Nat
      /\ count[l] <= Cardinality(Since)
  BY DEF CountInv, CountsReleases, HistoryInv, RingInv, TypeInv, TypeOK, StartsInThePast
<1>2. IsFiniteSet(Since) /\ Cardinality(Since) \in Nat
  BY <1>1, FinitelyMany DEF ReleasedSince
<1>3. CASE Reject \/ StartTimer
  <2>1. /\ released' = released
        /\ periodStart'[l] = CurrentStart[l]
        /\ count'[l] = CurrentCount[l]
    BY <1>3 DEF Reject, StartTimer, RefreshPeriods
  <2>2. CASE Elapsed(l) > 0
    <3>1. count'[l] = 0
      BY <2>1, <2>2 DEF CurrentCount
    <3>2. Cardinality(ReleasedSince(periodStart'[l])) \in Nat
      BY <1>1, FinitelyMany DEF ReleasedSince
    <3>3. QED
      BY <2>1, <3>1, <3>2 DEF ReleasedSince
  <2>3. CASE ~(Elapsed(l) > 0)
    <3>1. Elapsed(l) = 0
      <4>1. now - periodStart[l] \in Nat
        BY <1>1
      <4>2. QED
        BY <2>3, <4>1, LimitTypes, DivBounds DEF Elapsed
    <3>2. CurrentStart[l] = periodStart[l] /\ CurrentCount[l] = count[l]
      BY <1>1, <3>1, LimitTypes DEF CurrentStart, CurrentCount
    <3>3. QED
      BY <1>1, <2>1, <3>2 DEF ReleasedSince
  <2>4. QED
    BY <2>2, <2>3
<1>4. CASE Release
  <2>1. count'[l] = count[l] + 1 /\ periodStart' = periodStart
    BY <1>4 DEF Release, countRequest
  <2>2. ReleasedSince(periodStart[l])' = Since \cup {Len(released) + 1}
    BY <1>1, <1>4, <2>1, Appended DEF ReleasedSince
  <2>3. Len(released) + 1 \notin Since
    BY <1>1, <1>4, Appended DEF ReleasedSince
  <2>4. Cardinality(Since \cup {Len(released) + 1}) = Cardinality(Since) + 1
    BY <1>2, <2>3, FS_AddElement
  <2>5. QED
    BY <1>1, <1>2, <2>1, <2>2, <2>4
<1>5. CASE UNCHANGED <<count, periodStart, released>>
  BY <1>1, <1>5 DEF ReleasedSince
<1>6. Reject \/ StartTimer \/ Release \/ UNCHANGED <<count, periodStart, released>>
  BY DEF Next, TripperStep, CallerStep, Call, Cancel, GiveUp, Answer, Accept,
         DropCanceled, PassCanceledCheck, AbandonSleep, TripperQuits, Quit,
         Tick, limits, vars
<1>7. QED
  BY <1>3, <1>4, <1>5, <1>6

(* A fixed limit that is exceeded has let per_period requests through in    *)
(* the period of the clock.                                                 *)
LEMMA FixedExhausted ==
    ASSUME CountInv, NEW l \in Index, Fixed(l), Exceeded(l)
    PROVE  Exhausted(l)
<1>1. /\ TypeInv
      /\ now \in Nat
      /\ released \in Seq(Nat)
      /\ \A i \in DOMAIN released : released[i] \in Nat /\ released[i] <= now
      /\ periodStart[l] \in Nat
      /\ now - periodStart[l] \in Nat
      /\ count[l] <= Cardinality(ReleasedSince(periodStart[l]))
      /\ count[l] \in Nat
  BY DEF CountInv, CountsReleases, HistoryInv, ReleasesInOrder, RingInv, TypeInv, TypeOK, StartsInThePast
<1>2. CurrentCount[l] >= Limits[l].perPeriod
  BY DEF Exceeded
<1>3. Elapsed(l) = 0 /\ CurrentCount[l] = count[l]
  <2>1. ~(Elapsed(l) > 0)
    BY <1>2, LimitTypes DEF CurrentCount
  <2>2. Elapsed(l) \in Nat
    BY <1>1, LimitTypes, DivBounds DEF Elapsed
  <2>3. QED
    BY <2>1, <2>2 DEF CurrentCount
<1>4. CurrentStart[l] = periodStart[l]
  BY <1>1, <1>3, LimitTypes DEF CurrentStart
<1>5. ReleasedWithin(CurrentStart[l], now + 1) = ReleasedSince(periodStart[l])
  BY <1>1, <1>4 DEF ReleasedWithin, ReleasedSince
<1>6. Cardinality(ReleasedSince(periodStart[l])) \in Nat
  BY <1>1, FinitelyMany DEF ReleasedSince
<1>7. QED
  BY <1>1, <1>2, <1>3, <1>5, <1>6, LimitTypes DEF Exhausted

(* A sliding limit that is exceeded has let per_period requests through in  *)
(* the period before the clock: the last ones, which its buffer holds.      *)
LEMMA SlidingExhausted ==
    ASSUME CountInv, NEW l \in Index, Sliding(l), Exceeded(l)
    PROVE  Exhausted(l)
<1> DEFINE N == Limits[l].perPeriod
           P == Limits[l].period
           rb == ring[l]
           within == ReleasedWithin(now - P + 1, now + 1)
           lasts == Len(released) - N + 1 .. Len(released)
<1>1. /\ N \in Nat \ {0}
      /\ P \in Nat \ {0}
      /\ rb \in Ring(N)
      /\ released \in Seq(Nat)
      /\ now \in Nat
      /\ HoldsLast(rb, released)
      /\ ReleasesInOrder
  BY LimitTypes DEF CountInv, HistoryInv, RingInv, RingHoldsLastReleases, TypeInv, TypeOK
<1>2. ~Fixed(l)
  BY DEF Fixed, Sliding
<1>3. get(rb) # NoTime /\ get(rb) + P > now
  BY <1>2 DEF Exceeded
<1>4. rb.len = N /\ N - 1 \in 0 .. N - 1
  BY <1>1 DEF Ring
<1>5. get(rb) = IF N - 1 < Len(released) THEN released[Len(released) - (N - 1)] ELSE NoTime
  BY <1>1, <1>4 DEF HoldsLast, get
<1>6. /\ N <= Len(released)
      /\ Len(released) \in Nat
      /\ get(rb) = released[Len(released) - N + 1]
      /\ Len(released) - N + 1 \in DOMAIN released
  BY <1>1, <1>3, <1>5
<1>7. lasts \subseteq within
  <2> DEFINE first == Len(released) - N + 1
  <2> SUFFICES ASSUME NEW i \in lasts PROVE i \in within
    OBVIOUS
  <2>1. /\ i \in DOMAIN released
        /\ first \in DOMAIN released
        /\ first <= i
        /\ get(rb) = released[first]
    BY <1>1, <1>6
  <2> HIDE DEF first, rb
  <2>2. released[i] \in Nat /\ released[first] \in Nat
    BY <1>1, <2>1
  <2>3. released[first] <= released[i] /\ released[i] <= now
    BY <1>1, <2>1 DEF ReleasesInOrder
  <2>4. released[first] + P > now
    BY <1>3, <2>1
  <2>5. released[i] >= now - P + 1 /\ released[i] <= now
    BY <1>1, <2>2, <2>3, <2>4
  <2>6. QED
    BY <1>1, <2>1, <2>2, <2>5 DEF ReleasedWithin
<1>8. Cardinality(lasts) = N
  <2>1. Len(released) - N + 1 \in Int /\ Len(released) \in Int
    BY <1>1, <1>6
  <2>2. Cardinality(lasts) = IF Len(released) - N + 1 > Len(released) THEN 0
                             ELSE Len(released) - (Len(released) - N + 1) + 1
    BY <2>1, FS_Interval
  <2>3. QED
    BY <1>1, <1>6, <2>2
<1>9. Cardinality(within) \in Nat /\ Cardinality(lasts) <= Cardinality(within)
  <2>1. within \subseteq DOMAIN released
    BY DEF ReleasedWithin
  <2>2. QED
    BY <1>1, <1>7, <2>1, FinitelyMany
<1>10. QED
  BY <1>1, <1>2, <1>8, <1>9 DEF Exhausted

(* Nobody is refused or has to wait while every limit still has room,       *)
(* however many limits there are and of whichever kind: neither the         *)
(* counters nor the buffers run ahead of what has been let through.         *)
THEOREM DelayedForAReason == Spec => DelayedOnlyWhenExhausted
<1>1. Spec => []CountInv
  <2>1. CountInv /\ [Next]_vars => CountInv'
    BY CountNext
  <2>2. QED
    BY <2>1, CountInit, PTL DEF Spec
<1>2. CountInv /\ [Next]_vars =>
          [ (Reject \/ (StartTimer /\ wakeAt' > now)) => \E l \in Index : Exhausted(l) ]_vars
  <2> SUFFICES ASSUME CountInv, Reject \/ (StartTimer /\ wakeAt' > now)
               PROVE  \E l \in Index : Exhausted(l)
    OBVIOUS
  <2>1. PICK l \in Index : Exceeded(l)
    <3>1. CASE Reject
      BY <3>1 DEF Reject, Decisive
    <3>2. CASE StartTimer /\ wakeAt' > now
      <4>1. now \in Nat
        BY DEF CountInv, HistoryInv, RingInv, TypeInv, TypeOK
      <4>2. QED
        BY <3>2, <4>1 DEF StartTimer, Decisive
    <3>3. QED
      BY <3>1, <3>2
  <2>2. Fixed(l) \/ Sliding(l)
    BY LimitTypes DEF Fixed, Sliding
  <2>3. QED
    BY <2>1, <2>2, FixedExhausted, SlidingExhausted
<1>3. QED
  BY <1>1, <1>2, PTL DEF Spec, DelayedOnlyWhenExhausted

-----------------------------------------------------------------------------
(* The fixed windows. A limit decides when no shorter one can replace its   *)
(* waiting time: all of them block.                                         *)

Decides(l) == \A k \in Index : k > l => Limits[k].mode = "block"

(* How many requests may sleep into a later period than the one that was    *)
(* looked at: one, when timers are late or a limit makes requests wait.     *)
Slack == IF Lateness > 0 \/ \E m \in Index : Limits[m].mode = "wait" THEN 1 ELSE 0

LEMMA SlackType == Slack \in {0, 1}
  BY DEF Slack

(* Multiples of a period are a period apart. *)
LEMMA MultiplesApart ==
    ASSUME NEW p \in Nat \ {0}, NEW a \in Nat, NEW b \in Nat, a * p < b * p
    PROVE  a * p + p <= b * p
<1>1. CASE a >= b
  <2>1. PICK d \in Nat : a = b + d
    BY <1>1
  <2>2. a * p = b * p + d * p /\ d * p >= 0 /\ b * p \in Nat
    BY <2>1
  <2>3. QED
    BY <2>2
<1>2. CASE a + 1 <= b
  <2>1. PICK d \in Nat : b = (a + 1) + d
    BY <1>2
  <2>2. b * p = (a * p + p) + d * p /\ d * p >= 0 /\ a * p \in Nat
    BY <2>1
  <2>3. QED
    BY <2>2
<1>3. QED
  BY <1>1, <1>2

LEMMA DivRest ==
    ASSUME NEW x \in Nat, NEW p \in Nat \ {0}
    PROVE  x < p * (x \div p) + p
  OBVIOUS

Multiples(p) == {k * p : k \in Nat}

LEMMA NextMultiple ==
    ASSUME NEW p \in Nat \ {0}
    PROVE  /\ 0 \in Multiples(p)
           /\ \A s \in Multiples(p) : s \in Nat
           /\ \A s \in Multiples(p), e \in Nat : s + p * e \in Multiples(p)
           /\ \A s, t \in Multiples(p) : s < t => s + p <= t
<1>1. 0 \in Multiples(p)
  <2>1. 0 = 0 * p /\ 0 \in Nat
    OBVIOUS
  <2>2. QED
    BY <2>1 DEF Multiples
<1>2. \A s \in Multiples(p) : s \in Nat
  BY DEF Multiples
<1>3. ASSUME NEW s \in Multiples(p), NEW e \in Nat
      PROVE  s + p * e \in Multiples(p)
  <2>1. PICK k \in Nat : s = k * p
    BY DEF Multiples
  <2>2. s + p * e = (k + e) * p /\ k + e \in Nat
    BY <2>1
  <2>3. QED
    BY <2>2 DEF Multiples
<1>4. ASSUME NEW s \in Multiples(p), NEW t \in Multiples(p), s < t
      PROVE  s + p <= t
  BY <1>4, MultiplesApart DEF Multiples
<1>5. QED
  BY <1>1, <1>2, <1>3, <1>4

(* What is known of limit l, whose period is p and which lets n through,    *)
(* when the periods that have ended hold, when its counter covers the       *)
(* period that counts, and when only a trip that slept past the end of      *)
(* this period is in a later one.                                           *)
EndedHold(l) ==
    \A s \in Multiples(Limits[l].period) :
        s < periodStart[l] =>
            Cardinality(ReleasedWithin(s, s + Limits[l].period)) <= Limits[l].perPeriod + Slack

CurrentHolds(l) ==
    LET n == Cardinality(ReleasedWithin(periodStart[l], periodStart[l] + Limits[l].period))
    IN  n <= count[l] + Slack /\ n <= Limits[l].perPeriod + Slack

Later(l) == ReleasedSince(periodStart[l] + Limits[l].period)

SleptPast(l) ==
    /\ Cardinality(Later(l)) <= Slack
    /\ tripper = "sleep" => Later(l) = {}

SleepsUntilRoom(l) ==
    tripper = "sleep" =>
        \/ count[l] < Limits[l].perPeriod
        \/ wakeAt >= periodStart[l] + Limits[l].period

(* Without slack timers are punctual and nobody waits.                      *)
PassesAtOnce(l) ==
    tripper = "sleep" /\ Slack = 0 =>
        now = wakeAt /\ now < periodStart[l] + Limits[l].period

FixedInv(l) ==
    /\ HistoryInv
    /\ periodStart[l] \in Multiples(Limits[l].period)
    /\ EndedHold(l)
    /\ CurrentHolds(l)
    /\ SleptPast(l)
    /\ SleepsUntilRoom(l)
    /\ PassesAtOnce(l)

LEMMA FixedInit ==
    ASSUME Init, NEW l \in Index
    PROVE  FixedInv(l)
<1>1. \A s, t : ReleasedWithin(s, t) = {} /\ ReleasedSince(t) = {}
  BY DEF Init, ReleasedWithin, ReleasedSince
<1>2. /\ periodStart[l] = 0
      /\ count[l] = 0
      /\ tripper # "sleep"
      /\ Limits[l].period \in Nat \ {0}
      /\ Limits[l].perPeriod \in Nat \ {0}
  BY LimitTypes DEF Init
<1>3. Cardinality({}) = 0
  BY FS_EmptySet
<1>4. EndedHold(l)
  BY <1>2, NextMultiple DEF EndedHold
<1>5. CurrentHolds(l) /\ SleptPast(l)
  <2>1. /\ Cardinality(ReleasedWithin(periodStart[l], periodStart[l] + Limits[l].period)) = 0
        /\ Cardinality(Later(l)) = 0
    BY <1>1, <1>3 DEF Later
  <2>2. QED
    BY <1>2, <2>1, SlackType DEF CurrentHolds, SleptPast
<1>6. periodStart[l] \in Multiples(Limits[l].period)
  BY <1>2, NextMultiple
<1>7. SleepsUntilRoom(l) /\ PassesAtOnce(l)
  BY <1>2 DEF SleepsUntilRoom, PassesAtOnce
<1>8. QED
  BY <1>4, <1>5, <1>6, <1>7, HistoryInit DEF FixedInv

(* The period checkCapacity moves to is the one that holds the clock. *)
LEMMA CurrentPeriod ==
    ASSUME TypeInv, NEW l \in Index, Fixed(l),
           periodStart[l] \in Multiples(Limits[l].period)
    PROVE  LET S == periodStart[l]
               T == CurrentStart[l]
               P == Limits[l].period
           IN  /\ S \in Nat /\ T \in Nat /\ P \in Nat \ {0} /\ now \in Nat
               /\ T \in Multiples(P)
               /\ T <= now /\ now < T + P
               /\ \/ T = S /\ CurrentCount[l] = count[l]
                  \/ S + P <= T /\ CurrentCount[l] = 0
<1> DEFINE S == periodStart[l]
           P == Limits[l].period
           E == Elapsed(l)
<1>1. /\ S \in Nat
      /\ P \in Nat \ {0}
      /\ now \in Nat
      /\ now - S \in Nat
  BY LimitTypes DEF TypeInv, TypeOK, StartsInThePast
<1>2. E = (now - S) \div P /\ CurrentStart[l] = S + P * E
  BY DEF Elapsed, CurrentStart
<1> HIDE DEF S, P, E
<1>3. E \in Nat /\ P * E \in 0 .. now - S /\ now - S < P * E + P
  BY <1>1, <1>2, DivBounds, DivRest
<1>4. CurrentStart[l] \in Nat /\ CurrentStart[l] <= now /\ now < CurrentStart[l] + P
  BY <1>1, <1>2, <1>3
<1>5. CurrentStart[l] \in Multiples(P)
  BY <1>1, <1>2, <1>3, NextMultiple DEF S, P
<1>6. CASE E = 0
  <2>1. CurrentStart[l] = S
    BY <1>1, <1>2, <1>6
  <2>2. CurrentCount[l] = count[l]
    BY <1>6 DEF CurrentCount, E
  <2>3. QED
    BY <1>1, <1>4, <1>5, <2>1, <2>2 DEF S, P
<1>7. CASE E > 0
  <2>1. CurrentCount[l] = 0
    BY <1>7 DEF CurrentCount, E
  <2>2. CurrentStart[l] # S
    <3>1. PICK d \in Nat : E = d + 1
      BY <1>3, <1>7
    <3>2. P * E = P * d + P /\ P * d >= 0
      BY <1>1, <3>1
    <3>3. QED
      BY <1>1, <1>2, <3>2
  <2>3. S < CurrentStart[l]
    BY <1>1, <1>2, <1>3, <2>2
  <2>4. S + P <= CurrentStart[l]
    BY <1>1, <1>5, <2>3, NextMultiple DEF S, P
  <2>5. QED
    BY <1>1, <1>4, <1>5, <2>1, <2>4 DEF S, P
<1>8. QED
  BY <1>3, <1>6, <1>7

(* A check counts on from the period that holds the clock: the one it       *)
(* leaves has ended, and who slept past its end is what the new one starts  *)
(* with.                                                                    *)
LEMMA FixedRefresh ==
    ASSUME NEW l \in Index, Fixed(l), FixedInv(l), RefreshPeriods,
           UNCHANGED <<now, released>>
    PROVE  /\ periodStart'[l] \in Multiples(Limits[l].period)
           /\ EndedHold(l)'
           /\ CurrentHolds(l)'
           /\ Later(l)' = {}
           /\ now < periodStart'[l] + Limits[l].period
<1> DEFINE S == periodStart[l]
           T == CurrentStart[l]
           P == Limits[l].period
           N == Limits[l].perPeriod
           W(s) == ReleasedWithin(s, s + P)
<1>1. /\ TypeInv
      /\ released \in Seq(Nat)
      /\ \A i \in DOMAIN released : released[i] \in Nat /\ released[i] <= now
      /\ count[l] \in Nat
      /\ N \in Nat \ {0}
      /\ S \in Multiples(P)
  BY LimitTypes DEF FixedInv, HistoryInv, ReleasesInOrder, RingInv, TypeInv, TypeOK
<1>2. /\ periodStart'[l] = T
      /\ count'[l] = CurrentCount[l]
      /\ released' = released
      /\ now' = now
  BY DEF RefreshPeriods
<1>3. /\ S \in Nat /\ T \in Nat /\ P \in Nat \ {0} /\ now \in Nat
      /\ T \in Multiples(P)
      /\ T <= now /\ now < T + P
      /\ \/ T = S /\ CurrentCount[l] = count[l]
         \/ S + P <= T /\ CurrentCount[l] = 0
  BY <1>1, CurrentPeriod
<1>4. \A s : Cardinality(W(s)) \in Nat /\ Cardinality(ReleasedSince(s)) \in Nat
  BY <1>1, FinitelyMany DEF ReleasedWithin, ReleasedSince
<1>5. ASSUME NEW s \in Nat, S + P <= s PROVE Cardinality(W(s)) <= Slack
  <2>1. W(s) \subseteq Later(l) /\ Later(l) \subseteq DOMAIN released
    BY <1>1, <1>3, <1>5 DEF ReleasedWithin, ReleasedSince, Later
  <2>2. /\ Cardinality(W(s)) <= Cardinality(Later(l))
        /\ Cardinality(W(s)) \in Nat
        /\ Cardinality(Later(l)) \in Nat
    BY <1>1, <2>1, FinitelyMany
  <2>3. Cardinality(Later(l)) <= Slack
    BY DEF FixedInv, SleptPast
  <2>4. QED
    BY <2>2, <2>3, SlackType
<1>6. EndedHold(l)'
  <2> SUFFICES ASSUME NEW s \in Multiples(P), s < T
               PROVE  Cardinality(W(s)) <= N + Slack
    BY <1>2 DEF EndedHold, ReleasedWithin, Slack
  <2>1. s \in Nat
    BY <1>3, NextMultiple
  <2>2. CASE s < S
    BY <2>2 DEF FixedInv, EndedHold
  <2>3. CASE s = S
    BY <2>3 DEF FixedInv, CurrentHolds
  <2>4. CASE S < s
    <3>1. S + P <= s
      BY <1>1, <1>3, <2>4, NextMultiple
    <3>2. Cardinality(W(s)) <= Slack
      BY <1>5, <2>1, <3>1
    <3>3. QED
      BY <1>1, <1>4, <3>2, SlackType
  <2>5. QED
    BY <1>3, <2>1, <2>2, <2>3, <2>4
<1>7. CurrentHolds(l)'
  <2> SUFFICES Cardinality(W(T)) <= CurrentCount[l] + Slack /\ Cardinality(W(T)) <= N + Slack
    BY <1>2 DEF CurrentHolds, ReleasedWithin, Slack
  <2>1. CASE T = S /\ CurrentCount[l] = count[l]
    BY <2>1 DEF FixedInv, CurrentHolds
  <2>2. CASE S + P <= T /\ CurrentCount[l] = 0
    <3>1. Cardinality(W(T)) <= Slack /\ Cardinality(W(T)) \in Nat
      BY <1>3, <1>4, <1>5, <2>2
    <3>2. QED
      BY <1>1, <2>2, <3>1, SlackType
  <2>3. QED
    BY <1>3, <2>1, <2>2
<1>8. Later(l)' = {}
  BY <1>1, <1>2, <1>3 DEF Later, ReleasedSince
<1>9. QED
  BY <1>2, <1>3, <1>6, <1>7, <1>8

(* Whoever is let through has waited for room, or there was room.           *)
LEMMA FixedStart ==
    ASSUME NEW l \in Index, Fixed(l), Decides(l), FixedInv(l), StartTimer
    PROVE  SleepsUntilRoom(l)' /\ PassesAtOnce(l)'
<1> DEFINE P == Limits[l].period
           N == Limits[l].perPeriod
<1>1. /\ TypeInv
      /\ now \in Nat
      /\ periodStart[l] \in Multiples(P)
  BY DEF FixedInv, HistoryInv, RingInv, TypeInv, TypeOK
<1>2. /\ CurrentCount[l] \in Nat
      /\ CurrentStart[l] \in Nat
      /\ P \in Nat \ {0}
      /\ N \in Nat \ {0}
      /\ now < CurrentStart[l] + P
  BY <1>1, CurrentTypes, CurrentPeriod, LimitTypes
<1>3. /\ periodStart'[l] = CurrentStart[l]
      /\ count'[l] = CurrentCount[l]
      /\ now' = now
  BY DEF StartTimer, RefreshPeriods
<1>4. SleepsUntilRoom(l)'
  <2>1. CASE ~Exceeded(l)
    <3>1. CurrentCount[l] < N
      BY <1>2, <2>1 DEF Exceeded
    <3>2. QED
      BY <1>3, <3>1 DEF SleepsUntilRoom
  <2>2. CASE Exceeded(l)
    <3>1. PICK m \in Index : Decisive(m) /\ Limits[m].mode = "wait" /\ wakeAt' = RoomAt(m)
      BY <2>2 DEF StartTimer
    <3>2. m = l
      <4>1. ~(m > l)
        BY <3>1 DEF Decides
      <4>2. ~(l > m)
        BY <2>2, <3>1 DEF Decisive
      <4>3. QED
        BY <4>1, <4>2 DEF Index
    <3>3. wakeAt' = CurrentStart[l] + P
      BY <3>1, <3>2 DEF RoomAt
    <3>4. QED
      BY <1>2, <1>3, <3>3 DEF SleepsUntilRoom
  <2>3. QED
    BY <2>1, <2>2
<1>5. PassesAtOnce(l)'
  <2> SUFFICES ASSUME Slack = 0 PROVE wakeAt' = now
    BY <1>2, <1>3 DEF PassesAtOnce, Slack
  <2>1. \A m \in Index : Limits[m].mode # "wait"
    BY DEF Slack
  <2>2. QED
    BY <2>1 DEF StartTimer
<1>6. QED
  BY <1>4, <1>5

(* A release is counted in its period, or is the one that slept past it.    *)
LEMMA FixedRelease ==
    ASSUME NEW l \in Index, Fixed(l), FixedInv(l), Release
    PROVE  EndedHold(l)' /\ CurrentHolds(l)' /\ SleptPast(l)'
<1> DEFINE S == periodStart[l]
           P == Limits[l].period
           N == Limits[l].perPeriod
           new == Len(released) + 1
           W(s) == ReleasedWithin(s, s + P)
<1>1. /\ TypeInv
      /\ released \in Seq(Nat)
      /\ now \in Nat
      /\ wakeAt \in Nat
      /\ now >= wakeAt
      /\ count[l] \in Nat
      /\ S \in Nat
      /\ S <= now
      /\ S \in Multiples(P)
      /\ N \in Nat \ {0}
      /\ P \in Nat \ {0}
  BY LimitTypes DEF FixedInv, HistoryInv, RingInv, TypeInv, TypeOK, StartsInThePast, Release
<1>2. /\ count'[l] = count[l] + 1
      /\ periodStart' = periodStart
      /\ now' = now
      /\ tripper = "sleep"
      /\ tripper' # "sleep"
  BY DEF Release, countRequest, ReplyAndContinue
<1>3. /\ DOMAIN released' = DOMAIN released \cup {new}
      /\ new \notin DOMAIN released
      /\ \A i \in DOMAIN released : released'[i] = released[i] /\ released[i] \in Nat
      /\ released'[new] = now
  BY <1>1, Appended
<1> HIDE DEF new
<1>4. ASSUME NEW s \in Nat
      PROVE  W(s)' = IF s <= now /\ now < s + P THEN W(s) \cup {new} ELSE W(s)
  BY <1>1, <1>3 DEF ReleasedWithin
<1>5. \A s : IsFiniteSet(W(s)) /\ Cardinality(W(s)) \in Nat /\ new \notin W(s)
  BY <1>1, <1>3, FinitelyMany DEF ReleasedWithin
<1>6. Later(l) = {} /\ Slack \in {0, 1}
  BY <1>2, SlackType DEF FixedInv, SleptPast
<1>7. EndedHold(l)'
  <2> SUFFICES ASSUME NEW s \in Multiples(P), s < S
               PROVE  Cardinality(W(s)') <= N + Slack
    BY <1>2 DEF EndedHold, ReleasedWithin, Slack
  <2>1. s \in Nat /\ s + P <= S
    BY <1>1, NextMultiple
  <2>2. ~(now < s + P)
    BY <1>1, <2>1
  <2>3. W(s)' = W(s)
    BY <1>4, <2>1, <2>2
  <2>4. QED
    BY <2>3 DEF FixedInv, EndedHold
<1>8. CurrentHolds(l)' /\ SleptPast(l)'
  <2> PICK start \in Nat : start = S
    BY <1>1
  <2>1. /\ Cardinality(W(start)) <= count[l] + Slack
        /\ Cardinality(W(start)) <= N + Slack
    BY DEF FixedInv, CurrentHolds
  <2> SUFFICES /\ Cardinality(W(start)') <= count[l] + 1 + Slack
               /\ Cardinality(W(start)') <= N + Slack
               /\ Cardinality(Later(l)') <= Slack
    BY <1>2 DEF CurrentHolds, SleptPast, ReleasedWithin, Slack
  <2>2. CASE now < S + P
    <3>1. W(start)' = W(start) \cup {new}
      BY <1>1, <1>4, <2>2
    <3>2. Cardinality(W(start)') = Cardinality(W(start)) + 1
      BY <1>5, <3>1, FS_AddElement
    <3>3. count[l] < N
      BY <1>1, <1>2, <2>2 DEF FixedInv, SleepsUntilRoom
    <3>4. Later(l)' = {}
      BY <1>1, <1>2, <1>3, <1>6, <2>2 DEF Later, ReleasedSince
    <3>5. Cardinality(Later(l)') = 0
      BY <3>4, FS_EmptySet
    <3>6. Cardinality(W(start)) + 1 <= count[l] + 1 + Slack /\ Cardinality(W(start)) + 1 <= N + Slack
      <4>1. Cardinality(W(start)) \in Nat
        BY <1>5
      <4>2. QED
        BY <1>1, <1>6, <2>1, <3>3, <4>1
    <3>7. QED
      BY <1>6, <3>2, <3>5, <3>6
  <2>3. CASE S + P <= now
    <3>0. ~(now < start + P)
      BY <1>1, <2>3
    <3>1. W(start)' = W(start)
      BY <1>4, <3>0
    <3>2. Slack = 1
      BY <1>1, <1>2, <1>6, <2>3 DEF FixedInv, PassesAtOnce
    <3>3. Later(l)' = {new}
      BY <1>1, <1>2, <1>3, <1>6, <2>3 DEF Later, ReleasedSince
    <3>4. Cardinality(Later(l)') = 1
      BY <3>3, FS_Singleton
    <3>5. QED
      BY <1>1, <1>5, <2>1, <3>1, <3>2, <3>4
  <2>4. QED
    BY <1>1, <2>2, <2>3
<1>9. QED
  BY <1>7, <1>8

LEMMA FixedNext ==
    ASSUME NEW l \in Index, Fixed(l), Decides(l), FixedInv(l), [Next]_vars
    PROVE  FixedInv(l)'
<1> USE DEF FixedInv
<1>1. HistoryInv'
  BY HistoryNext
<1>2. CASE Reject \/ StartTimer
  <2>1. RefreshPeriods /\ UNCHANGED <<now, released>>
    BY <1>2 DEF Reject, StartTimer
  <2>2. /\ periodStart'[l] \in Multiples(Limits[l].period)
        /\ EndedHold(l)'
        /\ CurrentHolds(l)'
        /\ Later(l)' = {}
    BY <2>1, FixedRefresh
  <2>3. SleptPast(l)'
    <3>1. Cardinality(Later(l)') = 0 /\ Slack' = Slack
      BY <2>2, FS_EmptySet DEF Slack
    <3>2. QED
      BY <2>2, <3>1, SlackType DEF SleptPast
  <2>4. SleepsUntilRoom(l)' /\ PassesAtOnce(l)'
    <3>1. CASE Reject
      BY <3>1 DEF Reject, ReplyAndContinue, SleepsUntilRoom, PassesAtOnce
    <3>2. CASE StartTimer
      BY <3>2, FixedStart
    <3>3. QED
      BY <1>2, <3>1, <3>2
  <2>5. QED
    BY <1>1, <2>2, <2>3, <2>4
<1>3. CASE Release
  <2>1. EndedHold(l)' /\ CurrentHolds(l)' /\ SleptPast(l)'
    BY <1>3, FixedRelease
  <2>2. SleepsUntilRoom(l)' /\ PassesAtOnce(l)'
    BY <1>3 DEF Release, ReplyAndContinue, SleepsUntilRoom, PassesAtOnce
  <2>3. periodStart' = periodStart
    BY <1>3 DEF Release, countRequest
  <2>4. QED
    BY <1>1, <2>1, <2>2, <2>3
<1>4. CASE Tick
  <2>1. /\ UNCHANGED <<tripper, wakeAt, limits, released>>
        /\ now' = now + 1
        /\ tripper = "sleep" => now < wakeAt + Lateness
    BY <1>4 DEF Tick
  <2>2. PassesAtOnce(l)'
    <3> SUFFICES ASSUME tripper = "sleep", Slack = 0 PROVE FALSE
      BY <2>1 DEF PassesAtOnce, Slack
    <3>1. now = wakeAt /\ now \in Nat
      BY DEF PassesAtOnce, HistoryInv, RingInv, TypeInv, TypeOK
    <3>2. Lateness = 0
      BY BoundsAssumption DEF Slack
    <3>3. QED
      BY <2>1, <3>1, <3>2
  <2>3. QED
    BY <1>1, <2>1, <2>2 DEF limits, EndedHold, CurrentHolds, SleptPast, Later,
       SleepsUntilRoom, ReleasedWithin, ReleasedSince, Slack
<1>5. CASE tripper' # "sleep" /\ UNCHANGED <<limits, released>>
  BY <1>1, <1>5 DEF limits, EndedHold, CurrentHolds, SleptPast, Later,
     SleepsUntilRoom, PassesAtOnce, ReleasedWithin, ReleasedSince, Slack
<1>6. CASE UNCHANGED <<now, tripper, wakeAt, limits, released>>
  BY <1>1, <1>6 DEF limits, EndedHold, CurrentHolds, SleptPast, Later,
     SleepsUntilRoom, PassesAtOnce, ReleasedWithin, ReleasedSince, Slack
<1>7. \/ Reject \/ StartTimer \/ Release \/ Tick
      \/ tripper' # "sleep" /\ UNCHANGED <<limits, released>>
      \/ UNCHANGED <<now, tripper, wakeAt, limits, released>>
  BY DEF Next, TripperStep, CallerStep, Call, Cancel, GiveUp, Answer, Accept,
         DropCanceled, PassCanceledCheck, AbandonSleep, TripperQuits,
         ReplyAndContinue, Quit, vars
<1>8. QED
  BY <1>2, <1>3, <1>4, <1>5, <1>6, <1>7

(* No period of a fixed limit sees more than extra requests too many.       *)
OverrunBy(extra) ==
    \A l \in Index : Fixed(l) =>
        \A k \in 0 .. now \div Limits[l].period :
            Cardinality(ReleasedWithin(k * Limits[l].period, (k + 1) * Limits[l].period))
                <= Limits[l].perPeriod + extra

LEMMA OverrunBySlack ==
    ASSUME \A l \in Index : Fixed(l) => Decides(l)
    PROVE  Spec => []OverrunBy(Slack)
<1> DEFINE Inv == \A l \in Index : Fixed(l) => FixedInv(l)
<1>1. Init => Inv
  BY FixedInit
<1>2. Inv /\ [Next]_vars => Inv'
  BY FixedNext DEF Fixed
<1>3. Inv => OverrunBy(Slack)
  <2> SUFFICES ASSUME Inv, NEW l \in Index, Fixed(l),
                      NEW k \in 0 .. now \div Limits[l].period
               PROVE  Cardinality(ReleasedWithin(k * Limits[l].period, (k + 1) * Limits[l].period))
                          <= Limits[l].perPeriod + Slack
    BY DEF OverrunBy
  <2> DEFINE S == periodStart[l]
             P == Limits[l].period
             N == Limits[l].perPeriod
             s == k * P
  <2>1. /\ FixedInv(l)
        /\ S \in Nat
        /\ released \in Seq(Nat)
        /\ \A i \in DOMAIN released : released[i] \in Nat
        /\ P \in Nat \ {0}
        /\ N \in Nat \ {0}
        /\ k \in Nat
    BY LimitTypes DEF FixedInv, HistoryInv, RingInv, TypeInv, TypeOK
  <2>2. /\ s \in Multiples(P)
        /\ s \in Nat
        /\ S \in Multiples(P)
        /\ (k + 1) * P = s + P
    BY <2>1 DEF FixedInv, Multiples
  <2> HIDE DEF s
  <2> SUFFICES Cardinality(ReleasedWithin(s, s + P)) <= N + Slack
    BY <2>2 DEF s
  <2>3. CASE s < S
    BY <2>1, <2>2, <2>3 DEF FixedInv, EndedHold
  <2>4. CASE s = S
    BY <2>1, <2>2, <2>4 DEF FixedInv, CurrentHolds
  <2>5. CASE S < s
    <3>1. S + P <= s
      BY <2>1, <2>2, <2>5, NextMultiple
    <3>2. /\ ReleasedWithin(s, s + P) \subseteq Later(l)
          /\ Later(l) \subseteq DOMAIN released
      BY <2>1, <2>2, <3>1 DEF ReleasedWithin, ReleasedSince, Later
    <3>3. /\ Cardinality(ReleasedWithin(s, s + P)) \in Nat
          /\ Cardinality(Later(l)) \in Nat
          /\ Cardinality(ReleasedWithin(s, s + P)) <= Cardinality(Later(l))
      BY <2>1, <3>2, FinitelyMany
    <3>4. Cardinality(Later(l)) <= Slack
      BY <2>1 DEF FixedInv, SleptPast
    <3>5. QED
      BY <2>1, <3>3, <3>4, SlackType
  <2>6. QED
    BY <2>1, <2>2, <2>3, <2>4, <2>5
<1>4. QED
  BY <1>1, <1>2, <1>3, PTL DEF Spec

(* A limiter whose timers are on time and whose limits all block keeps what *)
(* rate_limit.md says of a fixed window: no period sees more than           *)
(* per_period requests. Both hypotheses are needed: a request that sleeps   *)
(* into the next period is counted in the one before (limiter.go, 112).     *)
THEOREM FixedWindowsHold ==
    ASSUME Lateness = 0, \A l \in Index : Limits[l].mode = "block"
    PROVE  Spec => []FixedWindowsRespected
<1>1. Slack = 0
  BY DEF Slack
<1>2. Spec => []OverrunBy(Slack)
  BY OverrunBySlack DEF Decides
<1>3. OverrunBy(Slack) => FixedWindowsRespected
  BY <1>1, LimitTypes DEF OverrunBy, FixedWindowsRespected
<1>4. QED
  BY <1>2, <1>3, PTL

(* With late timers, or limits that make requests wait, a period of a fixed *)
(* limit sees at most one request more than rate_limit.md allows, as long   *)
(* as every limit that is shorter blocks: a shorter one that waits replaces *)
(* the waiting time of the longer (limiter.go, 155).                        *)
THEOREM FixedWindowsOverrunByOne ==
    ASSUME \A l \in Index : Fixed(l) => Decides(l)
    PROVE  Spec => []OverrunBy(1)
<1>1. Spec => []OverrunBy(Slack)
  BY OverrunBySlack
<1>2. TypeInv /\ OverrunBy(Slack) => OverrunBy(1)
  <2> SUFFICES ASSUME TypeInv, OverrunBy(Slack), NEW l \in Index, Fixed(l),
                      NEW k \in 0 .. now \div Limits[l].period
               PROVE  Cardinality(ReleasedWithin(k * Limits[l].period, (k + 1) * Limits[l].period))
                          <= Limits[l].perPeriod + 1
    BY DEF OverrunBy
  <2> DEFINE W == ReleasedWithin(k * Limits[l].period, (k + 1) * Limits[l].period)
  <2>1. Cardinality(W) <= Limits[l].perPeriod + Slack
    BY DEF OverrunBy
  <2>2. Cardinality(W) \in Nat
    BY FinitelyMany DEF ReleasedWithin, TypeInv, TypeOK
  <2> HIDE DEF W
  <2>3. QED
    BY <2>1, <2>2, SlackType, LimitTypes DEF W
<1>3. Spec => []TypeInv
  BY TypeInvInit, TypeInvNext, PTL DEF Spec
<1>4. QED
  BY <1>1, <1>2, <1>3, PTL

=============================================================================
