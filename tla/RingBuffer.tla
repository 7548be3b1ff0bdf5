----------------------------- MODULE RingBuffer -----------------------------
(***************************************************************************)
(* The ring buffer of handler/ratelimit/ring_buffer.go: a fixed number of  *)
(* time stamps, one read index and one write index.  The limiter keeps one *)
(* per sliding-window rate limit and asks only for the "first" element.    *)
(*                                                                         *)
(* Each method holds the buffer's mutex from its first to its last access, *)
(* so a method is one operator on the buffer's value.                      *)
(***************************************************************************)
LOCAL INSTANCE Integers

(* time.Time{}, for which IsZero() is true.  The model's clock starts at 0. *)
NoTime == -1

(* All buffers with len slots. *)
Ring(len) ==
    [buf : [0 .. len - 1 -> Nat \cup {NoTime}],
     len : {len},
     r   : 0 .. len - 1,
     w   : 0 .. len - 1]

newRingBuffer(len) ==
    [buf |-> [i \in 0 .. len - 1 |-> NoTime], len |-> len, r |-> 0, w |-> len - 1]

(* Mutant of put: the time is stored before the write index moves. *)
PutBeforeMove(rb, t) ==
    [rb EXCEPT !.r = (rb.r + 1) % rb.len, !.w = (rb.w + 1) % rb.len, !.buf[rb.w] = t]

(* put moves both indices before it stores, so w is the slot just written. *)
put(rb, t) ==
    LET w == (rb.w + 1) % rb.len
    IN  [rb EXCEPT !.r = (rb.r + 1) % rb.len, !.w = w, !.buf[w] = t]

get(rb) == rb.buf[rb.r]

=============================================================================
