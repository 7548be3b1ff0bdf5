----------------------------- MODULE SyncedJSON -----------------------------
(***************************************************************************)
(* json/synced_json.go: a JSON document (a JWK set, an OpenID              *)
(* configuration) that one goroutine, sync, keeps up to date while request *)
(* handlers ask it for the current state over a channel.                   *)
(*                                                                         *)
(* A timer variable holds the ticks until the timer fires, 0 when it has   *)
(* fired and has not been received, or Never when nobody will send on the  *)
(* channel.  In its select the goroutine takes no time; a fetch may take   *)
(* any.                                                                    *)
(***************************************************************************)
EXTENDS Integers, Sequences, FiniteSets

CONSTANTS
    Readers,       \* the handlers that call Data
    Ttl,           \* s.ttl
    MaxStale,      \* s.maxStale
    BackoffCap,    \* the minute at which the backoff stops doubling
    SlowFetch,     \* whether time passes during a fetch
    Unparsed,      \* what Unmarshal returns beside its error
    MaxVersion,    \* bound on the documents the origin publishes
    NoData,        \* nil
    Never          \* a nil or drained timer channel

Version == 1 .. MaxVersion
Document == Version \cup {NoData, Unparsed}

(* Ttl 0 would make sync fetch without a pause. *)
ASSUME DurationsAssumption ==
    /\ Ttl \in Nat \ {0} /\ MaxStale \in Nat /\ BackoffCap \in Nat \ {0}
    /\ SlowFetch \in BOOLEAN
ASSUME VersionsAssumption ==
    /\ MaxVersion \in Nat \ {0}
    /\ NoData \notin Nat /\ Unparsed \notin Nat /\ Never \notin Nat

VARIABLES
    loop,         \* where sync is
    data,         \* s.data
    err,          \* whether the last fetch failed
    expired,      \* the timer for the next fetch
    invalidated,  \* the timer after which the data is dropped
    backoff,      \* the pause after the next failed fetch
    ended,        \* whether ctx has ended
    queue,        \* readers whose channel is in s.dataRequest or blocked before it
    reply,        \* the last answer each reader got; absent: still waiting or never asked
    up,           \* whether the origin answers with a valid document
    version       \* the document it has

timers == <<expired, invalidated, backoff>>
origin == <<up, version>>
vars   == <<loop, data, err, timers, ended, queue, reply, origin>>

Timer == Nat \cup {Never}
NoReply == [data |-> NoData, err |-> TRUE]

TypeOK ==
    /\ loop \in {"initial", "select", "refresh", "done"}
    /\ data \in Document
    /\ err \in BOOLEAN
    /\ expired \in Timer
    /\ invalidated \in Timer
    /\ backoff \in Nat
    /\ ended \in BOOLEAN
    /\ queue \in Seq(Readers)
    /\ reply \in [Readers -> [data : Document, err : BOOLEAN]]
    /\ up \in BOOLEAN
    /\ version \in Version

(* sync has started its timers and is in its initial fetch. *)
Init ==
    /\ loop = "initial"
    /\ data = NoData
    /\ err = FALSE
    /\ expired = Ttl
    /\ invalidated = Never
    /\ backoff = 1
    /\ ended = FALSE
    /\ queue = <<>>
    /\ reply = [r \in Readers |-> NoReply]
    /\ up \in BOOLEAN
    /\ version = 1

-----------------------------------------------------------------------------
(* fetch. *)

(* Mutant of Rearm: only the backoff is set back after a success. *)
BackoffOnly ==
    /\ backoff' = 1
    /\ UNCHANGED <<expired, invalidated>>

(* init of sync: it does not touch the invalidated timer. *)
Rearm ==
    /\ expired' = Ttl
    /\ backoff' = 1
    /\ UNCHANGED invalidated

(* A document was fetched.  After the initial fetch the expired timer that  *)
(* was started before it runs on.                                          *)
FetchSucceeds ==
    /\ loop \in {"initial", "refresh"}
    /\ up
    /\ data' = version
    /\ err' = FALSE
    /\ IF loop = "initial" THEN UNCHANGED timers ELSE Rearm
    /\ loop' = "select"
    /\ UNCHANGED <<ended, queue, reply, origin>>

(* Mutant of RetryLater: the backoff doubles after a minute, too. *)
RetryEverLater ==
    /\ invalidated' = MaxStale
    /\ expired' = backoff
    /\ backoff' = 2 * backoff

(* The backoff doubles until it has reached a minute. *)
RetryLater ==
    /\ invalidated' = MaxStale
    /\ expired' = backoff
    /\ backoff' = IF backoff < BackoffCap THEN 2 * backoff ELSE backoff

RetryNow ==
    /\ expired' = 0
    /\ UNCHANGED <<invalidated, backoff>>

(* The round trip failed or the status was not 200, and the data is left    *)
(* alone; or the body could not be parsed, and what Unmarshal returned      *)
(* beside its error replaces the data.                                      *)
FetchFails ==
    /\ loop \in {"initial", "refresh"}
    /\ ~up \/ ended
    /\ data' \in {data, Unparsed}
    /\ err' = TRUE
    /\ IF loop = "initial" THEN RetryNow ELSE RetryLater
    /\ loop' = "select"
    /\ UNCHANGED <<ended, queue, reply, origin>>

-----------------------------------------------------------------------------
(* The select of sync; of the cases that are ready it takes any. *)

Done ==
    /\ loop = "select"
    /\ ended
    /\ loop' = "done"
    /\ UNCHANGED <<data, err, timers, ended, queue, reply, origin>>

Expire ==
    /\ loop = "select"
    /\ expired = 0
    /\ expired' = Never
    /\ loop' = "refresh"
    /\ UNCHANGED <<data, err, invalidated, backoff, ended, queue, reply, origin>>

Invalidate ==
    /\ loop = "select"
    /\ invalidated = 0
    /\ invalidated' = Never
    /\ data' = NoData
    /\ UNCHANGED <<loop, err, expired, backoff, ended, queue, reply, origin>>

(* Mutant of Answer: the readers wait for a fetch that succeeds. *)
AnswerWithoutError ==
    /\ loop = "select"
    /\ ~err
    /\ queue # <<>>
    /\ reply' = [reply EXCEPT ![Head(queue)] = [data |-> data, err |-> err]]
    /\ queue' = Tail(queue)
    /\ UNCHANGED <<loop, data, err, timers, ended, origin>>

Answer ==
    /\ loop = "select"
    /\ queue # <<>>
    /\ reply' = [reply EXCEPT ![Head(queue)] = [data |-> data, err |-> err]]
    /\ queue' = Tail(queue)
    /\ UNCHANGED <<loop, data, err, timers, ended, origin>>

-----------------------------------------------------------------------------
(* The surroundings. *)

Waiting(r) == \E i \in DOMAIN queue : queue[i] = r

(* Data of a reader that is not waiting for an earlier answer.  The channel *)
(* takes ten requests and then blocks its senders; either way the reader    *)
(* waits and is served in its turn.                                         *)
Data(r) ==
    /\ ~Waiting(r)
    /\ queue' = Append(queue, r)
    /\ UNCHANGED <<loop, data, err, timers, ended, reply, origin>>

OriginChanges ==
    /\ up' \in BOOLEAN
    /\ version' \in version .. MaxVersion
    /\ UNCHANGED <<loop, data, err, timers, ended, queue, reply>>

(* Shutdown or reload; for the JWK set of an OpenID configuration also the  *)
(* arrival of a changed configuration.                                      *)
End ==
    /\ ~ended
    /\ ended' = TRUE
    /\ UNCHANGED <<loop, data, err, timers, queue, reply, origin>>

Less(timer) == IF timer \in {0, Never} THEN timer ELSE timer - 1

Tick ==
    /\ \/ loop = "select" /\ expired # 0 /\ invalidated # 0
       \/ loop \in {"initial", "refresh"} /\ SlowFetch
    /\ expired' = Less(expired)
    /\ invalidated' = Less(invalidated)
    /\ UNCHANGED <<loop, data, err, backoff, ended, queue, reply, origin>>

Fetched == FetchSucceeds \/ FetchFails

Next ==
    \/ Fetched
    \/ Done
    \/ Expire
    \/ Invalidate
    \/ Answer
    \/ \E r \in Readers : Data(r)
    \/ OriginChanges
    \/ End
    \/ Tick

Spec == Init /\ [][Next]_vars

(* A select takes a case that stays ready sooner or later, since it chooses *)
(* at random; a fetch ends, at the latest by the backend's timeout.         *)
Fairness ==
    /\ WF_vars(Fetched)
    /\ WF_vars(Expire)
    /\ WF_vars(Invalidate)
    /\ SF_vars(Answer)
    /\ WF_vars(Tick)

FairSpec == Spec /\ Fairness

-----------------------------------------------------------------------------
(* Properties. *)

(* The loop never waits without a date for its next fetch, and that date is *)
(* never further away than the TTL or the largest backoff, however many     *)
(* fetches have failed.                                                     *)
RefreshIsDue ==
    loop = "select" =>
        /\ expired # Never
        /\ expired <= Ttl \/ expired < 2 * BackoffCap

(* Every call of Data is answered, also while the origin is down, unless    *)
(* the configuration's context ends.                                        *)
ReadersAreAnswered == \A r \in Readers : Waiting(r) ~> (~Waiting(r) \/ ended)

(* When the origin answers for good, the document it has is the one served  *)
(* from some time on: no timer of an earlier failure spoils it for ever.    *)
Recovers == <>[](up /\ ~ended) => <>[](data = version)

(* "Time period the cached JWK set stays valid after its TTL has passed"    *)
(* (jwt.md, jwks_max_stale): when the origin is down for good, its last     *)
(* document is not served for ever.                                         *)
DroppedWhenDown == <>[](~up /\ ~ended) => <>[](data \in {NoData, Unparsed})

=============================================================================
