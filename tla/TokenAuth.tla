------------------------------ MODULE TokenAuth ------------------------------
(***************************************************************************)
(* A backend with an oauth2 block: Backend.RoundTrip                       *)
(* (handler/transport/backend.go) gets a token for each request with       *)
(* OAuth2ReqAuth.GetToken (oauth2_req_auth.go), sends the request, and     *)
(* when the origin answers 401 deletes the token, gets another and starts  *)
(* over, at most Retries times.  All requests share one storage key.       *)
(*                                                                         *)
(* A token is known by its place in the order in which the authorization   *)
(* server has issued them.                                                 *)
(***************************************************************************)
EXTENDS MemoryStore, FiniteSets

CONSTANTS
    Requests,    \* the round trips
    WithBody,    \* those that have a body
    StorageKey,  \* oa.storageKey
    Retries,     \* oa.config.Retries
    ExpiresIn,   \* the lifetimes tokens are issued with; 0: no expires_in
    MaxTokens,   \* bound on the tokens issued
    MaxTime      \* bound on the clock

ASSUME TokenAssumption ==
    /\ WithBody \subseteq Requests
    /\ StorageKey \in Keys
    /\ Retries \in Nat
    /\ ExpiresIn \subseteq Nat
    /\ MaxTokens \in Nat
    /\ MaxTime \in Nat
    /\ Nil \notin Nat
    /\ Nil \notin Requests
    /\ Nil \notin Entry(Nat)

Token == 1 .. MaxTokens

VARIABLES
    now,      \* the clock, in seconds
    db,       \* the memory store
    mu,       \* the request that holds oa.mu
    issued,   \* how many tokens have been issued
    revoked,  \* the tokens the origin does not accept
    at,       \* where each request is
    call,     \* which call of GetToken it is in: the two of withTokenRequest, or the retry's
    token,    \* its Authorization header, or the token that is on its way to it
    retries,  \* *retries
    drained,  \* the requests whose body has been read
    denied    \* history: the tokens a request was answered 401 for

vars == <<now, db, mu, issued, revoked, at, call, token, retries, drained, denied>>

Final == {"ok", "401", "token error", "backend error"}

TypeOK ==
    /\ now \in Nat
    /\ db \in [Keys -> Entry(Token) \cup {Nil}]
    /\ mu \in Requests \cup {Nil}
    /\ issued \in 0 .. MaxTokens
    /\ revoked \in SUBSET Token
    /\ at \in [Requests -> {"new", "read", "lock", "reread", "fetch", "store", "send", "answered"}
                           \cup Final]
    /\ call \in [Requests -> {"first", "second", "retry"}]
    /\ token \in [Requests -> Token \cup {Nil}]
    /\ retries \in [Requests -> 0 .. Retries]
    /\ drained \in SUBSET Requests
    /\ denied \in [Requests -> SUBSET Token]

Init ==
    /\ now = 0
    /\ db = Empty
    /\ mu = Nil
    /\ issued = 0
    /\ revoked = {}
    /\ at = [q \in Requests |-> "new"]
    /\ call = [q \in Requests |-> "first"]
    /\ token = [q \in Requests |-> Nil]
    /\ retries = [q \in Requests |-> 0]
    /\ drained = {}
    /\ denied = [q \in Requests |-> {}]

server == <<issued, revoked>>
trip   == <<retries, drained, denied>>

Stored == Get(db, StorageKey, now)

Go(q, to) == at' = [at EXCEPT ![q] = to]

-----------------------------------------------------------------------------
(* GetToken. *)

(* The call has set the header to t: withTokenRequest makes a second call,  *)
(* then the request is sent; a retry starts over with the original request, *)
(* which has no such header.                                                *)
Return(q, t) ==
    \/ /\ call[q] = "first"
       /\ call' = [call EXCEPT ![q] = "second"]
       /\ token' = [token EXCEPT ![q] = t]
       /\ Go(q, "read")
    \/ /\ call[q] = "second"
       /\ token' = [token EXCEPT ![q] = t]
       /\ Go(q, "send")
       /\ UNCHANGED call
    \/ /\ call[q] = "retry"
       /\ call' = [call EXCEPT ![q] = "first"]
       /\ token' = [token EXCEPT ![q] = Nil]
       /\ Go(q, "read")

Begin(q) ==
    /\ at[q] = "new"
    /\ Go(q, "read")
    /\ UNCHANGED <<now, db, mu, server, call, token, trip>>

(* The first look at the store, without the lock. *)
Read(q) ==
    /\ at[q] = "read"
    /\ IF Stored # Nil THEN Return(q, Stored) ELSE Go(q, "lock") /\ UNCHANGED <<call, token>>
    /\ UNCHANGED <<now, db, mu, server, trip>>

(* Mutant of Lock: nobody waits. *)
LockHeld(q) ==
    /\ at[q] = "lock"
    /\ mu' = q
    /\ Go(q, "reread")
    /\ UNCHANGED <<now, db, server, call, token, trip>>

Lock(q) ==
    /\ at[q] = "lock"
    /\ mu = Nil
    /\ mu' = q
    /\ Go(q, "reread")
    /\ UNCHANGED <<now, db, server, call, token, trip>>

(* Mutant of Reread: the store is not looked at again under the lock. *)
NoReread(q) ==
    /\ at[q] = "reread"
    /\ Go(q, "fetch")
    /\ UNCHANGED <<now, db, mu, server, call, token, trip>>

Reread(q) ==
    /\ at[q] = "reread"
    /\ IF Stored # Nil
       THEN mu' = Nil /\ Return(q, Stored)
       ELSE Go(q, "fetch") /\ UNCHANGED <<mu, call, token>>
    /\ UNCHANGED <<now, db, server, trip>>

(* The authorization server issues a token, which is on its way back ... *)
Issue(q) ==
    /\ at[q] = "fetch"
    /\ issued < MaxTokens
    /\ issued' = issued + 1
    /\ token' = [token EXCEPT ![q] = issued + 1]
    /\ Go(q, "store")
    /\ UNCHANGED <<now, db, mu, revoked, call, trip>>

(* ttl of updateAccessToken: nine tenths of expires_in, as whole seconds. *)
Ttl(expiresIn) == (9 * expiresIn) \div 10

(* ... until it is stored. *)
Store(q) ==
    /\ at[q] = "store"
    /\ \E e \in ExpiresIn : db' = Set(db, StorageKey, token[q], Ttl(e), now)
    /\ mu' = Nil
    /\ Return(q, token[q])
    /\ UNCHANGED <<now, server, trip>>

(* Mutant of TokenRequestFails: the lock is kept. *)
FailWithLock(q) ==
    /\ at[q] = "fetch"
    /\ Go(q, "token error")
    /\ UNCHANGED <<now, db, mu, server, call, token, trip>>

(* No assertion, no answer of the server, or none with a token. *)
TokenRequestFails(q) ==
    /\ at[q] = "fetch"
    /\ mu' = Nil
    /\ Go(q, "token error")
    /\ UNCHANGED <<now, db, server, call, token, trip>>

-----------------------------------------------------------------------------
(* RoundTrip. *)

(* The origin judges the token; a request whose body has been read before   *)
(* cannot be sent again.                                                    *)
Send(q) ==
    /\ at[q] = "send"
    /\ \/ /\ q \notin WithBody \cap drained
          /\ drained' = drained \cup {q}
          /\ IF token[q] \in revoked
             THEN Go(q, "answered") /\ denied' = [denied EXCEPT ![q] = @ \cup {token[q]}]
             ELSE Go(q, "ok") /\ UNCHANGED denied
       \/ /\ Go(q, "backend error")
          /\ UNCHANGED <<drained, denied>>
    /\ UNCHANGED <<now, db, mu, server, call, token, retries>>

(* Mutant of RetryWithToken: one more. *)
RetryOnceMore(q) ==
    /\ at[q] = "answered"
    /\ db' = Del(db, StorageKey)
    /\ IF retries[q] <= Retries
       THEN /\ retries' = [retries EXCEPT ![q] = @ + 1]
            /\ call' = [call EXCEPT ![q] = "retry"]
            /\ Go(q, "read")
       ELSE Go(q, "401") /\ UNCHANGED <<retries, call>>
    /\ UNCHANGED <<now, mu, server, token, drained, denied>>

(* The 401 has arrived: whatever token is stored now is deleted. *)
RetryWithToken(q) ==
    /\ at[q] = "answered"
    /\ db' = Del(db, StorageKey)
    /\ IF retries[q] < Retries
       THEN /\ retries' = [retries EXCEPT ![q] = @ + 1]
            /\ call' = [call EXCEPT ![q] = "retry"]
            /\ Go(q, "read")
       ELSE Go(q, "401") /\ UNCHANGED <<retries, call>>
    /\ UNCHANGED <<now, mu, server, token, drained, denied>>

-----------------------------------------------------------------------------
(* The surroundings. *)

Revoke(t) ==
    /\ t \in 1 .. issued
    /\ t \notin revoked
    /\ revoked' = revoked \cup {t}
    /\ UNCHANGED <<now, db, mu, issued, at, call, token, trip>>

(* One tick of the store's gc. *)
Collect ==
    /\ db' = Collected(db, now)
    /\ db' # db
    /\ UNCHANGED <<now, mu, server, at, call, token, trip>>

Tick ==
    /\ now < MaxTime
    /\ now' = now + 1
    /\ UNCHANGED <<db, mu, server, at, call, token, trip>>

RequestStep(q) ==
    \/ Read(q)
    \/ Lock(q)
    \/ Reread(q)
    \/ Issue(q)
    \/ Store(q)
    \/ TokenRequestFails(q)
    \/ Send(q)
    \/ RetryWithToken(q)

Next ==
    \/ \E q \in Requests : Begin(q) \/ RequestStep(q)
    \/ \E t \in Token : Revoke(t)
    \/ Collect
    \/ Tick

Spec == Init /\ [][Next]_vars

(* Goroutines are scheduled, whoever waits for the lock gets it, and the    *)
(* token request and the request end, at the latest by their timeouts.      *)
FairSpec == Spec /\ \A q \in Requests : SF_vars(RequestStep(q))

-----------------------------------------------------------------------------
(* Properties. *)

InFlight(q) == at[q] \in {"fetch", "store"}

(* There is one token request at a time, and only while the store has no    *)
(* token, however many requests find it missing at once.                    *)
OneTokenRequest ==
    /\ \A p, q \in Requests : InFlight(p) /\ InFlight(q) => p = q
    /\ \A q \in Requests : InFlight(q) => Stored = Nil

(* A token never replaces a newer one: what is stored is the last token     *)
(* issued, or nothing while that is on its way.                             *)
StoredIsNewest == Stored # Nil => Stored = issued

(* Every further attempt of a request is made with a newer token than those *)
(* it was answered 401 for, whoever deletes and stores tokens meanwhile.    *)
AttemptsAreNewer ==
    \A q \in Requests : at[q] = "send" =>
        /\ token[q] # Nil
        /\ \A t \in denied[q] : token[q] > t

(* "The number of retries to get the token and resource" (oauth2.md): a     *)
(* request is answered 401 only after Retries + 1 different tokens.         *)
DeniedAfterRetries ==
    \A q \in Requests :
        /\ Cardinality(denied[q]) <= Retries + 1
        /\ at[q] = "401" => Cardinality(denied[q]) = Retries + 1

(* Every round trip comes back: nobody keeps the lock. *)
Returns == \A q \in Requests : (at[q] = "read") ~> (at[q] \in Final)

(* The resource is requested again after a 401, with its body. The code     *)
(* does not keep to it, see section 6 of the README.                        *)
RetryHasBody ==
    \A q \in Requests : at[q] = "send" => q \notin WithBody \cap drained

=============================================================================
