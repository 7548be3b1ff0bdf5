--------------------------- MODULE TokenAuthProofs ---------------------------
(***************************************************************************)
(* What TokenAuth promises for any number of requests, tokens and retries. *)
(***************************************************************************)
EXTENDS TokenAuth, FiniteSetTheorems, TLAPS

Before(q) == at[q] \in {"new", "read", "lock", "reread", "fetch", "store"}

(* Who sends has a token. *)
HasToken == \A q \in Requests : at[q] \in {"store", "send", "answered"} => token[q] # Nil

(* The lock is held from its taking to the return. *)
LockInv == \A q \in Requests : mu = q <=> at[q] \in {"reread", "fetch", "store"}

(* Nobody asks for a token while there is one. *)
MissingInv == \A q \in Requests : InFlight(q) => Stored = Nil

(* The token on its way is the last one issued, and nobody knows it yet. *)
KnownInv ==
    \A q \in Requests :
        /\ at[q] = "store" => token[q] = issued
        /\ token[q] # Nil => token[q] <= issued
        /\ \A t \in denied[q] : t <= issued
        /\ \A p \in Requests : at[p] = "store" => \A t \in denied[q] : t < issued
        /\ \A p \in Requests : at[p] = "store" /\ p # q /\ token[q] # Nil => token[q] < issued

(* What a request may find in the store is newer than what it was denied. *)
FreshInv ==
    \A q \in Requests : Before(q) /\ Stored # Nil => \A t \in denied[q] : t < Stored

(* One token is denied on each attempt. *)
CountInv ==
    \A q \in Requests :
        /\ IsFiniteSet(denied[q])
        /\ at[q] \in {"answered", "401"} => Cardinality(denied[q]) = retries[q] + 1
        /\ at[q] \notin {"answered", "401"} => Cardinality(denied[q]) = retries[q]
        /\ at[q] = "401" => retries[q] = Retries

TokenInv == HasToken /\ LockInv /\ MissingInv /\ KnownInv /\ StoredIsNewest /\ FreshInv /\ AttemptsAreNewer

USE TokenAssumption, MaxExpiresInAssumption

-----------------------------------------------------------------------------
(* The store. *)

(* Whatever is found is a token. *)
LEMMA StoredType == TypeOK => Stored \in Token \cup {Nil}
BY DEF TypeOK, Stored, Get, Entry

(* A lifetime is never negative and the entry has one. *)
LEMMA SetType ==
    ASSUME TypeOK, NEW t \in Token, NEW e \in ExpiresIn
    PROVE  Set(db, StorageKey, t, Ttl(e), now) \in [Keys -> Entry(Token) \cup {Nil}]
<1>1. now + Lifetime(Ttl(e)) \in Nat
  BY DEF TypeOK, Lifetime, Ttl
<1>2. [value |-> t, expAt |-> now + Lifetime(Ttl(e))] \in Entry(Token)
  BY <1>1 DEF Entry, Token
<1> QED
  BY <1>2 DEF TypeOK, Set

(* What has been set is found, or has expired already. *)
LEMMA SetFound ==
    ASSUME TypeOK, NEW q \in Requests, NEW e \in ExpiresIn, now' = now,
           db' = Set(db, StorageKey, token[q], Ttl(e), now)
    PROVE  Stored' \in {token[q], Nil}
BY DEF TypeOK, Stored, Get, Set

(* Nothing is found after Del. *)
LEMMA DelFound ==
    ASSUME TypeOK, db' = Del(db, StorageKey)
    PROVE  Stored' = Nil
BY DEF TypeOK, Stored, Get, Del

(* Time and the collector only make entries go. *)
LEMMA TickFound ==
    ASSUME TypeOK, Tick \/ Collect
    PROVE  Stored' \in {Stored, Nil}
BY DEF TypeOK, Stored, Get, Tick, Collect, Collected, Expired, Entry

-----------------------------------------------------------------------------
(* Types. *)

LEMMA ReturnType ==
    ASSUME TypeOK, NEW q \in Requests, NEW t \in Token, Return(q, t)
    PROVE  /\ at' \in [Requests -> {"new", "read", "lock", "reread", "fetch", "store", "send", "answered"} \cup Final]
           /\ call' \in [Requests -> {"first", "second", "retry"}]
           /\ token' \in [Requests -> Token \cup {Nil}]
BY DEF TypeOK, Return, Go

LEMMA TypeStep == TypeOK /\ HasToken /\ [Next]_vars => TypeOK'
<1> SUFFICES ASSUME TypeOK, HasToken, [Next]_vars PROVE TypeOK'
  OBVIOUS
<1>1. ASSUME NEW q \in Requests, Begin(q) PROVE TypeOK'
  BY <1>1 DEF Begin, TypeOK, Go, server, trip
<1>2. ASSUME NEW q \in Requests, Read(q) PROVE TypeOK'
  <2>1. CASE Stored # Nil
    BY <1>2, <2>1, StoredType, ReturnType DEF Read, TypeOK, server, trip
  <2>2. CASE Stored = Nil
    BY <1>2, <2>2 DEF Read, TypeOK, Go, server, trip
  <2> QED BY <2>1, <2>2
<1>3. ASSUME NEW q \in Requests, Lock(q) PROVE TypeOK'
  BY <1>3 DEF Lock, TypeOK, Go, server, trip
<1>4. ASSUME NEW q \in Requests, Reread(q) PROVE TypeOK'
  <2>1. CASE Stored # Nil
    BY <1>4, <2>1, StoredType, ReturnType DEF Reread, TypeOK, server, trip
  <2>2. CASE Stored = Nil
    BY <1>4, <2>2 DEF Reread, TypeOK, Go, server, trip
  <2> QED BY <2>1, <2>2
<1>5. ASSUME NEW q \in Requests, Issue(q) PROVE TypeOK'
  <2>1. issued' \in 0 .. MaxTokens /\ issued + 1 \in Token
    BY <1>5 DEF Issue, TypeOK, Token
  <2> QED BY <1>5, <2>1 DEF Issue, TypeOK, Go, trip
<1>6. ASSUME NEW q \in Requests, Store(q) PROVE TypeOK'
  <2>1. token[q] \in Token
    BY <1>6 DEF Store, TypeOK, HasToken
  <2> QED BY <1>6, <2>1, SetType, ReturnType DEF Store, TypeOK, server, trip
<1>7. ASSUME NEW q \in Requests, TokenRequestFails(q) PROVE TypeOK'
  BY <1>7 DEF TokenRequestFails, TypeOK, Go, Final, server, trip
<1>8. ASSUME NEW q \in Requests, Send(q) PROVE TypeOK'
  <2>1. token[q] \in Token
    BY <1>8 DEF Send, TypeOK, HasToken
  <2>2. denied' \in [Requests -> SUBSET Token]
    <3>1. denied[q] \cup {token[q]} \in SUBSET Token
      BY <2>1 DEF TypeOK
    <3>2. [denied EXCEPT ![q] = @ \cup {token[q]}] \in [Requests -> SUBSET Token]
      BY <3>1 DEF TypeOK
    <3> QED BY <1>8, <3>2 DEF Send, TypeOK
  <2>3. drained' \in SUBSET Requests
    BY <1>8 DEF Send, TypeOK
  <2>4. at' \in [Requests -> {"new", "read", "lock", "reread", "fetch", "store", "send", "answered"} \cup Final]
    BY <1>8 DEF Send, TypeOK, Go, Final
  <2> QED BY <1>8, <2>2, <2>3, <2>4 DEF Send, TypeOK, server
<1>9. ASSUME NEW q \in Requests, RetryWithToken(q) PROVE TypeOK'
  <2>1. retries' \in [Requests -> 0 .. Retries]
    BY <1>9 DEF RetryWithToken, TypeOK
  <2> QED BY <1>9, <2>1 DEF RetryWithToken, Del, TypeOK, Go, Final, server
<1>10. ASSUME NEW t \in Token, Revoke(t) PROVE TypeOK'
  BY <1>10 DEF Revoke, TypeOK, trip
<1>11. ASSUME Collect PROVE TypeOK'
  BY <1>11 DEF Collect, Collected, TypeOK, server, trip
<1>12. ASSUME Tick PROVE TypeOK'
  BY <1>12 DEF Tick, TypeOK, server, trip
<1>13. CASE UNCHANGED vars
  BY <1>13 DEF vars, TypeOK
<1> QED BY <1>1, <1>2, <1>3, <1>4, <1>5, <1>6, <1>7, <1>8, <1>9, <1>10, <1>11, <1>12, <1>13
         DEF Next, RequestStep

-----------------------------------------------------------------------------
(* The tokens. *)

(* What a request does after it has found the newest token. *)
LEMMA FoundStep ==
    ASSUME TypeOK, TypeOK', TokenInv, NEW q \in Requests, at[q] \in {"read", "reread"},
           Stored # Nil, Return(q, Stored), mu' = IF at[q] = "read" THEN mu ELSE Nil,
           UNCHANGED <<now, db, issued, revoked, retries, drained, denied>>
    PROVE  TokenInv'
<1>1. Stored' = Stored /\ Stored = issued /\ Stored \in Token
  BY StoredType DEF Stored, TokenInv, StoredIsNewest
<1>2. at'[q] \in {"read", "send"} /\ token'[q] \in {Stored, Nil}
  BY DEF Return, Go, TypeOK
<1>3. \A p \in Requests : p # q => at'[p] = at[p] /\ token'[p] = token[p]
  BY DEF Return, Go, TypeOK
<1>4. \A p \in Requests : at[p] # "store"
  BY <1>1 DEF TokenInv, MissingInv, InFlight
<1>5. HasToken' /\ (at'[q] = "send" => token'[q] = Stored)
  BY <1>1, <1>2, <1>3 DEF TokenInv, HasToken, Return, Go, TypeOK
<1>6. LockInv'
  BY <1>2, <1>3 DEF TokenInv, LockInv, TypeOK
<1>7. MissingInv'
  BY <1>1, <1>2, <1>3 DEF TokenInv, MissingInv, InFlight
<1>8. KnownInv'
  <2>1. \A p \in Requests : at'[p] # "store"
    BY <1>2, <1>3, <1>4
  <2>2. issued \in Nat /\ issued' = issued /\ denied' = denied
    BY DEF TypeOK
  <2>3. \A p \in Requests : token'[p] # Nil => token'[p] <= issued
    BY <1>1, <1>2, <1>3, <2>2 DEF TokenInv, KnownInv
  <2> QED BY <2>1, <2>2, <2>3 DEF TokenInv, KnownInv
<1>9. StoredIsNewest'
  BY <1>1 DEF StoredIsNewest
<1>10. FreshInv'
  BY <1>1, <1>2, <1>3 DEF TokenInv, FreshInv, Before
<1>11. AttemptsAreNewer'
  BY <1>1, <1>2, <1>3, <1>5 DEF TokenInv, AttemptsAreNewer, FreshInv, Before
<1> QED BY <1>5, <1>6, <1>7, <1>8, <1>9, <1>10, <1>11 DEF TokenInv

(* What a request does after its own token request. *)
LEMMA StoreStep ==
    ASSUME TypeOK, TypeOK', TokenInv, NEW q \in Requests, Store(q)
    PROVE  TokenInv'
<1>1. Stored' \in {issued, Nil} /\ token[q] = issued /\ issued # Nil
  BY SetFound DEF Store, TokenInv, KnownInv, HasToken
<1>2. at'[q] \in {"read", "send"} /\ token'[q] \in {issued, Nil} /\ (at'[q] = "send" => token'[q] = issued)
  BY <1>1 DEF Store, Return, Go, TypeOK
<1>3. \A p \in Requests : p # q => at'[p] = at[p] /\ token'[p] = token[p]
  BY DEF Store, Return, Go, TypeOK
<1>4. \A p \in Requests : p # q => at[p] \notin {"reread", "fetch", "store"}
  BY DEF Store, TokenInv, LockInv
<1>5. UNCHANGED <<issued, denied>> /\ mu' = Nil /\ at[q] = "store"
  BY DEF Store, server, trip
<1>6. HasToken'
  BY <1>1, <1>2, <1>3 DEF TokenInv, HasToken
<1>7. LockInv'
  BY <1>2, <1>3, <1>4, <1>5 DEF LockInv
<1>8. MissingInv'
  BY <1>2, <1>3, <1>4 DEF MissingInv, InFlight
<1>9. KnownInv'
  BY <1>1, <1>2, <1>3, <1>4, <1>5 DEF TokenInv, KnownInv, TypeOK
<1>10. StoredIsNewest'
  BY <1>1, <1>5 DEF StoredIsNewest
<1>11. FreshInv'
  BY <1>1, <1>5 DEF TokenInv, FreshInv, KnownInv
<1>12. AttemptsAreNewer'
  BY <1>1, <1>2, <1>3, <1>5 DEF TokenInv, AttemptsAreNewer, KnownInv, TypeOK, Token
<1> QED BY <1>6, <1>7, <1>8, <1>9, <1>10, <1>11, <1>12 DEF TokenInv

(* The authorization server's answer is on its way. *)
LEMMA IssueStep ==
    ASSUME TypeOK, TypeOK', TokenInv, NEW q \in Requests, Issue(q)
    PROVE  TokenInv'
<1>1. Stored = Nil /\ Stored' = Nil
  BY DEF Issue, Stored, TokenInv, MissingInv, InFlight
<1>2. at'[q] = "store" /\ token'[q] = issued' /\ issued' = issued + 1 /\ issued \in Nat /\ at[q] = "fetch"
  BY DEF Issue, Go, TypeOK
<1>3. \A p \in Requests : p # q => at'[p] = at[p] /\ token'[p] = token[p] /\ at[p] # "store"
  BY DEF Issue, Go, TypeOK, TokenInv, LockInv
<1>4. UNCHANGED <<mu, denied>>
  BY DEF Issue, trip
<1>5. HasToken'
  BY <1>2, <1>3 DEF TokenInv, HasToken
<1>6. LockInv'
  BY <1>2, <1>3, <1>4 DEF TokenInv, LockInv
<1>7. MissingInv' /\ StoredIsNewest' /\ FreshInv'
  BY <1>1 DEF MissingInv, StoredIsNewest, FreshInv
<1>8. KnownInv'
  <2>1. \A p \in Requests : \A t \in denied[p] : t \in Int /\ t <= issued
    BY DEF TokenInv, KnownInv, TypeOK, Token
  <2>2. \A p \in Requests : token[p] # Nil => token[p] \in Int /\ token[p] <= issued
    BY DEF TokenInv, KnownInv, TypeOK, Token
  <2> QED BY <1>2, <1>3, <1>4, <2>1, <2>2 DEF KnownInv
<1>9. AttemptsAreNewer'
  BY <1>2, <1>3, <1>4 DEF TokenInv, AttemptsAreNewer
<1> QED BY <1>5, <1>6, <1>7, <1>8, <1>9 DEF TokenInv

(* The origin has judged the token of a request. *)
LEMMA SendStep ==
    ASSUME TypeOK, TypeOK', TokenInv, NEW q \in Requests, Send(q)
    PROVE  TokenInv'
<1>1. Stored' = Stored /\ UNCHANGED <<mu, issued, token>>
  BY DEF Send, Stored, server
<1>2. at'[q] \in {"answered", "ok", "backend error"} /\ at[q] = "send"
  BY DEF Send, Go, TypeOK
<1>3. \A p \in Requests : p # q => at'[p] = at[p] /\ denied'[p] = denied[p]
  BY DEF Send, Go, TypeOK
<1>4. denied'[q] \subseteq denied[q] \cup {token[q]} /\ token[q] \in Token
  BY <1>2 DEF Send, TypeOK, TokenInv, HasToken
<1>5. HasToken'
  BY <1>1, <1>2, <1>3 DEF TokenInv, HasToken
<1>6. LockInv'
  BY <1>1, <1>2, <1>3 DEF TokenInv, LockInv
<1>7. MissingInv' /\ StoredIsNewest'
  BY <1>1, <1>2, <1>3 DEF TokenInv, MissingInv, InFlight, StoredIsNewest
<1>8. KnownInv'
  <2>1. \A p \in Requests : at[p] = "store" => token[q] < issued
    BY <1>2 DEF TokenInv, KnownInv, HasToken
  <2>2. token[q] <= issued
    BY <1>2 DEF TokenInv, KnownInv, HasToken
  <2>3. \A p \in Requests : at'[p] = "store" => at[p] = "store"
    BY <1>2, <1>3
  <2>4. \A t \in denied'[q] : t <= issued /\ \A p \in Requests : at[p] = "store" => t < issued
    BY <1>4, <2>1, <2>2 DEF TokenInv, KnownInv
  <2>5. \A p \in Requests : \A t \in denied'[p] :
            t <= issued /\ \A r \in Requests : at[r] = "store" => t < issued
    BY <1>3, <2>4 DEF TokenInv, KnownInv
  <2> QED BY <1>1, <2>3, <2>5 DEF TokenInv, KnownInv
<1>9. FreshInv'
  BY <1>1, <1>2, <1>3 DEF TokenInv, FreshInv, Before
<1>10. AttemptsAreNewer'
  BY <1>1, <1>2, <1>3 DEF TokenInv, AttemptsAreNewer
<1> QED BY <1>5, <1>6, <1>7, <1>8, <1>9, <1>10 DEF TokenInv

(* Nothing a request does in the other steps touches a token that counts. *)
LEMMA OtherStep ==
    ASSUME TypeOK, TypeOK', TokenInv,
           NEW q \in Requests, Begin(q) \/ Lock(q) \/ TokenRequestFails(q) \/ RetryWithToken(q)
    PROVE  TokenInv'
<1>1. Stored' \in {Stored, Nil} /\ UNCHANGED <<issued, token, denied>>
  BY DelFound DEF Begin, Lock, TokenRequestFails, RetryWithToken, server, trip, Stored
<1>2. \A p \in Requests : p # q => at'[p] = at[p]
  BY DEF Begin, Lock, TokenRequestFails, RetryWithToken, Go, TypeOK
<1>3. at'[q] \notin {"store", "send", "answered", "fetch"}
  BY DEF Begin, Lock, TokenRequestFails, RetryWithToken, Go, TypeOK
<1>4. HasToken' /\ MissingInv'
  BY <1>1, <1>2, <1>3 DEF TokenInv, HasToken, MissingInv, InFlight
<1>5. LockInv'
  <2>1. CASE Begin(q) \/ RetryWithToken(q)
    BY <2>1, <1>2 DEF Begin, RetryWithToken, Go, TypeOK, TokenInv, LockInv
  <2>2. CASE Lock(q)
    BY <2>2, <1>2 DEF Lock, Go, TypeOK, TokenInv, LockInv
  <2>3. CASE TokenRequestFails(q)
    BY <2>3, <1>2 DEF TokenRequestFails, Go, TypeOK, TokenInv, LockInv
  <2> QED BY <2>1, <2>2, <2>3
<1>6. KnownInv'
  BY <1>1, <1>2, <1>3 DEF TokenInv, KnownInv
<1>7. StoredIsNewest' /\ AttemptsAreNewer'
  BY <1>1, <1>2, <1>3 DEF TokenInv, StoredIsNewest, AttemptsAreNewer
<1>8. FreshInv'
  <2>1. CASE Stored' = Nil
    BY <2>1 DEF FreshInv
  <2>2. CASE Stored' # Nil
    <3>1. \A p \in Requests : Before(p)' => Before(p)
      BY <2>2, DelFound DEF Begin, Lock, TokenRequestFails, RetryWithToken, Before, Go, TypeOK
    <3> QED BY <1>1, <2>2, <3>1 DEF TokenInv, FreshInv
  <2> QED BY <2>1, <2>2
<1> QED BY <1>4, <1>5, <1>6, <1>7, <1>8 DEF TokenInv

(* Time, the collector and the origin do not touch a request. *)
LEMMA SurroundingStep ==
    ASSUME TypeOK, TokenInv, Tick \/ Collect \/ (\E t \in Token : Revoke(t)) \/ UNCHANGED vars
    PROVE  TokenInv'
<1>1. Stored' \in {Stored, Nil}
  BY TickFound DEF Revoke, Stored, vars
<1>2. UNCHANGED <<mu, issued, at, token, denied>>
  BY DEF Tick, Collect, Revoke, vars, server, trip
<1> QED BY <1>1, <1>2 DEF TokenInv, HasToken, LockInv, MissingInv, InFlight, KnownInv, StoredIsNewest,
           FreshInv, Before, AttemptsAreNewer

(* TypeOK /\ TokenInv is inductive. *)
LEMMA TokenStep == TypeOK /\ TokenInv /\ [Next]_vars => TypeOK' /\ TokenInv'
<1> SUFFICES ASSUME TypeOK, TokenInv, [Next]_vars PROVE TypeOK' /\ TokenInv'
  OBVIOUS
<1>1. TypeOK'
  BY TypeStep DEF TokenInv
<1>2. ASSUME NEW q \in Requests, Read(q) PROVE TokenInv'
  <2>1. CASE Stored # Nil
    BY <1>1, <1>2, <2>1, FoundStep DEF Read, server, trip
  <2>2. CASE Stored = Nil
    <3>1. at'[q] = "lock" /\ at[q] = "read" /\ \A p \in Requests : p # q => at'[p] = at[p]
      BY <1>2, <2>2 DEF Read, Go, TypeOK
    <3>2. Stored' = Stored /\ UNCHANGED <<mu, issued, token, denied>>
      BY <1>2, <2>2 DEF Read, Stored, server, trip
    <3> QED BY <2>2, <3>1, <3>2 DEF TokenInv, HasToken, LockInv, MissingInv, InFlight, KnownInv, StoredIsNewest,
               FreshInv, Before, AttemptsAreNewer
  <2> QED BY <2>1, <2>2
<1>3. ASSUME NEW q \in Requests, Reread(q) PROVE TokenInv'
  <2>1. CASE Stored # Nil
    BY <1>1, <1>3, <2>1, FoundStep DEF Reread, server, trip
  <2>2. CASE Stored = Nil
    <3>1. at'[q] = "fetch" /\ at[q] = "reread" /\ \A p \in Requests : p # q => at'[p] = at[p]
      BY <1>3, <2>2 DEF Reread, Go, TypeOK
    <3>2. Stored' = Stored /\ UNCHANGED <<mu, issued, token, denied>>
      BY <1>3, <2>2 DEF Reread, Stored, server, trip
    <3> QED BY <2>2, <3>1, <3>2 DEF TokenInv, HasToken, LockInv, MissingInv, InFlight, KnownInv, StoredIsNewest,
               FreshInv, Before, AttemptsAreNewer
  <2> QED BY <2>1, <2>2
<1> QED BY <1>1, <1>2, <1>3, IssueStep, StoreStep, SendStep, OtherStep, SurroundingStep DEF Next, RequestStep

-----------------------------------------------------------------------------
(* The attempts. *)

(* CountInv is inductive relative to the tokens. *)
LEMMA CountStep == TypeOK /\ TokenInv /\ CountInv /\ [Next]_vars => CountInv'
<1> SUFFICES ASSUME TypeOK, TokenInv, CountInv, [Next]_vars PROVE CountInv'
  OBVIOUS
<1>1. ASSUME NEW q \in Requests, Send(q) PROVE CountInv'
  <2>1. \A p \in Requests : p # q => at'[p] = at[p] /\ denied'[p] = denied[p]
    BY <1>1 DEF Send, Go, TypeOK
  <2>2. retries' = retries /\ at[q] = "send"
    BY <1>1 DEF Send
  <2>3. \/ at'[q] = "answered" /\ denied'[q] = denied[q] \cup {token[q]}
        \/ at'[q] \in {"ok", "backend error"} /\ denied'[q] = denied[q]
    BY <1>1 DEF Send, Go, TypeOK
  <2>4. token[q] \notin denied[q]
    BY <2>2 DEF TokenInv, AttemptsAreNewer, TypeOK, Token
  <2>5. IsFiniteSet(denied[q] \cup {token[q]}) /\ Cardinality(denied[q] \cup {token[q]}) = Cardinality(denied[q]) + 1
    BY <2>4, FS_AddElement DEF CountInv
  <2> QED BY <2>1, <2>2, <2>3, <2>5 DEF CountInv
<1>2. ASSUME NEW q \in Requests, RetryWithToken(q) PROVE CountInv'
  <2>1. denied' = denied /\ at[q] = "answered" /\ \A p \in Requests : p # q => at'[p] = at[p] /\ retries'[p] = retries[p]
    BY <1>2 DEF RetryWithToken, Go, TypeOK
  <2>2. \/ retries[q] < Retries /\ retries'[q] = retries[q] + 1 /\ at'[q] = "read"
        \/ ~(retries[q] < Retries) /\ retries'[q] = retries[q] /\ at'[q] = "401"
    BY <1>2 DEF RetryWithToken, Go, TypeOK
  <2>3. retries[q] \in 0 .. Retries
    BY DEF TypeOK
  <2> QED BY <2>1, <2>2, <2>3 DEF CountInv
<1>3. ASSUME NEW q \in Requests,
             Begin(q) \/ Read(q) \/ Lock(q) \/ Reread(q) \/ Issue(q) \/ Store(q) \/ TokenRequestFails(q)
      PROVE  CountInv'
  <2>1. UNCHANGED <<retries, denied>>
    BY <1>3 DEF Begin, Read, Lock, Reread, Issue, Store, TokenRequestFails, trip
  <2>2. \A p \in Requests : at'[p] = at[p] \/ (at[p] \notin {"answered", "401"} /\ at'[p] \notin {"answered", "401"})
    <3>1. \A p \in Requests : p # q => at'[p] = at[p]
      BY <1>3 DEF Begin, Read, Lock, Reread, Issue, Store, TokenRequestFails, Return, Go, TypeOK
    <3>2. at[q] \notin {"answered", "401"}
      BY <1>3 DEF Begin, Read, Lock, Reread, Issue, Store, TokenRequestFails
    <3>3. \A t : Return(q, t) => at'[q] \in {"read", "send"}
      BY DEF Return, Go, TypeOK
    <3>4. at'[q] \notin {"answered", "401"}
      BY <1>3, <3>3 DEF Begin, Read, Lock, Reread, Issue, Store, TokenRequestFails, Go, TypeOK
    <3> QED BY <3>1, <3>2, <3>4
  <2> QED BY <2>1, <2>2 DEF CountInv
<1>4. CASE Tick \/ Collect \/ (\E t \in Token : Revoke(t)) \/ UNCHANGED vars
  BY <1>4 DEF Tick, Collect, Revoke, vars, trip, CountInv
<1> QED BY <1>1, <1>2, <1>3, <1>4 DEF Next, RequestStep

(* The inductive invariant. *)
LEMMA Invariant == Spec => [](TypeOK /\ TokenInv /\ CountInv)
<1>1. Init => TypeOK
  BY DEF Init, TypeOK, Empty
<1>2. Init => TokenInv
  BY DEF Init, TokenInv, HasToken, LockInv, MissingInv, InFlight, KnownInv, StoredIsNewest, Stored, Get, Empty,
         FreshInv, AttemptsAreNewer
<1>3. Init => CountInv
  BY FS_EmptySet DEF Init, CountInv
<1> QED BY <1>1, <1>2, <1>3, TokenStep, CountStep, PTL DEF Spec

-----------------------------------------------------------------------------

(* Every variable keeps its type; in particular *retries never passes       *)
(* Retries, which keeps the uint8 from overflowing (oauth2_req_auth.go).    *)
THEOREM TypeCorrect == Spec => []TypeOK
BY Invariant, PTL

(* However many requests find the store empty at once, GetToken makes one   *)
(* token request at a time, and only while no token is stored.              *)
THEOREM OneAtATime == Spec => []OneTokenRequest
<1>1. TypeOK /\ TokenInv => OneTokenRequest
  BY DEF TokenInv, LockInv, MissingInv, OneTokenRequest, InFlight
<1> QED BY Invariant, <1>1, PTL

(* GetToken and RetryWithToken never leave an older token in the store than *)
(* the last one issued.                                                     *)
THEOREM NewestIsStored == Spec => []StoredIsNewest
<1>1. TokenInv => StoredIsNewest
  BY DEF TokenInv
<1> QED BY Invariant, <1>1, PTL

(* After a 401 RoundTrip sends a request only with a token newer than every *)
(* one it was answered 401 for.                                             *)
THEOREM RetriesUseNewerTokens == Spec => []AttemptsAreNewer
<1>1. TokenInv => AttemptsAreNewer
  BY DEF TokenInv
<1> QED BY Invariant, <1>1, PTL

(* RetryWithToken gives a 401 to the client only after Retries + 1          *)
(* different tokens.                                                        *)
THEOREM DeniedOnlyAfterRetries == Spec => []DeniedAfterRetries
<1>1. TypeOK /\ CountInv => DeniedAfterRetries
  BY DEF TypeOK, CountInv, DeniedAfterRetries
<1> QED BY Invariant, <1>1, PTL

=============================================================================
