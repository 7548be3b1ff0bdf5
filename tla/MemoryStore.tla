---------------------------- MODULE MemoryStore ----------------------------
(***************************************************************************)
(* cache/memory.go: a map from keys to values that expire.  Each operator  *)
(* is what one method does under the store's lock, at Unix second now.     *)
(***************************************************************************)
EXTENDS Integers

CONSTANTS
    Keys,         \* the keys in use
    MaxExpiresIn, \* maxExpiresIn
    Nil           \* no entry, no value

ASSUME MaxExpiresInAssumption == MaxExpiresIn \in Nat

Entry(Values) == [value : Values, expAt : Nat]

Empty == [k \in Keys |-> Nil]

Expired(entry, now) == now >= entry.expAt

Lifetime(ttl) ==
    IF ttl < 0 THEN 0 ELSE IF ttl > MaxExpiresIn THEN MaxExpiresIn ELSE ttl

Get(db, k, now) == IF db[k] = Nil \/ Expired(db[k], now) THEN Nil ELSE db[k].value

Set(db, k, v, ttl, now) == [db EXCEPT ![k] = [value |-> v, expAt |-> now + Lifetime(ttl)]]

(* Mutant of Del: the entry stays. *)
DelNothing(db, k) == db

Del(db, k) == [db EXCEPT ![k] = Nil]

(* One round of gc. *)
Collected(db, now) ==
    [k \in Keys |-> IF db[k] # Nil /\ Expired(db[k], now) THEN Nil ELSE db[k]]

=============================================================================
