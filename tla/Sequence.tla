------------------------------ MODULE Sequence ------------------------------
(***************************************************************************)
(* How an endpoint's proxy and request blocks are put in order when the    *)
(* configuration is loaded: buildSequences (config/configload) links the   *)
(* blocks that refer to each other's backend_responses with                *)
(* sequence.Item.Add (config/sequence), and markDependencies and           *)
(* addIndependentProducers (config/runtime) turn the result into the items *)
(* whose results the endpoint waits for.                                   *)
(***************************************************************************)
EXTENDS Integers, Sequences, FiniteSets, Functions

CONSTANTS
    SortedNames,  \* the names of the blocks, in the order of sortedNames
    Unknown,      \* names that expressions mention and no block has
    NoItem        \* a nil *Item

Producers == Range(SortedNames)
Names     == Producers \cup Unknown

(* What can be reached from some names: the least set that has them and,    *)
(* with every name, those that come next.                                   *)
Reachable(next, from) ==
    {n \in Names :
        \A S \in SUBSET Names :
            from \subseteq S /\ (\A m \in S : next[m] \subseteq S) => n \in S}

(* The names a block refers to, in the order of its expressions, each once. *)
References ==
    {refs \in UNION {[1 .. n -> Names] : n \in 0 .. Cardinality(Names)} :
        \A i, j \in DOMAIN refs : i # j => refs[i] # refs[j]}

ASSUME NamesAssumption ==
    /\ SortedNames \in Seq(Producers)
    /\ IsFiniteSet(Names)
    /\ \A i, j \in DOMAIN SortedNames : i # j => SortedNames[i] # SortedNames[j]
    /\ NoItem \notin Names
    /\ Producers \cap Unknown = {}

VARIABLES
    refs,     \* the configuration: what each block refers to
    name,     \* index of the block whose references are being added
    ref,      \* index of the reference that is added next
    known,    \* the names that have an Item in the map sequences
    parent,   \* Item.parent
    deps,     \* Item.deps
    load      \* "building", "built", "loaded", or how loading failed

vars == <<refs, name, ref, known, parent, deps, load>>

TypeOK ==
    /\ refs \in [Producers -> References]
    /\ name \in Nat \ {0}
    /\ ref \in Nat \ {0}
    /\ known \in SUBSET Names
    /\ parent \in [Names -> Names \cup {NoItem}]
    /\ deps \in [Names -> Seq(Names)]
    /\ load \in {"building", "built", "loaded", "circular", "overflow"}

LoadInit ==
    /\ refs \in [Producers -> References]
    /\ name = 1
    /\ ref = 1
    /\ known = {}
    /\ parent = [n \in Names |-> NoItem]
    /\ deps = [n \in Names |-> <<>>]
    /\ load = "building"

-----------------------------------------------------------------------------
(* Item. *)

(* Mutant of hasAncestor: an item that has a parent already counts. *)
hasOtherParent(p, n, other) == parent[other] # NoItem

hasAncestor(p, n, other) ==
    LET up == [m \in Names |-> {p[m]} \ {NoItem}]
    IN  other \in Reachable(up, up[n])

(* Add makes s the only parent r has from now on, then panics if r is above *)
(* s already.                                                               *)
Add(s, r) ==
    LET p == [parent EXCEPT ![r] = s]
    IN  /\ parent' = p
        /\ IF hasAncestor(p, s, r)
           THEN load' = "circular" /\ UNCHANGED deps
           ELSE deps' = [deps EXCEPT ![s] = Append(@, r)] /\ UNCHANGED load

(* Deps: last added, first to be solved. *)
Deps(n) == [i \in DOMAIN deps[n] |-> deps[n][Len(deps[n]) + 1 - i]]

-----------------------------------------------------------------------------
(* buildSequences. *)

Current == SortedNames[name]

(* One round of the inner loop; a block's reference to itself makes an Item *)
(* but no dependency.                                                       *)
AddReference ==
    /\ load = "building"
    /\ name <= Len(SortedNames)
    /\ ref <= Len(refs[Current])
    /\ LET r == refs[Current][ref]
       IN  /\ known' = known \cup {Current, r}
           /\ IF r = Current THEN UNCHANGED <<parent, deps, load>> ELSE Add(Current, r)
    /\ ref' = ref + 1
    /\ UNCHANGED <<refs, name>>

NextBlock ==
    /\ load = "building"
    /\ name <= Len(SortedNames)
    /\ ref > Len(refs[Current])
    /\ name' = name + 1
    /\ ref' = 1
    /\ UNCHANGED <<refs, known, parent, deps, load>>

FinishBuilding ==
    /\ load = "building"
    /\ name > Len(SortedNames)
    /\ load' = "built"
    /\ UNCHANGED <<refs, name, ref, known, parent, deps>>

(* endpoint.Sequences: the items nobody depends on. *)
Sequences == {n \in known : parent[n] = NoItem}

-----------------------------------------------------------------------------
(* config/runtime. *)

(* The items below n, as resolveSequence collects them, n included. *)
Resolved(n) == Reachable([m \in Names |-> Range(deps[m])], {n})

Circular(n) == \E d \in Range(deps[n]) : n \in Resolved(d)

(* markDependencies descends into the dependencies of each item without     *)
(* looking where it has been: below a cycle it runs out of stack.           *)
MarkDependencies ==
    /\ load = "built"
    /\ load' = IF \E s \in Sequences : \E n \in Resolved(s) : Circular(n)
               THEN "overflow" ELSE "loaded"
    /\ UNCHANGED <<refs, name, ref, known, parent, deps>>

(* Mutant of Independent: blocks are independent when nothing is in sequence. *)
AllOrNone == IF Sequences = {} THEN Producers ELSE {}

(* addIndependentProducers: the blocks in no sequence become items, too. *)
Independent == {n \in Producers : \A s \in Sequences : n \notin Resolved(s)}

(* e.opts.Items. *)
Items == Sequences \cup Independent

LoadNext ==
    \/ AddReference
    \/ NextBlock
    \/ FinishBuilding
    \/ MarkDependencies

-----------------------------------------------------------------------------
(* Properties. *)

(* What the configuration asks for, references to oneself aside. *)
RefersTo(n, m) == n \in Producers /\ m \in Range(refs[n]) /\ m # n

Wanted   == [n \in Names |-> {m \in Names : RefersTo(n, m)}]
Below(n) == Reachable(Wanted, Wanted[n])

HasCycle == \E n \in Names : n \in Below(n)

(* A configuration is refused as circular only if it is, although Add looks *)
(* at one parent of many.                                                   *)
OnlyCyclesAreRefused == load = "circular" => HasCycle

(* A circular configuration is refused with an error (http_endpoints_test:  *)
(* "circular sequence reference: a,b,a"), it is not loaded and does not end *)
(* the program. The code does not keep to it, see section 6 of the README.  *)
CyclesAreRefused == HasCycle => load \notin {"loaded", "overflow"}

(* In a loaded configuration every block is waited for, by the endpoint or  *)
(* by a block that is, every reference is a dependency, and nobody waits    *)
(* for an item that another one waits for, too.                             *)
EveryBlockIsAwaited ==
    load = "loaded" =>
        /\ Producers \subseteq UNION {Resolved(i) : i \in Items}
        /\ \A n \in Producers, m \in Names : RefersTo(n, m) <=> m \in Range(deps[n])
        /\ \A i, j \in Items : i # j => i \notin Resolved(j)

=============================================================================
