---------------------------- MODULE EndpointProofs ----------------------------
(***************************************************************************)
(* What the loading of an endpoint builds, and what holds when it is       *)
(* served, whatever its blocks refer to and however their round trips end. *)
(* None of it needs induction over data: Reachable is a least set, and     *)
(* that the parents have no cycle is said of every set of names.           *)
(***************************************************************************)
EXTENDS Endpoint, FiniteSetTheorems, TLAPS

LoadSpec == LoadInit /\ [][LoadNext]_vars

-------------------------------------------------------------------------------
(* Lemmas about Reachable                                                  *)

LEMMA ReachableNames == \A next, from : Reachable(next, from) \subseteq Names
  BY DEF Reachable

LEMMA ReachableLeast ==
    ASSUME NEW next, NEW from, NEW S \in SUBSET Names,
           from \subseteq S, \A m \in S : next[m] \subseteq S
    PROVE  Reachable(next, from) \subseteq S
  BY DEF Reachable

LEMMA ReachableFrom ==
    ASSUME NEW next, NEW from \in SUBSET Names
    PROVE  from \subseteq Reachable(next, from)
  BY DEF Reachable

LEMMA ReachableNext ==
    ASSUME NEW next, NEW from, NEW m \in Reachable(next, from), next[m] \subseteq Names
    PROVE  next[m] \subseteq Reachable(next, from)
<1> SUFFICES ASSUME NEW n \in next[m], NEW S \in SUBSET Names,
                    from \subseteq S, \A l \in S : next[l] \subseteq S
             PROVE  n \in S
  BY DEF Reachable
<1> QED
  BY DEF Reachable

-------------------------------------------------------------------------------
(* The parents have no cycle: in every set of names there is one whose      *)
(* parent is not in the set.                                                *)
Acyclic(p) == \A S \in SUBSET Names : S # {} => \E n \in S : p[n] \notin S

(* What Add looks for is enough: when r is not above s, s may be its parent.*)
LEMMA AddKeepsAcyclic ==
    ASSUME NEW p \in [Names -> Names \cup {NoItem}], Acyclic(p),
           NEW s \in Names, NEW r \in Names,
           NEW q, q = [p EXCEPT ![r] = s], r # s, ~hasAncestor(q, s, r)
    PROVE  Acyclic(q)
<1> SUFFICES ASSUME NEW S \in SUBSET Names, S # {}, \A n \in S : q[n] \in S
             PROVE  FALSE
  BY DEF Acyclic
<1> DEFINE up    == [m \in Names |-> {q[m]} \ {NoItem}]
           above == Reachable(up, up[s])
           T     == S \cap (above \cup {s})
<1>1. r \in S
  <2>1. CASE r \notin S
    BY <2>1 DEF Acyclic
  <2> QED
    BY <2>1
<1>2. s \in S
  BY <1>1
<1>3. r \notin above \cup {s}
  BY DEF hasAncestor
<1>4. up[s] \subseteq Names /\ \A m \in Names : up[m] \subseteq Names
  OBVIOUS
<1>5. above \subseteq Names /\ up[s] \subseteq above
  BY <1>4, ReachableNames, ReachableFrom
<1>6. \A m \in above : up[m] \subseteq above
  <2> TAKE m \in above
  <2> HIDE DEF up
  <2> QED
    BY <1>4, <1>5, ReachableNext
<1>7. PICK n \in T : p[n] \notin T
  <2>1. T \in SUBSET Names /\ T # {}
    BY <1>2
  <2> QED
    BY <2>1 DEF Acyclic
<1>8. q[n] = p[n] /\ q[n] \in S
  BY <1>3
<1>9. q[n] \in above
  <2>1. q[n] # NoItem
    BY <1>8, NamesAssumption
  <2>2. up[n] = {q[n]}
    BY <2>1
  <2> QED
    BY <2>2, <1>5, <1>6
<1> QED
  BY <1>7, <1>8, <1>9

-------------------------------------------------------------------------------
(* What is below what                                                       *)

(* What is wanted by somebody below a block is below it, too.               *)
LEMMA BelowNext ==
    ASSUME NEW n \in Names, NEW m, m = n \/ m \in Below(n), NEW l \in Names, RefersTo(m, l)
    PROVE  l \in Below(n)
<1>1. \A k \in Names : Wanted[k] \subseteq Names
  BY DEF Wanted
<1>2. Below(n) \subseteq Names /\ Wanted[n] \subseteq Below(n)
  BY <1>1, ReachableNames, ReachableFrom DEF Below
<1>3. m \in Names /\ l \in Wanted[m]
  BY <1>2 DEF Wanted
<1>4. CASE m = n
  BY <1>2, <1>3, <1>4
<1>5. CASE m \in Below(n)
  <2>1. Wanted[m] \subseteq Below(n)
    BY <1>1, <1>2, <1>5, ReachableNext DEF Below
  <2> QED
    BY <2>1, <1>3
<1> QED
  BY <1>4, <1>5

(* What is below something that a block wants is below the block.           *)
LEMMA BelowFirst ==
    ASSUME NEW n \in Names, NEW m \in Names, RefersTo(n, m)
    PROVE  Below(m) \subseteq Below(n)
<1>1. m \in Below(n)
  BY BelowNext
<1>2. Below(n) \in SUBSET Names
  BY ReachableNames DEF Below
<1>3. \A k \in Below(n) : Wanted[k] \subseteq Below(n)
  BY <1>2, BelowNext DEF Wanted
<1>4. Wanted[m] \subseteq Below(n)
  BY <1>1, <1>3
<1> QED
  BY <1>2, <1>3, <1>4, ReachableLeast DEF Below

-------------------------------------------------------------------------------
(* The invariant of loading                                                *)

(* An item has a parent only if that one refers to it, and so is every      *)
(* dependency a reference.                                                  *)
ParentsRefer == \A n \in Names : parent[n] # NoItem => RefersTo(parent[n], n)
DepsRefer    == \A n \in Names : \A m \in Range(deps[n]) : RefersTo(n, m) /\ parent[m] # NoItem

(* Until Add panics, a parent depends on its children and is known.         *)
ParentsDepend ==
    \A n \in Names : parent[n] # NoItem => n \in Range(deps[parent[n]]) /\ parent[n] \in known

(* The loops have added every reference they have come by.                  *)
Passed(i, k) == i \in DOMAIN SortedNames /\ k \in DOMAIN refs[SortedNames[i]]
                /\ (i < name \/ (i = name /\ k < ref))

ReferencesAdded ==
    \A i, k \in Nat : Passed(i, k) =>
        LET n == SortedNames[i] IN refs[n][k] = n \/ refs[n][k] \in Range(deps[n])

AllPassed == load \in {"built", "loaded", "overflow"} => name > Len(SortedNames)

LoadInv ==
    /\ TypeOK
    /\ ParentsRefer /\ DepsRefer /\ AllPassed
    /\ load # "circular" => ParentsDepend /\ Acyclic(parent) /\ ReferencesAdded
    /\ OnlyCyclesAreRefused

(* The indices of the loops stay in their sequences.                       *)
LEMMA Indices ==
    ASSUME refs \in [Producers -> References], NEW n \in Producers
    PROVE  /\ Len(refs[n]) \in Nat /\ DOMAIN refs[n] = 1 .. Len(refs[n])
           /\ \A k \in DOMAIN refs[n] : refs[n][k] \in Names
<1>1. refs[n] \in References
  OBVIOUS
<1>2. PICK l \in 0 .. Cardinality(Names) : refs[n] \in [1 .. l -> Names]
  BY <1>1 DEF References
<1>3. l \in Nat
  BY NamesAssumption, FS_CardinalityType
<1> QED
  BY <1>2, <1>3

LEMMA LoadInitInv == LoadInit => LoadInv
<1> SUFFICES ASSUME LoadInit PROVE LoadInv
  OBVIOUS
<1>1. TypeOK
  BY DEF LoadInit, TypeOK
<1>2. ParentsRefer /\ DepsRefer /\ ParentsDepend /\ AllPassed /\ OnlyCyclesAreRefused
  BY DEF LoadInit, ParentsRefer, DepsRefer, ParentsDepend, Range, AllPassed, OnlyCyclesAreRefused
<1>3. Acyclic(parent)
  BY NamesAssumption DEF LoadInit, Acyclic
<1>4. ReferencesAdded
  <2>1. \A n \in Producers : \A k \in DOMAIN refs[n] : k >= 1
    BY Indices DEF LoadInit
  <2>2. \A i \in DOMAIN SortedNames : i >= 1 /\ SortedNames[i] \in Producers
    BY NamesAssumption DEF Producers, Range
  <2> QED
    BY <2>1, <2>2 DEF LoadInit, ReferencesAdded, Passed
<1> QED
  BY <1>1, <1>2, <1>3, <1>4 DEF LoadInv

LEMMA RangeAppend ==
    ASSUME NEW s \in Seq(Names), NEW r \in Names
    PROVE  /\ Append(s, r) \in Seq(Names)
           /\ Range(Append(s, r)) = Range(s) \cup {r}
<1>1. \A i \in 1 .. Len(s) : Append(s, r)[i] = s[i]
  OBVIOUS
<1>2. Len(Append(s, r)) = Len(s) + 1 /\ Append(s, r)[Len(s) + 1] = r
  OBVIOUS
<1>3. Append(s, r) \in Seq(Names)
  OBVIOUS
<1> QED
  BY <1>1, <1>2, <1>3 DEF Range

(* A reference that AddReference looks at is one of Current's.              *)
LEMMA CurrentReference ==
    ASSUME TypeOK, name \in DOMAIN SortedNames, ref \in DOMAIN refs[Current]
    PROVE  /\ Current \in Producers /\ Current \in Names
           /\ refs[Current][ref] \in Names
           /\ refs[Current][ref] # Current => RefersTo(Current, refs[Current][ref])
<1>1. Current \in Producers
  BY DEF Current, Producers, Range
<1>2. refs[Current] \in References
  BY <1>1 DEF TypeOK
<1>3. refs[Current][ref] \in Names
  BY <1>2 DEF References
<1> QED
  BY <1>1, <1>3 DEF Names, RefersTo, Range

(* No step changes what the blocks refer to. *)
LEMMA RefsKept ==
    ASSUME refs' = refs
    PROVE  /\ \A n, m : RefersTo(n, m)' <=> RefersTo(n, m)
           /\ HasCycle' <=> HasCycle
  BY DEF RefersTo, HasCycle, Below, Wanted, Reachable

(* When Add panics, the blocks refer to each other in a circle.             *)
LEMMA PanicIsCycle ==
    ASSUME NEW q \in [Names -> Names \cup {NoItem}],
           \A n \in Names : q[n] # NoItem => RefersTo(q[n], n),
           NEW s \in Names, NEW r \in Names, RefersTo(s, r), hasAncestor(q, s, r)
    PROVE  HasCycle
<1> DEFINE up == [m \in Names |-> {q[m]} \ {NoItem}]
           T  == {m \in Names : s \in Below(m)}
<1>1. r \in Reachable(up, up[s])
  BY DEF hasAncestor
<1>2. up[s] \subseteq T
  <2> SUFFICES ASSUME q[s] # NoItem PROVE s \in Below(q[s])
    OBVIOUS
  <2> QED
    BY BelowNext
<1>3. \A m \in T : up[m] \subseteq T
  <2> SUFFICES ASSUME NEW m \in T, q[m] # NoItem PROVE s \in Below(q[m])
    OBVIOUS
  <2>1. q[m] \in Names /\ RefersTo(q[m], m)
    OBVIOUS
  <2> QED
    BY <2>1, BelowFirst
<1>4. T \in SUBSET Names
  OBVIOUS
<1>5. r \in T
  <2> HIDE DEF up, T
  <2> QED
    BY <1>1, <1>2, <1>3, <1>4, ReachableLeast
<1>6. r \in Below(s) /\ Below(r) \subseteq Below(s)
  BY BelowNext, BelowFirst
<1> QED
  BY <1>5, <1>6 DEF HasCycle

LEMMA AddReferenceInv == ASSUME LoadInv, AddReference PROVE LoadInv'
<1> DEFINE s == Current
           r == refs[s][ref]
<1> USE DEF LoadInv
<1>1. name \in DOMAIN SortedNames /\ ref \in DOMAIN refs[s]
  BY Indices, NamesAssumption DEF AddReference, TypeOK, Current, Producers, Range
<1>2. /\ s \in Producers /\ s \in Names /\ r \in Names
      /\ r # s => RefersTo(s, r)
  BY <1>1, CurrentReference
<1>3. /\ refs' = refs /\ name' = name /\ ref' = ref + 1 /\ load = "building"
      /\ known' = known \cup {s, r}
  BY DEF AddReference
<1>4. /\ \A n, m : RefersTo(n, m)' <=> RefersTo(n, m)
      /\ HasCycle' <=> HasCycle
  BY <1>3, RefsKept
<1>5. \A i, k \in Nat : Passed(i, k)' => Passed(i, k) \/ (i = name /\ k = ref)
  <2>1. \A i \in DOMAIN SortedNames : i \in Int
    BY NamesAssumption
  <2> QED
    BY <1>3, <2>1 DEF Passed, TypeOK
<1>6. refs'[s][ref] = r /\ s = SortedNames[name]
  BY <1>3 DEF Current
<1>7. CASE r = s
  <2>1. UNCHANGED <<parent, deps, load>>
    BY <1>7 DEF AddReference
  <2>2. TypeOK'
    BY <1>2, <1>3, <2>1 DEF TypeOK
  <2>3. ParentsRefer' /\ DepsRefer' /\ ParentsDepend' /\ AllPassed' /\ OnlyCyclesAreRefused'
    BY <1>3, <1>4, <2>1 DEF ParentsRefer, DepsRefer, ParentsDepend, AllPassed, OnlyCyclesAreRefused
  <2>4. Acyclic(parent')
    BY <1>3, <2>1
  <2>5. ReferencesAdded'
    BY <1>3, <1>5, <1>6, <1>7, <2>1 DEF ReferencesAdded
  <2> QED
    BY <2>2, <2>3, <2>4, <2>5
<1>8. CASE r # s
  <2>1. /\ parent' = [parent EXCEPT ![r] = s]
        /\ IF hasAncestor(parent', s, r)
           THEN load' = "circular" /\ UNCHANGED deps
           ELSE deps' = [deps EXCEPT ![s] = Append(@, r)] /\ UNCHANGED load
    BY <1>8 DEF AddReference, Add
  <2>2. parent' \in [Names -> Names \cup {NoItem}] /\ s # NoItem
    BY <1>2, <2>1, NamesAssumption DEF TypeOK
  <2>3. ParentsRefer'
    BY <1>2, <1>4, <1>8, <2>1 DEF ParentsRefer, TypeOK
  <2>4. CASE hasAncestor(parent', s, r)
    <3>1. TypeOK'
      BY <1>2, <1>3, <2>1, <2>2, <2>4 DEF TypeOK
    <3>2. DepsRefer' /\ AllPassed' /\ load' = "circular"
      BY <1>2, <1>4, <2>1, <2>2, <2>4 DEF DepsRefer, AllPassed, TypeOK
    <3>3. HasCycle
      BY <1>2, <1>4, <1>8, <2>2, <2>3, <2>4, PanicIsCycle DEF ParentsRefer
    <3> QED
      BY <3>1, <2>3, <3>2, <3>3, <1>4 DEF OnlyCyclesAreRefused
  <2>5. CASE ~hasAncestor(parent', s, r)
    <3>1. /\ deps[s] \in Seq(Names) /\ deps' = [deps EXCEPT ![s] = Append(deps[s], r)]
          /\ load' = load
      BY <1>2, <2>1, <2>5 DEF TypeOK
    <3>2. /\ deps' \in [Names -> Seq(Names)]
          /\ \A n \in Names : Range(deps'[n]) = IF n = s THEN Range(deps[n]) \cup {r} ELSE Range(deps[n])
      BY <1>2, <3>1, RangeAppend DEF TypeOK
    <3>3. TypeOK'
      BY <1>2, <1>3, <2>2, <3>1, <3>2 DEF TypeOK
    <3>4. DepsRefer'
      <4>1. \A n \in Names : Range(deps[n]) \subseteq Names
        BY DEF TypeOK, Range
      <4>2. \A m \in Names : parent'[m] = IF m = r THEN s ELSE parent[m]
        BY <1>2, <2>1 DEF TypeOK
      <4> SUFFICES ASSUME NEW n \in Names, NEW m \in Range(deps'[n])
                   PROVE  RefersTo(n, m) /\ parent'[m] # NoItem
        BY <1>4 DEF DepsRefer
      <4>3. m \in Range(deps[n]) \/ (n = s /\ m = r)
        BY <3>2
      <4> QED
        BY <1>2, <1>8, <2>2, <4>1, <4>2, <4>3 DEF DepsRefer
    <3>5. ParentsDepend'
      BY <1>2, <1>3, <2>1, <3>2 DEF ParentsDepend, TypeOK
    <3>6. Acyclic(parent')
      BY <1>2, <1>3, <1>8, <2>1, <2>5, AddKeepsAcyclic DEF TypeOK
    <3>7. ReferencesAdded'
      <4> SUFFICES ASSUME NEW i \in Nat, NEW k \in Nat, Passed(i, k)'
                   PROVE  \/ refs[SortedNames[i]][k] = SortedNames[i]
                          \/ refs[SortedNames[i]][k] \in Range(deps'[SortedNames[i]])
        BY <1>3 DEF ReferencesAdded
      <4>1. SortedNames[i] \in Names
        BY DEF Passed, Names, Producers, Range
      <4>2. CASE Passed(i, k)
        BY <1>3, <3>2, <4>1, <4>2 DEF ReferencesAdded
      <4>3. CASE i = name /\ k = ref
        BY <1>6, <3>2, <4>1, <4>3, <1>3
      <4> QED
        BY <1>5, <4>2, <4>3
    <3>8. AllPassed' /\ OnlyCyclesAreRefused'
      BY <1>3, <3>1 DEF AllPassed, OnlyCyclesAreRefused
    <3> QED
      BY <3>3, <2>3, <3>4, <3>5, <3>6, <3>7, <3>8
  <2> QED
    BY <2>4, <2>5
<1> QED
  BY <1>7, <1>8

LEMMA NextBlockInv == ASSUME LoadInv, NextBlock PROVE LoadInv'
<1> USE DEF LoadInv
<1>1. UNCHANGED <<refs, known, parent, deps, load>> /\ name' = name + 1 /\ ref' = 1 /\ load = "building"
  BY DEF NextBlock
<1>2. TypeOK'
  BY <1>1 DEF TypeOK
<1>3. ParentsRefer' /\ DepsRefer' /\ ParentsDepend' /\ AllPassed' /\ OnlyCyclesAreRefused' /\ Acyclic(parent')
  BY <1>1, RefsKept DEF ParentsRefer, DepsRefer, ParentsDepend, AllPassed, OnlyCyclesAreRefused
<1>4. ReferencesAdded'
  <2>1. \A i \in DOMAIN SortedNames : i \in Int /\ SortedNames[i] \in Producers
    BY NamesAssumption
  <2>2. \A n \in Producers : \A k \in DOMAIN refs[n] : k \in 1 .. Len(refs[n]) /\ Len(refs[n]) \in Nat
    BY Indices DEF TypeOK
  <2>3. name \in DOMAIN SortedNames => ref > Len(refs[SortedNames[name]])
    BY DEF NextBlock, Current
  <2>4. \A i, k \in Nat : Passed(i, k)' => Passed(i, k)
    BY <1>1, <2>1, <2>2, <2>3 DEF Passed, TypeOK
  <2> QED
    BY <1>1, <2>4 DEF ReferencesAdded
<1> QED
  BY <1>2, <1>3, <1>4

LEMMA EndOfLoadingInv ==
    ASSUME LoadInv, FinishBuilding \/ MarkDependencies \/ UNCHANGED vars
    PROVE  LoadInv'
<1> USE DEF LoadInv
<1>1. /\ UNCHANGED <<refs, name, ref, known, parent, deps>>
      /\ load' # load => load # "circular" /\ load' \in {"built", "overflow", "loaded"} /\ name > Len(SortedNames)
  BY DEF FinishBuilding, MarkDependencies, vars, AllPassed
<1>2. TypeOK'
  BY <1>1 DEF TypeOK
<1>3. /\ ParentsRefer' /\ DepsRefer' /\ AllPassed' /\ OnlyCyclesAreRefused'
      /\ ParentsDepend' = ParentsDepend /\ ReferencesAdded' = ReferencesAdded
      /\ Acyclic(parent') = Acyclic(parent)
  BY <1>1, RefsKept DEF ParentsRefer, DepsRefer, ParentsDepend, AllPassed, OnlyCyclesAreRefused,
       ReferencesAdded, Passed
<1> QED
  BY <1>1, <1>2, <1>3

LEMMA LoadingInv == LoadInv /\ [LoadNext]_vars => LoadInv'
  BY AddReferenceInv, NextBlockInv, EndOfLoadingInv DEF LoadNext

THEOREM LoadInvariance == LoadSpec => []LoadInv
  BY LoadInitInv, LoadingInv, PTL DEF LoadSpec

-------------------------------------------------------------------------------
(* What has been loaded                                                    *)

LEMMA DepsAreReferences ==
    ASSUME LoadInv, load = "loaded", NEW n \in Producers, NEW m \in Names
    PROVE  RefersTo(n, m) <=> m \in Range(deps[n])
<1>1. m \in Range(deps[n]) => RefersTo(n, m)
  BY DEF LoadInv, DepsRefer, Names
<1>2. ASSUME RefersTo(n, m) PROVE m \in Range(deps[n])
  <2>1. PICK i \in DOMAIN SortedNames : SortedNames[i] = n
    BY DEF Producers, Range
  <2>2. PICK k \in DOMAIN refs[n] : refs[n][k] = m /\ m # n
    BY <1>2 DEF RefersTo, Range
  <2>3. i \in Nat /\ i < name
    BY <2>1, NamesAssumption DEF LoadInv, AllPassed, TypeOK
  <2>4. k \in Nat
    BY <2>2, Indices DEF LoadInv, TypeOK
  <2>5. Passed(i, k)
    BY <2>1, <2>2, <2>3 DEF Passed
  <2> QED
    BY <2>1, <2>2, <2>3, <2>4, <2>5 DEF LoadInv, ReferencesAdded
<1> QED
  BY <1>1, <1>2

LEMMA ResolvedNext ==
    ASSUME LoadInv, NEW n \in Names
    PROVE  /\ n \in Resolved(n) /\ Resolved(n) \subseteq Names
           /\ \A m \in Resolved(n) : Range(deps[m]) \subseteq Resolved(n)
<1> DEFINE next == [m \in Names |-> Range(deps[m])]
<1>1. \A m \in Names : next[m] \subseteq Names
  BY DEF LoadInv, TypeOK, Range
<1>2. n \in Resolved(n) /\ Resolved(n) \subseteq Names
  BY ReachableNames, ReachableFrom DEF Resolved
<1>3. \A m \in Resolved(n) : next[m] \subseteq Resolved(n)
  <2> TAKE m \in Resolved(n)
  <2>1. next[m] \subseteq Names /\ m \in Reachable(next, {n})
    BY <1>1, <1>2 DEF Resolved
  <2>2. next[m] \subseteq Reachable(next, {n})
    <3> HIDE DEF next
    <3> QED
      BY <2>1, ReachableNext
  <2> QED
    BY <2>2 DEF Resolved
<1> QED
  BY <1>2, <1>3

(* Who is resolved with another one has a parent.                           *)
LEMMA ResolvedHasParent ==
    ASSUME LoadInv, NEW n \in Names, NEW m \in Resolved(n), m # n
    PROVE  m \in Names /\ parent[m] # NoItem
<1> DEFINE next == [k \in Names |-> Range(deps[k])]
           S    == {k \in Names : k = n \/ parent[k] # NoItem}
<1>1. S \in SUBSET Names /\ {n} \subseteq S
  OBVIOUS
<1>2. \A k \in S : next[k] \subseteq S
  BY DEF LoadInv, TypeOK, DepsRefer, Range
<1>3. m \in Reachable(next, {n})
  BY DEF Resolved
<1>4. m \in S
  <2> HIDE DEF S, next
  <2> QED
    BY <1>1, <1>2, <1>3, ReachableLeast
<1> QED
  BY <1>4

(* Who has a parent is resolved with an item nobody depends on.             *)
LEMMA ParentsLeadToSequences ==
    ASSUME LoadInv, load # "circular", NEW i \in Names, parent[i] # NoItem
    PROVE  \E s \in Sequences : i \in Resolved(s)
<1> DEFINE X == {m \in Names : parent[m] # NoItem /\ \A s \in Sequences : m \notin Resolved(s)}
<1> SUFFICES ASSUME i \in X PROVE FALSE
  OBVIOUS
<1>1. PICK n \in X : parent[n] \notin X
  BY DEF LoadInv, Acyclic
<1> DEFINE p == parent[n]
<1>2. p \in Names /\ p \in known /\ n \in Range(deps[p])
  BY <1>1 DEF LoadInv, ParentsDepend, TypeOK
<1>3. PICK s \in Sequences : p \in Resolved(s)
  <2>1. CASE parent[p] = NoItem
    BY <1>2, <2>1, ResolvedNext DEF Sequences
  <2>2. CASE parent[p] # NoItem
    BY <1>1, <1>2, <2>2
  <2> QED
    BY <2>1, <2>2
<1>4. s \in Names
  BY DEF Sequences, LoadInv, TypeOK
<1>5. n \in Resolved(s)
  BY <1>2, <1>3, <1>4, ResolvedNext
<1> QED
  BY <1>1, <1>3, <1>5

LEMMA LoadedIsAwaited == LoadInv => EveryBlockIsAwaited
<1> SUFFICES ASSUME LoadInv, load = "loaded" PROVE EveryBlockIsAwaited
  BY DEF EveryBlockIsAwaited
<1>1. Items \subseteq Names
  BY DEF Items, Sequences, Independent, Names, LoadInv, TypeOK
<1>2. Producers \subseteq UNION {Resolved(i) : i \in Items}
  <2> SUFFICES ASSUME NEW n \in Producers PROVE \E i \in Items : n \in Resolved(i)
    OBVIOUS
  <2>1. CASE n \in Independent
    BY <2>1, ResolvedNext DEF Items, Names
  <2>2. CASE n \notin Independent
    BY <2>2 DEF Items, Independent
  <2> QED
    BY <2>1, <2>2
<1>3. \A n \in Producers, m \in Names : RefersTo(n, m) <=> m \in Range(deps[n])
  BY DepsAreReferences
<1>4. \A i, j \in Items : i # j => i \notin Resolved(j)
  <2> SUFFICES ASSUME NEW i \in Items, NEW j \in Items, i # j, i \in Resolved(j)
               PROVE  FALSE
    OBVIOUS
  <2>1. i \in Names /\ parent[i] # NoItem
    BY <1>1, ResolvedHasParent
  <2>2. i \notin Sequences
    BY <2>1 DEF Sequences
  <2>3. PICK s \in Sequences : i \in Resolved(s)
    BY <2>1, ParentsLeadToSequences
  <2> QED
    BY <2>2, <2>3 DEF Items, Independent
<1> QED
  BY <1>2, <1>3, <1>4 DEF EveryBlockIsAwaited

-------------------------------------------------------------------------------
(* What serving keeps true                                                 *)

Dep(n, k) == Deps(n)[k]
Arrived(m) == sent[m] = m /\ err[m] = "ok"

(* Nothing is served before the endpoint has been loaded. *)
ServedWhenLoaded ==
    load # "loaded" => \A n \in Names : sent[n] = NoItem /\ (n \in Producers => step[n] = "idle")

(* A result that was sent has been made, and by whom it says.               *)
SentIsMade ==
    \A n \in Names : sent[n] # NoItem =>
        sent[n] \in Producers /\ sent[sent[n]] = sent[n] /\ step[sent[n]] = "done"

(* Who is done has sent one, and nobody else has. *)
DoneHasSent ==
    \A n \in Names : sent[n] # NoItem <=> n \in Producers /\ step[n] = "done"

(* Results are passed on only with an error. *)
PassedOnFails ==
    \A n \in Names : sent[n] \notin {NoItem, n} => err[sent[n]] \in {"sequence", "broken"}

(* What was read so far has arrived, and nothing is sent before all has.    *)
ReadHasArrived ==
    \A n \in Producers :
        /\ input[n] <= Len(Deps(n))
        /\ step[n] = "idle" => input[n] = 0
        /\ step[n] # "done" => \A k \in 1 .. input[n] : Arrived(Dep(n, k))
        /\ step[n] = "produce" => input[n] = Len(Deps(n))

(* Who fails does so for a result with an error. *)
FailsForError ==
    \A n \in Producers : step[n] = "fail" =>
        /\ input[n] < Len(Deps(n))
        /\ sent[Dep(n, input[n] + 1)] # NoItem
        /\ err[sent[Dep(n, input[n] + 1)]] # "ok"
        /\ seen[n] # "ok"
        /\ seen[n] = "sequence" => err[sent[Dep(n, input[n] + 1)]] \in {"sequence", "broken"}

(* Who has come back without an error has been sent after all it depends on.*)
DepsArrived ==
    \A n \in Producers : Arrived(n) => \A k \in DOMAIN Deps(n) : Arrived(Dep(n, k))

ServeInv ==
    /\ LoadInv /\ ServeTypeOK /\ ServedWhenLoaded
    /\ SentIsMade /\ DoneHasSent /\ PassedOnFails
    /\ ReadHasArrived /\ FailsForError /\ DepsArrived

-------------------------------------------------------------------------------

LEMMA DepFacts ==
    ASSUME LoadInv, NEW n \in Producers
    PROVE  /\ Len(Deps(n)) \in Nat /\ DOMAIN Deps(n) = 1 .. Len(Deps(n))
           /\ \A k \in DOMAIN Deps(n) : Dep(n, k) \in Names
           /\ \A m \in Range(deps[n]) : \E k \in DOMAIN Deps(n) : Dep(n, k) = m
<1>1. deps[n] \in Seq(Names)
  BY DEF LoadInv, TypeOK, Names
<1> DEFINE len == Len(deps[n])
<1>2. len \in Nat /\ DOMAIN deps[n] = 1 .. len /\ \A i \in 1 .. len : deps[n][i] \in Names
  BY <1>1
<1>3. /\ DOMAIN Deps(n) = 1 .. len
      /\ \A k \in 1 .. len : Deps(n)[k] = deps[n][len + 1 - k] /\ len + 1 - k \in 1 .. len
  BY <1>2 DEF Deps
<1>4. Deps(n) \in [1 .. len -> Names]
  BY <1>2, <1>3 DEF Deps
<1>5. Len(Deps(n)) = len
  BY <1>2, <1>4
<1>6. ASSUME NEW m \in Range(deps[n])
      PROVE  \E k \in DOMAIN Deps(n) : Dep(n, k) = m
  <2>1. PICK i \in 1 .. len : deps[n][i] = m
    BY <1>2 DEF Range
  <2>2. len + 1 - i \in 1 .. len /\ len + 1 - (len + 1 - i) = i
    BY <1>2
  <2> QED
    BY <1>3, <2>1, <2>2 DEF Dep
<1> QED
  BY <1>2, <1>3, <1>4, <1>5, <1>6 DEF Dep

LEMMA ServeInitInv == Init => ServeInv
<1> SUFFICES ASSUME Init PROVE ServeInv
  OBVIOUS
<1>1. LoadInv
  BY LoadInitInv DEF Init
<1>2. ServeTypeOK
  BY <1>1 DEF Init, ServeTypeOK, LoadInv, Err, Outcome
<1>3. ReadHasArrived
  <2> SUFFICES ASSUME NEW n \in Producers
               PROVE  input[n] = 0 /\ step[n] = "idle" /\ Len(Deps(n)) \in Nat
    BY DEF ReadHasArrived
  <2> QED
    BY <1>1, DepFacts DEF Init
<1>4. /\ ServedWhenLoaded /\ SentIsMade /\ DoneHasSent /\ PassedOnFails
      /\ FailsForError /\ DepsArrived
  BY NamesAssumption DEF Init, ServedWhenLoaded, SentIsMade, DoneHasSent, PassedOnFails,
     FailsForError, DepsArrived, Arrived, Names
<1> QED
  BY <1>1, <1>2, <1>3, <1>4 DEF ServeInv

(* While the endpoint is loaded nothing is served.                          *)
LEMMA LoadStepInv == ASSUME ServeInv, Loading PROVE ServeInv'
<1>1. LoadInv' /\ UNCHANGED serving /\ load # "loaded"
  BY LoadingInv DEF ServeInv, Loading, LoadNext, AddReference, NextBlock, FinishBuilding, MarkDependencies
<1>2. \A n \in Names : sent[n] = NoItem /\ (n \in Producers => step[n] = "idle")
  BY <1>1 DEF ServeInv, ServedWhenLoaded
<1>3. ServeTypeOK'
  BY <1>1 DEF ServeInv, ServeTypeOK, serving, LoadInv
<1>4. ReadHasArrived'
  <2> SUFFICES ASSUME NEW n \in Producers
               PROVE  input'[n] = 0 /\ step'[n] = "idle" /\ Len(Deps(n))' \in Nat
    BY DEF ReadHasArrived
  <2>1. input[n] = 0 /\ step[n] = "idle"
    BY <1>2 DEF ServeInv, ReadHasArrived, Names
  <2>2. Len(Deps(n))' \in Nat
    <3>1. deps'[n] \in Seq(Names)
      BY <1>1 DEF LoadInv, TypeOK, Names
    <3>2. Len(deps'[n]) \in Nat /\ DOMAIN deps'[n] = 1 .. Len(deps'[n])
      BY <3>1
    <3>3. Deps(n)' = [i \in 1 .. Len(deps'[n]) |-> deps'[n][Len(deps'[n]) + 1 - i]]
      BY <3>2 DEF Deps
    <3>4. Deps(n)' \in [1 .. Len(deps'[n]) -> Names]
      BY <3>1, <3>2, <3>3
    <3> QED
      BY <3>2, <3>4
  <2> QED
    BY <1>1, <2>1, <2>2 DEF serving
<1>5. /\ ServedWhenLoaded' /\ SentIsMade' /\ DoneHasSent' /\ PassedOnFails'
      /\ FailsForError' /\ DepsArrived'
  BY <1>1, <1>2, NamesAssumption DEF serving, ServedWhenLoaded, SentIsMade, DoneHasSent, PassedOnFails,
     FailsForError, DepsArrived, Arrived, Names
<1> QED
  BY <1>1, <1>3, <1>4, <1>5 DEF ServeInv

-------------------------------------------------------------------------------
(* Serving                                                                 *)

(* What a step of a block finds. *)
LEMMA Found ==
    ASSUME ServeInv, NEW n \in Producers, step[n] # "done"
    PROVE  /\ n \in Names /\ sent[n] = NoItem
           /\ \A m \in Names : sent[m] # n
           /\ ~Arrived(n)
  BY NamesAssumption DEF ServeInv, DoneHasSent, SentIsMade, Arrived, Names

(* The block only goes on: it has read more, or found an error.             *)
LEMMA GoOn ==
    ASSUME ServeInv, UNCHANGED <<vars, sent, err, answer>>,
           NEW n \in Producers, step[n] \in {"idle", "drain"},
           step'[n] \in {"drain", "fail", "produce"},
           ServeTypeOK', load = "loaded",
           \A m \in Producers \ {n} :
               step'[m] = step[m] /\ input'[m] = input[m] /\ seen'[m] = seen[m],
           /\ input'[n] <= Len(Deps(n))
           /\ \A k \in 1 .. input'[n] : Arrived(Dep(n, k))
           /\ step'[n] = "produce" => input'[n] = Len(Deps(n)),
           step'[n] = "fail" =>
               /\ input'[n] < Len(Deps(n))
               /\ sent[Dep(n, input'[n] + 1)] # NoItem
               /\ err[sent[Dep(n, input'[n] + 1)]] # "ok"
               /\ seen'[n] = err[sent[Dep(n, input'[n] + 1)]]
    PROVE  ServeInv'
<1> USE DEF ServeInv
<1>1. LoadInv'
  BY LoadingInv
<1>2. UNCHANGED <<refs, parent, deps, load, sent, err>>
  BY DEF vars
<1>3. \A m \in Producers : step'[m] # step[m] => m = n
  OBVIOUS
<1>4. /\ \A m : Deps(m)' = Deps(m) /\ Arrived(m)' = Arrived(m)
      /\ \A m, k : Dep(m, k)' = Dep(m, k)
  BY <1>2 DEF Deps, Dep, Arrived
<1>5. ServedWhenLoaded' /\ SentIsMade' /\ DoneHasSent' /\ PassedOnFails'
  BY <1>2, <1>3, Found DEF ServedWhenLoaded, SentIsMade, DoneHasSent, PassedOnFails
<1>6. ReadHasArrived'
  <2> SUFFICES ASSUME NEW m \in Producers
               PROVE  /\ input'[m] <= Len(Deps(m))
                      /\ step'[m] = "idle" => input'[m] = 0
                      /\ step'[m] # "done" => \A k \in 1 .. input'[m] : Arrived(Dep(m, k))
                      /\ step'[m] = "produce" => input'[m] = Len(Deps(m))
    BY <1>4 DEF ReadHasArrived
  <2>1. CASE m = n
    BY <1>3, <2>1
  <2>2. CASE m # n
    BY <1>3, <2>2 DEF ReadHasArrived
  <2> QED
    BY <2>1, <2>2
<1>7. FailsForError'
  <2> SUFFICES ASSUME NEW m \in Producers, step'[m] = "fail"
               PROVE  /\ input'[m] < Len(Deps(m))
                      /\ sent[Dep(m, input'[m] + 1)] # NoItem
                      /\ err[sent[Dep(m, input'[m] + 1)]] # "ok"
                      /\ seen'[m] # "ok"
                      /\ seen'[m] = "sequence" => err[sent[Dep(m, input'[m] + 1)]] \in {"sequence", "broken"}
    BY <1>2, <1>4 DEF FailsForError
  <2>1. CASE m = n
    BY <1>3, <2>1
  <2>2. CASE m # n
    BY <1>3, <2>2 DEF FailsForError
  <2> QED
    BY <2>1, <2>2
<1>8. DepsArrived'
  BY <1>4 DEF DepsArrived
<1> QED
  BY <1>1, <1>5, <1>6, <1>7, <1>8

(* The block ends with a result: one of its own, or one it passes on, whose *)
(* error is set again.                                                      *)
LEMMA PassInv ==
    ASSUME ServeInv, UNCHANGED <<vars, input, seen, answer>>, load = "loaded",
           NEW n \in Producers, step[n] # "done",
           NEW x \in Producers, NEW e \in Err, Pass(n, x), err' = [err EXCEPT ![x] = e],
           x = n /\ e = "ok" => \A k \in DOMAIN Deps(n) : Arrived(Dep(n, k)),
           x # n => sent[x] = x /\ err[x] # "ok" /\ e \in {"sequence", "broken"}
    PROVE  ServeInv'
<1> USE DEF ServeInv
<1>1. LoadInv' /\ UNCHANGED <<refs, parent, deps, load, input, seen>>
  BY LoadingInv DEF vars
<1>2. /\ n \in Names /\ sent[n] = NoItem /\ ~Arrived(n)
      /\ \A m \in Names : sent[m] # n
  BY Found
<1>3. /\ \A m \in Producers : step'[m] = IF m = n THEN "done" ELSE step[m]
      /\ \A m \in Names : sent'[m] = IF m = n THEN x ELSE sent[m]
      /\ \A m \in Producers : err'[m] = IF m = x THEN e ELSE err[m]
  BY <1>2 DEF ServeTypeOK, Pass, Go
<1>4. x \in Names /\ x # NoItem /\ (x # n => step[x] = "done")
  BY NamesAssumption DEF Names, DoneHasSent
<1>5. /\ \A m : Deps(m)' = Deps(m)
      /\ \A m, k : Dep(m, k)' = Dep(m, k)
  BY <1>1 DEF Deps, Dep
<1>6. \A m \in Names : m # n => (Arrived(m)' <=> Arrived(m))
  BY <1>3, <1>2, NamesAssumption DEF Arrived, SentIsMade
<1>7. Arrived(n)' => x = n /\ e = "ok"
  BY <1>2, <1>3 DEF Arrived
<1>8. ServeTypeOK'
  BY <1>1, <1>2, <1>4 DEF ServeTypeOK, Pass, Go, LoadInv
<1>9. ServedWhenLoaded' /\ DoneHasSent'
  BY <1>1, <1>2, <1>3, <1>4 DEF ServedWhenLoaded, DoneHasSent
<1>10. SentIsMade'
  <2> SUFFICES ASSUME NEW m \in Names, sent'[m] # NoItem
               PROVE  /\ sent'[m] \in Producers /\ sent'[sent'[m]] = sent'[m]
                      /\ step'[sent'[m]] = "done"
    BY DEF SentIsMade
  <2>1. CASE m = n
    BY <1>2, <1>3, <1>4, <2>1
  <2>2. CASE m # n
    <3>1. sent'[m] = sent[m] /\ sent[m] # n
      BY <1>2, <1>3, <2>2
    <3>2. sent[m] \in Producers /\ sent[m] \in Names /\ sent[sent[m]] = sent[m] /\ step[sent[m]] = "done"
      BY <3>1 DEF SentIsMade, Names
    <3> QED
      BY <1>3, <3>1, <3>2
  <2> QED
    BY <2>1, <2>2
<1>11. PassedOnFails'
  <2> SUFFICES ASSUME NEW m \in Names, sent'[m] \notin {NoItem, m}
               PROVE  err'[sent'[m]] \in {"sequence", "broken"}
    BY DEF PassedOnFails
  <2>1. CASE m = n
    BY <1>2, <1>3, <2>1
  <2>2. CASE m # n
    BY <1>2, <1>3, <2>2 DEF PassedOnFails, SentIsMade
  <2> QED
    BY <2>1, <2>2
<1>12. \A m \in Producers : \A k \in DOMAIN Deps(m) : Arrived(Dep(m, k)) => Arrived(Dep(m, k))'
  <2> SUFFICES ASSUME NEW m \in Producers, NEW k \in DOMAIN Deps(m), Arrived(Dep(m, k))
               PROVE  Arrived(Dep(m, k))'
    OBVIOUS
  <2>1. Dep(m, k) \in Names /\ Dep(m, k) # n
    BY <1>2, DepFacts
  <2>2. Dep(m, k)' = Dep(m, k)
    BY <1>5
  <2> QED
    BY <1>6, <2>1, <2>2 DEF Arrived
<1>13. ReadHasArrived'
  <2> SUFFICES ASSUME NEW m \in Producers, m # n
               PROVE  /\ input[m] <= Len(Deps(m))
                      /\ step[m] = "idle" => input[m] = 0
                      /\ step[m] # "done" => \A k \in 1 .. input[m] : Arrived(Dep(m, k))'
                      /\ step[m] = "produce" => input[m] = Len(Deps(m))
    BY <1>1, <1>3, <1>5 DEF ReadHasArrived
  <2>1. DOMAIN Deps(m) = 1 .. Len(Deps(m)) /\ Len(Deps(m)) \in Nat /\ input[m] \in Nat
    BY DepFacts DEF ServeTypeOK
  <2> QED
    BY <1>12, <2>1 DEF ReadHasArrived
<1>14. FailsForError'
  <2> SUFFICES ASSUME NEW m \in Producers, m # n, step[m] = "fail"
               PROVE  /\ input[m] < Len(Deps(m))
                      /\ sent'[Dep(m, input[m] + 1)] # NoItem
                      /\ err'[sent'[Dep(m, input[m] + 1)]] # "ok"
                      /\ seen[m] # "ok"
                      /\ seen[m] = "sequence" => err'[sent'[Dep(m, input[m] + 1)]] \in {"sequence", "broken"}
    BY <1>1, <1>3, <1>5 DEF FailsForError
  <2>1. input[m] + 1 \in DOMAIN Deps(m)
    <3>1. input[m] \in Nat /\ input[m] < Len(Deps(m))
      BY DEF ServeTypeOK, FailsForError
    <3>2. DOMAIN Deps(m) = 1 .. Len(Deps(m)) /\ Len(Deps(m)) \in Nat
      BY DepFacts
    <3> QED
      BY <3>1, <3>2
  <2>2. Dep(m, input[m] + 1) \in Names
    BY <2>1, DepFacts
  <2>3. sent'[Dep(m, input[m] + 1)] = sent[Dep(m, input[m] + 1)]
    BY <1>2, <1>3, <2>2 DEF FailsForError
  <2> QED
    BY <1>2, <1>3, <2>2, <2>3 DEF FailsForError, SentIsMade
<1>15. DepsArrived'
  <2> SUFFICES ASSUME NEW m \in Producers, Arrived(m)', NEW k \in DOMAIN Deps(m)
               PROVE  Arrived(Dep(m, k))'
    BY <1>5 DEF DepsArrived
  <2>1. CASE m = n
    BY <1>7, <1>12, <2>1
  <2>2. CASE m # n
    BY <1>6, <1>12, <2>2 DEF DepsArrived, Names
  <2> QED
    BY <2>1, <2>2
<1> QED
  BY <1>1, <1>8, <1>9, <1>10, <1>11, <1>13, <1>14, <1>15

LEMMA NotBeforeLoaded ==
    ASSUME ServeInv, NEW n \in Producers, step[n] # "idle"
    PROVE  load = "loaded"
  BY DEF ServeInv, ServedWhenLoaded, Names

LEMMA StartInv == ASSUME ServeInv, NEW n \in Producers, Start(n) PROVE ServeInv'
<1>1. /\ load = "loaded" /\ step[n] = "idle" /\ step' = [step EXCEPT ![n] = "drain"]
      /\ UNCHANGED <<vars, input, seen, sent, err, answer>>
  BY DEF Start, Go
<1>2. step'[n] = "drain" /\ \A m \in Producers \ {n} : step'[m] = step[m]
  BY <1>1 DEF ServeInv, ServeTypeOK
<1>3. input[n] = 0 /\ Len(Deps(n)) \in Nat
  BY <1>1, DepFacts DEF ServeInv, ReadHasArrived
<1>4. ServeTypeOK'
  BY <1>1 DEF ServeInv, ServeTypeOK, vars, TypeOK
<1> QED
  BY <1>1, <1>2, <1>3, <1>4, GoOn

LEMMA DrainNextInv == ASSUME ServeInv, NEW n \in Producers, DrainNext(n) PROVE ServeInv'
<1> USE DEF ServeInv
<1> DEFINE k    == input[n] + 1
           from == sent[Dep(n, k)]
<1>1. /\ step[n] = "drain" /\ input[n] < Len(Deps(n)) /\ from # NoItem
      /\ UNCHANGED <<vars, sent, err, answer>>
      /\ IF err[from] = "ok"
         THEN input' = [input EXCEPT ![n] = k] /\ UNCHANGED <<step, seen>>
         ELSE /\ seen' = [seen EXCEPT ![n] = err[from]]
              /\ step' = [step EXCEPT ![n] = "fail"]
              /\ UNCHANGED input
  BY DEF DrainNext, Go, Dep
<1>2. load = "loaded"
  BY <1>1, NotBeforeLoaded
<1>3. /\ input[n] \in Nat /\ Len(Deps(n)) \in Nat
      /\ k \in DOMAIN Deps(n) /\ Dep(n, k) \in Names
  <2>1. input[n] \in Nat /\ Len(Deps(n)) \in Nat /\ DOMAIN Deps(n) = 1 .. Len(Deps(n))
    BY DepFacts DEF ServeTypeOK
  <2>2. k \in DOMAIN Deps(n)
    BY <1>1, <2>1
  <2> QED
    BY <2>1, <2>2, DepFacts
<1>4. \A j \in 1 .. input[n] : Arrived(Dep(n, j))
  BY <1>1 DEF ReadHasArrived
<1>5. CASE err[from] = "ok"
  <2>1. Arrived(Dep(n, k))
    BY <1>1, <1>3, <1>5 DEF PassedOnFails, Arrived
  <2>2. /\ step'[n] = "drain" /\ input'[n] = k
        /\ \A m \in Producers \ {n} :
               step'[m] = step[m] /\ input'[m] = input[m] /\ seen'[m] = seen[m]
    BY <1>1, <1>5 DEF ServeTypeOK
  <2>3. \A j \in 1 .. k : Arrived(Dep(n, j))
    BY <1>3, <1>4, <2>1
  <2>4. ServeTypeOK'
    <3>1. k \in Nat
      BY <1>3
    <3>2. input' \in [Producers -> Nat] /\ UNCHANGED <<step, seen>>
      BY <1>1, <1>5, <3>1 DEF ServeTypeOK
    <3> QED
      BY <1>1, <3>2 DEF ServeTypeOK, vars, TypeOK
  <2>5. k <= Len(Deps(n))
    BY <1>1, <1>3
  <2> HIDE DEF k
  <2> QED
    BY <1>1, <1>2, <2>2, <2>3, <2>4, <2>5, GoOn
<1>6. CASE err[from] # "ok"
  <2>1. /\ input' = input /\ seen'[n] = err[from]
        /\ step'[n] = "fail"
        /\ \A m \in Producers \ {n} :
               step'[m] = step[m] /\ input'[m] = input[m] /\ seen'[m] = seen[m]
    BY <1>1, <1>6 DEF ServeTypeOK
  <2>2. ServeTypeOK'
    <3>1. err[from] \in Err
      BY <1>1, <1>3 DEF ServeTypeOK
    <3> QED
      BY <1>1, <1>6, <3>1 DEF ServeTypeOK, vars, TypeOK
  <2> QED
    BY <1>1, <1>2, <1>3, <1>4, <1>6, <2>1, <2>2, GoOn
<1> QED
  BY <1>5, <1>6

LEMMA ProduceInv == ASSUME ServeInv, NEW n \in Producers, Produce(n) PROVE ServeInv'
<1>1. /\ step[n] = "drain" /\ input[n] = Len(Deps(n)) /\ step' = [step EXCEPT ![n] = "produce"]
      /\ UNCHANGED <<vars, input, seen, sent, err, answer>>
  BY DEF Produce, Drained, Go
<1>2. Len(Deps(n)) \in Nat /\ \A j \in 1 .. input[n] : Arrived(Dep(n, j))
  BY <1>1, DepFacts DEF ServeInv, ReadHasArrived
<1>3. ServeTypeOK'
  BY <1>1 DEF ServeInv, ServeTypeOK, vars, TypeOK
<1>4. load = "loaded"
  BY <1>1, NotBeforeLoaded
<1>5. step'[n] = "produce" /\ \A m \in Producers \ {n} : step'[m] = step[m]
  BY <1>1 DEF ServeInv, ServeTypeOK
<1> QED
  BY <1>1, <1>2, <1>3, <1>4, <1>5, GoOn

LEMMA ProducedInv == ASSUME ServeInv, NEW n \in Producers, Produced(n) PROVE ServeInv'
<1>1. PICK e \in Outcomes : err' = [err EXCEPT ![n] = e]
  BY DEF Produced
<1>2. step[n] = "produce" /\ Pass(n, n) /\ UNCHANGED <<vars, input, seen, answer>>
  BY DEF Produced
<1>3. e \in Err
  BY OutcomesAssumption DEF Err
<1>4. \A k \in DOMAIN Deps(n) : Arrived(Dep(n, k))
  BY <1>2, DepFacts DEF ServeInv, ReadHasArrived
<1>5. load = "loaded"
  BY <1>2, NotBeforeLoaded
<1> QED
  BY <1>1, <1>2, <1>3, <1>4, <1>5, PassInv

LEMMA DrainFailsInv == ASSUME ServeInv, NEW n \in Producers, DrainFails(n) PROVE ServeInv'
<1> DEFINE from == sent[Dep(n, input[n] + 1)]
<1>1. step[n] = "fail" /\ UNCHANGED <<vars, input, seen, answer>>
  BY DEF DrainFails
<1>2. load = "loaded"
  BY <1>1, NotBeforeLoaded
<1>3. /\ from # NoItem /\ err[from] # "ok" /\ seen[n] # "ok"
      /\ seen[n] = "sequence" => err[from] \in {"sequence", "broken"}
  BY <1>1 DEF ServeInv, FailsForError
<1>4. Dep(n, input[n] + 1) \in Names
  <2>1. DOMAIN Deps(n) = 1 .. Len(Deps(n)) /\ Len(Deps(n)) \in Nat
    BY DepFacts DEF ServeInv
  <2>2. input[n] \in Nat /\ input[n] < Len(Deps(n))
    BY <1>1 DEF ServeInv, FailsForError, ServeTypeOK
  <2>3. input[n] + 1 \in DOMAIN Deps(n)
    BY <2>1, <2>2
  <2> QED
    BY <2>3, DepFacts DEF ServeInv
<1>5. from \in Producers /\ sent[from] = from /\ from # n
  BY <1>1, <1>3, <1>4 DEF ServeInv, SentIsMade
<1>6. /\ seen[n] \in Err /\ err[from] \in Err /\ err \in [Producers -> Err]
  BY <1>5 DEF ServeInv, ServeTypeOK
<1>7. PICK e \in {seen[n], err[from]} :
          IF e = "broken" THEN PassPanic(n)
          ELSE /\ err' = IF e = "sequence" THEN err ELSE [err EXCEPT ![from] = Wrapped(e)]
               /\ Pass(n, from)
  BY DEF DrainFails, Dep
<1>8. CASE e = "broken"
  <2>1. err' = [err EXCEPT ![n] = "plain"] /\ Pass(n, n)
    BY <1>7, <1>8 DEF PassPanic
  <2>2. "plain" \in Err /\ "plain" # "ok"
    BY DEF Err, Outcome
  <2> QED
    BY <1>1, <1>2, <2>1, <2>2, PassInv
<1>9. CASE e = "sequence"
  <2>1. err' = [err EXCEPT ![from] = err[from]] /\ Pass(n, from)
    BY <1>6, <1>7, <1>9
  <2>2. err[from] \in {"sequence", "broken"}
    BY <1>3, <1>9
  <2> HIDE DEF from
  <2> QED
    BY <1>1, <1>2, <1>3, <1>5, <1>6, <2>1, <2>2, PassInv
<1>10. CASE e \notin {"broken", "sequence"}
  <2>1. e \in {"error", "plain"}
    BY <1>3, <1>6, <1>10 DEF Err, Outcome
  <2>2. Wrapped(e) \in {"sequence", "broken"} /\ Wrapped(e) \in Err
    BY <2>1 DEF Wrapped, Err
  <2>3. err' = [err EXCEPT ![from] = Wrapped(e)] /\ Pass(n, from)
    BY <1>7, <1>10
  <2> HIDE DEF from
  <2> QED
    BY <1>1, <1>2, <1>3, <1>5, <2>2, <2>3, PassInv
<1> QED
  BY <1>8, <1>9, <1>10

(* Nothing but the answer changes, or nothing at all.                       *)
LEMMA AnswerInv == ASSUME ServeInv, ReadResults \/ UNCHANGED allVars PROVE ServeInv'
<1>1. UNCHANGED <<vars, step, input, seen, sent, err>> /\ answer' \in Err \cup {""}
  <2>1. CASE UNCHANGED allVars
    BY <2>1 DEF allVars, serving, ServeInv, ServeTypeOK
  <2>2. CASE ReadResults
    <3>1. \A i \in Items : sent[i] # NoItem
      BY <2>2 DEF ReadResults
    <3>2. Items \subseteq Names
      BY DEF Items, Sequences, Independent, Names, ServeInv, LoadInv, TypeOK
    <3>3. \A i \in Items : err[sent[i]] \in Err
      BY <3>1, <3>2 DEF ServeInv, ServeTypeOK
    <3> QED
      BY <2>2, <3>3 DEF ReadResults, Err, Outcome
  <2> QED
    BY <2>1, <2>2
<1>2. LoadInv'
  BY <1>1, LoadingInv DEF ServeInv
<1>3. /\ \A m : Deps(m)' = Deps(m) /\ Arrived(m)' = Arrived(m)
      /\ \A m, k : Dep(m, k)' = Dep(m, k)
  BY <1>1 DEF Deps, Dep, Arrived, vars
<1>4. ServeTypeOK' /\ ServedWhenLoaded' /\ SentIsMade' /\ DoneHasSent' /\ PassedOnFails'
  BY <1>1 DEF vars, ServeInv, ServeTypeOK, TypeOK, ServedWhenLoaded, SentIsMade, DoneHasSent, PassedOnFails
<1>5. ReadHasArrived' /\ FailsForError' /\ DepsArrived'
  BY <1>1, <1>3 DEF ServeInv, ReadHasArrived, FailsForError, DepsArrived
<1> QED
  BY <1>2, <1>4, <1>5 DEF ServeInv

LEMMA ServingInv == ServeInv /\ [Next]_allVars => ServeInv'
  BY LoadStepInv, StartInv, DrainNextInv, DrainFailsInv, ProduceInv, ProducedInv, AnswerInv
     DEF Next, ServeNext, BlockStep

THEOREM ServeInvariance == Spec => []ServeInv
  BY ServeInitInv, ServingInv, PTL DEF Spec

-------------------------------------------------------------------------------
(* Theorems                                                                *)

(* Every variable of loading and of serving keeps its type.                 *)
THEOREM TypeCorrect == Spec => []ServeTypeOK
<1>1. ServeInv => ServeTypeOK
  BY DEF ServeInv
<1> QED
  BY ServeInvariance, <1>1, PTL

(* Item.Add calls an endpoint circular only if its blocks refer to each     *)
(* other in a circle.                                                       *)
THEOREM OnlyCyclesRefused == Spec => []OnlyCyclesAreRefused
<1>1. ServeInv => OnlyCyclesAreRefused
  BY DEF ServeInv, LoadInv
<1> QED
  BY ServeInvariance, <1>1, PTL

(* Every block of a loaded endpoint is waited for once, and depends on what *)
(* it refers to.                                                            *)
THEOREM BlocksAreAwaited == Spec => []EveryBlockIsAwaited
<1>1. ServeInv => EveryBlockIsAwaited
  BY LoadedIsAwaited DEF ServeInv
<1> QED
  BY ServeInvariance, <1>1, PTL

(* The request of a block is sent after the round trips of all blocks below *)
(* it have come back without an error.                                      *)
THEOREM SequentialExecution == Spec => []ExecutedSequentially
<1>1. ServeInv => ExecutedSequentially
  <2> SUFFICES ASSUME ServeInv, NEW n \in Producers, step[n] = "produce"
               PROVE  \A m \in Below(n) : Arrived(m)
    BY DEF ExecutedSequentially, Arrived
  <2> DEFINE S == {m \in Names : Arrived(m)}
  <2>1. load = "loaded"
    BY NotBeforeLoaded
  <2>2. \A m \in Producers : \A l \in Wanted[m] : \E k \in DOMAIN Deps(m) : Dep(m, k) = l
    BY <2>1, DepFacts, DepsAreReferences DEF ServeInv, Wanted, Names
  <2>3. Wanted[n] \subseteq S
    <3>1. \A k \in DOMAIN Deps(n) : Arrived(Dep(n, k)) /\ Dep(n, k) \in Names
      BY DepFacts DEF ServeInv, ReadHasArrived
    <3> QED
      BY <2>2, <3>1
  <2>4. ASSUME NEW m \in S PROVE Wanted[m] \subseteq S
    <3>1. CASE m \in Producers
      <4>1. \A k \in DOMAIN Deps(m) : Arrived(Dep(m, k)) /\ Dep(m, k) \in Names
        BY <3>1, DepFacts DEF ServeInv, DepsArrived
      <4> QED
        BY <2>2, <3>1, <4>1
    <3>2. CASE m \notin Producers
      BY <3>2 DEF Wanted, RefersTo
    <3> QED
      BY <3>1, <3>2
  <2>5. Below(n) \subseteq S
    <3>1. S \in SUBSET Names
      OBVIOUS
    <3> HIDE DEF S
    <3> QED
      BY <2>3, <2>4, <3>1, ReachableLeast DEF Below
  <2> QED
    BY <2>5
<1> QED
  BY ServeInvariance, <1>1, PTL

(* What an item passes on from below carries the error sequence, unless an  *)
(* error that is not Couper's own has come in between.                      *)
THEOREM FailuresAreSequences == Spec => []DependentsFailAsSequence
<1>1. ServeInv => DependentsFailAsSequence
  <2> SUFFICES ASSUME ServeInv, \A n \in Producers : err[n] \notin {"plain", "broken"},
                      NEW i \in Items, sent[i] \notin {NoItem, i}
               PROVE  err[sent[i]] = "sequence"
    BY DEF DependentsFailAsSequence
  <2>1. i \in Names
    BY DEF Items, Sequences, Independent, Names, ServeInv, LoadInv, TypeOK
  <2>2. sent[i] \in Producers /\ err[sent[i]] \in {"sequence", "broken"}
    BY <2>1 DEF ServeInv, SentIsMade, PassedOnFails
  <2> QED
    BY <2>2
<1> QED
  BY ServeInvariance, <1>1, PTL

===============================================================================
