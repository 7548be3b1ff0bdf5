-------------------------- MODULE ConfigurationProofs -------------------------
(***************************************************************************)
(* In which order any backends are prepared (BackendOrder), and what the   *)
(* configuration says that any files are merged into (MergedFiles).  The   *)
(* first sections are on lists, sets of numbers and the order of names.    *)
(***************************************************************************)
EXTENDS BackendOrder, MergedFiles, FiniteSetTheorems, SequenceTheorems, WellFoundedInduction, TLAPS

-------------------------------------------------------------------------------
(* Lists of values, whatever the values are                                *)

LEMMA SeqValues ==
    ASSUME NEW S, NEW s \in Seq(S)
    PROVE  ToSet(s) \subseteq S /\ IsList(s)
<1>1. DOMAIN s = 1 .. Len(s) /\ Len(s) \in Nat /\ \A i \in DOMAIN s : s[i] \in S
  OBVIOUS
<1>2. \A i \in DOMAIN s : s[i] \in ToSet(s)
  BY Zenon DEF ToSet
<1>3. s = [i \in 1 .. Len(s) |-> s[i]]
  BY <1>1
<1>4. s \in [1 .. Len(s) -> ToSet(s)]
  BY <1>1, <1>2, <1>3
<1>5. s \in Seq(ToSet(s))
  BY <1>1, <1>4
<1> QED
  BY <1>1, <1>5 DEF ToSet, IsList

LEMMA ListEmpty == IsList(<< >>) /\ ToSet(<< >>) = {}
  BY DEF IsList, ToSet

LEMMA ListOne == ASSUME NEW v PROVE IsList(<<v>>) /\ ToSet(<<v>>) = {v}
<1>1. <<v>> \in Seq({v}) /\ 1 \in DOMAIN <<v>> /\ <<v>>[1] = v
  OBVIOUS
<1>2. v \in ToSet(<<v>>)
  BY <1>1, Zenon DEF ToSet
<1> QED
  BY <1>1, <1>2, SeqValues

LEMMA AppendedTo ==
    ASSUME NEW S, NEW s \in Seq(S), NEW v \in S
    PROVE  Append(s, v) \in Seq(S) /\ v \in ToSet(Append(s, v)) /\ ToSet(s) \subseteq ToSet(Append(s, v))
<1> DEFINE t == Append(s, v)
<1>1. /\ t \in Seq(S) /\ Len(t) = Len(s) + 1 /\ t[Len(s) + 1] = v
      /\ \A i \in 1 .. Len(s) : t[i] = s[i]
  BY AppendProperties
<1> HIDE DEF t
<1>2. Len(s) \in Nat /\ DOMAIN s = 1 .. Len(s) /\ DOMAIN t = 1 .. Len(s) + 1
  BY <1>1
<1>3. Len(s) + 1 \in DOMAIN t /\ \A i \in DOMAIN s : i \in DOMAIN t /\ t[i] = s[i]
  BY <1>1, <1>2
<1>4. v \in ToSet(t) /\ ToSet(s) \subseteq ToSet(t)
  BY <1>1, <1>3, Zenon DEF ToSet
<1> QED
  BY <1>1, <1>4 DEF t

LEMMA ListAppend ==
    ASSUME NEW s, IsList(s), NEW v
    PROVE  IsList(Append(s, v)) /\ v \in ToSet(Append(s, v)) /\ ToSet(s) \subseteq ToSet(Append(s, v))
<1> DEFINE S == ToSet(s) \cup {v}
<1>1. s \in Seq(S)
  BY DEF IsList
<1>2. v \in S
  OBVIOUS
<1> HIDE DEF S
<1> QED
  BY <1>1, <1>2, AppendedTo, SeqValues

LEMMA ListConcat ==
    ASSUME NEW s, NEW t, IsList(s), IsList(t)
    PROVE  IsList(s \o t) /\ ToSet(s \o t) = ToSet(s) \cup ToSet(t)
<1> DEFINE S == ToSet(s) \cup ToSet(t)
<1>1. s \in Seq(S) /\ t \in Seq(S)
  BY DEF IsList
<1> HIDE DEF S
<1>2. s \o t \in Seq(S)
  BY <1>1
<1>3. IsList(s \o t) /\ ToSet(s \o t) \subseteq S
  BY <1>2, SeqValues
<1>4. ToSet(s) \subseteq ToSet(s \o t)
  <2>1. \A i \in DOMAIN s : i \in DOMAIN (s \o t) /\ (s \o t)[i] = s[i]
    BY <1>1
  <2> QED
    BY <2>1, Zenon DEF ToSet
<1>5. ToSet(t) \subseteq ToSet(s \o t)
  <2>1. \A i \in DOMAIN t : Len(s) + i \in DOMAIN (s \o t) /\ (s \o t)[Len(s) + i] = t[i]
    BY <1>1
  <2> QED
    BY <2>1, Zenon DEF ToSet
<1> QED
  BY <1>3, <1>4, <1>5 DEF S

LEMMA NotEmpty == ASSUME NEW S, NEW s \in Seq(S), s # << >> PROVE 1 \in DOMAIN s
  OBVIOUS

-------------------------------------------------------------------------------
(* Induction, and the least and the greatest of a set of numbers           *)

(* Induction on the natural numbers, for a set: the least number outside   *)
(* has a predecessor inside.                                               *)
LEMMA SetInduction ==
    ASSUME NEW S, 0 \in S, \A n \in Nat : n \in S => n + 1 \in S
    PROVE  Nat \subseteq S
<1> DEFINE R == {ss \in Nat \X Nat : ss[1] < ss[2]}
<1>0. IsWellFoundedOn(R, Nat)
  BY NatLessThanWellFounded DEF OpToRel
<1>1. SUFFICES ASSUME Nat \ S # {} PROVE FALSE
  OBVIOUS
<1>2. PICK x \in Nat \ S : \A y \in Nat \ S : ~(<<y, x>> \in R)
  <2> HIDE DEF R
  <2> QED
    BY <1>0, <1>1, WFMin
<1>3. x - 1 \in Nat /\ x - 1 \in S
  <2>1. \A y \in Nat \ S : ~(y < x)
    BY <1>2
  <2>2. x # 0
    BY <1>2
  <2> QED
    BY <1>2, <2>1, <2>2
<1>4. QED
  BY <1>2, <1>3

(* The same, up to a number.                                               *)
LEMMA InductionTo ==
    ASSUME NEW N \in Nat, NEW S, 0 \in S, \A n \in 0 .. N - 1 : n \in S => n + 1 \in S
    PROVE  N \in S
<1> DEFINE T == {n \in Nat : n <= N => n \in S}
<1>1. 0 \in T
  OBVIOUS
<1>2. ASSUME NEW n \in Nat, n \in T PROVE n + 1 \in T
  BY <1>2
<1>3. Nat \subseteq T
  <2> HIDE DEF T
  <2> QED
    BY <1>1, <1>2, SetInduction
<1> QED
  BY <1>3

LEMMA Least ==
    ASSUME NEW S \in SUBSET Nat, S # {}
    PROVE  Min(S) \in S /\ \A n \in S : Min(S) <= n
<1> DEFINE R == {ss \in Nat \X Nat : ss[1] < ss[2]}
<1>1. IsWellFoundedOn(R, Nat)
  BY NatLessThanWellFounded DEF OpToRel
<1>2. PICK x \in S : \A y \in S : ~(<<y, x>> \in R)
  <2> HIDE DEF R
  <2> QED
    BY <1>1, WFMin
<1>3. \A y \in S : x <= y
  <2>1. \A y \in S : y \in Nat /\ x \in Nat
    OBVIOUS
  <2>2. \A y \in S : ~(y < x)
    BY <1>2, <2>1
  <2> QED
    BY <2>1, <2>2
<1>4. \E m \in S : \A y \in S : m <= y
  BY <1>3
<1> QED
  BY <1>4 DEF Min

LEMMA Greatest ==
    ASSUME NEW n \in Nat, NEW S \in SUBSET (1 .. n), S # {}
    PROVE  Max(S) \in S /\ \A i \in S : i <= Max(S)
<1> DEFINE R == {n - i : i \in S}
           m == Min(R)
<1>1. R \in SUBSET Nat /\ R # {}
  <2>1. \A i \in S : n - i \in Nat
    OBVIOUS
  <2>2. \E i \in S : n - i \in R
    OBVIOUS
  <2> QED
    BY <2>1, <2>2
<1>2. m \in R /\ \A r \in R : m <= r
  <2> HIDE DEF R
  <2> QED
    BY <1>1, Least
<1>3. PICK x \in S : m = n - x
  BY <1>2
<1>4. ASSUME NEW i \in S PROVE i <= x
  <2>1. n - i \in R
    OBVIOUS
  <2>2. n - x <= n - i
    BY <1>2, <1>3, <2>1
  <2> QED
    BY <2>2
<1>5. \E y \in S : \A i \in S : y >= i
  BY <1>4
<1>6. Max(S) \in S /\ \A i \in S : Max(S) >= i
  BY <1>5 DEF Max
<1> QED
  BY <1>6

LEMMA RankOrders ==
    /\ \A a \in Names : Rank(a) \in Nat
    /\ \A a, b \in Names : Rank(a) = Rank(b) => a = b
<1>1. DOMAIN Lexical = 1 .. Len(Lexical) /\ Len(Lexical) \in Nat
  BY LexicalAssumption DEF IsList
<1>2. ASSUME NEW a \in Names PROVE Rank(a) \in DOMAIN Lexical /\ Lexical[Rank(a)] = a
  <2>1. \E i \in DOMAIN Lexical : Lexical[i] = a
    BY Zenon DEF Names, ToSet
  <2> QED
    BY <2>1, Zenon DEF Rank
<1> QED
  BY <1>1, <1>2

-------------------------------------------------------------------------------
(* The order of the backends                                               *)

LEMMA ListElements ==
    ASSUME NEW s, IsList(s)
    PROVE  /\ Len(s) \in Nat /\ DOMAIN s = 1 .. Len(s)
           /\ \A i \in 1 .. Len(s) : s[i] \in ToSet(s)
<1>1. s \in Seq(ToSet(s))
  BY DEF IsList
<1> QED
  BY <1>1

(* Every name has, before it, what it refers to. *)
InOrder(refs, s) ==
    \A i \in DOMAIN s : s[i] \in DOMAIN refs =>
        \A r \in ToSet(refs[s[i]]) \ {NoName} : \E j \in 1 .. i - 1 : s[j] = r

(* What comes next needs what it refers to in front of it.                 *)
LEMMA InOrderConcat ==
    ASSUME NEW refs, NEW s, NEW t, IsList(s), IsList(t), InOrder(refs, s),
           \A i \in DOMAIN t : t[i] \in DOMAIN refs =>
               \A r \in ToSet(refs[t[i]]) \ {NoName} : r \in ToSet(s) \/ \E j \in 1 .. i - 1 : t[j] = r
    PROVE  InOrder(refs, s \o t)
<1> DEFINE u == s \o t
<1>1. /\ Len(s) \in Nat /\ DOMAIN s = 1 .. Len(s) /\ Len(t) \in Nat /\ DOMAIN t = 1 .. Len(t)
      /\ DOMAIN u = 1 .. Len(s) + Len(t)
      /\ \A i \in 1 .. Len(s) : u[i] = s[i]
      /\ \A i \in 1 .. Len(t) : u[Len(s) + i] = t[i]
  <2>1. s \in Seq(ToSet(s)) /\ t \in Seq(ToSet(t))
    BY DEF IsList
  <2> QED
    BY <2>1
<1> HIDE DEF u
<1> SUFFICES ASSUME NEW i \in DOMAIN u, u[i] \in DOMAIN refs, NEW r \in ToSet(refs[u[i]]) \ {NoName}
             PROVE  \E j \in 1 .. i - 1 : u[j] = r
  BY DEF InOrder, u
<1>2. CASE i <= Len(s)
  <2>1. i \in DOMAIN s /\ u[i] = s[i]
    BY <1>1, <1>2
  <2>2. PICK j \in 1 .. i - 1 : s[j] = r
    BY <2>1 DEF InOrder
  <2>3. u[j] = r
    BY <1>1, <1>2, <2>2
  <2> QED
    BY <2>3
<1>3. CASE i > Len(s)
  <2> DEFINE k == i - Len(s)
  <2>1. k \in DOMAIN t /\ u[i] = t[k]
    BY <1>1, <1>3
  <2>2. CASE r \in ToSet(s)
    <3>1. PICK j \in DOMAIN s : s[j] = r
      BY <2>2, Zenon DEF ToSet
    <3>2. j \in 1 .. i - 1 /\ u[j] = r
      BY <1>1, <1>3, <3>1
    <3> QED
      BY <3>2
  <2>3. CASE \E j \in 1 .. k - 1 : t[j] = r
    <3>1. PICK j \in 1 .. k - 1 : t[j] = r
      BY <2>3
    <3>2. Len(s) + j \in 1 .. i - 1 /\ u[Len(s) + j] = r
      BY <1>1, <1>3, <2>1, <3>1
    <3> QED
      BY <3>2
  <2> QED
    BY <2>1, <2>2, <2>3
<1> QED
  BY <1>1, <1>2, <1>3

LEMMA InOrderAppend ==
    ASSUME NEW refs, NEW s, IsList(s), InOrder(refs, s), NEW n,
           n \in DOMAIN refs => ToSet(refs[n]) \ {NoName} \subseteq ToSet(s)
    PROVE  InOrder(refs, Append(s, n))
<1> DEFINE t == <<n>>
<1>1. IsList(t) /\ DOMAIN t = {1} /\ t[1] = n
  BY ListOne
<1>2. InOrder(refs, s \o t)
  <2> HIDE DEF t
  <2> QED
    BY <1>1, InOrderConcat
<1>3. s \o t = Append(s, n)
  <2>1. s \in Seq(ToSet(s) \cup {n})
    BY DEF IsList
  <2> QED
    BY <2>1
<1> QED
  BY <1>2, <1>3

-------------------------------------------------------------------------------
(* Lists of lists, and lists without repetition                            *)

(* The list that is put together, after each of its parts.                 *)
FlattenSteps(ss, N, f) == f = [i \in 1 .. N |-> IF i = 1 THEN ss[i] ELSE f[i - 1] \o ss[i]]

LEMMA FlattenStepsExist ==
    ASSUME NEW ss, NEW N \in Nat, N > 0
    PROVE  \E f : FlattenSteps(ss, N, f)
<1> DEFINE S == {m \in Nat : \E f : FlattenSteps(ss, m + 1, f)}
<1>1. 0 \in S
  <2>1. FlattenSteps(ss, 0 + 1, [i \in 1 .. 1 |-> ss[1]])
    BY DEF FlattenSteps
  <2> QED
    BY <2>1
<1>2. ASSUME NEW m \in Nat, m \in S PROVE m + 1 \in S
  <2>1. PICK f : FlattenSteps(ss, m + 1, f)
    BY <1>2
  <2> DEFINE last == f[m + 1] \o ss[m + 2]
             g == [i \in 1 .. m + 2 |-> IF i = m + 2 THEN last ELSE f[i]]
  <2>2. \A i \in 1 .. m + 1 : f[i] = IF i = 1 THEN ss[i] ELSE f[i - 1] \o ss[i]
    BY <2>1 DEF FlattenSteps
  <2>3. /\ DOMAIN g = 1 .. m + 2 /\ g = [i \in 1 .. m + 2 |-> g[i]]
        /\ g[m + 2] = last /\ \A i \in 1 .. m + 1 : g[i] = f[i]
    <3> HIDE DEF last
    <3> QED
      OBVIOUS
  <2> HIDE DEF g
  <2>4. \A i \in 1 .. m + 2 : g[i] = IF i = 1 THEN ss[i] ELSE g[i - 1] \o ss[i]
    <3> SUFFICES ASSUME NEW i \in 1 .. m + 2 PROVE g[i] = IF i = 1 THEN ss[i] ELSE g[i - 1] \o ss[i]
      OBVIOUS
    <3>1. CASE i = 1
      <4>1. 1 \in 1 .. m + 1 /\ 1 # m + 2
        OBVIOUS
      <4>2. g[1] = f[1] /\ f[1] = ss[1]
        BY <2>2, <2>3, <4>1
      <4> QED
        BY <3>1, <4>2
    <3>2. CASE i \in 2 .. m + 1
      <4>1. i - 1 \in 1 .. m + 1 /\ i \in 1 .. m + 1 /\ i # 1
        BY <3>2
      <4> QED
        BY <2>2, <2>3, <4>1
    <3>3. CASE i = m + 2
      <4>1. i - 1 = m + 1 /\ m + 1 \in 1 .. m + 1 /\ i # 1
        BY <3>3
      <4> QED
        BY <2>3, <3>3, <4>1
    <3> QED
      BY <3>1, <3>2, <3>3
  <2>5. g = [i \in 1 .. m + 2 |-> IF i = 1 THEN ss[i] ELSE g[i - 1] \o ss[i]]
    BY <2>3, <2>4, Zenon
  <2>6. FlattenSteps(ss, (m + 1) + 1, g)
    <3>1. (m + 1) + 1 = m + 2
      OBVIOUS
    <3> QED
      BY <2>5, <3>1, Zenon DEF FlattenSteps
  <2> QED
    BY <2>6
<1>3. Nat \subseteq S
  <2> HIDE DEF S
  <2> QED
    BY <1>1, <1>2, SetInduction
<1>4. N - 1 \in Nat /\ (N - 1) + 1 = N
  OBVIOUS
<1> QED
  BY <1>3, <1>4

Parts(ss, f) ==
    /\ f[0] = << >> /\ f[Len(ss)] = FlattenSeq(ss)
    /\ \A i \in 1 .. Len(ss) : f[i] = f[i - 1] \o ss[i]

LEMMA Flattened ==
    ASSUME NEW ss, Len(ss) \in Nat, \A i \in 1 .. Len(ss) : IsList(ss[i]), Len(ss) = 0 => ss = << >>
    PROVE  \E f : Parts(ss, f)
<1> DEFINE N == Len(ss)
<1>1. CASE N = 0
  <2> DEFINE g == [i \in {0} |-> << >>]
  <2>1. FlattenSeq(ss) = << >>
    BY <1>1 DEF FlattenSeq
  <2>2. Parts(ss, g)
    BY <1>1, <2>1 DEF Parts
  <2> QED
    BY <2>2
<1>2. CASE N > 0
  <2> DEFINE flatten == CHOOSE f : FlattenSteps(ss, N, f)
             g == [i \in 0 .. N |-> IF i = 0 THEN << >> ELSE flatten[i]]
  <2>1. FlattenSteps(ss, N, flatten)
    BY <1>2, FlattenStepsExist
  <2>2. FlattenSeq(ss) = flatten[N]
    BY <1>2 DEF FlattenSeq, FlattenSteps
  <2> HIDE DEF flatten
  <2>3. << >> \o ss[1] = ss[1]
    BY <1>2 DEF IsList
  <2>4. g[0] = << >> /\ \A i \in 1 .. N : g[i] = flatten[i]
    OBVIOUS
  <2> HIDE DEF g
  <2>5. \A i \in 1 .. N : flatten[i] = IF i = 1 THEN ss[i] ELSE flatten[i - 1] \o ss[i]
    BY <2>1 DEF FlattenSteps
  <2>6. ASSUME NEW i \in 1 .. N PROVE g[i] = g[i - 1] \o ss[i]
    <3>1. CASE i = 1
      <4>1. g[i] = ss[1] /\ i - 1 = 0
        BY <2>4, <2>5, <3>1
      <4> QED
        BY <2>3, <2>4, <3>1, <4>1
    <3>2. CASE i # 1
      <4>1. i - 1 \in 1 .. N
        BY <3>2
      <4> QED
        BY <2>4, <2>5, <3>2, <4>1
    <3> QED
      BY <3>1, <3>2
  <2>7. Parts(ss, g)
    <3>1. N \in 1 .. N
      BY <1>2
    <3> QED
      BY <2>2, <2>4, <2>6, <3>1 DEF Parts
  <2> QED
    BY <2>7
<1> QED
  BY <1>1, <1>2

(* Lists of lists make a list of all that is in them.                      *)
LEMMA FlattenedList ==
    ASSUME NEW ss, Len(ss) \in Nat, \A i \in 1 .. Len(ss) : IsList(ss[i]), Len(ss) = 0 => ss = << >>
    PROVE  /\ IsList(FlattenSeq(ss))
           /\ \A e : e \in ToSet(FlattenSeq(ss)) <=> \E i \in 1 .. Len(ss) : e \in ToSet(ss[i])
<1> DEFINE N == Len(ss)
<1>1. PICK f : Parts(ss, f)
  BY Flattened
<1>0. f[0] = << >> /\ f[N] = FlattenSeq(ss) /\ \A i \in 1 .. N : f[i] = f[i - 1] \o ss[i]
  BY <1>1 DEF Parts
<1> DEFINE P(n) == IsList(f[n]) /\ \A e : e \in ToSet(f[n]) <=> \E i \in 1 .. n : e \in ToSet(ss[i])
           S == {n \in 0 .. N : P(n)}
<1>2. P(0)
  BY <1>0, ListEmpty
<1>3. ASSUME NEW n \in 0 .. N - 1, P(n) PROVE P(n + 1)
  <2>1. P(n) /\ n + 1 \in 1 .. N /\ (n + 1) - 1 = n
    BY <1>3
  <2>2. f[n + 1] = f[n] \o ss[n + 1] /\ IsList(ss[n + 1])
    BY <1>0, <2>1
  <2>3. IsList(f[n + 1]) /\ ToSet(f[n + 1]) = ToSet(f[n]) \cup ToSet(ss[n + 1])
    BY <2>1, <2>2, ListConcat
  <2>4. \A i : i \in 1 .. n + 1 <=> i \in 1 .. n \/ i = n + 1
    OBVIOUS
  <2> QED
    BY <2>1, <2>3, <2>4
<1> HIDE DEF P
<1>4. 0 \in S /\ \A n \in 0 .. N - 1 : n \in S => n + 1 \in S
  BY <1>2, <1>3
<1>5. N \in S
  <2> HIDE DEF S
  <2> QED
    BY <1>4, InductionTo
<1>6. P(N)
  BY <1>5
<1> QED
  BY <1>0, <1>6 DEF P

LEMMA InOrderFlattened ==
    ASSUME NEW refs, NEW ss, Len(ss) \in Nat, Len(ss) = 0 => ss = << >>,
           \A i \in 1 .. Len(ss) : IsList(ss[i]) /\ InOrder(refs, ss[i])
    PROVE  InOrder(refs, FlattenSeq(ss))
<1> DEFINE N == Len(ss)
<1>1. PICK f : Parts(ss, f)
  BY Flattened
<1>0. f[0] = << >> /\ f[N] = FlattenSeq(ss) /\ \A i \in 1 .. N : f[i] = f[i - 1] \o ss[i]
  BY <1>1 DEF Parts
<1> DEFINE S == {n \in 0 .. N : IsList(f[n]) /\ InOrder(refs, f[n])}
<1>2. 0 \in S
  <2>1. InOrder(refs, << >>)
    BY DEF InOrder
  <2> QED
    BY <1>0, <2>1, ListEmpty
<1>3. ASSUME NEW n \in 0 .. N - 1, n \in S PROVE n + 1 \in S
  <2>1. IsList(f[n]) /\ InOrder(refs, f[n]) /\ n + 1 \in 1 .. N /\ (n + 1) - 1 = n
    BY <1>3
  <2>2. f[n + 1] = f[n] \o ss[n + 1] /\ IsList(ss[n + 1]) /\ InOrder(refs, ss[n + 1])
    BY <1>0, <2>1
  <2>3. \A i \in DOMAIN ss[n + 1] : ss[n + 1][i] \in DOMAIN refs =>
            \A r \in ToSet(refs[ss[n + 1][i]]) \ {NoName} : \E j \in 1 .. i - 1 : ss[n + 1][j] = r
    BY <2>2 DEF InOrder
  <2>4. IsList(f[n + 1])
    BY <2>1, <2>2, ListConcat
  <2>5. InOrder(refs, f[n] \o ss[n + 1])
    BY <2>1, <2>2, <2>3, InOrderConcat
  <2>6. InOrder(refs, f[n + 1]) /\ n + 1 \in 0 .. N
    BY <2>1, <2>2, <2>5
  <2> QED
    BY <2>4, <2>6
<1>4. N \in S
  <2> HIDE DEF S
  <2> QED
    BY <1>2, <1>3, InductionTo
<1> QED
  BY <1>0, <1>4
-------------------------------------------------------------------------------
(* What is put together step by step, of values that stay within a set     *)

Steps(N, V, v, F, f) == f \in [0 .. N -> V] /\ f[0] = v /\ \A n \in 1 .. N : f[n] = F[<<n, f[n - 1]>>]

LEMMA StepsExist ==
    ASSUME NEW N \in Nat, NEW V, NEW v \in V, NEW F \in [(1 .. N) \X V -> V]
    PROVE  \E f : Steps(N, V, v, F, f)
<1> DEFINE S == {m \in 0 .. N : \E f : Steps(m, V, v, F, f)}
<1>1. 0 \in S
  <2> DEFINE g == [n \in 0 .. 0 |-> v]
  <2>1. g \in [0 .. 0 -> V] /\ g[0] = v
    OBVIOUS
  <2> HIDE DEF g
  <2>2. Steps(0, V, v, F, g)
    BY <2>1 DEF Steps
  <2> QED
    BY <2>2
<1>2. ASSUME NEW m \in 0 .. N - 1, m \in S PROVE m + 1 \in S
  <2>1. PICK f : Steps(m, V, v, F, f)
    BY <1>2
  <2> DEFINE g == [n \in 0 .. m + 1 |-> IF n = m + 1 THEN F[<<n, f[m]>>] ELSE f[n]]
  <2>2. f[m] \in V /\ m + 1 \in 1 .. N /\ m \in Nat
    BY <1>2, <2>1 DEF Steps
  <2>3. F[<<m + 1, f[m]>>] \in V
    BY <2>2
  <2>4. g \in [0 .. m + 1 -> V]
    BY <2>1, <2>2, <2>3 DEF Steps
  <2>5. g[0] = v /\ g[m + 1] = F[<<m + 1, f[m]>>] /\ \A n \in 0 .. m : g[n] = f[n]
    BY <2>1, <2>2 DEF Steps
  <2> HIDE DEF g
  <2>6. ASSUME NEW n \in 1 .. m + 1 PROVE g[n] = F[<<n, g[n - 1]>>]
    <3>1. CASE n = m + 1
      <4>1. n - 1 = m /\ m \in 0 .. m
        BY <2>2, <3>1
      <4> QED
        BY <2>5, <3>1, <4>1
    <3>2. CASE n \in 1 .. m
      <4>1. n \in 0 .. m /\ n - 1 \in 0 .. m
        BY <2>2, <3>2
      <4> QED
        BY <2>1, <2>5, <3>2, <4>1 DEF Steps
    <3> QED
      BY <2>2, <3>1, <3>2
  <2>7. Steps(m + 1, V, v, F, g)
    BY <2>4, <2>5, <2>6 DEF Steps
  <2> QED
    BY <2>2, <2>7
<1>3. N \in S
  <2> HIDE DEF S
  <2> QED
    BY <1>1, <1>2, InductionTo
<1> QED
  BY <1>3

-------------------------------------------------------------------------------
(* Unique                                                                  *)

UniqueSteps(names, f) ==
    f = [n \in 0 .. Len(names) |->
            IF n = 0 THEN << >>
            ELSE IF names[n] \in ToSet(f[n - 1]) THEN f[n - 1] ELSE Append(f[n - 1], names[n])]

LEMMA UniqueStepsExist ==
    ASSUME NEW names, IsList(names)
    PROVE  \E f : UniqueSteps(names, f)
<1> DEFINE N == Len(names)
           V == Seq(ToSet(names))
           F == [p \in (1 .. N) \X V |->
                    IF names[p[1]] \in ToSet(p[2]) THEN p[2] ELSE Append(p[2], names[p[1]])]
<1>1. N \in Nat /\ \A n \in 1 .. N : names[n] \in ToSet(names)
  BY ListElements
<1>2. F \in [(1 .. N) \X V -> V]
  <2>1. ASSUME NEW p \in (1 .. N) \X V PROVE Append(p[2], names[p[1]]) \in V
    <3>1. p[2] \in Seq(ToSet(names)) /\ names[p[1]] \in ToSet(names)
      BY <1>1
    <3> QED
      BY <3>1, AppendedTo
  <2> QED
    BY <2>1
<1>3. \A n \in 1 .. N, x \in V : F[<<n, x>>] = IF names[n] \in ToSet(x) THEN x ELSE Append(x, names[n])
  OBVIOUS
<1>4. << >> \in V
  OBVIOUS
<1> HIDE DEF F, V
<1>0. PICK f : Steps(N, V, << >>, F, f)
  BY <1>1, <1>2, <1>4, StepsExist
<1>5. f \in [0 .. N -> V] /\ f[0] = << >> /\ \A n \in 1 .. N : f[n] = F[<<n, f[n - 1]>>]
  BY <1>0 DEF Steps
<1>6. \A n \in 1 .. N : f[n] = IF names[n] \in ToSet(f[n - 1]) THEN f[n - 1] ELSE Append(f[n - 1], names[n])
  <2> TAKE n \in 1 .. N
  <2>1. n - 1 \in 0 .. N
    BY <1>1
  <2>2. f[n - 1] \in V
    BY <1>5, <2>1
  <2> QED
    BY <1>3, <1>5, <2>2
<1>7. \A n \in 0 .. N : f[n] = IF n = 0 THEN << >>
            ELSE IF names[n] \in ToSet(f[n - 1]) THEN f[n - 1] ELSE Append(f[n - 1], names[n])
  <2> TAKE n \in 0 .. N
  <2>1. n = 0 \/ n \in 1 .. N
    BY <1>1
  <2>2. n \in 1 .. N => n # 0
    OBVIOUS
  <2> QED
    BY <1>5, <1>6, <2>1, <2>2, Zenon
<1>8. f = [n \in 0 .. N |-> f[n]]
  BY <1>5
<1>9. UniqueSteps(names, f)
  BY <1>7, <1>8, Zenon DEF UniqueSteps
<1> QED
  BY <1>9

(* Of a list in order the first of equal names are in order.               *)
LEMMA UniqueInOrder ==
    ASSUME NEW refs, NEW names, IsList(names), InOrder(refs, names)
    PROVE  InOrder(refs, Unique(names))
<1> DEFINE N == Len(names)
           f == CHOOSE g : UniqueSteps(names, g)
<1>1. UniqueSteps(names, f)
  BY UniqueStepsExist
<1>2. Unique(names) = f[N]
  BY DEF Unique, UniqueSteps
<1> HIDE DEF f
<1>3. N \in Nat /\ DOMAIN names = 1 .. N
  BY ListElements
<1>4. f[0] = << >>
  BY <1>1, <1>3 DEF UniqueSteps
<1>5. ASSUME NEW n \in 0 .. N - 1
      PROVE  f[n + 1] = IF names[n + 1] \in ToSet(f[n]) THEN f[n] ELSE Append(f[n], names[n + 1])
  <2>1. n + 1 \in 0 .. N /\ n + 1 # 0 /\ (n + 1) - 1 = n
    BY <1>3
  <2> QED
    BY <1>1, <2>1 DEF UniqueSteps
<1> DEFINE P(n) == IsList(f[n]) /\ InOrder(refs, f[n]) /\ \A i \in 1 .. n : names[i] \in ToSet(f[n])
           S == {n \in 0 .. N : P(n)}
<1>6. P(0)
  BY <1>4, ListEmpty DEF InOrder
<1>7. ASSUME NEW n \in 0 .. N - 1, P(n) PROVE P(n + 1)
  <2>1. n + 1 \in DOMAIN names /\ \A i : i \in 1 .. n + 1 <=> i \in 1 .. n \/ i = n + 1
    BY <1>3
  <2>2. names[n + 1] \in DOMAIN refs => ToSet(refs[names[n + 1]]) \ {NoName} \subseteq ToSet(f[n])
    <3> SUFFICES ASSUME names[n + 1] \in DOMAIN refs, NEW r \in ToSet(refs[names[n + 1]]) \ {NoName}
                 PROVE  r \in ToSet(f[n])
      OBVIOUS
    <3>1. PICK j \in 1 .. (n + 1) - 1 : names[j] = r
      BY <2>1 DEF InOrder
    <3>2. j \in 1 .. n
      OBVIOUS
    <3> QED
      BY <1>7, <3>1, <3>2
  <2>3. CASE names[n + 1] \in ToSet(f[n])
    <3>1. f[n + 1] = f[n]
      BY <1>5, <2>3
    <3> QED
      BY <1>7, <2>1, <2>3, <3>1
  <2>4. CASE names[n + 1] \notin ToSet(f[n])
    <3>1. f[n + 1] = Append(f[n], names[n + 1])
      BY <1>5, <2>4
    <3>2. InOrder(refs, f[n + 1])
      BY <1>7, <2>2, <3>1, InOrderAppend
    <3>3. IsList(f[n + 1]) /\ names[n + 1] \in ToSet(f[n + 1]) /\ ToSet(f[n]) \subseteq ToSet(f[n + 1])
      BY <1>7, <3>1, ListAppend
    <3> QED
      BY <1>7, <2>1, <3>2, <3>3
  <2> QED
    BY <2>3, <2>4
<1> HIDE DEF P
<1>8. 0 \in S /\ \A n \in 0 .. N - 1 : n \in S => n + 1 \in S
  BY <1>3, <1>6, <1>7
<1>9. N \in S
  <2> HIDE DEF S
  <2> QED
    BY <1>3, <1>8, InductionTo
<1>10. P(N)
  BY <1>9
<1> QED
  BY <1>2, <1>10 DEF P

-------------------------------------------------------------------------------
(* Circles                                                                 *)

RefsOf(refs, n) == IF n \in DOMAIN refs THEN ToSet(refs[n]) ELSE {}

(* What an item refers to, and they refer to, and so on.                   *)
Closed(refs, T) == \A n \in T : RefsOf(refs, n) \subseteq T

Reach(refs, n) == {x \in ItemNames(refs) : \A T \in SUBSET ItemNames(refs) : n \in T /\ Closed(refs, T) => x \in T}

LEMMA RefsAreItems ==
    ASSUME NEW refs
    PROVE  \A n : RefsOf(refs, n) \subseteq ItemNames(refs)
<1>1. \A n \in DOMAIN refs : ToSet(refs[n]) \subseteq ItemNames(refs)
  BY Zenon DEF ItemNames
<1> QED
  BY <1>1 DEF RefsOf

LEMMA ReachSelf ==
    ASSUME NEW refs, NEW n \in ItemNames(refs)
    PROVE  n \in Reach(refs, n)
BY DEF Reach

LEMMA ReachRefs ==
    ASSUME NEW refs, NEW n, NEW d \in RefsOf(refs, n)
    PROVE  Reach(refs, d) \subseteq Reach(refs, n)
<1>1. \A T \in SUBSET ItemNames(refs) : n \in T /\ Closed(refs, T) => d \in T
  BY DEF Closed
<1> QED
  BY <1>1 DEF Reach

LEMMA ReachClosed ==
    ASSUME NEW refs, NEW n
    PROVE  Closed(refs, Reach(refs, n))
<1> SUFFICES ASSUME NEW x \in Reach(refs, n), NEW y \in RefsOf(refs, x)
             PROVE  y \in Reach(refs, n)
  BY Zenon DEF Closed
<1>1. y \in ItemNames(refs)
  BY RefsAreItems
<1>2. \A T \in SUBSET ItemNames(refs) : n \in T /\ Closed(refs, T) => y \in T
  BY DEF Reach, Closed
<1> QED
  BY <1>1, <1>2 DEF Reach

(* Without a circle nobody is reached from what it refers to.              *)
LEMMA NotReached ==
    ASSUME NEW refs, ~Circle(refs), NEW n, NEW d \in RefsOf(refs, n)
    PROVE  n \notin Reach(refs, d)
<1> SUFFICES ASSUME n \in Reach(refs, d) PROVE FALSE
  OBVIOUS
<1> DEFINE S == {x \in ItemNames(refs) : n \in Reach(refs, x)}
<1>1. n \in S /\ d \in S
  <2>1. d \in ItemNames(refs) /\ n \in ItemNames(refs)
    BY RefsAreItems DEF Reach
  <2> QED
    BY <2>1, ReachSelf
<1>2. ASSUME NEW x \in S PROVE RefsOf(refs, x) \cap S # {}
  <2>1. CASE x = n
    BY <1>1, <2>1
  <2>2. CASE x # n
    <3> SUFFICES ASSUME RefsOf(refs, x) \cap S = {} PROVE FALSE
      OBVIOUS
    <3> DEFINE T == {x} \cup UNION {Reach(refs, y) : y \in RefsOf(refs, x)}
    <3>1. n \notin T
      <4>1. \A y \in RefsOf(refs, x) : n \notin Reach(refs, y)
        BY RefsAreItems
      <4> QED
        BY <2>2, <4>1
    <3>2. Closed(refs, T)
      <4> SUFFICES ASSUME NEW z \in T, NEW w \in RefsOf(refs, z) PROVE w \in T
        BY Zenon DEF Closed
      <4>1. CASE z = x
        <5>1. w \in Reach(refs, w)
          BY RefsAreItems, ReachSelf
        <5> QED
          BY <4>1, <5>1
      <4>2. CASE z # x
        <5>1. PICK y \in RefsOf(refs, x) : z \in Reach(refs, y)
          BY <4>2
        <5>2. w \in Reach(refs, y)
          BY <5>1, ReachClosed DEF Closed
        <5> QED
          BY <5>2
      <4> QED
        BY <4>1, <4>2
    <3>3. T \in SUBSET ItemNames(refs) /\ x \in T
      BY DEF Reach
    <3>4. n \in Reach(refs, x)
      OBVIOUS
    <3> HIDE DEF T
    <3> QED
      BY <3>1, <3>2, <3>3, <3>4 DEF Reach
  <2> QED
    BY <2>1, <2>2
<1> HIDE DEF S
<1>3. S \subseteq DOMAIN refs /\ \A x \in S : ToSet(refs[x]) \cap S # {}
  BY <1>2 DEF RefsOf
<1> QED
  BY <1>1, <1>3 DEF Circle

-------------------------------------------------------------------------------
(* The dependencies that Add collects                                      *)

WellFormed(refs) == IsFiniteSet(DOMAIN refs) /\ \A n \in DOMAIN refs : IsList(refs[n])

DepsOf(deps, n) == IF n \in DOMAIN deps THEN ToSet(deps[n]) ELSE {}

MapsTo(names, T) == UNION {[D -> T] : D \in SUBSET names}

Items(refs) == [parent : MapsTo(ItemNames(refs), ItemNames(refs)), circular : BOOLEAN,
                deps : MapsTo(ItemNames(refs), Seq(ItemNames(refs)))]

(* After the references have been added to the item, unless Add panicked.  *)
Grown(items, after, name, references) ==
    \/ after.circular
    \/ /\ ~items.circular
       /\ \A n : /\ DepsOf(items.deps, n) \subseteq DepsOf(after.deps, n)
                 /\ DepsOf(after.deps, n) \subseteq DepsOf(items.deps, n) \cup (IF n = name THEN references ELSE {})
       /\ references \ {NoName} \subseteq DepsOf(after.deps, name)

LEMMA NothingLinked ==
    ASSUME NEW refs
    PROVE  NoItems \in Items(refs) /\ ~NoItems.circular /\ \A n : DepsOf(NoItems.deps, n) = {}
<1>1. \A T : << >> \in MapsTo(ItemNames(refs), T)
  <2> TAKE T
  <2>1. << >> \in [{} -> T]
    OBVIOUS
  <2> QED
    BY <2>1 DEF MapsTo
<1>2. DOMAIN << >> = {}
  OBVIOUS
<1> QED
  BY <1>1, <1>2 DEF NoItems, Items, DepsOf

LEMMA Extended ==
    ASSUME NEW names, NEW T, NEW f \in MapsTo(names, T), NEW n \in names, NEW v \in T
    PROVE  [m \in DOMAIN f \cup {n} |-> IF m = n THEN v ELSE f[m]] \in MapsTo(names, T)
<1>1. PICK D \in SUBSET names : f \in [D -> T]
  BY DEF MapsTo
<1>2. [m \in D \cup {n} |-> IF m = n THEN v ELSE f[m]] \in [D \cup {n} -> T]
  BY <1>1
<1>3. DOMAIN f = D /\ D \cup {n} \in SUBSET names
  BY <1>1
<1> QED
  BY <1>2, <1>3 DEF MapsTo

LEMMA MapsToValue ==
    ASSUME NEW names, NEW T, NEW f \in MapsTo(names, T)
    PROVE  DOMAIN f \subseteq names /\ \A n \in DOMAIN f : f[n] \in T
BY DEF MapsTo

LEMMA AncestorOrNot ==
    ASSUME NEW parent, NEW s, NEW name
    PROVE  hasAncestor(parent, s, name) \in BOOLEAN
<1> DEFINE up == CHOOSE up : up = [n \in 0 .. Cardinality(DOMAIN parent) |->
                     IF n = 0 THEN {s} ELSE {parent[i] : i \in up[n - 1] \cap DOMAIN parent}]
<1>1. hasAncestor(parent, s, name) = (\E n \in DOMAIN up : n > 0 /\ name \in up[n])
  BY DEF hasAncestor
<1> HIDE DEF up
<1>2. (\E n \in DOMAIN up : n > 0 /\ name \in up[n]) \in BOOLEAN
  OBVIOUS
<1> QED
  BY <1>1, <1>2

LEMMA AddItemAdds ==
    ASSUME NEW refs, NEW items \in Items(refs), NEW s \in ItemNames(refs), NEW ref \in ItemNames(refs),
           ~items.circular
    PROVE  AddItem(items, s, ref) \in Items(refs) /\ Grown(items, AddItem(items, s, ref), s, {ref})
<1> DEFINE names  == ItemNames(refs)
           parent == [n \in DOMAIN items.parent \cup {ref} |-> IF n = ref THEN s ELSE items.parent[n]]
           above  == hasAncestor(parent, s, ref)
           before == IF s \in DOMAIN items.deps THEN items.deps[s] ELSE << >>
           longer == Append(before, ref)
           deps   == [n \in DOMAIN items.deps \cup {s} |-> IF n = s THEN longer ELSE items.deps[n]]
           after  == AddItem(items, s, ref)
<1>1. /\ items.parent \in MapsTo(names, names) /\ items.deps \in MapsTo(names, Seq(names))
      /\ items.circular \in BOOLEAN
  BY DEF Items
<1>2. CASE ref = NoName
  <2>1. after = items
    BY <1>2 DEF AddItem
  <2>2. {ref} \ {NoName} = {}
    BY <1>2
  <2>3. \A n : DepsOf(items.deps, n) \subseteq DepsOf(items.deps, n) \cup (IF n = s THEN {ref} ELSE {})
    OBVIOUS
  <2> HIDE DEF after
  <2>4. Grown(items, after, s, {ref})
    BY <2>1, <2>2, <2>3 DEF Grown
  <2> QED
    BY <2>1, <2>4 DEF after
<1>3. CASE ref # NoName
  <2>1. after = [parent |-> parent, circular |-> above, deps |-> IF above THEN items.deps ELSE deps]
    BY <1>3, Zenon DEF AddItem
  <2>2. parent \in MapsTo(names, names)
    BY <1>1, Extended
  <2>3. before \in Seq(names)
    BY <1>1, MapsToValue
  <2>4. longer \in Seq(names) /\ ref \in ToSet(longer)
    <3> HIDE DEF before
    <3> QED
      BY <2>3, AppendedTo
  <2>5. ToSet(longer) = ToSet(before) \cup {ref}
    <3> HIDE DEF before
    <3>1. longer = before \o <<ref>>
      BY <2>3
    <3>2. IsList(before) /\ IsList(<<ref>>) /\ ToSet(<<ref>>) = {ref}
      BY <2>3, SeqValues, ListOne
    <3> HIDE DEF longer
    <3> QED
      BY <3>1, <3>2, ListConcat
  <2>6. deps \in MapsTo(names, Seq(names))
    <3> HIDE DEF longer
    <3> QED
      BY <1>1, <2>4, Extended
  <2>7. above \in BOOLEAN
    BY AncestorOrNot
  <2>8. ToSet(before) = DepsOf(items.deps, s)
    BY ListEmpty DEF DepsOf
  <2>9. \A n : DepsOf(deps, n) = IF n = s THEN ToSet(longer) ELSE DepsOf(items.deps, n)
    <3> TAKE n
    <3> HIDE DEF longer
    <3>1. DOMAIN deps = DOMAIN items.deps \cup {s} /\ \A m \in DOMAIN deps : deps[m] = IF m = s THEN longer ELSE items.deps[m]
      OBVIOUS
    <3> HIDE DEF deps
    <3> QED
      BY <3>1 DEF DepsOf
  <2> HIDE DEF parent, above, before, longer, deps, after
  <2>10. after \in Items(refs)
    <3>1. (IF above THEN items.deps ELSE deps) \in MapsTo(names, Seq(names))
      BY <1>1, <2>6, <2>7
    <3> QED
      BY <2>1, <2>2, <2>7, <3>1 DEF Items
  <2>11. CASE above
    BY <2>1, <2>10, <2>11 DEF Grown, after
  <2>12. CASE ~above
    <3>1. after.deps = deps
      BY <2>1, <2>12
    <3>2. Grown(items, after, s, {ref})
      BY <2>5, <2>8, <2>9, <3>1 DEF Grown
    <3> QED
      BY <2>10, <3>2 DEF after
  <2> QED
    BY <2>11, <2>12
<1> QED
  BY <1>2, <1>3

AddedSteps(items, name, references, f) ==
    f = [j \in 0 .. Len(references) |->
            IF j = 0 THEN items
            ELSE IF f[j - 1].circular THEN f[j - 1] ELSE AddItem(f[j - 1], name, references[j])]

LEMMA AddedStepsExist ==
    ASSUME NEW refs, NEW items \in Items(refs), NEW name \in ItemNames(refs),
           NEW references, IsList(references), ToSet(references) \subseteq ItemNames(refs)
    PROVE  \E f : AddedSteps(items, name, references, f)
<1> DEFINE N == Len(references)
           V == Items(refs)
           F == [p \in (1 .. N) \X V |->
                    IF p[2].circular THEN p[2] ELSE AddItem(p[2], name, references[p[1]])]
<1>1. N \in Nat /\ \A n \in 1 .. N : references[n] \in ItemNames(refs)
  BY ListElements
<1>2. F \in [(1 .. N) \X V -> V]
  <2>1. ASSUME NEW p \in (1 .. N) \X V, ~p[2].circular PROVE AddItem(p[2], name, references[p[1]]) \in V
    <3>1. p[2] \in Items(refs) /\ references[p[1]] \in ItemNames(refs)
      BY <1>1
    <3> QED
      BY <2>1, <3>1, AddItemAdds
  <2> QED
    BY <2>1
<1>3. \A n \in 1 .. N, x \in V : F[<<n, x>>] = IF x.circular THEN x ELSE AddItem(x, name, references[n])
  OBVIOUS
<1> HIDE DEF F
<1>0. PICK f : Steps(N, V, items, F, f)
  <2> HIDE DEF V
  <2>1. items \in V
    BY DEF V
  <2> QED
    BY <1>1, <1>2, <2>1, StepsExist
<1>5. f \in [0 .. N -> V] /\ f[0] = items /\ \A n \in 1 .. N : f[n] = F[<<n, f[n - 1]>>]
  BY <1>0 DEF Steps
<1>6. \A n \in 1 .. N : f[n] = IF f[n - 1].circular THEN f[n - 1] ELSE AddItem(f[n - 1], name, references[n])
  <2> TAKE n \in 1 .. N
  <2>1. n - 1 \in 0 .. N
    BY <1>1
  <2>2. f[n - 1] \in V
    BY <1>5, <2>1
  <2> QED
    BY <1>3, <1>5, <2>2
<1>7. \A n \in 0 .. N : f[n] = IF n = 0 THEN items
            ELSE IF f[n - 1].circular THEN f[n - 1] ELSE AddItem(f[n - 1], name, references[n])
  <2> TAKE n \in 0 .. N
  <2>1. n = 0 \/ n \in 1 .. N
    BY <1>1
  <2>2. n \in 1 .. N => n # 0
    OBVIOUS
  <2> QED
    BY <1>5, <1>6, <2>1, <2>2, Zenon
<1>8. f = [n \in 0 .. N |-> f[n]]
  BY <1>5
<1>9. AddedSteps(items, name, references, f)
  BY <1>7, <1>8, Zenon DEF AddedSteps
<1> QED
  BY <1>9

LEMMA AddedAdds ==
    ASSUME NEW refs, NEW items \in Items(refs), NEW name \in ItemNames(refs),
           NEW references, IsList(references), ToSet(references) \subseteq ItemNames(refs)
    PROVE  /\ Added(items, name, references) \in Items(refs)
           /\ Grown(items, Added(items, name, references), name, ToSet(references))
<1> DEFINE N == Len(references)
           f == CHOOSE g : AddedSteps(items, name, references, g)
<1>1. AddedSteps(items, name, references, f)
  BY AddedStepsExist
<1>2. Added(items, name, references) = f[N]
  BY DEF Added, AddedSteps
<1> HIDE DEF f
<1>3. N \in Nat /\ DOMAIN references = 1 .. N /\ \A n \in 1 .. N : references[n] \in ItemNames(refs)
  BY ListElements
<1>4. f[0] = items
  BY <1>1, <1>3 DEF AddedSteps
<1>5. ASSUME NEW n \in 0 .. N - 1
      PROVE  f[n + 1] = IF f[n].circular THEN f[n] ELSE AddItem(f[n], name, references[n + 1])
  <2>1. n + 1 \in 0 .. N /\ n + 1 # 0 /\ (n + 1) - 1 = n
    BY <1>3
  <2> QED
    BY <1>1, <2>1 DEF AddedSteps
<1> DEFINE first(n) == {references[i] : i \in 1 .. n}
           P(n) == f[n] \in Items(refs) /\ (f[n].circular \/ ~items.circular) /\ Grown(items, f[n], name, first(n))
           S == {n \in 0 .. N : P(n)}
<1>6. P(0)
  <2>1. first(0) = {}
    OBVIOUS
  <2>2. Grown(items, items, name, {})
    BY DEF Grown
  <2> HIDE DEF first
  <2> QED
    BY <1>4, <2>1, <2>2
<1>7. ASSUME NEW n \in 0 .. N - 1, P(n) PROVE P(n + 1)
  <2>1. n + 1 \in 1 .. N /\ references[n + 1] \in ItemNames(refs)
    BY <1>3
  <2>2. first(n + 1) = first(n) \cup {references[n + 1]}
    <3>1. \A i : i \in 1 .. n + 1 <=> i \in 1 .. n \/ i = n + 1
      OBVIOUS
    <3> QED
      BY <3>1
  <2> HIDE DEF first
  <2>3. CASE f[n].circular
    <3>1. f[n + 1] = f[n]
      BY <1>5, <2>3
    <3> QED
      BY <1>7, <2>3, <3>1 DEF Grown
  <2>4. CASE ~f[n].circular
    <3>1. f[n + 1] = AddItem(f[n], name, references[n + 1])
      BY <1>5, <2>4
    <3>2. f[n + 1] \in Items(refs) /\ Grown(f[n], f[n + 1], name, {references[n + 1]})
      BY <1>7, <2>1, <2>4, <3>1, AddItemAdds
    <3>3. Grown(items, f[n + 1], name, first(n + 1))
      BY <1>7, <2>2, <2>4, <3>2 DEF Grown
    <3> QED
      BY <1>7, <2>4, <3>2, <3>3
  <2> QED
    BY <2>3, <2>4
<1>10. first(N) = ToSet(references)
  BY <1>3 DEF ToSet
<1> HIDE DEF P
<1>8. 0 \in S /\ \A n \in 0 .. N - 1 : n \in S => n + 1 \in S
  BY <1>3, <1>6, <1>7
<1>9. N \in S
  <2> HIDE DEF S
  <2> QED
    BY <1>3, <1>8, InductionTo
<1> HIDE DEF first
<1>11. P(N)
  BY <1>9
<1> QED
  BY <1>2, <1>10, <1>11 DEF P

LinkedSteps(refs, order, f) ==
    f = [i \in 0 .. Len(order) |-> IF i = 0 THEN NoItems ELSE Added(f[i - 1], order[i], refs[order[i]])]

LEMMA NameHasList ==
    ASSUME NEW refs, WellFormed(refs), NEW n \in DOMAIN refs
    PROVE  /\ n \in ItemNames(refs) /\ IsList(refs[n]) /\ ToSet(refs[n]) \subseteq ItemNames(refs)
           /\ RefsOf(refs, n) = ToSet(refs[n])
<1>1. ToSet(refs[n]) \subseteq ItemNames(refs)
  BY Zenon DEF ItemNames
<1> QED
  BY <1>1 DEF WellFormed, ItemNames, RefsOf

LEMMA LinkedStepsExist ==
    ASSUME NEW refs, WellFormed(refs), NEW order, IsList(order), ToSet(order) \subseteq DOMAIN refs
    PROVE  \E f : LinkedSteps(refs, order, f)
<1> DEFINE N == Len(order)
           V == Items(refs)
           F == [p \in (1 .. N) \X V |-> Added(p[2], order[p[1]], refs[order[p[1]]])]
<1>1. N \in Nat /\ \A n \in 1 .. N : order[n] \in DOMAIN refs
  BY ListElements
<1>2. F \in [(1 .. N) \X V -> V]
  <2>1. ASSUME NEW p \in (1 .. N) \X V PROVE Added(p[2], order[p[1]], refs[order[p[1]]]) \in V
    <3>1. p[2] \in Items(refs) /\ order[p[1]] \in DOMAIN refs
      BY <1>1
    <3> QED
      BY <3>1, NameHasList, AddedAdds
  <2> QED
    BY <2>1
<1>3. \A n \in 1 .. N, x \in V : F[<<n, x>>] = Added(x, order[n], refs[order[n]])
  OBVIOUS
<1> HIDE DEF F
<1>0. PICK f : Steps(N, V, NoItems, F, f)
  <2> HIDE DEF V
  <2>1. NoItems \in V
    BY NothingLinked DEF V
  <2> QED
    BY <1>1, <1>2, <2>1, StepsExist
<1>5. f \in [0 .. N -> V] /\ f[0] = NoItems /\ \A n \in 1 .. N : f[n] = F[<<n, f[n - 1]>>]
  BY <1>0 DEF Steps
<1>6. \A n \in 1 .. N : f[n] = Added(f[n - 1], order[n], refs[order[n]])
  <2> TAKE n \in 1 .. N
  <2>1. n - 1 \in 0 .. N
    BY <1>1
  <2>2. f[n - 1] \in V
    BY <1>5, <2>1
  <2> QED
    BY <1>3, <1>5, <2>2
<1>7. \A n \in 0 .. N : f[n] = IF n = 0 THEN NoItems ELSE Added(f[n - 1], order[n], refs[order[n]])
  <2> TAKE n \in 0 .. N
  <2>1. n = 0 \/ n \in 1 .. N
    BY <1>1
  <2>2. n \in 1 .. N => n # 0
    OBVIOUS
  <2> QED
    BY <1>5, <1>6, <2>1, <2>2, Zenon
<1>8. f = [n \in 0 .. N |-> f[n]]
  BY <1>5
<1>9. LinkedSteps(refs, order, f)
  BY <1>7, <1>8, Zenon DEF LinkedSteps
<1> QED
  BY <1>9

(* Unless Add panicked, the items depend on the named ones they refer to.  *)
LEMMA LinkedItems ==
    ASSUME NEW refs, WellFormed(refs), NEW order, IsList(order), ToSet(order) \subseteq DOMAIN refs,
           ~Linked(refs, order).circular
    PROVE  LET deps == Linked(refs, order).deps
           IN  /\ deps \in MapsTo(ItemNames(refs), Seq(ItemNames(refs)))
               /\ \A n : DepsOf(deps, n) \subseteq RefsOf(refs, n)
               /\ \A n \in ToSet(order) : RefsOf(refs, n) \ {NoName} \subseteq DepsOf(deps, n)
<1> DEFINE N == Len(order)
           f == CHOOSE g : LinkedSteps(refs, order, g)
<1>1. LinkedSteps(refs, order, f)
  BY LinkedStepsExist
<1>2. Linked(refs, order) = f[N]
  BY DEF Linked, LinkedSteps
<1> HIDE DEF f
<1>3. N \in Nat /\ DOMAIN order = 1 .. N /\ \A n \in 1 .. N : order[n] \in DOMAIN refs
  BY ListElements
<1>4. f[0] = NoItems
  BY <1>1, <1>3 DEF LinkedSteps
<1>5. ASSUME NEW n \in 0 .. N - 1
      PROVE  f[n + 1] = Added(f[n], order[n + 1], refs[order[n + 1]])
  <2>1. n + 1 \in 0 .. N /\ n + 1 # 0 /\ (n + 1) - 1 = n
    BY <1>3
  <2> QED
    BY <1>1, <2>1 DEF LinkedSteps
<1> DEFINE P(n) == /\ f[n] \in Items(refs)
                   /\ ~f[n].circular =>
                          /\ \A m : DepsOf(f[n].deps, m) \subseteq RefsOf(refs, m)
                          /\ \A i \in 1 .. n : RefsOf(refs, order[i]) \ {NoName} \subseteq DepsOf(f[n].deps, order[i])
           S == {n \in 0 .. N : P(n)}
<1>6. P(0)
  BY <1>4, NothingLinked
<1>7. ASSUME NEW n \in 0 .. N - 1, P(n) PROVE P(n + 1)
  <2> DEFINE name == order[n + 1]
  <2>1. name \in DOMAIN refs /\ \A i : i \in 1 .. n + 1 <=> i \in 1 .. n \/ i = n + 1
    BY <1>3
  <2>2. name \in ItemNames(refs) /\ IsList(refs[name]) /\ ToSet(refs[name]) \subseteq ItemNames(refs) /\ RefsOf(refs, name) = ToSet(refs[name])
    BY <2>1, NameHasList
  <2>3. f[n + 1] \in Items(refs) /\ Grown(f[n], f[n + 1], name, RefsOf(refs, name))
    BY <1>5, <1>7, <2>2, AddedAdds
  <2> HIDE DEF name
  <2>4. CASE ~f[n + 1].circular
    <3>1. /\ ~f[n].circular
          /\ \A m : /\ DepsOf(f[n].deps, m) \subseteq DepsOf(f[n + 1].deps, m)
                    /\ DepsOf(f[n + 1].deps, m) \subseteq DepsOf(f[n].deps, m) \cup (IF m = name THEN RefsOf(refs, name) ELSE {})
          /\ RefsOf(refs, name) \ {NoName} \subseteq DepsOf(f[n + 1].deps, name)
      BY <2>3, <2>4 DEF Grown
    <3>2. \A m : DepsOf(f[n + 1].deps, m) \subseteq RefsOf(refs, m)
      BY <1>7, <3>1
    <3>3. \A i \in 1 .. n + 1 : RefsOf(refs, order[i]) \ {NoName} \subseteq DepsOf(f[n + 1].deps, order[i])
      <4> TAKE i \in 1 .. n + 1
      <4>1. CASE i \in 1 .. n
        BY <1>7, <3>1, <4>1
      <4>2. CASE i = n + 1
        BY <3>1, <4>2 DEF name
      <4> QED
        BY <2>1, <4>1, <4>2
    <3> QED
      BY <2>3, <3>2, <3>3
  <2> QED
    BY <2>3, <2>4
<1> HIDE DEF P
<1>8. 0 \in S /\ \A n \in 0 .. N - 1 : n \in S => n + 1 \in S
  BY <1>3, <1>6, <1>7
<1>9. N \in S
  <2> HIDE DEF S
  <2> QED
    BY <1>3, <1>8, InductionTo
<1>10. P(N)
  BY <1>9
<1>11. \A n \in ToSet(order) : \E i \in 1 .. N : n = order[i]
  BY <1>3 DEF ToSet
<1>12. f[N].deps \in MapsTo(ItemNames(refs), Seq(ItemNames(refs)))
  BY <1>10 DEF P, Items
<1> QED
  BY <1>2, <1>10, <1>11, <1>12 DEF P

-------------------------------------------------------------------------------
(* Resolving                                                               *)

LEMMA Reversed ==
    ASSUME NEW T, NEW s \in Seq(T)
    PROVE  Reverse(s) \in Seq(T) /\ Len(Reverse(s)) = Len(s) /\ ToSet(Reverse(s)) = ToSet(s)
<1> DEFINE n == Len(s)
           r == Reverse(s)
<1>1. n \in Nat /\ DOMAIN s = 1 .. n /\ \A i \in 1 .. n : s[i] \in T
  OBVIOUS
<1>2. r = [i \in 1 .. n |-> s[(n - i) + 1]]
  BY DEF Reverse
<1>3. \A i \in 1 .. n : (n - i) + 1 \in 1 .. n /\ (n - ((n - i) + 1)) + 1 = i
  BY <1>1
<1>4. r \in [1 .. n -> T]
  BY <1>1, <1>2, <1>3
<1>5. r \in Seq(T) /\ Len(r) = n /\ DOMAIN r = 1 .. n /\ \A i \in 1 .. n : r[i] = s[(n - i) + 1]
  BY <1>1, <1>2, <1>4
<1> HIDE DEF r
<1>6. ToSet(r) \subseteq ToSet(s)
  <2>1. \A i \in DOMAIN r : \E k \in DOMAIN s : r[i] = s[k]
    BY <1>1, <1>3, <1>5
  <2> QED
    BY <2>1, Zenon DEF ToSet
<1>7. \A i \in 1 .. n : s[i] = r[(n - i) + 1]
  <2> TAKE i \in 1 .. n
  <2> DEFINE k == (n - i) + 1
  <2>1. k \in 1 .. n /\ (n - k) + 1 = i
    BY <1>3
  <2> HIDE DEF k
  <2>2. r[k] = s[i]
    BY <1>5, <2>1
  <2> QED
    BY <2>2 DEF k
<1>8. ToSet(s) \subseteq ToSet(r)
  <2>1. \A i \in DOMAIN s : \E k \in DOMAIN r : s[i] = r[k]
    BY <1>1, <1>3, <1>5, <1>7
  <2> QED
    BY <2>1, Zenon DEF ToSet
<1> QED
  BY <1>5, <1>6, <1>8 DEF r

OwnDeps(deps, item) == IF item \in DOMAIN deps THEN Reverse(deps[item]) ELSE << >>

Resolvers(refs) == [ItemNames(refs) \X Progress(refs) -> Progress(refs)]

Seen(state, item) == [state EXCEPT !.seen = @ \cup {item}]

DoneSteps(own, resolve, item, state, f) ==
    f = [i \in 0 .. Len(own) |->
            IF i = 0 THEN Seen(state, item)
            ELSE IF own[i] \in f[i - 1].seen THEN f[i - 1] ELSE resolve[<<own[i], f[i - 1]>>]]

LEMMA OwnDepsList ==
    ASSUME NEW refs, NEW deps \in MapsTo(ItemNames(refs), Seq(ItemNames(refs))), NEW item
    PROVE  /\ OwnDeps(deps, item) \in Seq(ItemNames(refs)) /\ IsList(OwnDeps(deps, item))
           /\ ToSet(OwnDeps(deps, item)) = DepsOf(deps, item)
<1>1. CASE item \in DOMAIN deps
  <2>1. deps[item] \in Seq(ItemNames(refs))
    BY <1>1, MapsToValue
  <2> QED
    BY <1>1, <2>1, Reversed, SeqValues DEF OwnDeps, DepsOf
<1>2. CASE item \notin DOMAIN deps
  BY <1>2, ListEmpty DEF OwnDeps, DepsOf
<1> QED
  BY <1>1, <1>2

LEMMA SeenProgress ==
    ASSUME NEW refs, NEW state \in Progress(refs), NEW item \in ItemNames(refs)
    PROVE  /\ Seen(state, item) \in Progress(refs)
           /\ Seen(state, item).seen = state.seen \cup {item}
           /\ Seen(state, item).resolved = state.resolved
BY DEF Seen, Progress

LEMMA DoneStepsExist ==
    ASSUME NEW refs, NEW own \in Seq(ItemNames(refs)), NEW resolve \in Resolvers(refs),
           NEW item \in ItemNames(refs), NEW state \in Progress(refs)
    PROVE  \E f : DoneSteps(own, resolve, item, state, f) /\ f \in [0 .. Len(own) -> Progress(refs)]
<1> DEFINE N == Len(own)
           V == Progress(refs)
           F == [p \in (1 .. N) \X V |-> IF own[p[1]] \in p[2].seen THEN p[2] ELSE resolve[<<own[p[1]], p[2]>>]]
<1>1. N \in Nat /\ \A n \in 1 .. N : own[n] \in ItemNames(refs)
  OBVIOUS
<1>2. F \in [(1 .. N) \X V -> V]
  <2>1. ASSUME NEW p \in (1 .. N) \X V PROVE resolve[<<own[p[1]], p[2]>>] \in V
    <3>1. <<own[p[1]], p[2]>> \in ItemNames(refs) \X Progress(refs)
      BY <1>1
    <3> QED
      BY <3>1 DEF Resolvers
  <2> QED
    BY <2>1
<1>3. \A n \in 1 .. N, x \in V : F[<<n, x>>] = IF own[n] \in x.seen THEN x ELSE resolve[<<own[n], x>>]
  OBVIOUS
<1> HIDE DEF F
<1>0. PICK f : Steps(N, V, Seen(state, item), F, f)
  <2>1. Seen(state, item) \in V
    BY SeenProgress
  <2> HIDE DEF V
  <2> QED
    BY <1>1, <1>2, <2>1, StepsExist
<1>5. f \in [0 .. N -> V] /\ f[0] = Seen(state, item) /\ \A n \in 1 .. N : f[n] = F[<<n, f[n - 1]>>]
  BY <1>0 DEF Steps
<1>6. \A n \in 1 .. N : f[n] = IF own[n] \in f[n - 1].seen THEN f[n - 1] ELSE resolve[<<own[n], f[n - 1]>>]
  <2> TAKE n \in 1 .. N
  <2>1. n - 1 \in 0 .. N
    BY <1>1
  <2>2. f[n - 1] \in V
    BY <1>5, <2>1
  <2> QED
    BY <1>3, <1>5, <2>2
<1>7. \A n \in 0 .. N : f[n] = IF n = 0 THEN Seen(state, item)
            ELSE IF own[n] \in f[n - 1].seen THEN f[n - 1] ELSE resolve[<<own[n], f[n - 1]>>]
  <2> TAKE n \in 0 .. N
  <2>1. n = 0 \/ n \in 1 .. N
    BY <1>1
  <2>2. n \in 1 .. N => n # 0
    OBVIOUS
  <2> QED
    BY <1>5, <1>6, <2>1, <2>2, Zenon
<1>8. f = [n \in 0 .. N |-> f[n]]
  BY <1>5
<1>9. DoneSteps(own, resolve, item, state, f)
  BY <1>7, <1>8, Zenon DEF DoneSteps
<1> QED
  BY <1>5, <1>9

(* The steps of a call, and what it returns.                               *)
LEMMA ItemSteps ==
    ASSUME NEW refs, NEW deps \in MapsTo(ItemNames(refs), Seq(ItemNames(refs))), NEW resolve \in Resolvers(refs),
           NEW item \in ItemNames(refs), NEW state \in Progress(refs)
    PROVE  LET own == OwnDeps(deps, item)
           IN  \E f \in [0 .. Len(own) -> Progress(refs)] :
                   /\ f[0] = Seen(state, item)
                   /\ \A n \in 1 .. Len(own) :
                          f[n] = IF own[n] \in f[n - 1].seen THEN f[n - 1] ELSE resolve[<<own[n], f[n - 1]>>]
                   /\ ResolvedItem(deps, resolve, item, state) =
                          [f[Len(own)] EXCEPT !.resolved = Append(@, item)]
<1> DEFINE own == OwnDeps(deps, item)
           f == CHOOSE g : DoneSteps(own, resolve, item, state, g)
<1>1. own \in Seq(ItemNames(refs)) /\ Len(own) \in Nat
  BY OwnDepsList
<1>2. DoneSteps(own, resolve, item, state, f)
  <2> HIDE DEF own
  <2> QED
    BY <1>1, DoneStepsExist
<1>3. ResolvedItem(deps, resolve, item, state) = [f[Len(own)] EXCEPT !.resolved = Append(@, item)]
  BY Zenon DEF ResolvedItem, OwnDeps, DoneSteps, Seen
<1>4. PICK g \in [0 .. Len(own) -> Progress(refs)] : DoneSteps(own, resolve, item, state, g)
  <2> HIDE DEF own
  <2> QED
    BY <1>1, DoneStepsExist
<1> HIDE DEF f, own
<1>5. f[0] = Seen(state, item)
  BY <1>1, <1>2 DEF DoneSteps
<1>6. \A n \in 1 .. Len(own) : f[n] = IF own[n] \in f[n - 1].seen THEN f[n - 1] ELSE resolve[<<own[n], f[n - 1]>>]
  BY <1>1, <1>2 DEF DoneSteps
<1>7. \A n \in 0 .. Len(own) : f[n] \in Progress(refs)
  <2> DEFINE S == {n \in 0 .. Len(own) : f[n] \in Progress(refs)}
  <2>1. 0 \in S
    BY <1>1, <1>5, SeenProgress
  <2>2. ASSUME NEW n \in 0 .. Len(own) - 1, n \in S PROVE n + 1 \in S
    <3>1. n + 1 \in 1 .. Len(own) /\ (n + 1) - 1 = n /\ own[n + 1] \in ItemNames(refs)
      BY <1>1
    <3>2. <<own[n + 1], f[n]>> \in ItemNames(refs) \X Progress(refs)
      BY <2>2, <3>1
    <3>3. resolve[<<own[n + 1], f[n]>>] \in Progress(refs)
      BY <3>2 DEF Resolvers
    <3>4. f[n + 1] = IF own[n + 1] \in f[n].seen THEN f[n] ELSE resolve[<<own[n + 1], f[n]>>]
      BY <1>6, <3>1
    <3> QED
      BY <2>2, <3>1, <3>3, <3>4
  <2>3. ASSUME NEW n \in 0 .. Len(own) PROVE n \in S
    <3>1. \A m \in 0 .. n - 1 : m \in S => m + 1 \in S
      BY <1>1, <2>2
    <3> HIDE DEF S
    <3> QED
      BY <2>1, <3>1, InductionTo
  <2> QED
    BY <2>3
<1>8. f = [n \in 0 .. Len(own) |-> f[n]]
  <2> QED
    BY <1>2 DEF DoneSteps
<1>9. f \in [0 .. Len(own) -> Progress(refs)]
  BY <1>7, <1>8
<1> QED
  BY <1>3, <1>5, <1>6, <1>9 DEF own

(* The items seen and not resolved, which wait for what they depend on.    *)
Open(state) == state.seen \ ToSet(state.resolved)

Sound(refs, state) ==
    state \in Progress(refs) /\ ToSet(state.resolved) \subseteq state.seen /\ InOrder(refs, state.resolved)

(* No item that waits is reached from the one that is resolved next.       *)
Callable(refs, item, state, depth) ==
    /\ Sound(refs, state) /\ item \in ItemNames(refs) /\ item \notin state.seen
    /\ Open(state) \cap Reach(refs, item) = {}
    /\ Cardinality(ItemNames(refs) \ state.seen) <= depth

Resolves(refs, item, state, result) ==
    /\ Sound(refs, result) /\ state.seen \subseteq result.seen
    /\ Open(result) = Open(state) /\ item \in ToSet(result.resolved)

DepsMatch(refs, deps) ==
    /\ deps \in MapsTo(ItemNames(refs), Seq(ItemNames(refs)))
    /\ \A n : DepsOf(deps, n) \subseteq RefsOf(refs, n)
    /\ \A n \in DOMAIN refs : RefsOf(refs, n) \ {NoName} \subseteq DepsOf(deps, n)

LEMMA ImageFinite ==
    ASSUME NEW f, IsFiniteSet(DOMAIN f)
    PROVE  IsFiniteSet({f[x] : x \in DOMAIN f})
<1> DEFINE T == {f[x] : x \in DOMAIN f}
           g == [x \in DOMAIN f |-> f[x]]
<1>1. g \in Surjection(DOMAIN f, T)
  BY DEF Surjection
<1> HIDE DEF T, g
<1>2. IsFiniteSet(T)
  BY <1>1, FS_Surjection
<1> QED
  BY <1>2 DEF T

LEMMA ItemsFinite ==
    ASSUME NEW refs, WellFormed(refs)
    PROVE  IsFiniteSet(ItemNames(refs))
<1> DEFINE f == [n \in DOMAIN refs |-> ToSet(refs[n])]
           T == {f[n] : n \in DOMAIN f}
<1>1. IsFiniteSet(T)
  <2>1. IsFiniteSet(DOMAIN f)
    BY DEF WellFormed
  <2> HIDE DEF f
  <2> QED
    BY <2>1, ImageFinite
<1>2. ASSUME NEW n \in DOMAIN refs PROVE IsFiniteSet(ToSet(refs[n]))
  <2>1. DOMAIN refs[n] = 1 .. Len(refs[n]) /\ Len(refs[n]) \in Nat
    BY ListElements DEF WellFormed
  <2>2. IsFiniteSet(DOMAIN refs[n])
    BY <2>1, FS_Interval
  <2> QED
    BY <2>2, ImageFinite DEF ToSet
<1>3. IsFiniteSet(UNION T)
  <2>1. \A X \in T : IsFiniteSet(X)
    BY <1>2
  <2> HIDE DEF T
  <2> QED
    BY <1>1, <2>1, FS_UNION
<1>4. T = {ToSet(refs[n]) : n \in DOMAIN refs}
  OBVIOUS
<1> HIDE DEF T
<1> QED
  BY <1>3, <1>4, FS_Union DEF ItemNames, WellFormed

LEMMA AppendValues ==
    ASSUME NEW s, IsList(s), NEW v
    PROVE  ToSet(Append(s, v)) = ToSet(s) \cup {v}
<1>1. Append(s, v) = s \o <<v>>
  <2>1. s \in Seq(ToSet(s) \cup {v})
    BY DEF IsList
  <2> QED
    BY <2>1
<1> QED
  BY <1>1, ListOne, ListConcat

LEMMA LongerResolved ==
    ASSUME NEW s, NEW seen, NEW resolved, s = [seen |-> seen, resolved |-> resolved], NEW v
    PROVE  [s EXCEPT !.resolved = Append(@, v)] = [seen |-> seen, resolved |-> Append(resolved, v)]
OBVIOUS

LEMMA ItemResolves ==
    ASSUME NEW refs, WellFormed(refs), ~Circle(refs), NEW deps, DepsMatch(refs, deps),
           NEW resolve \in Resolvers(refs), NEW depth \in Nat,
           \A d \in ItemNames(refs), s \in Progress(refs) :
               Callable(refs, d, s, depth) => Resolves(refs, d, s, resolve[<<d, s>>]),
           NEW item, NEW state, Callable(refs, item, state, depth + 1)
    PROVE  Resolves(refs, item, state, ResolvedItem(deps, resolve, item, state))
<1> DEFINE names == ItemNames(refs)
           own   == OwnDeps(deps, item)
           N     == Len(own)
<1>1. /\ deps \in MapsTo(names, Seq(names)) /\ item \in names /\ item \notin state.seen
      /\ state \in Progress(refs) /\ state.seen \subseteq names
      /\ ToSet(state.resolved) \subseteq state.seen /\ InOrder(refs, state.resolved)
      /\ Open(state) \cap Reach(refs, item) = {}
  BY DEF DepsMatch, Callable, Sound, Progress
<1>2. own \in Seq(names) /\ IsList(own) /\ ToSet(own) = DepsOf(deps, item)
  BY <1>1, OwnDepsList
<1>3. PICK f \in [0 .. N -> Progress(refs)] :
          /\ f[0] = Seen(state, item)
          /\ \A n \in 1 .. N : f[n] = IF own[n] \in f[n - 1].seen THEN f[n - 1] ELSE resolve[<<own[n], f[n - 1]>>]
          /\ ResolvedItem(deps, resolve, item, state) = [f[N] EXCEPT !.resolved = Append(@, item)]
  BY <1>1, ItemSteps
<1> HIDE DEF own
<1>4. N \in Nat /\ DOMAIN own = 1 .. N
  BY <1>2
<1> DEFINE P(n) == /\ Sound(refs, f[n]) /\ state.seen \cup {item} \subseteq f[n].seen
                   /\ Open(f[n]) = Open(state) \cup {item}
                   /\ \A i \in 1 .. n : own[i] \in ToSet(f[n].resolved)
           S == {n \in 0 .. N : P(n)}
<1>5. P(0)
  <2>1. f[0].seen = state.seen \cup {item} /\ f[0].resolved = state.resolved /\ f[0] \in Progress(refs)
    BY <1>1, <1>3, SeenProgress
  <2> QED
    BY <1>1, <2>1 DEF Sound, Open
<1>6. ASSUME NEW n \in 0 .. N - 1, P(n) PROVE P(n + 1)
  <2> DEFINE d == own[n + 1]
             before == f[n]
  <2>1. n + 1 \in 1 .. N /\ (n + 1) - 1 = n /\ n \in 0 .. N
    BY <1>4
  <2>2. d \in RefsOf(refs, item) /\ d \in names
    <3>1. d \in ToSet(own)
      BY <1>4, <2>1, Zenon DEF ToSet
    <3> QED
      BY <1>2, <3>1, RefsAreItems DEF DepsMatch
  <2>3. f[n + 1] = IF d \in before.seen THEN before ELSE resolve[<<d, before>>]
    BY <1>3, <2>1
  <2>4. Reach(refs, d) \subseteq Reach(refs, item) /\ item \notin Reach(refs, d) /\ d \in Reach(refs, d)
    BY <2>2, ReachRefs, NotReached, ReachSelf
  <2>5. before \in Progress(refs)
    BY <1>3, <2>1
  <2> HIDE DEF d, before
  <2>6. /\ Sound(refs, before) /\ state.seen \cup {item} \subseteq before.seen
        /\ Open(before) = Open(state) \cup {item}
        /\ \A i \in 1 .. n : own[i] \in ToSet(before.resolved)
    BY <1>6 DEF before
  <2>7. Open(before) \cap Reach(refs, d) = {}
    BY <1>1, <2>4, <2>6
  <2>8. CASE d \in before.seen
    <3>1. d \in ToSet(before.resolved)
      BY <2>4, <2>7, <2>8 DEF Open
    <3>2. f[n + 1] = before
      BY <2>3, <2>8
    <3>3. \A i \in 1 .. n + 1 : own[i] \in ToSet(before.resolved)
      BY <2>6, <3>1 DEF d
    <3> QED
      BY <2>6, <3>2, <3>3
  <2>9. CASE d \notin before.seen
    <3>1. Cardinality(names \ before.seen) <= depth
      <4> DEFINE A == names \ state.seen
      <4>1. IsFiniteSet(A) /\ Cardinality(A) <= depth + 1 /\ item \in A
        BY <1>1, ItemsFinite, FS_Subset DEF Callable
      <4>2. names \ before.seen \subseteq A \ {item}
        BY <2>6
      <4> HIDE DEF A
      <4>3. IsFiniteSet(A \ {item}) /\ Cardinality(A \ {item}) = Cardinality(A) - 1 /\ Cardinality(A) \in Nat
        BY <4>1, FS_RemoveElement, FS_CardinalityType
      <4>4. Cardinality(names \ before.seen) <= Cardinality(A \ {item})
        BY <4>2, <4>3, FS_Subset
      <4>5. Cardinality(names \ before.seen) \in Nat
        BY <4>2, <4>3, FS_Subset, FS_CardinalityType
      <4> QED
        BY <4>1, <4>3, <4>4, <4>5
    <3>2. Callable(refs, d, before, depth)
      BY <2>2, <2>6, <2>7, <2>9, <3>1 DEF Callable
    <3>3. f[n + 1] = resolve[<<d, before>>]
      BY <2>3, <2>9
    <3>4. Resolves(refs, d, before, f[n + 1])
      BY <2>2, <2>5, <3>2, <3>3
    <3>5. /\ Sound(refs, f[n + 1]) /\ before.seen \subseteq f[n + 1].seen
          /\ Open(f[n + 1]) = Open(before) /\ d \in ToSet(f[n + 1].resolved)
      BY <3>4 DEF Resolves
    <3>6. ToSet(before.resolved) \subseteq ToSet(f[n + 1].resolved)
      BY <2>6, <3>5 DEF Open, Sound
    <3>7. \A i \in 1 .. n + 1 : own[i] \in ToSet(f[n + 1].resolved)
      BY <2>6, <3>5, <3>6 DEF d
    <3> QED
      BY <2>6, <3>5, <3>7
  <2> QED
    BY <2>8, <2>9
<1> HIDE DEF P
<1>7. 0 \in S /\ \A n \in 0 .. N - 1 : n \in S => n + 1 \in S
  BY <1>4, <1>5, <1>6
<1>8. N \in S
  <2> HIDE DEF S
  <2> QED
    BY <1>4, <1>7, InductionTo
<1> DEFINE last   == f[N]
           result == [last EXCEPT !.resolved = Append(@, item)]
<1>9. /\ Sound(refs, last) /\ state.seen \cup {item} \subseteq last.seen
      /\ Open(last) = Open(state) \cup {item}
      /\ \A i \in 1 .. N : own[i] \in ToSet(last.resolved)
  BY <1>8 DEF P
<1>10. ResolvedItem(deps, resolve, item, state) = result
  BY <1>3
<1> HIDE DEF last
<1>11. last \in Progress(refs) /\ last.resolved \in Seq(names) /\ last.seen \in SUBSET names /\ InOrder(refs, last.resolved)
  BY <1>9 DEF Sound, Progress
<1>12. result.seen = last.seen /\ result.resolved = Append(last.resolved, item) /\ result \in Progress(refs)
  <2> DEFINE longer == Append(last.resolved, item)
  <2>1. longer \in Seq(names)
    BY <1>1, <1>11, AppendedTo
  <2>2. last = [seen |-> last.seen, resolved |-> last.resolved]
    BY <1>11 DEF Progress
  <2> HIDE DEF longer
  <2>3. result = [seen |-> last.seen, resolved |-> longer]
    BY <2>2, LongerResolved, ZenonT(40) DEF longer
  <2> HIDE DEF result
  <2>4. result.seen = last.seen /\ result.resolved = longer
    BY <2>3
  <2>5. result \in Progress(refs)
    BY <1>11, <2>1, <2>3 DEF Progress
  <2> QED
    BY <2>4, <2>5 DEF longer
<1> HIDE DEF result
<1>13. IsList(last.resolved)
  BY <1>11, SeqValues
<1>14. ToSet(result.resolved) = ToSet(last.resolved) \cup {item}
  BY <1>12, <1>13, AppendValues
<1>15. InOrder(refs, result.resolved)
  <2>1. ASSUME item \in DOMAIN refs PROVE ToSet(refs[item]) \ {NoName} \subseteq ToSet(last.resolved)
    <3>1. ToSet(refs[item]) \ {NoName} \subseteq ToSet(own)
      BY <1>2, <2>1 DEF DepsMatch, RefsOf
    <3>2. ToSet(own) \subseteq ToSet(last.resolved)
      BY <1>4, <1>9 DEF ToSet
    <3> QED
      BY <3>1, <3>2
  <2> QED
    BY <1>11, <1>12, <1>13, <2>1, InOrderAppend
<1>16. Open(result) = Open(state)
  BY <1>1, <1>9, <1>12, <1>14 DEF Open
<1>17. Sound(refs, result)
  BY <1>9, <1>12, <1>14, <1>15 DEF Sound
<1> QED
  BY <1>9, <1>10, <1>12, <1>14, <1>16, <1>17 DEF Resolves

LEMMA ItemProgress ==
    ASSUME NEW refs, NEW deps \in MapsTo(ItemNames(refs), Seq(ItemNames(refs))), NEW resolve \in Resolvers(refs),
           NEW item \in ItemNames(refs), NEW state \in Progress(refs)
    PROVE  ResolvedItem(deps, resolve, item, state) \in Progress(refs)
<1> DEFINE own == OwnDeps(deps, item)
           N   == Len(own)
<1>1. PICK f \in [0 .. N -> Progress(refs)] :
          ResolvedItem(deps, resolve, item, state) = [f[N] EXCEPT !.resolved = Append(@, item)]
  BY ItemSteps
<1>2. N \in Nat
  BY OwnDepsList
<1> DEFINE last == f[N]
<1>3. last \in Progress(refs)
  <2> HIDE DEF N
  <2> QED
    BY <1>1, <1>2
<1> HIDE DEF last
<1>4. last.seen \in SUBSET ItemNames(refs) /\ last.resolved \in Seq(ItemNames(refs))
      /\ last = [seen |-> last.seen, resolved |-> last.resolved]
  BY <1>3 DEF Progress
<1>5. Append(last.resolved, item) \in Seq(ItemNames(refs))
  BY <1>4, AppendedTo
<1>6. [last EXCEPT !.resolved = Append(@, item)] = [seen |-> last.seen, resolved |-> Append(last.resolved, item)]
  BY <1>4, LongerResolved, ZenonT(40)
<1>7. [last EXCEPT !.resolved = Append(@, item)] \in Progress(refs)
  BY <1>4, <1>5, <1>6 DEF Progress
<1> QED
  BY <1>1, <1>7 DEF last

Resolver(refs, deps, resolve) ==
    [call \in ItemNames(refs) \X Progress(refs) |-> ResolvedItem(deps, resolve, call[1], call[2])]

Unresolving(refs) == [call \in ItemNames(refs) \X Progress(refs) |-> call[2]]

ResolveSteps(refs, deps, f) ==
    f = [depth \in 0 .. Cardinality(ItemNames(refs)) |->
            [call \in ItemNames(refs) \X Progress(refs) |->
                IF depth = 0 THEN call[2] ELSE ResolvedItem(deps, f[depth - 1], call[1], call[2])]]

LEMMA ResolverResolves ==
    ASSUME NEW refs, NEW deps \in MapsTo(ItemNames(refs), Seq(ItemNames(refs))), NEW resolve \in Resolvers(refs)
    PROVE  Resolver(refs, deps, resolve) \in Resolvers(refs)
<1>1. ASSUME NEW call \in ItemNames(refs) \X Progress(refs)
      PROVE  ResolvedItem(deps, resolve, call[1], call[2]) \in Progress(refs)
  <2>1. call[1] \in ItemNames(refs) /\ call[2] \in Progress(refs)
    OBVIOUS
  <2> QED
    BY <2>1, ItemProgress
<1> QED
  BY <1>1 DEF Resolver, Resolvers

LEMMA ResolveStepsExist ==
    ASSUME NEW refs, WellFormed(refs), NEW deps \in MapsTo(ItemNames(refs), Seq(ItemNames(refs)))
    PROVE  \E f : ResolveSteps(refs, deps, f)
<1> DEFINE N == Cardinality(ItemNames(refs))
           V == Resolvers(refs)
           F == [p \in (1 .. N) \X V |-> Resolver(refs, deps, p[2])]
<1>1. N \in Nat
  BY ItemsFinite, FS_CardinalityType
<1>2. F \in [(1 .. N) \X V -> V]
  <2>1. ASSUME NEW p \in (1 .. N) \X V PROVE Resolver(refs, deps, p[2]) \in V
    <3>1. p[2] \in Resolvers(refs)
      OBVIOUS
    <3> QED
      BY <3>1, ResolverResolves
  <2> QED
    BY <2>1
<1>3. \A n \in 1 .. N, x \in V : F[<<n, x>>] = Resolver(refs, deps, x)
  OBVIOUS
<1>4. Unresolving(refs) \in V
  BY DEF Unresolving, Resolvers
<1> HIDE DEF F, N, V
<1>5. PICK f : Steps(N, V, Unresolving(refs), F, f)
  BY <1>1, <1>2, <1>4, StepsExist
<1>6. f \in [0 .. N -> V] /\ f[0] = Unresolving(refs) /\ \A n \in 1 .. N : f[n] = F[<<n, f[n - 1]>>]
  BY <1>5 DEF Steps
<1>7. \A n \in 1 .. N : f[n] = Resolver(refs, deps, f[n - 1])
  <2> TAKE n \in 1 .. N
  <2>1. n - 1 \in 0 .. N
    BY <1>1
  <2>2. f[n - 1] \in V
    BY <1>6, <2>1
  <2> QED
    BY <1>3, <1>6, <2>2
<1>8. ASSUME NEW n \in 0 .. N
      PROVE  f[n] = [call \in ItemNames(refs) \X Progress(refs) |->
                        IF n = 0 THEN call[2] ELSE ResolvedItem(deps, f[n - 1], call[1], call[2])]
  <2>1. CASE n = 0
    <3>1. f[n] = Unresolving(refs)
      BY <1>6, <2>1
    <3> QED
      BY <2>1, <3>1, Zenon DEF Unresolving
  <2>2. CASE n # 0
    <3>1. n \in 1 .. N
      BY <1>1, <2>2
    <3>2. f[n] = Resolver(refs, deps, f[n - 1])
      BY <1>7, <3>1
    <3> QED
      BY <2>2, <3>2, Zenon DEF Resolver
  <2> QED
    BY <2>1, <2>2
<1>9. f = [n \in 0 .. N |-> f[n]]
  BY <1>6
<1>10. ResolveSteps(refs, deps, f)
  BY <1>8, <1>9, Zenon DEF ResolveSteps, N
<1> QED
  BY <1>10

(* What a backend depends on comes before it, and it comes.                *)
LEMMA ResolvedInOrder ==
    ASSUME NEW refs, WellFormed(refs), ~Circle(refs), NEW deps, DepsMatch(refs, deps), NEW name \in ItemNames(refs)
    PROVE  /\ IsList(Resolved(refs, deps, name)) /\ InOrder(refs, Resolved(refs, deps, name))
           /\ name \in ToSet(Resolved(refs, deps, name))
<1> DEFINE names == ItemNames(refs)
           N     == Cardinality(names)
           f     == CHOOSE g : ResolveSteps(refs, deps, g)
           start == [seen |-> {}, resolved |-> << >>]
<1>1. deps \in MapsTo(names, Seq(names))
  BY DEF DepsMatch
<1>2. ResolveSteps(refs, deps, f)
  BY <1>1, ResolveStepsExist
<1>3. Resolved(refs, deps, name) = f[N][<<name, start>>].resolved
  BY Zenon DEF Resolved, ResolveSteps
<1> HIDE DEF f
<1>4. N \in Nat
  BY ItemsFinite, FS_CardinalityType
<1>5. f[0] = Unresolving(refs)
  <2>1. f[0] = [call \in names \X Progress(refs) |-> IF 0 = 0 THEN call[2] ELSE ResolvedItem(deps, f[0 - 1], call[1], call[2])]
    <3>1. 0 \in 0 .. N
      BY <1>4
    <3> QED
      BY <1>2, <3>1, Zenon DEF ResolveSteps
  <2> QED
    BY <2>1, Zenon DEF Unresolving
<1>6. ASSUME NEW n \in 0 .. N - 1 PROVE f[n + 1] = Resolver(refs, deps, f[n])
  <2>1. n + 1 \in 0 .. N /\ n + 1 # 0 /\ (n + 1) - 1 = n
    BY <1>4
  <2>2. f[n + 1] = [call \in names \X Progress(refs) |->
                       IF n + 1 = 0 THEN call[2] ELSE ResolvedItem(deps, f[(n + 1) - 1], call[1], call[2])]
    BY <1>2, <2>1, Zenon DEF ResolveSteps
  <2> QED
    BY <2>1, <2>2, Zenon DEF Resolver
<1> DEFINE P(n) == /\ f[n] \in Resolvers(refs)
                   /\ \A d \in names, s \in Progress(refs) :
                          Callable(refs, d, s, n) => Resolves(refs, d, s, f[n][<<d, s>>])
           S == {n \in 0 .. N : P(n)}
<1>7. P(0)
  <2>1. f[0] \in Resolvers(refs)
    BY <1>5 DEF Unresolving, Resolvers
  <2>2. ASSUME NEW d \in names, NEW s \in Progress(refs), Callable(refs, d, s, 0) PROVE FALSE
    <3> DEFINE A == names \ s.seen
    <3>1. IsFiniteSet(A) /\ Cardinality(A) <= 0 /\ d \in A
      BY <2>2, ItemsFinite, FS_Subset DEF Callable
    <3> HIDE DEF A
    <3>2. Cardinality(A) = 0
      BY <3>1, FS_CardinalityType
    <3>3. A = {}
      BY <3>1, <3>2, FS_EmptySet
    <3> QED
      BY <3>1, <3>3
  <2> QED
    BY <2>1, <2>2
<1>8. ASSUME NEW n \in 0 .. N - 1, P(n) PROVE P(n + 1)
  <2>1. f[n + 1] = Resolver(refs, deps, f[n]) /\ f[n] \in Resolvers(refs)
    BY <1>6, <1>8
  <2>2. f[n + 1] \in Resolvers(refs)
    BY <1>1, <2>1, ResolverResolves
  <2>3. ASSUME NEW d \in names, NEW s \in Progress(refs), Callable(refs, d, s, n + 1)
        PROVE  Resolves(refs, d, s, f[n + 1][<<d, s>>])
    <3>1. f[n + 1][<<d, s>>] = ResolvedItem(deps, f[n], d, s)
      BY <2>1 DEF Resolver
    <3>2. n \in Nat
      OBVIOUS
    <3>3. Resolves(refs, d, s, ResolvedItem(deps, f[n], d, s))
      BY <1>8, <2>1, <2>3, <3>2, ItemResolves
    <3> QED
      BY <3>1, <3>3
  <2> QED
    BY <2>2, <2>3
<1> HIDE DEF P
<1>9. 0 \in S /\ \A n \in 0 .. N - 1 : n \in S => n + 1 \in S
  BY <1>4, <1>7, <1>8
<1>10. N \in S
  <2> HIDE DEF S, N
  <2> QED
    BY <1>4, <1>9, InductionTo
<1>11. Callable(refs, name, start, N)
  <2>1. start \in Progress(refs) /\ start.seen = {} /\ start.resolved = << >>
    BY DEF Progress
  <2>2. Cardinality(names \ start.seen) <= N
    BY <1>4, <2>1
  <2> QED
    BY <2>1, <2>2, ListEmpty DEF Callable, Sound, Open, InOrder
<1> DEFINE result == f[N][<<name, start>>]
<1>12. Resolves(refs, name, start, result)
  <2>1. start \in Progress(refs)
    BY DEF Progress
  <2> QED
    BY <1>10, <1>11, <2>1 DEF P
<1> HIDE DEF result
<1>13. result.resolved \in Seq(names) /\ InOrder(refs, result.resolved) /\ name \in ToSet(result.resolved)
  BY <1>12 DEF Resolves, Sound, Progress
<1> QED
  BY <1>3, <1>13, SeqValues DEF result

-------------------------------------------------------------------------------
(* The order of all                                                        *)

LEMMA OrderIsList ==
    ASSUME NEW names, IsFiniteSet(names), NEW order \in Orders(names)
    PROVE  IsList(order) /\ ToSet(order) = names
<1>1. Cardinality(names) \in Nat
  BY FS_CardinalityType
<1>2. order \in Seq(names) /\ ToSet(order) = names
  BY <1>1 DEF Orders
<1> QED
  BY <1>2, SeqValues

LEMMA PreparedInOrder ==
    ASSUME NEW refs, WellFormed(refs), ~Circle(refs), NEW deps, DepsMatch(refs, deps),
           NEW order \in Orders(DOMAIN refs), NEW standalone \in Orders(DOMAIN refs)
    PROVE  InOrder(refs, PrepareOrder(refs, deps, order, standalone))
<1> DEFINE N  == Len(order)
           part(i) == IF refs[order[i]] = << >> THEN << >> ELSE Resolved(refs, deps, order[i])
           ss == [i \in DOMAIN order |-> part(i)]
           flat == FlattenSeq(ss)
<1>1. IsList(order) /\ ToSet(order) = DOMAIN refs /\ IsList(standalone) /\ ToSet(standalone) = DOMAIN refs
  BY OrderIsList DEF WellFormed
<1>2. N \in Nat /\ DOMAIN order = 1 .. N /\ \A i \in 1 .. N : order[i] \in DOMAIN refs
  BY <1>1, ListElements
<1>3. \A i \in 1 .. N : /\ IsList(part(i)) /\ InOrder(refs, part(i))
                        /\ refs[order[i]] # << >> => order[i] \in ToSet(part(i))
  <2> SUFFICES ASSUME NEW i \in 1 .. N
               PROVE  /\ IsList(part(i)) /\ InOrder(refs, part(i))
                      /\ refs[order[i]] # << >> => order[i] \in ToSet(part(i))
    OBVIOUS
  <2>1. CASE refs[order[i]] = << >>
    BY <2>1, ListEmpty DEF InOrder
  <2>2. CASE refs[order[i]] # << >>
    <3>1. order[i] \in ItemNames(refs)
      BY <1>2, NameHasList
    <3> QED
      BY <2>2, <3>1, ResolvedInOrder
  <2> QED
    BY <2>1, <2>2
<1> HIDE DEF part
<1>4. Len(ss) = N /\ DOMAIN ss = 1 .. N /\ \A i \in 1 .. N : ss[i] = part(i)
  <2> DEFINE T == {part(i) : i \in 1 .. N}
  <2>1. ss \in [1 .. N -> T]
    BY <1>2
  <2>2. ss \in Seq(T)
    BY <1>2, <2>1
  <2> QED
    BY <1>2, <2>2
<1>5. Len(ss) = 0 => ss = << >>
  BY <1>2, <1>4
<1> HIDE DEF ss
<1>6. /\ IsList(flat) /\ InOrder(refs, flat)
      /\ \A e : e \in ToSet(flat) <=> \E i \in 1 .. N : e \in ToSet(ss[i])
  BY <1>2, <1>3, <1>4, <1>5, FlattenedList, InOrderFlattened
<1> HIDE DEF flat
<1>7. ASSUME NEW k \in DOMAIN standalone, standalone[k] \in DOMAIN refs,
             NEW r \in ToSet(refs[standalone[k]]) \ {NoName}
      PROVE  r \in ToSet(flat)
  <2> DEFINE name == standalone[k]
  <2>1. PICK i \in 1 .. N : order[i] = name
    BY <1>1, <1>2, <1>7 DEF ToSet
  <2>2. refs[name] # << >>
    BY <1>7, ListEmpty
  <2> HIDE DEF name
  <2>3. name \in ToSet(flat)
    BY <1>3, <1>4, <1>6, <2>1, <2>2
  <2>4. PICK j \in DOMAIN flat : flat[j] = name
    BY <2>3, Zenon DEF ToSet
  <2>5. PICK m \in 1 .. j - 1 : flat[m] = r
    BY <1>6, <1>7, <2>4 DEF InOrder, name
  <2>6. m \in DOMAIN flat
    <3>1. DOMAIN flat = 1 .. Len(flat) /\ Len(flat) \in Nat
      BY <1>6, ListElements
    <3> QED
      BY <2>4, <3>1
  <2> QED
    BY <2>5, <2>6, Zenon DEF ToSet
<1>8. InOrder(refs, flat \o standalone) /\ IsList(flat \o standalone)
  BY <1>1, <1>6, <1>7, InOrderConcat, ListConcat
<1>9. InOrder(refs, Unique(flat \o standalone))
  BY <1>8, UniqueInOrder
<1>10. PrepareOrder(refs, deps, order, standalone) = Unique(flat \o standalone)
  BY Zenon DEF PrepareOrder, flat, ss, part
<1> QED
  BY <1>9, <1>10

-------------------------------------------------------------------------------
(* What is picked from a list                                              *)

PickedSteps(s, D, f) ==
    f = [n \in 0 .. Len(s) |->
            IF n = 0 THEN << >> ELSE IF n \in D THEN Append(f[n - 1], s[n]) ELSE f[n - 1]]

LEMMA PickedStepsExist ==
    ASSUME NEW s, IsList(s), NEW D
    PROVE  \E f : PickedSteps(s, D, f)
<1> DEFINE N == Len(s)
           V == Seq(ToSet(s))
           F == [p \in (1 .. N) \X V |-> IF p[1] \in D THEN Append(p[2], s[p[1]]) ELSE p[2]]
<1>1. N \in Nat /\ \A n \in 1 .. N : s[n] \in ToSet(s)
  BY ListElements
<1>2. F \in [(1 .. N) \X V -> V]
  <2>1. ASSUME NEW p \in (1 .. N) \X V PROVE Append(p[2], s[p[1]]) \in V
    <3>1. p[2] \in Seq(ToSet(s)) /\ s[p[1]] \in ToSet(s)
      BY <1>1
    <3> QED
      BY <3>1, AppendedTo
  <2> QED
    BY <2>1
<1>3. \A n \in 1 .. N, x \in V : F[<<n, x>>] = IF n \in D THEN Append(x, s[n]) ELSE x
  OBVIOUS
<1>4. << >> \in V
  OBVIOUS
<1> HIDE DEF F, V
<1>0. PICK f : Steps(N, V, << >>, F, f)
  BY <1>1, <1>2, <1>4, StepsExist
<1>5. f \in [0 .. N -> V] /\ f[0] = << >> /\ \A n \in 1 .. N : f[n] = F[<<n, f[n - 1]>>]
  BY <1>0 DEF Steps
<1>6. \A n \in 1 .. N : f[n] = IF n \in D THEN Append(f[n - 1], s[n]) ELSE f[n - 1]
  <2> TAKE n \in 1 .. N
  <2>1. n - 1 \in 0 .. N
    BY <1>1
  <2>2. f[n - 1] \in V
    BY <1>5, <2>1
  <2> QED
    BY <1>3, <1>5, <2>2
<1>7. \A n \in 0 .. N : f[n] = IF n = 0 THEN << >> ELSE IF n \in D THEN Append(f[n - 1], s[n]) ELSE f[n - 1]
  <2> TAKE n \in 0 .. N
  <2>1. n = 0 \/ n \in 1 .. N
    BY <1>1
  <2>2. n \in 1 .. N => n # 0
    OBVIOUS
  <2> QED
    BY <1>5, <1>6, <2>1, <2>2, Zenon
<1>8. f = [n \in 0 .. N |-> f[n]]
  BY <1>5
<1>9. PickedSteps(s, D, f)
  BY <1>7, <1>8, Zenon DEF PickedSteps
<1> QED
  BY <1>9

(* Where each of a list of elements comes from: places that go up. *)
PlacesOf(p, s, D, at) ==
    /\ at \in [1 .. Len(p) -> D]
    /\ \A j, k \in 1 .. Len(p) : j < k => at[j] < at[k]
    /\ \A i \in D : \E k \in 1 .. Len(p) : at[k] = i
    /\ \A k \in 1 .. Len(p) : p[k] = s[at[k]]

LEMMA PickedPlaces ==
    ASSUME NEW s, IsList(s), NEW D
    PROVE  /\ IsList(Picked(s, D))
           /\ \E at : PlacesOf(Picked(s, D), s, D \cap DOMAIN s, at)
<1> DEFINE N == Len(s)
           f == CHOOSE g : PickedSteps(s, D, g)
<1>1. PickedSteps(s, D, f)
  BY PickedStepsExist
<1>2. Picked(s, D) = f[N]
  BY DEF Picked, PickedSteps
<1> HIDE DEF f
<1>3. N \in Nat /\ DOMAIN s = 1 .. N
  BY ListElements
<1>4. f[0] = << >>
  BY <1>1, <1>3 DEF PickedSteps
<1>5. ASSUME NEW n \in 0 .. N - 1
      PROVE  f[n + 1] = IF n + 1 \in D THEN Append(f[n], s[n + 1]) ELSE f[n]
  <2>1. n + 1 \in 0 .. N /\ n + 1 # 0 /\ (n + 1) - 1 = n
    BY <1>3
  <2> QED
    BY <1>1, <2>1 DEF PickedSteps
<1> DEFINE P(n) == IsList(f[n]) /\ \E at : PlacesOf(f[n], s, D \cap 1 .. n, at)
           S == {n \in 0 .. N : P(n)}
<1>6. P(0)
  <2> DEFINE g == [k \in 1 .. 0 |-> 0]
  <2>1. PlacesOf(f[0], s, D \cap 1 .. 0, g)
    BY <1>4 DEF PlacesOf
  <2> QED
    BY <1>4, <2>1, ListEmpty
<1>7. ASSUME NEW n \in 0 .. N - 1, P(n) PROVE P(n + 1)
  <2>1. PICK at : PlacesOf(f[n], s, D \cap 1 .. n, at)
    BY <1>7
  <2>2. CASE n + 1 \in D
    <3> DEFINE m == Len(f[n])
               g == [k \in 1 .. m + 1 |-> IF k = m + 1 THEN n + 1 ELSE at[k]]
               q == f[n + 1]
    <3>1. q = Append(f[n], s[n + 1])
      BY <1>5, <2>2
    <3>2. IsList(q)
      BY <1>7, <3>1, ListAppend
    <3>3. m \in Nat /\ f[n] \in Seq(ToSet(f[n]))
      BY <1>7, ListElements DEF IsList
    <3>4. Len(q) = m + 1 /\ q[m + 1] = s[n + 1] /\ \A k \in 1 .. m : q[k] = f[n][k]
      BY <3>1, <3>3
    <3>5. D \cap 1 .. n + 1 = (D \cap 1 .. n) \cup {n + 1}
      BY <2>2
    <3>6. /\ at \in [1 .. m -> D \cap 1 .. n]
          /\ \A j, k \in 1 .. m : j < k => at[j] < at[k]
          /\ \A i \in D \cap 1 .. n : \E k \in 1 .. m : at[k] = i
          /\ \A k \in 1 .. m : f[n][k] = s[at[k]]
      BY <2>1 DEF PlacesOf
    <3>7. g \in [1 .. m + 1 -> D \cap 1 .. n + 1]
      BY <3>3, <3>5, <3>6
    <3>8. g[m + 1] = n + 1 /\ \A k \in 1 .. m : k \in 1 .. m + 1 /\ g[k] = at[k]
      BY <3>3
    <3> HIDE DEF g, q, m
    <3>9. \A j, k \in 1 .. m + 1 : j < k => g[j] < g[k]
      <4> SUFFICES ASSUME NEW j \in 1 .. m + 1, NEW k \in 1 .. m + 1, j < k PROVE g[j] < g[k]
        OBVIOUS
      <4>1. j \in 1 .. m /\ g[j] \in 1 .. n
        BY <3>3, <3>6, <3>8
      <4>2. CASE k = m + 1
        BY <3>8, <4>1, <4>2
      <4>3. CASE k \in 1 .. m
        BY <3>6, <3>8, <4>1, <4>3
      <4> QED
        BY <3>3, <4>2, <4>3
    <3>10. \A i \in D \cap 1 .. n + 1 : \E k \in 1 .. m + 1 : g[k] = i
      <4>1. m + 1 \in 1 .. m + 1
        BY <3>3
      <4> QED
        BY <3>5, <3>6, <3>8, <4>1
    <3>11. \A k \in 1 .. m + 1 : q[k] = s[g[k]]
      <4>1. \A k \in 1 .. m + 1 : k = m + 1 \/ k \in 1 .. m
        BY <3>3
      <4> QED
        BY <3>4, <3>6, <3>8, <4>1
    <3>12. PlacesOf(q, s, D \cap 1 .. n + 1, g)
      BY <3>4, <3>7, <3>9, <3>10, <3>11 DEF PlacesOf
    <3> QED
      BY <3>2, <3>12 DEF q
  <2>3. CASE n + 1 \notin D
    <3>1. f[n + 1] = f[n] /\ D \cap 1 .. n + 1 = D \cap 1 .. n
      BY <1>5, <2>3
    <3> QED
      BY <1>7, <3>1
  <2> QED
    BY <2>2, <2>3
<1> HIDE DEF P
<1>8. 0 \in S /\ \A n \in 0 .. N - 1 : n \in S => n + 1 \in S
  BY <1>3, <1>6, <1>7
<1>9. N \in S
  <2> HIDE DEF S
  <2> QED
    BY <1>3, <1>8, InductionTo
<1>10. P(N)
  BY <1>9
<1> QED
  BY <1>2, <1>3, <1>10 DEF P

-------------------------------------------------------------------------------
(* Lists of what several files have, one file after the other: P[i] is what *)
(* file i has.                                                             *)
Layers(n, L, P, at) ==
    /\ at \in [1 .. Len(L) -> 1 .. n]
    /\ \A j, k \in 1 .. Len(L) : j < k => at[j] <= at[k]
    /\ \A k \in 1 .. Len(L) : L[k] \in P[at[k]]
    /\ \A i \in 1 .. n : \A b \in P[i] : \E k \in 1 .. Len(L) : at[k] = i /\ L[k] = b

Layered(n, L, P) == IsList(L) /\ \E at : Layers(n, L, P, at)

LEMMA ConcatElements ==
    ASSUME NEW s, NEW t, IsList(s), IsList(t)
    PROVE  /\ Len(s) \in Nat /\ Len(t) \in Nat /\ Len(s \o t) = Len(s) + Len(t)
           /\ \A k \in 1 .. Len(s) : (s \o t)[k] = s[k]
           /\ \A k \in 1 .. Len(t) : (s \o t)[Len(s) + k] = t[k]
<1>1. s \in Seq(ToSet(s) \cup ToSet(t)) /\ t \in Seq(ToSet(s) \cup ToSet(t))
  BY DEF IsList
<1> QED
  BY <1>1

LEMMA ElementPlace ==
    ASSUME NEW s, IsList(s)
    PROVE  \A x : x \in ToSet(s) <=> \E k \in 1 .. Len(s) : s[k] = x
<1>1. DOMAIN s = 1 .. Len(s)
  BY ListElements
<1> QED
  BY <1>1, Zenon DEF ToSet

LEMMA LayersGrow ==
    ASSUME NEW n \in Nat, NEW s, NEW t, IsList(s), IsList(t), NEW P, NEW at, Layers(n, s, P, at), P[n + 1] = ToSet(t)
    PROVE  \E g : Layers(n + 1, s \o t, P, g)
<1> DEFINE q == s \o t
           l == Len(s)
           m == Len(t)
           g == [k \in 1 .. l + m |-> IF k <= l THEN at[k] ELSE n + 1]
<1>1. /\ l \in Nat /\ m \in Nat /\ Len(q) = l + m
      /\ \A k \in 1 .. l : q[k] = s[k]
      /\ \A k \in 1 .. m : q[l + k] = t[k]
  BY ConcatElements
<1>2. /\ at \in [1 .. l -> 1 .. n]
      /\ \A j, k \in 1 .. l : j < k => at[j] <= at[k]
      /\ \A k \in 1 .. l : s[k] \in P[at[k]]
      /\ \A i \in 1 .. n : \A b \in P[i] : \E k \in 1 .. l : at[k] = i /\ s[k] = b
  BY DEF Layers
<1>3. \A x : x \in P[n + 1] <=> \E k \in 1 .. m : t[k] = x
  BY ElementPlace
<1> HIDE DEF q, l, m
<1>4. g \in [1 .. l + m -> 1 .. n + 1]
  BY <1>1, <1>2
<1>5. /\ \A k \in 1 .. l : k \in 1 .. l + m /\ g[k] = at[k]
      /\ \A k \in 1 .. m : l + k \in 1 .. l + m /\ g[l + k] = n + 1
      /\ \A k \in 1 .. l + m : k \in 1 .. l \/ (k - l \in 1 .. m /\ k = l + (k - l))
  BY <1>1
<1> HIDE DEF g
<1>6. \A j, k \in 1 .. l + m : j < k => g[j] <= g[k]
  <2> SUFFICES ASSUME NEW j \in 1 .. l + m, NEW k \in 1 .. l + m, j < k PROVE g[j] <= g[k]
    OBVIOUS
  <2>1. CASE k \in 1 .. l
    <3>1. j \in 1 .. l
      BY <1>1, <2>1
    <3> QED
      BY <1>2, <1>5, <2>1, <3>1
  <2>2. CASE k - l \in 1 .. m /\ k = l + (k - l)
    <3>1. g[k] = n + 1 /\ g[j] \in 1 .. n + 1
      BY <1>4, <1>5, <2>2
    <3> QED
      BY <3>1
  <2> QED
    BY <1>5, <2>1, <2>2
<1>7. \A k \in 1 .. l + m : q[k] \in P[g[k]]
  <2> TAKE k \in 1 .. l + m
  <2>1. CASE k \in 1 .. l
    BY <1>1, <1>2, <1>5, <2>1
  <2>2. CASE k - l \in 1 .. m /\ k = l + (k - l)
    <3>1. q[k] = t[k - l] /\ g[k] = n + 1
      BY <1>1, <1>5, <2>2
    <3> QED
      BY <1>3, <2>2, <3>1
  <2> QED
    BY <1>5, <2>1, <2>2
<1>8. ASSUME NEW i \in 1 .. n + 1, NEW b \in P[i] PROVE \E k \in 1 .. l + m : g[k] = i /\ q[k] = b
  <2>1. CASE i \in 1 .. n
    <3>1. PICK k \in 1 .. l : at[k] = i /\ s[k] = b
      BY <1>2, <2>1
    <3> QED
      BY <1>1, <1>5, <3>1
  <2>2. CASE i = n + 1
    <3>1. PICK k \in 1 .. m : t[k] = b
      BY <1>3, <1>8, <2>2
    <3> QED
      BY <1>1, <1>5, <2>2, <3>1
  <2> QED
    BY <2>1, <2>2
<1>9. Layers(n + 1, q, P, g)
  BY <1>1, <1>4, <1>6, <1>7, <1>8 DEF Layers
<1> QED
  BY <1>9 DEF q

(* Lists one after the other are layered by their elements. *)
LEMMA FlattenedLayers ==
    ASSUME NEW ss, Len(ss) \in Nat, Len(ss) = 0 => ss = << >>, \A i \in 1 .. Len(ss) : IsList(ss[i]),
           NEW P, \A i \in 1 .. Len(ss) : P[i] = ToSet(ss[i])
    PROVE  Layered(Len(ss), FlattenSeq(ss), P)
<1> DEFINE N == Len(ss)
<1>1. PICK f : Parts(ss, f)
  BY Flattened
<1>2. f[0] = << >> /\ f[N] = FlattenSeq(ss) /\ \A i \in 1 .. N : f[i] = f[i - 1] \o ss[i]
  BY <1>1 DEF Parts
<1> DEFINE Q(n) == IsList(f[n]) /\ \E at : Layers(n, f[n], P, at)
           S == {n \in 0 .. N : Q(n)}
<1>3. Q(0)
  <2> DEFINE g == [k \in 1 .. 0 |-> 0]
  <2>1. Layers(0, << >>, P, g)
    BY DEF Layers
  <2> QED
    BY <1>2, <2>1, ListEmpty
<1>4. ASSUME NEW n \in 0 .. N - 1, Q(n) PROVE Q(n + 1)
  <2>1. n \in Nat /\ n + 1 \in 1 .. N /\ (n + 1) - 1 = n
    OBVIOUS
  <2>2. f[n + 1] = f[n] \o ss[n + 1] /\ IsList(ss[n + 1]) /\ P[n + 1] = ToSet(ss[n + 1])
    BY <1>2, <2>1
  <2>3. IsList(f[n + 1])
    BY <1>4, <2>2, ListConcat
  <2>4. PICK at : Layers(n, f[n], P, at)
    BY <1>4
  <2>5. \E g : Layers(n + 1, f[n] \o ss[n + 1], P, g)
    BY <1>4, <2>1, <2>2, <2>4, LayersGrow
  <2> QED
    BY <2>2, <2>3, <2>5
<1> HIDE DEF Q
<1>5. 0 \in S /\ \A n \in 0 .. N - 1 : n \in S => n + 1 \in S
  BY <1>3, <1>4
<1>6. N \in S
  <2> HIDE DEF S
  <2> QED
    BY <1>5, InductionTo
<1>7. Q(N)
  BY <1>6
<1> QED
  BY <1>2, <1>7 DEF Q, Layered

LEMMA ListOf ==
    ASSUME NEW N \in Nat, NEW s, s = [i \in 1 .. N |-> s[i]]
    PROVE  IsList(s) /\ Len(s) = N /\ DOMAIN s = 1 .. N
<1>1. s \in [1 .. N -> {s[i] : i \in 1 .. N}]
  BY Zenon
<1>2. s \in Seq({s[i] : i \in 1 .. N})
  BY <1>1
<1> QED
  BY <1>1, <1>2, SeqValues

LEMMA SameLayers ==
    ASSUME NEW n \in Nat, NEW L, NEW P, Layered(n, L, P), NEW Q, \A i \in 1 .. n : Q[i] = P[i]
    PROVE  Layered(n, L, Q)
<1>1. PICK at : Layers(n, L, P, at)
  BY DEF Layered
<1>2. Layers(n, L, Q, at)
  <2>1. \A k \in 1 .. Len(L) : at[k] \in 1 .. n
    BY <1>1 DEF Layers
  <2> QED
    BY <1>1, <2>1, ZenonT(60) DEF Layers
<1> QED
  BY <1>2 DEF Layered

(* The blocks in layered blocks. *)
BlocksOf(B) == UNION {ToSet(b.blocks) : b \in B}

LEMMA SubBlocksLayered ==
    ASSUME NEW n \in Nat, NEW L, NEW P, Layered(n, L, P), \A i \in 1 .. n : \A b \in P[i] : IsList(b.blocks),
           NEW Q, \A i \in 1 .. n : Q[i] = BlocksOf(P[i])
    PROVE  Layered(n, SubBlocks(L), Q)
<1> DEFINE N == Len(L)
           ss == [i \in DOMAIN L |-> L[i].blocks]
           E == [i \in 1 .. N |-> ToSet(ss[i])]
           F == SubBlocks(L)
<1>1. PICK at : Layers(n, L, P, at)
  BY DEF Layered
<1>2. /\ at \in [1 .. N -> 1 .. n]
      /\ \A j, k \in 1 .. N : j < k => at[j] <= at[k]
      /\ \A k \in 1 .. N : L[k] \in P[at[k]]
      /\ \A i \in 1 .. n : \A b \in P[i] : \E k \in 1 .. N : at[k] = i /\ L[k] = b
  BY <1>1 DEF Layers
<1>3. N \in Nat /\ DOMAIN L = 1 .. N
  BY ListElements DEF Layered
<1>4. \A k \in 1 .. N : ss[k] = L[k].blocks /\ IsList(ss[k]) /\ E[k] = ToSet(L[k].blocks)
  BY <1>2, <1>3
<1>5. Len(ss) = N /\ (N = 0 => ss = << >>)
  BY <1>3
<1>6. F = FlattenSeq(ss)
  BY DEF SubBlocks
<1> HIDE DEF ss, E, F
<1>7. Layered(N, F, E)
  <2>1. \A k \in 1 .. N : E[k] = ToSet(ss[k])
    BY <1>4
  <2> QED
    BY <1>3, <1>4, <1>5, <1>6, <2>1, FlattenedLayers
<1>8. PICK row : Layers(N, F, E, row)
  BY <1>7 DEF Layered
<1> DEFINE m == Len(F)
           g == [k \in 1 .. m |-> at[row[k]]]
<1>9. /\ row \in [1 .. m -> 1 .. N]
      /\ \A j, k \in 1 .. m : j < k => row[j] <= row[k]
      /\ \A k \in 1 .. m : F[k] \in E[row[k]]
      /\ \A i \in 1 .. N : \A b \in E[i] : \E k \in 1 .. m : row[k] = i /\ F[k] = b
  BY <1>8 DEF Layers
<1> HIDE DEF m
<1>10. \A k \in 1 .. m : g[k] = at[row[k]] /\ g[k] \in 1 .. n /\ row[k] \in 1 .. N
  BY <1>2, <1>9
<1>11. g \in [1 .. m -> 1 .. n]
  BY <1>10
<1> HIDE DEF g
<1>12. \A j, k \in 1 .. m : j < k => g[j] <= g[k]
  <2> SUFFICES ASSUME NEW j \in 1 .. m, NEW k \in 1 .. m, j < k PROVE g[j] <= g[k]
    OBVIOUS
  <2>1. row[j] <= row[k] /\ row[j] \in 1 .. N /\ row[k] \in 1 .. N
    BY <1>9
  <2>2. CASE row[j] = row[k]
    BY <1>10, <2>2
  <2>3. CASE row[j] < row[k]
    BY <1>2, <1>10, <2>1, <2>3
  <2> QED
    BY <2>1, <2>2, <2>3
<1>13. \A k \in 1 .. m : F[k] \in Q[g[k]]
  <2> TAKE k \in 1 .. m
  <2>1. F[k] \in ToSet(L[row[k]].blocks) /\ L[row[k]] \in P[g[k]]
    BY <1>2, <1>4, <1>9, <1>10
  <2>2. F[k] \in BlocksOf(P[g[k]])
    BY <2>1, Zenon DEF BlocksOf
  <2> QED
    BY <1>10, <2>2
<1>14. ASSUME NEW i \in 1 .. n, NEW c \in Q[i] PROVE \E k \in 1 .. m : g[k] = i /\ F[k] = c
  <2>1. PICK b \in P[i] : c \in ToSet(b.blocks)
    BY <1>14 DEF BlocksOf
  <2>2. PICK r \in 1 .. N : at[r] = i /\ L[r] = b
    BY <1>2
  <2>3. PICK k \in 1 .. m : row[k] = r /\ F[k] = c
    BY <1>4, <1>9, <2>1, <2>2
  <2> QED
    BY <1>10, <2>2, <2>3
<1>15. Layers(n, F, Q, g)
  BY <1>11, <1>12, <1>13, <1>14 DEF Layers, m
<1>16. Layered(n, F, Q)
  BY <1>7, <1>15 DEF Layered
<1> QED
  BY <1>16 DEF F

LEMMA PickedLayered ==
    ASSUME NEW n \in Nat, NEW L, NEW P, Layered(n, L, P), NEW X,
           NEW D, D = {i \in DOMAIN L : L[i] \in X}, NEW Q, \A i \in 1 .. n : Q[i] = P[i] \cap X
    PROVE  Layered(n, Picked(L, D), Q)
<1> DEFINE N == Len(L)
           F == Picked(L, D)
<1>1. PICK at : Layers(n, L, P, at)
  BY DEF Layered
<1>2. /\ at \in [1 .. N -> 1 .. n]
      /\ \A j, k \in 1 .. N : j < k => at[j] <= at[k]
      /\ \A k \in 1 .. N : L[k] \in P[at[k]]
      /\ \A i \in 1 .. n : \A b \in P[i] : \E k \in 1 .. N : at[k] = i /\ L[k] = b
  BY <1>1 DEF Layers
<1>3. IsList(L) /\ N \in Nat /\ DOMAIN L = 1 .. N
  BY ListElements DEF Layered
<1>4. D \subseteq 1 .. N /\ D \cap DOMAIN L = D /\ \A i \in 1 .. N : i \in D <=> L[i] \in X
  BY <1>3
<1>5. IsList(F) /\ \E e : PlacesOf(F, L, D, e)
  <2>1. IsList(F) /\ \E e : PlacesOf(F, L, D \cap DOMAIN L, e)
    BY <1>3, PickedPlaces
  <2> QED
    BY <1>4, <2>1, Zenon
<1>6. PICK e : PlacesOf(F, L, D, e)
  BY <1>5
<1> DEFINE m == Len(F)
           g == [k \in 1 .. m |-> at[e[k]]]
<1> HIDE DEF F
<1>7. /\ e \in [1 .. m -> D]
      /\ \A j, k \in 1 .. m : j < k => e[j] < e[k]
      /\ \A i \in D : \E k \in 1 .. m : e[k] = i
      /\ \A k \in 1 .. m : F[k] = L[e[k]]
  BY <1>6 DEF PlacesOf
<1> HIDE DEF m
<1>8. \A k \in 1 .. m : g[k] = at[e[k]] /\ g[k] \in 1 .. n /\ e[k] \in 1 .. N /\ e[k] \in D
  BY <1>2, <1>4, <1>7
<1>9. g \in [1 .. m -> 1 .. n]
  BY <1>8
<1> HIDE DEF g
<1>10. \A j, k \in 1 .. m : j < k => g[j] <= g[k]
  BY <1>2, <1>7, <1>8
<1>11. \A k \in 1 .. m : F[k] \in Q[g[k]]
  BY <1>2, <1>4, <1>7, <1>8
<1>12. ASSUME NEW i \in 1 .. n, NEW b \in Q[i] PROVE \E k \in 1 .. m : g[k] = i /\ F[k] = b
  <2>1. b \in P[i] /\ b \in X
    BY <1>12
  <2>2. PICK r \in 1 .. N : at[r] = i /\ L[r] = b
    BY <1>2, <2>1
  <2>3. PICK k \in 1 .. m : e[k] = r
    BY <1>4, <1>7, <2>1, <2>2
  <2> QED
    BY <1>7, <1>8, <2>2, <2>3
<1>13. Layers(n, F, Q, g)
  BY <1>9, <1>10, <1>11, <1>12 DEF Layers, m
<1>14. Layered(n, F, Q)
  BY <1>5, <1>13 DEF Layered, F
<1> QED
  BY <1>14 DEF F

LEMMA MappedLayered ==
    ASSUME NEW n \in Nat, NEW L, NEW P, Layered(n, L, P), NEW M,
           NEW Q, \A i \in 1 .. n : Q[i] = {M[b] : b \in P[i]}
    PROVE  Layered(n, [i \in DOMAIN L |-> M[L[i]]], Q)
<1> DEFINE N == Len(L)
           K == [i \in DOMAIN L |-> M[L[i]]]
<1>1. PICK at : Layers(n, L, P, at)
  BY DEF Layered
<1>2. /\ at \in [1 .. N -> 1 .. n]
      /\ \A j, k \in 1 .. N : j < k => at[j] <= at[k]
      /\ \A k \in 1 .. N : L[k] \in P[at[k]]
      /\ \A i \in 1 .. n : \A b \in P[i] : \E k \in 1 .. N : at[k] = i /\ L[k] = b
  BY <1>1 DEF Layers
<1>3. N \in Nat /\ DOMAIN L = 1 .. N
  BY ListElements DEF Layered
<1>4. \A k \in 1 .. N : K[k] = M[L[k]]
  BY <1>3
<1>5. DOMAIN K = 1 .. N /\ K = [i \in 1 .. N |-> K[i]]
  BY <1>3
<1> HIDE DEF K
<1>6. IsList(K) /\ Len(K) = N
  BY <1>3, <1>5, ListOf
<1>7. \A k \in 1 .. N : K[k] \in Q[at[k]]
  BY <1>2, <1>4
<1>8. ASSUME NEW i \in 1 .. n, NEW c \in Q[i] PROVE \E k \in 1 .. N : at[k] = i /\ K[k] = c
  <2>1. PICK b \in P[i] : c = M[b]
    BY <1>8
  <2>2. PICK k \in 1 .. N : at[k] = i /\ L[k] = b
    BY <1>2
  <2> QED
    BY <1>4, <2>1, <2>2
<1>9. Layers(n, K, Q, at)
  BY <1>2, <1>6, <1>7, <1>8 DEF Layers
<1>10. Layered(n, K, Q)
  BY <1>6, <1>9 DEF Layered
<1> QED
  BY <1>10 DEF K

(* What one file has of a type. *)
LEMMA PickedElements ==
    ASSUME NEW s, IsList(s), NEW X
    PROVE  LET p == Picked(s, {i \in DOMAIN s : s[i] \in X})
           IN  IsList(p) /\ ToSet(p) = ToSet(s) \cap X
<1> DEFINE N == Len(s)
           D == {i \in DOMAIN s : s[i] \in X}
           p == Picked(s, D)
<1>1. N \in Nat /\ DOMAIN s = 1 .. N /\ D \cap DOMAIN s = D /\ D \subseteq 1 .. N /\ \A i \in 1 .. N : i \in D <=> s[i] \in X
  BY ListElements
<1> HIDE DEF D
<1>2. IsList(p) /\ \E e : PlacesOf(p, s, D, e)
  BY <1>1, PickedPlaces
<1>3. PICK e : PlacesOf(p, s, D, e)
  BY <1>2
<1> HIDE DEF p
<1>4. /\ \A k \in 1 .. Len(p) : e[k] \in D /\ p[k] = s[e[k]]
      /\ \A i \in D : \E k \in 1 .. Len(p) : e[k] = i
  BY <1>3 DEF PlacesOf
<1>5. \A x : x \in ToSet(p) <=> \E k \in 1 .. Len(p) : p[k] = x
  BY <1>2, ElementPlace DEF p
<1>6. \A x : x \in ToSet(s) <=> \E k \in 1 .. N : s[k] = x
  BY ElementPlace
<1>7. ToSet(p) = ToSet(s) \cap X
  BY <1>1, <1>4, <1>5, <1>6
<1> QED
  BY <1>2, <1>7 DEF p, D

-------------------------------------------------------------------------------
(* Sorting                                                                 *)

StrictOrder(S, R) ==
    /\ \A x \in S : <<x, x>> \notin R
    /\ \A x, y, z \in S : <<x, y>> \in R /\ <<y, z>> \in R => <<x, z>> \in R
    /\ \A x, y \in S : x # y => <<x, y>> \in R \/ <<y, x>> \in R

SmallerIn(S, R, e) == {f \in S : <<f, e>> \in R}

(* In a finite set every place is the place of one element. *)
LEMMA EveryPlaceTaken ==
    ASSUME NEW S, IsFiniteSet(S), NEW R, StrictOrder(S, R)
    PROVE  /\ Cardinality(S) \in Nat
           /\ \A e \in S : Cardinality(SmallerIn(S, R, e)) \in Nat /\ Cardinality(SmallerIn(S, R, e)) + 1 \in 1 .. Cardinality(S)
           /\ \A e, f \in S : Cardinality(SmallerIn(S, R, e)) = Cardinality(SmallerIn(S, R, f)) => e = f
           /\ \A i \in 1 .. Cardinality(S) : \E e \in S : Cardinality(SmallerIn(S, R, e)) = i - 1
<1> DEFINE N == Cardinality(S)
           place == [e \in S |-> Cardinality(SmallerIn(S, R, e)) + 1]
<1>1. N \in Nat
  BY FS_CardinalityType
<1>2. \A e \in S : IsFiniteSet(SmallerIn(S, R, e)) /\ Cardinality(SmallerIn(S, R, e)) \in Nat /\ Cardinality(SmallerIn(S, R, e)) < N
  <2> TAKE e \in S
  <2> DEFINE B == SmallerIn(S, R, e)
  <2>1. B \in SUBSET S /\ e \notin B
    BY DEF SmallerIn, StrictOrder
  <2> HIDE DEF B
  <2>2. IsFiniteSet(B) /\ Cardinality(B) <= N /\ Cardinality(B) # N
    BY <2>1, FS_Subset
  <2>3. Cardinality(B) \in Nat
    BY <2>2, FS_CardinalityType
  <2> QED
    BY <1>1, <2>2, <2>3 DEF B
<1>3. ASSUME NEW e \in S, NEW f \in S, <<e, f>> \in R
      PROVE  Cardinality(SmallerIn(S, R, e)) < Cardinality(SmallerIn(S, R, f))
  <2> DEFINE A == SmallerIn(S, R, e)
             B == SmallerIn(S, R, f)
  <2>1. A \in SUBSET B /\ e \in B /\ e \notin A
    BY <1>3 DEF SmallerIn, StrictOrder
  <2>2. IsFiniteSet(A) /\ IsFiniteSet(B) /\ Cardinality(A) \in Nat /\ Cardinality(B) \in Nat
    BY <1>2
  <2> HIDE DEF A, B
  <2>3. Cardinality(A) <= Cardinality(B) /\ Cardinality(A) # Cardinality(B)
    BY <2>1, <2>2, FS_Subset
  <2>4. Cardinality(A) < Cardinality(B)
    BY <2>2, <2>3
  <2> QED
    BY <2>4 DEF A, B
<1>4. \A e, f \in S : Cardinality(SmallerIn(S, R, e)) = Cardinality(SmallerIn(S, R, f)) => e = f
  <2> SUFFICES ASSUME NEW e \in S, NEW f \in S, e # f
               PROVE  Cardinality(SmallerIn(S, R, e)) # Cardinality(SmallerIn(S, R, f))
    OBVIOUS
  <2>1. <<e, f>> \in R \/ <<f, e>> \in R
    BY DEF StrictOrder
  <2> QED
    BY <1>2, <1>3, <2>1
<1>5. place \in [S -> 1 .. N]
  BY <1>1, <1>2
<1>6. \A e \in S : place[e] = Cardinality(SmallerIn(S, R, e)) + 1
  OBVIOUS
<1> HIDE DEF place
<1>7. place \in Injection(S, 1 .. N)
  <2>1. \A e, f \in S : place[e] = place[f] => e = f
    <3>1. \A e, f \in S : place[e] = place[f] => Cardinality(SmallerIn(S, R, e)) = Cardinality(SmallerIn(S, R, f))
      BY <1>2, <1>6
    <3> QED
      BY <1>4, <3>1
  <2> QED
    BY <1>5, <2>1 DEF Injection, IsInjective
<1>8. IsFiniteSet(1 .. N) /\ Cardinality(1 .. N) = N
  BY <1>1, FS_Interval
<1>9. place \in Surjection(S, 1 .. N)
  BY <1>7, <1>8, FS_Injection
<1>10. \A i \in 1 .. N : \E e \in S : place[e] = i
  BY <1>9 DEF Surjection
<1>11. \A i \in 1 .. N : \E e \in S : Cardinality(SmallerIn(S, R, e)) = i - 1
  <2> TAKE i \in 1 .. N
  <2>1. PICK e \in S : place[e] = i
    BY <1>10
  <2> QED
    BY <1>2, <1>6, <2>1
<1> QED
  BY <1>1, <1>2, <1>4, <1>11

(* The first difference of two keys. *)
Sooner(k, l) ==
    \E n \in 0 .. Len(k) :
        /\ n < Len(l)
        /\ \A j \in 1 .. n : k[j] = l[j]
        /\ n < Len(k) => Rank(k[n + 1]) < Rank(l[n + 1])

LEMMA BeforeIsSooner ==
    ASSUME NEW k \in Seq(Names), NEW l \in Seq(Names)
    PROVE  Before(k, l) <=> Sooner(k, l)
<1>1. ASSUME NEW n \in 0 .. Len(k), n < Len(l)
      PROVE  SubSeq(k, 1, n) = SubSeq(l, 1, n) <=> \A j \in 1 .. n : k[j] = l[j]
  <2>1. SubSeq(k, 1, n) = [j \in 1 .. n |-> k[j]] /\ SubSeq(l, 1, n) = [j \in 1 .. n |-> l[j]]
    BY <1>1
  <2> QED
    BY <2>1
<1>2. \A n \in 0 .. Len(k) : n < Len(l) => n <= Len(l)
  OBVIOUS
<1> QED
  BY <1>1, <1>2 DEF Before, Sooner

LEMMA SoonerOrders ==
    /\ \A k \in Seq(Names) : ~Sooner(k, k)
    /\ \A k, l, m \in Seq(Names) : Sooner(k, l) /\ Sooner(l, m) => Sooner(k, m)
    /\ \A k, l \in Seq(Names) : k # l => Sooner(k, l) \/ Sooner(l, k)
<1>0. \A k \in Seq(Names) : Len(k) \in Nat /\ DOMAIN k = 1 .. Len(k) /\ \A i \in 1 .. Len(k) : k[i] \in Names /\ Rank(k[i]) \in Nat
  BY RankOrders
<1>1. ASSUME NEW k \in Seq(Names), Sooner(k, k) PROVE FALSE
  <2>1. PICK n \in 0 .. Len(k) : n < Len(k) /\ Rank(k[n + 1]) < Rank(k[n + 1])
    BY <1>1 DEF Sooner
  <2>2. n + 1 \in 1 .. Len(k)
    BY <1>0, <2>1
  <2> QED
    BY <1>0, <2>1, <2>2
<1>2. ASSUME NEW k \in Seq(Names), NEW l \in Seq(Names), NEW m \in Seq(Names), Sooner(k, l), Sooner(l, m)
      PROVE  Sooner(k, m)
  <2>1. PICK a \in 0 .. Len(k) : a < Len(l) /\ (\A j \in 1 .. a : k[j] = l[j]) /\ (a < Len(k) => Rank(k[a + 1]) < Rank(l[a + 1]))
    BY <1>2 DEF Sooner
  <2>2. PICK b \in 0 .. Len(l) : b < Len(m) /\ (\A j \in 1 .. b : l[j] = m[j]) /\ (b < Len(l) => Rank(l[b + 1]) < Rank(m[b + 1]))
    BY <1>2 DEF Sooner
  <2>0. Len(k) \in Nat /\ Len(l) \in Nat /\ Len(m) \in Nat
    BY <1>0
  <2>3. CASE a < b
    <3>1. a < Len(m) /\ a + 1 \in 1 .. b /\ l[a + 1] = m[a + 1] /\ \A j \in 1 .. a : k[j] = m[j]
      BY <2>0, <2>1, <2>2, <2>3
    <3> QED
      BY <2>1, <3>1 DEF Sooner
  <2>4. CASE b < a
    <3>1. b \in 0 .. Len(k) /\ b + 1 \in 1 .. a /\ k[b + 1] = l[b + 1] /\ b < Len(l) /\ \A j \in 1 .. b : k[j] = m[j]
      BY <2>0, <2>1, <2>2, <2>4
    <3> QED
      BY <2>2, <3>1 DEF Sooner
  <2>5. CASE a = b
    <3>1. \A j \in 1 .. a : k[j] = m[j]
      BY <2>1, <2>2, <2>5
    <3>2. a < Len(k) => Rank(k[a + 1]) < Rank(m[a + 1])
      <4> SUFFICES ASSUME a < Len(k) PROVE Rank(k[a + 1]) < Rank(m[a + 1])
        OBVIOUS
      <4>1. a + 1 \in 1 .. Len(k) /\ a + 1 \in 1 .. Len(l) /\ a + 1 \in 1 .. Len(m)
        BY <2>0, <2>1, <2>2, <2>5
      <4>2. Rank(k[a + 1]) \in Nat /\ Rank(l[a + 1]) \in Nat /\ Rank(m[a + 1]) \in Nat
        BY <1>0, <4>1
      <4> QED
        BY <2>1, <2>2, <2>5, <4>2
    <3> QED
      BY <2>1, <2>2, <2>5, <3>1, <3>2 DEF Sooner
  <2> QED
    BY <2>3, <2>4, <2>5
<1>3. ASSUME NEW k \in Seq(Names), NEW l \in Seq(Names), k # l, Len(k) <= Len(l)
      PROVE  Sooner(k, l) \/ Sooner(l, k)
  <2> DEFINE D == {i \in 1 .. Len(k) : k[i] # l[i]}
             d == Min(D)
  <2>0. Len(k) \in Nat /\ Len(l) \in Nat
    BY <1>0
  <2>1. CASE D = {}
    <3>1. \A j \in 1 .. Len(k) : k[j] = l[j]
      BY <2>1
    <3>2. Len(k) # Len(l)
      <4> SUFFICES ASSUME Len(k) = Len(l) PROVE FALSE
        OBVIOUS
      <4> QED
        BY <1>3, <3>1
    <3>3. Len(k) \in 0 .. Len(k) /\ Len(k) < Len(l) /\ ~(Len(k) < Len(k))
      BY <1>3, <2>0, <3>2
    <3> QED
      BY <3>1, <3>3 DEF Sooner
  <2>2. CASE D # {}
    <3>1. d \in D /\ \A i \in D : d <= i
      <4>1. D \in SUBSET Nat
        BY <2>0
      <4> HIDE DEF D
      <4> QED
        BY <2>2, <4>1, Least
    <3> HIDE DEF d
    <3>2. d \in 1 .. Len(k) /\ d \in 1 .. Len(l) /\ k[d] # l[d]
      BY <1>3, <2>0, <3>1
    <3>3. \A j \in 1 .. d - 1 : k[j] = l[j]
      <4> TAKE j \in 1 .. d - 1
      <4>1. j \in 1 .. Len(k) /\ ~(d <= j)
        BY <2>0, <3>2
      <4> QED
        BY <3>1, <4>1
    <3>4. Rank(k[d]) < Rank(l[d]) \/ Rank(l[d]) < Rank(k[d])
      BY <1>0, <3>2, RankOrders
    <3>5. /\ d - 1 \in 0 .. Len(k) /\ d - 1 \in 0 .. Len(l) /\ d - 1 < Len(k) /\ d - 1 < Len(l) /\ (d - 1) + 1 = d
      BY <2>0, <3>2
    <3> DEFINE n == d - 1
    <3> HIDE DEF n
    <3>6. n \in 0 .. Len(k) /\ n \in 0 .. Len(l) /\ n < Len(k) /\ n < Len(l) /\ n + 1 = d /\ \A j \in 1 .. n : k[j] = l[j]
      BY <3>3, <3>5 DEF n
    <3> QED
      BY <3>4, <3>6 DEF Sooner
  <2> QED
    BY <2>1, <2>2
<1>4. \A k, l \in Seq(Names) : Len(k) <= Len(l) \/ Len(l) <= Len(k)
  BY <1>0
<1> QED
  BY <1>1, <1>2, <1>3, <1>4

(* Sorted keys are the keys, each once. *)
LEMMA SortedKeysAre ==
    ASSUME NEW S, IsFiniteSet(S), S \subseteq Seq(Names)
    PROVE  /\ Cardinality(S) \in Nat
           /\ DOMAIN SortedKeys(S) = 1 .. Cardinality(S)
           /\ \A i \in 1 .. Cardinality(S) : SortedKeys(S)[i] \in S
           /\ \A k \in S : \E i \in 1 .. Cardinality(S) : SortedKeys(S)[i] = k
           /\ \A i, j \in 1 .. Cardinality(S) : SortedKeys(S)[i] = SortedKeys(S)[j] => i = j
<1> DEFINE R == {p \in S \X S : Before(p[1], p[2])}
           N == Cardinality(S)
           place(e) == Cardinality(SmallerIn(S, R, e))
           E(e) == {f \in S : Before(f, e)}
<1>1. \A k, l \in S : <<k, l>> \in R <=> Sooner(k, l)
  BY BeforeIsSooner
<1>2. \A e \in S : SmallerIn(S, R, e) = E(e)
  BY DEF SmallerIn
<1> HIDE DEF R
<1>3. StrictOrder(S, R)
  <2>1. \A x \in S : <<x, x>> \notin R
    BY <1>1, SoonerOrders
  <2>2. \A x, y, z \in S : <<x, y>> \in R /\ <<y, z>> \in R => <<x, z>> \in R
    BY <1>1, SoonerOrders
  <2>3. \A x, y \in S : x # y => <<x, y>> \in R \/ <<y, x>> \in R
    BY <1>1, SoonerOrders
  <2> QED
    BY <2>1, <2>2, <2>3 DEF StrictOrder
<1>4. /\ N \in Nat
      /\ \A e \in S : place(e) \in Nat /\ place(e) + 1 \in 1 .. N
      /\ \A e, f \in S : place(e) = place(f) => e = f
      /\ \A i \in 1 .. N : \E e \in S : place(e) = i - 1
  BY <1>3, EveryPlaceTaken
<1>5. \A e \in S : place(e) = Cardinality(E(e))
  BY <1>2
<1>6. SortedKeys(S) = [i \in 1 .. N |-> CHOOSE e \in S : Cardinality(E(e)) = i - 1]
  BY DEF SortedKeys, Sorted
<1> HIDE DEF E, place, N
<1>7. ASSUME NEW i \in 1 .. N PROVE SortedKeys(S)[i] \in S /\ Cardinality(E(SortedKeys(S)[i])) = i - 1
  <2>1. \E e \in S : Cardinality(E(e)) = i - 1
    BY <1>4, <1>5
  <2>2. SortedKeys(S)[i] = CHOOSE e \in S : Cardinality(E(e)) = i - 1
    BY <1>6
  <2> QED
    BY <2>1, <2>2
<1>9. ASSUME NEW k \in S PROVE \E i \in 1 .. N : SortedKeys(S)[i] = k
  <2>1. place(k) + 1 \in 1 .. N /\ (place(k) + 1) - 1 = place(k)
    BY <1>4
  <2>2. SortedKeys(S)[place(k) + 1] \in S /\ Cardinality(E(SortedKeys(S)[place(k) + 1])) = place(k)
    BY <1>7, <2>1
  <2>3. SortedKeys(S)[place(k) + 1] = k
    BY <1>4, <1>5, <2>2
  <2> QED
    BY <2>1, <2>3
<1>10. \A i, j \in 1 .. N : SortedKeys(S)[i] = SortedKeys(S)[j] => i = j
  <2> SUFFICES ASSUME NEW i \in 1 .. N, NEW j \in 1 .. N, SortedKeys(S)[i] = SortedKeys(S)[j] PROVE i = j
    OBVIOUS
  <2>1. i - 1 = j - 1
    BY <1>7
  <2> QED
    BY <1>4, <2>1
<1> QED
  BY <1>4, <1>6, <1>7, <1>9, <1>10 DEF N

-------------------------------------------------------------------------------
(* Of each key the last                                                    *)

LEMMA WithKeyLayered ==
    ASSUME NEW n \in Nat, NEW L, NEW P, Layered(n, L, P), NEW by, NEW key,
           NEW Q, \A i \in 1 .. n : Q[i] = {b \in P[i] : KeyOf(by, b) = key}
    PROVE  Layered(n, WithKey(L, by, key), Q)
<1> DEFINE X == {b \in ToSet(L) : KeyOf(by, b) = key}
           D == {i \in DOMAIN L : KeyOf(by, L[i]) = key}
<1>1. IsList(L) /\ \E at : Layers(n, L, P, at)
  BY DEF Layered
<1>2. \A i \in DOMAIN L : L[i] \in ToSet(L)
  BY Zenon DEF ToSet
<1>3. D = {i \in DOMAIN L : L[i] \in X}
  BY <1>2
<1>4. \A i \in 1 .. n : P[i] \subseteq ToSet(L)
  BY <1>1, ElementPlace DEF Layers
<1>5. \A i \in 1 .. n : Q[i] = P[i] \cap X
  BY <1>4
<1> HIDE DEF X, D
<1>6. Layered(n, Picked(L, D), Q)
  BY <1>3, <1>5, PickedLayered
<1> QED
  BY <1>6 DEF D, WithKey

(* The keys of a list, and its groups: one for each key. *)
KeysIn(L, by) == {KeyOf(by, b) : b \in ToSet(L)}

LEMMA KeysFinite ==
    ASSUME NEW L, IsList(L), NEW by
    PROVE  IsFiniteSet(KeysIn(L, by))
<1> DEFINE f == [k \in 1 .. Len(L) |-> KeyOf(by, L[k])]
<1>1. Len(L) \in Nat
  BY ListElements
<1>2. IsFiniteSet(DOMAIN f)
  BY <1>1, FS_Interval
<1>3. KeysIn(L, by) = {f[k] : k \in DOMAIN f}
  <2>1. \A x : x \in ToSet(L) <=> \E k \in 1 .. Len(L) : L[k] = x
    BY ElementPlace
  <2>2. DOMAIN f = 1 .. Len(L) /\ \A k \in 1 .. Len(L) : f[k] = KeyOf(by, L[k])
    OBVIOUS
  <2> HIDE DEF f
  <2> QED
    BY <2>1, <2>2 DEF KeysIn
<1> HIDE DEF f
<1> QED
  BY <1>2, <1>3, ImageFinite

LEMMA GroupedIs ==
    ASSUME NEW L, IsList(L), NEW by, KeysIn(L, by) \subseteq Seq(Names)
    PROVE  LET G == Grouped(L, by)
               N == Cardinality(KeysIn(L, by))
               key(i) == SortedKeys(KeysIn(L, by))[i]
           IN  /\ N \in Nat /\ DOMAIN G = 1 .. N /\ G = [i \in 1 .. N |-> G[i]]
               /\ \A i \in 1 .. N : key(i) \in KeysIn(L, by) /\ G[i] = WithKey(L, by, key(i))
               /\ \A k \in KeysIn(L, by) : \E i \in 1 .. N : key(i) = k
               /\ \A i, j \in 1 .. N : key(i) = key(j) => i = j
<1> DEFINE S == KeysIn(L, by)
           N == Cardinality(S)
           G == Grouped(L, by)
           sorted == SortedKeys(S)
<1>1. IsFiniteSet(S)
  BY KeysFinite
<1>2. G = [i \in DOMAIN sorted |-> WithKey(L, by, sorted[i])]
  BY Zenon DEF Grouped, KeysIn
<1> HIDE DEF S, G
<1>3. /\ N \in Nat
      /\ DOMAIN SortedKeys(S) = 1 .. N
      /\ \A i \in 1 .. N : SortedKeys(S)[i] \in S
      /\ \A k \in S : \E i \in 1 .. N : SortedKeys(S)[i] = k
      /\ \A i, j \in 1 .. N : SortedKeys(S)[i] = SortedKeys(S)[j] => i = j
  BY <1>1, SortedKeysAre DEF S
<1> HIDE DEF sorted
<1>4. sorted = SortedKeys(S)
  BY DEF sorted
<1>5. DOMAIN sorted = 1 .. N
  BY <1>3, <1>4
<1> HIDE DEF N
<1>6. DOMAIN G = 1 .. N /\ G = [i \in 1 .. N |-> G[i]] /\ \A i \in 1 .. N : G[i] = WithKey(L, by, sorted[i])
  BY <1>2, <1>5
<1> QED
  BY <1>3, <1>4, <1>6 DEF S, G, N

(* Said last: by file i, and by no file after it. *)
Newest(n, P, by, b) ==
    \E i \in 1 .. n : b \in P[i] /\ \A j \in 1 .. n : j > i => \A c \in P[j] : KeyOf(by, c) # KeyOf(by, b)

LEMMA LastOfLayers ==
    ASSUME NEW n \in Nat, NEW L, NEW P, Layered(n, L, P), L # << >>
    PROVE  /\ Last(L) \in ToSet(L)
           /\ \E i \in 1 .. n : Last(L) \in P[i] /\ \A j \in 1 .. n : j > i => P[j] = {}
<1> DEFINE N == Len(L)
<1>1. PICK at : Layers(n, L, P, at)
  BY DEF Layered
<1>2. IsList(L) /\ N \in Nat /\ L \in Seq(ToSet(L))
  BY ListElements DEF Layered, IsList
<1>3. N \in 1 .. N
  BY <1>2
<1>4. Last(L) = L[N]
  BY DEF Last
<1>5. /\ at[N] \in 1 .. n /\ L[N] \in P[at[N]]
      /\ \A k \in 1 .. N : k < N => at[k] <= at[N]
      /\ \A k \in 1 .. N : at[k] \in 1 .. n
      /\ \A i \in 1 .. n : \A b \in P[i] : \E k \in 1 .. N : at[k] = i /\ L[k] = b
  BY <1>1, <1>3 DEF Layers
<1>6. ASSUME NEW j \in 1 .. n, j > at[N], P[j] # {} PROVE FALSE
  <2>1. PICK c : c \in P[j]
    BY <1>6
  <2>2. PICK k \in 1 .. N : at[k] = j
    BY <1>5, <2>1
  <2>3. k = N \/ k < N
    BY <1>2
  <2> QED
    BY <1>5, <1>6, <2>2, <2>3
<1>7. L[N] \in ToSet(L)
  BY <1>2, <1>3, ListElements
<1>8. \A j \in 1 .. n : j > at[N] => P[j] = {}
  BY <1>6
<1> HIDE DEF N
<1> QED
  BY <1>4, <1>5, <1>7, <1>8

LEMMA LastOfEachIs ==
    ASSUME NEW n \in Nat, NEW L, NEW P, Layered(n, L, P), NEW by, KeysIn(L, by) \subseteq Seq(Names),
           \A i \in 1 .. n : \A b, c \in P[i] : KeyOf(by, b) = KeyOf(by, c) => b = c
    PROVE  /\ IsList(LastOfEach(L, by))
           /\ \A b : b \in ToSet(LastOfEach(L, by)) <=> Newest(n, P, by, b)
<1> DEFINE S == KeysIn(L, by)
           N == Cardinality(S)
           G == Grouped(L, by)
           key(i) == SortedKeys(S)[i]
           R == LastOfEach(L, by)
           Of(k) == [i \in 1 .. n |-> {b \in P[i] : KeyOf(by, b) = k}]
<1>1. IsList(L)
  BY DEF Layered
<1>2. /\ N \in Nat /\ DOMAIN G = 1 .. N
      /\ \A i \in 1 .. N : key(i) \in S /\ G[i] = WithKey(L, by, key(i))
      /\ \A k \in S : \E i \in 1 .. N : key(i) = k
  BY <1>1, GroupedIs
<1>3. R = [i \in DOMAIN G |-> Last(G[i])]
  BY Zenon DEF LastOfEach
<1> HIDE DEF S, G, key, R, N
<1>4. DOMAIN R = 1 .. N /\ R = [i \in 1 .. N |-> R[i]] /\ \A i \in 1 .. N : R[i] = Last(G[i])
  BY <1>2, <1>3
<1>5. IsList(R) /\ Len(R) = N
  BY <1>2, <1>4, ListOf
<1>6. PICK at : Layers(n, L, P, at)
  BY DEF Layered
<1>7. \A x : x \in ToSet(L) <=> \E i \in 1 .. n : x \in P[i]
  <2>1. \A x : x \in ToSet(L) <=> \E k \in 1 .. Len(L) : L[k] = x
    BY <1>1, ElementPlace
  <2>2. /\ at \in [1 .. Len(L) -> 1 .. n]
        /\ \A k \in 1 .. Len(L) : L[k] \in P[at[k]]
        /\ \A i \in 1 .. n : \A b \in P[i] : \E k \in 1 .. Len(L) : at[k] = i /\ L[k] = b
    BY <1>6 DEF Layers
  <2> QED
    BY <2>1, <2>2
<1>8. \A k : k \in S <=> \E i \in 1 .. n : \E b \in P[i] : k = KeyOf(by, b)
  BY <1>7 DEF S, KeysIn
<1>9. ASSUME NEW i \in 1 .. N
      PROVE  KeyOf(by, R[i]) = key(i) /\ Newest(n, P, by, R[i])
  <2> DEFINE g == G[i]
             k == key(i)
  <2>0. \A m \in 1 .. n : Of(k)[m] = {b \in P[m] : KeyOf(by, b) = k}
    OBVIOUS
  <2>1. k \in S /\ Layered(n, g, Of(k))
    <3>1. k \in S /\ g = WithKey(L, by, k)
      BY <1>2
    <3> HIDE DEF Of, k, g
    <3>2. Layered(n, WithKey(L, by, k), Of(k))
      BY <2>0, WithKeyLayered
    <3> QED
      BY <3>1, <3>2
  <2>2. PICK j \in 1 .. n : \E b \in P[j] : k = KeyOf(by, b)
    BY <1>8, <2>1
  <2>3. PICK b \in P[j] : k = KeyOf(by, b)
    BY <2>2
  <2>4. b \in Of(k)[j]
    BY <2>3
  <2>5. g # << >>
    <3>1. PICK h : Layers(n, g, Of(k), h)
      BY <2>1 DEF Layered
    <3>2. \E l \in 1 .. Len(g) : g[l] = b
      BY <2>4, <3>1 DEF Layers
    <3> HIDE DEF g
    <3>3. g = << >> => Len(g) = 0
      OBVIOUS
    <3> QED
      BY <3>2, <3>3
  <2>6. \E m \in 1 .. n : Last(g) \in Of(k)[m] /\ \A l \in 1 .. n : l > m => Of(k)[l] = {}
    <3> HIDE DEF g, k, Of
    <3> QED
      BY <2>1, <2>5, LastOfLayers
  <2>7. PICK m \in 1 .. n : Last(g) \in Of(k)[m] /\ \A l \in 1 .. n : l > m => Of(k)[l] = {}
    BY <2>6
  <2>8. R[i] = Last(g)
    BY <1>4
  <2>9. R[i] \in P[m] /\ KeyOf(by, R[i]) = k
    BY <2>7, <2>8
  <2>10. \A l \in 1 .. n : l > m => \A c \in P[l] : KeyOf(by, c) # k
    BY <2>7
  <2> QED
    BY <2>9, <2>10 DEF Newest
<1>10. ASSUME NEW b, Newest(n, P, by, b) PROVE \E i \in 1 .. N : R[i] = b
  <2>1. PICK f \in 1 .. n : b \in P[f] /\ \A j \in 1 .. n : j > f => \A c \in P[j] : KeyOf(by, c) # KeyOf(by, b)
    BY <1>10 DEF Newest
  <2>2. KeyOf(by, b) \in S
    BY <1>8, <2>1
  <2>3. PICK i \in 1 .. N : key(i) = KeyOf(by, b)
    BY <1>2, <2>2
  <2>4. KeyOf(by, R[i]) = KeyOf(by, b) /\ Newest(n, P, by, R[i])
    BY <1>9, <2>3
  <2>5. PICK e \in 1 .. n : R[i] \in P[e] /\ \A j \in 1 .. n : j > e => \A c \in P[j] : KeyOf(by, c) # KeyOf(by, R[i])
    BY <2>4 DEF Newest
  <2>6. ~(f > e) /\ ~(e > f)
    BY <2>1, <2>4, <2>5
  <2>7. e = f
    BY <2>6
  <2> QED
    BY <2>1, <2>4, <2>5, <2>7
<1>11. \A b : b \in ToSet(R) <=> \E i \in 1 .. N : R[i] = b
  BY <1>5, ElementPlace
<1>12. IsList(R) /\ \A b : b \in ToSet(R) <=> Newest(n, P, by, b)
  BY <1>5, <1>9, <1>10, <1>11
<1> QED
  BY <1>12 DEF R

-------------------------------------------------------------------------------
(* Attributes that later blocks overwrite                                  *)

Overwritten(old, attrs) ==
    [a \in DOMAIN attrs \cup DOMAIN old |-> IF a \in DOMAIN attrs THEN attrs[a] ELSE old[a]]

MergedSteps(L, f) ==
    f = [n \in 0 .. Len(L) |-> IF n = 0 THEN NoAttrs ELSE Overwritten(f[n - 1], L[n].attrs)]

LEMMA MergedStepsExist ==
    ASSUME NEW L, IsList(L)
    PROVE  \E f : MergedSteps(L, f)
<1> DEFINE N == Len(L)
           names == UNION {DOMAIN L[k].attrs : k \in 1 .. N}
           W == UNION {{L[k].attrs[a] : a \in DOMAIN L[k].attrs} : k \in 1 .. N}
           V == {NoAttrs} \cup UNION {[A -> W] : A \in SUBSET names}
           F == [p \in (1 .. N) \X V |-> Overwritten(p[2], L[p[1]].attrs)]
<1>1. N \in Nat
  BY ListElements
<1>0. \A k \in 1 .. N : \A a \in DOMAIN L[k].attrs : a \in names /\ L[k].attrs[a] \in W
  <2> SUFFICES ASSUME NEW k \in 1 .. N, NEW a \in DOMAIN L[k].attrs PROVE a \in names /\ L[k].attrs[a] \in W
    OBVIOUS
  <2> DEFINE values == {L[k].attrs[b] : b \in DOMAIN L[k].attrs}
  <2>1. L[k].attrs[a] \in values
    OBVIOUS
  <2>2. values \in {{L[j].attrs[b] : b \in DOMAIN L[j].attrs} : j \in 1 .. N}
    OBVIOUS
  <2>3. a \in names
    OBVIOUS
  <2> HIDE DEF values
  <2>4. L[k].attrs[a] \in W
    BY <2>1, <2>2
  <2> QED
    BY <2>3, <2>4
<1> HIDE DEF names, W
<1>2. ASSUME NEW n \in 1 .. N, NEW x \in V PROVE Overwritten(x, L[n].attrs) \in V
  <2> DEFINE attrs == L[n].attrs
             A == DOMAIN attrs \cup DOMAIN x
             y == Overwritten(x, attrs)
  <2>1. DOMAIN x \subseteq names /\ \A a \in DOMAIN x : x[a] \in W
    <3>1. CASE x = NoAttrs
      <4>1. DOMAIN x = {}
        BY <3>1 DEF NoAttrs
      <4> QED
        BY <4>1
    <3>2. CASE x # NoAttrs
      <4>1. PICK B \in SUBSET names : x \in [B -> W]
        BY <1>2, <3>2
      <4> QED
        BY <4>1
    <3> QED
      BY <3>1, <3>2
  <2>2. \A a \in DOMAIN attrs : a \in names /\ attrs[a] \in W
    BY <1>0
  <2>3. y = [a \in A |-> IF a \in DOMAIN attrs THEN attrs[a] ELSE x[a]]
    BY DEF Overwritten
  <2>4. A \in SUBSET names
    BY <2>1, <2>2
  <2>5. \A a \in A : (IF a \in DOMAIN attrs THEN attrs[a] ELSE x[a]) \in W
    BY <2>1, <2>2
  <2> HIDE DEF y, A, attrs
  <2>6. y \in [A -> W]
    BY <2>3, <2>5
  <2>7. y \in V
    BY <2>4, <2>6
  <2> QED
    BY <2>7 DEF y, attrs
<1>3. \A n \in 1 .. N, x \in V : F[<<n, x>>] = Overwritten(x, L[n].attrs)
  <2> HIDE DEF V
  <2> QED
    OBVIOUS
<1>4. NoAttrs \in V
  OBVIOUS
<1>5. F \in [(1 .. N) \X V -> V]
  <2>1. \A p \in (1 .. N) \X V : p[1] \in 1 .. N /\ p[2] \in V
    OBVIOUS
  <2>2. \A p \in (1 .. N) \X V : Overwritten(p[2], L[p[1]].attrs) \in V
    BY <1>2, <2>1
  <2> HIDE DEF V
  <2> QED
    BY <2>2
<1> HIDE DEF F, V
<1>6. PICK f : Steps(N, V, NoAttrs, F, f)
  BY <1>1, <1>4, <1>5, StepsExist
<1>7. f \in [0 .. N -> V] /\ f[0] = NoAttrs /\ \A n \in 1 .. N : f[n] = F[<<n, f[n - 1]>>]
  BY <1>6 DEF Steps
<1>8. \A n \in 1 .. N : f[n] = Overwritten(f[n - 1], L[n].attrs)
  <2> TAKE n \in 1 .. N
  <2>1. n - 1 \in 0 .. N
    BY <1>1
  <2>2. f[n - 1] \in V
    BY <1>7, <2>1
  <2> QED
    BY <1>3, <1>7, <2>2
<1>9. \A n \in 0 .. N : f[n] = IF n = 0 THEN NoAttrs ELSE Overwritten(f[n - 1], L[n].attrs)
  <2> TAKE n \in 0 .. N
  <2>1. n = 0 \/ n \in 1 .. N
    BY <1>1
  <2>2. n \in 1 .. N => n # 0
    OBVIOUS
  <2> QED
    BY <1>7, <1>8, <2>1, <2>2, Zenon
<1>10. f = [n \in 0 .. N |-> f[n]]
  BY <1>7
<1>11. MergedSteps(L, f)
  BY <1>9, <1>10, Zenon DEF MergedSteps
<1> QED
  BY <1>11

(* Said last, by the k-th of the first n. *)
SetLast(L, n, a, k) ==
    k \in 1 .. n /\ a \in DOMAIN L[k].attrs /\ \A j \in 1 .. n : j > k => a \notin DOMAIN L[j].attrs

LEMMA MergedAttrsAre ==
    ASSUME NEW L, IsList(L)
    PROVE  \A a : /\ a \in DOMAIN MergedAttrs(L) <=> \E k \in 1 .. Len(L) : SetLast(L, Len(L), a, k)
                  /\ \A k \in 1 .. Len(L) : SetLast(L, Len(L), a, k) => MergedAttrs(L)[a] = L[k].attrs[a]
<1> DEFINE N == Len(L)
           f == CHOOSE g : MergedSteps(L, g)
<1>1. MergedSteps(L, f)
  BY MergedStepsExist
<1>2. MergedAttrs(L) = f[N]
  BY DEF MergedAttrs, MergedSteps, Overwritten
<1> HIDE DEF f
<1>3. N \in Nat
  BY ListElements
<1>4. f[0] = NoAttrs
  BY <1>1, <1>3 DEF MergedSteps
<1>5. ASSUME NEW n \in 0 .. N - 1
      PROVE  f[n + 1] = Overwritten(f[n], L[n + 1].attrs)
  <2>1. n + 1 \in 0 .. N /\ n + 1 # 0 /\ (n + 1) - 1 = n
    BY <1>3
  <2> QED
    BY <1>1, <2>1 DEF MergedSteps
<1> DEFINE P(n) == \A a : /\ a \in DOMAIN f[n] <=> \E k \in 1 .. n : SetLast(L, n, a, k)
                          /\ \A k \in 1 .. n : SetLast(L, n, a, k) => f[n][a] = L[k].attrs[a]
           S == {n \in 0 .. N : P(n)}
<1>6. P(0)
  BY <1>4 DEF NoAttrs
<1>7. ASSUME NEW n \in 0 .. N - 1, P(n) PROVE P(n + 1)
  <2> DEFINE new == L[n + 1].attrs
  <2>1. /\ DOMAIN f[n + 1] = DOMAIN new \cup DOMAIN f[n]
        /\ \A a \in DOMAIN f[n + 1] : f[n + 1][a] = IF a \in DOMAIN new THEN new[a] ELSE f[n][a]
    BY <1>5 DEF Overwritten
  <2> SUFFICES ASSUME NEW a
               PROVE  /\ a \in DOMAIN f[n + 1] <=> \E k \in 1 .. n + 1 : SetLast(L, n + 1, a, k)
                      /\ \A k \in 1 .. n + 1 : SetLast(L, n + 1, a, k) => f[n + 1][a] = L[k].attrs[a]
    OBVIOUS
  <2>2. \A i : i \in 1 .. n + 1 <=> i \in 1 .. n \/ i = n + 1
    OBVIOUS
  <2>3. CASE a \in DOMAIN new
    <3>1. SetLast(L, n + 1, a, n + 1)
      BY <2>3 DEF SetLast
    <3>2. \A k \in 1 .. n + 1 : SetLast(L, n + 1, a, k) => k = n + 1
      BY <2>2, <2>3 DEF SetLast
    <3>3. a \in DOMAIN f[n + 1] /\ f[n + 1][a] = L[n + 1].attrs[a]
      BY <2>1, <2>3
    <3>4. n + 1 \in 1 .. n + 1
      OBVIOUS
    <3> QED
      BY <3>1, <3>2, <3>3, <3>4
  <2>4. CASE a \notin DOMAIN new
    <3>1. \A k \in 1 .. n + 1 : SetLast(L, n + 1, a, k) <=> k \in 1 .. n /\ SetLast(L, n, a, k)
      BY <2>2, <2>4 DEF SetLast
    <3>2. a \in DOMAIN f[n + 1] <=> a \in DOMAIN f[n]
      BY <2>1, <2>4
    <3>3. a \in DOMAIN f[n + 1] => f[n + 1][a] = f[n][a]
      BY <2>1, <2>4
    <3>4. a \in DOMAIN f[n] <=> \E k \in 1 .. n : SetLast(L, n, a, k)
      BY <1>7
    <3>5. \A k \in 1 .. n : SetLast(L, n, a, k) => f[n][a] = L[k].attrs[a]
      BY <1>7
    <3>6. a \in DOMAIN f[n + 1] <=> \E k \in 1 .. n + 1 : SetLast(L, n + 1, a, k)
      BY <2>2, <3>1, <3>2, <3>4
    <3>7. \A k \in 1 .. n + 1 : SetLast(L, n + 1, a, k) => f[n + 1][a] = L[k].attrs[a]
      BY <3>1, <3>3, <3>5, <3>6
    <3> QED
      BY <3>6, <3>7
  <2> QED
    BY <2>3, <2>4
<1> HIDE DEF P
<1>8. 0 \in S /\ \A n \in 0 .. N - 1 : n \in S => n + 1 \in S
  BY <1>3, <1>6, <1>7
<1>9. N \in S
  <2> HIDE DEF S
  <2> QED
    BY <1>3, <1>8, InductionTo
<1>10. P(N)
  BY <1>9
<1> QED
  BY <1>2, <1>10 DEF P

(* The attribute of layered blocks is that of the last that have it. *)
NewestAttr(n, P, a, v) ==
    \E i \in 1 .. n : /\ \E b \in P[i] : a \in DOMAIN b.attrs /\ v = b.attrs[a]
                      /\ \A j \in 1 .. n : j > i => \A c \in P[j] : a \notin DOMAIN c.attrs

LEMMA MergedAttrsNewest ==
    ASSUME NEW n \in Nat, NEW L, NEW P, Layered(n, L, P), NEW a,
           \A i \in 1 .. n : \A b, c \in P[i] : a \in DOMAIN b.attrs \cap DOMAIN c.attrs => b.attrs[a] = c.attrs[a]
    PROVE  \A v : (a \in DOMAIN MergedAttrs(L) /\ v = MergedAttrs(L)[a]) <=> NewestAttr(n, P, a, v)
<1> DEFINE N == Len(L)
           M == MergedAttrs(L)
<1>1. PICK at : Layers(n, L, P, at)
  BY DEF Layered
<1>2. /\ at \in [1 .. N -> 1 .. n]
      /\ \A j, k \in 1 .. N : j < k => at[j] <= at[k]
      /\ \A k \in 1 .. N : L[k] \in P[at[k]]
      /\ \A i \in 1 .. n : \A b \in P[i] : \E k \in 1 .. N : at[k] = i /\ L[k] = b
  BY <1>1 DEF Layers
<1>3. IsList(L) /\ N \in Nat
  BY ListElements DEF Layered
<1>4. /\ a \in DOMAIN M <=> \E k \in 1 .. N : SetLast(L, N, a, k)
      /\ \A k \in 1 .. N : SetLast(L, N, a, k) => M[a] = L[k].attrs[a]
  BY <1>3, MergedAttrsAre
<1> HIDE DEF M, N
<1>5. ASSUME NEW k \in 1 .. N, SetLast(L, N, a, k)
      PROVE  /\ \A v : v = M[a] => NewestAttr(n, P, a, v)
             /\ \A j \in 1 .. n : j > at[k] => \A c \in P[j] : a \notin DOMAIN c.attrs
  <2>1. L[k] \in P[at[k]] /\ at[k] \in 1 .. n /\ a \in DOMAIN L[k].attrs /\ M[a] = L[k].attrs[a]
    BY <1>2, <1>4, <1>5 DEF SetLast
  <2>2. ASSUME NEW j \in 1 .. n, j > at[k], NEW c \in P[j], a \in DOMAIN c.attrs PROVE FALSE
    <3>1. PICK r \in 1 .. N : at[r] = j /\ L[r] = c
      BY <1>2
    <3>2. r > k
      <4>1. r = k \/ r < k \/ r > k
        OBVIOUS
      <4>2. r < k => at[r] <= at[k]
        BY <1>2
      <4> QED
        BY <2>1, <2>2, <3>1, <4>1, <4>2
    <3> QED
      BY <1>5, <2>2, <3>1, <3>2 DEF SetLast
  <2> QED
    BY <2>1, <2>2 DEF NewestAttr
<1>6. ASSUME NEW v, NewestAttr(n, P, a, v) PROVE a \in DOMAIN M /\ v = M[a]
  <2>1. PICK i \in 1 .. n : /\ \E b \in P[i] : a \in DOMAIN b.attrs /\ v = b.attrs[a]
                            /\ \A j \in 1 .. n : j > i => \A c \in P[j] : a \notin DOMAIN c.attrs
    BY <1>6 DEF NewestAttr
  <2>2. PICK b \in P[i] : a \in DOMAIN b.attrs /\ v = b.attrs[a]
    BY <2>1
  <2>3. PICK r \in 1 .. N : at[r] = i /\ L[r] = b
    BY <1>2
  <2> DEFINE D == {k \in 1 .. N : a \in DOMAIN L[k].attrs}
  <2>4. D \in SUBSET Nat /\ r \in D /\ \A j \in D : j \in 1 .. N /\ a \in DOMAIN L[j].attrs
    BY <2>2, <2>3
  <2>5. PICK k \in D : \A j \in D : j <= k
    <3> DEFINE E == {N - d : d \in D}
    <3>1. E \in SUBSET Nat /\ E # {}
      BY <1>3, <2>4 DEF N
    <3>2. Min(E) \in E /\ \A e \in E : Min(E) <= e
      <4> HIDE DEF E
      <4> QED
        BY <3>1, Least
    <3>3. PICK d \in D : Min(E) = N - d
      BY <3>2
    <3>4. \A j \in D : N - d <= N - j
      BY <3>2, <3>3
    <3>5. N \in Nat /\ D \subseteq Nat
      BY <1>3, <2>4 DEF N
    <3> QED
      BY <3>4, <3>5
  <2>6. SetLast(L, N, a, k)
    <3>1. \A j \in 1 .. N : j > k => j \notin D
      BY <2>4, <2>5
    <3> QED
      BY <2>5, <3>1 DEF SetLast
  <2>7. k \in 1 .. N /\ a \in DOMAIN M /\ M[a] = L[k].attrs[a] /\ a \in DOMAIN L[k].attrs
    BY <1>4, <2>5, <2>6
  <2>8. L[k] \in P[at[k]] /\ at[k] \in 1 .. n
    BY <1>2, <2>7
  <2>9. ~(at[k] > i)
    BY <2>1, <2>7, <2>8
  <2>10. ~(i > at[k])
    BY <1>5, <2>2, <2>6, <2>7
  <2>11. at[k] = i
    BY <2>8, <2>9, <2>10
  <2> QED
    BY <2>2, <2>7, <2>8, <2>11
<1> QED
  BY <1>4, <1>5, <1>6 DEF M

-------------------------------------------------------------------------------
(* What a block says, and what several files say last                      *)

Value(proxies, c) == IF c.type = "endpoint" THEN addProxy(c, proxies) ELSE c

SaidBlocks(proxies, b) == {Value(proxies, c) : c \in Plain(b)}

(* Blocks whose items are theirs as they are said, too. *)
KeepsItems(proxies, b) == \A c \in Plain(b) : Item(Value(proxies, c)) = Item(c)

LEMMA OwnFacts ==
    ASSUME NEW proxies, NEW b, KeepsItems(proxies, b)
    PROVE  /\ \A f \in Own(proxies, b) : \/ \E a, v : f = <<<<"attribute", a>>, v>>
                                         \/ \E a, v : f = <<<<"variable", a>>, v>>
                                         \/ \E d : f = <<<<"block", Item(d)>>, d>>
           /\ \A a, v : <<<<"attribute", a>>, v>> \in Own(proxies, b) <=>
                            a \in DOMAIN b.attrs /\ a # "environment_variables" /\ v = b.attrs[a]
           /\ \A a, v : <<<<"variable", a>>, v>> \in Own(proxies, b) <=>
                            a \in DOMAIN Variables(b).attrs /\ v = Variables(b).attrs[a]
           /\ \A d : <<<<"block", Item(d)>>, d>> \in Own(proxies, b) <=> d \in SaidBlocks(proxies, b)
<1> DEFINE attributes == {<<<<"attribute", n>>, b.attrs[n]>> : n \in DOMAIN b.attrs \ {"environment_variables"}}
           variables  == {<<<<"variable", v>>, Variables(b).attrs[v]>> : v \in DOMAIN Variables(b).attrs}
           blocks     == {<<<<"block", Item(c)>>, Value(proxies, c)>> : c \in Plain(b)}
<1>1. \A f : f \in Own(proxies, b) <=> f \in attributes \/ f \in variables \/ f \in blocks
  BY Zenon DEF Own, Value
<1>2. \A f : f \in attributes <=> \E n \in DOMAIN b.attrs : n # "environment_variables" /\ f = <<<<"attribute", n>>, b.attrs[n]>>
  OBVIOUS
<1>3. \A f : f \in variables <=> \E n \in DOMAIN Variables(b).attrs : f = <<<<"variable", n>>, Variables(b).attrs[n]>>
  OBVIOUS
<1>4. \A f : f \in blocks <=> \E c \in Plain(b) : f = <<<<"block", Item(c)>>, Value(proxies, c)>>
  OBVIOUS
<1>5. \A d : d \in SaidBlocks(proxies, b) <=> \E c \in Plain(b) : d = Value(proxies, c)
  BY DEF SaidBlocks
<1>6. \A c \in Plain(b) : Item(Value(proxies, c)) = Item(c)
  BY DEF KeepsItems
<1> HIDE DEF attributes, variables, blocks
<1>7. \A k, l, v, w : <<k, v>> = <<l, w>> <=> k = l /\ v = w
  OBVIOUS
<1>8. \A x, y : <<"attribute", x>> # <<"variable", y>> /\ <<"attribute", x>> # <<"block", y>> /\ <<"variable", x>> # <<"block", y>>
  OBVIOUS
<1>9. \A f \in Own(proxies, b) : \/ \E a, v : f = <<<<"attribute", a>>, v>>
                                 \/ \E a, v : f = <<<<"variable", a>>, v>>
                                 \/ \E d : f = <<<<"block", Item(d)>>, d>>
  <2> TAKE f \in Own(proxies, b)
  <2>1. CASE f \in attributes
    BY <1>2, <2>1
  <2>2. CASE f \in variables
    BY <1>3, <2>2
  <2>3. CASE f \in blocks
    <3>1. PICK c \in Plain(b) : f = <<<<"block", Item(c)>>, Value(proxies, c)>>
      BY <1>4, <2>3
    <3>2. f = <<<<"block", Item(Value(proxies, c))>>, Value(proxies, c)>>
      BY <1>6, <3>1
    <3> QED
      BY <3>2, Zenon
  <2> QED
    BY <1>1, <2>1, <2>2, <2>3
<1>10. ASSUME NEW a, NEW v
       PROVE  <<<<"attribute", a>>, v>> \in Own(proxies, b) <=>
                  a \in DOMAIN b.attrs /\ a # "environment_variables" /\ v = b.attrs[a]
  <2>1. <<<<"attribute", a>>, v>> \notin variables /\ <<<<"attribute", a>>, v>> \notin blocks
    BY <1>3, <1>4, <1>7, <1>8
  <2>2. <<<<"attribute", a>>, v>> \in attributes <=> a \in DOMAIN b.attrs /\ a # "environment_variables" /\ v = b.attrs[a]
    BY <1>2, <1>7
  <2> QED
    BY <1>1, <2>1, <2>2
<1>11. ASSUME NEW a, NEW v
       PROVE  <<<<"variable", a>>, v>> \in Own(proxies, b) <=> a \in DOMAIN Variables(b).attrs /\ v = Variables(b).attrs[a]
  <2>1. <<<<"variable", a>>, v>> \notin attributes /\ <<<<"variable", a>>, v>> \notin blocks
    BY <1>2, <1>4, <1>7, <1>8
  <2>2. <<<<"variable", a>>, v>> \in variables <=> a \in DOMAIN Variables(b).attrs /\ v = Variables(b).attrs[a]
    BY <1>3, <1>7
  <2> QED
    BY <1>1, <2>1, <2>2
<1>12. ASSUME NEW d
       PROVE  <<<<"block", Item(d)>>, d>> \in Own(proxies, b) <=> d \in SaidBlocks(proxies, b)
  <2>1. <<<<"block", Item(d)>>, d>> \notin attributes /\ <<<<"block", Item(d)>>, d>> \notin variables
    BY <1>2, <1>3, <1>7, <1>8
  <2>2. <<<<"block", Item(d)>>, d>> \in blocks <=> d \in SaidBlocks(proxies, b)
    BY <1>4, <1>5, <1>6, <1>7
  <2> QED
    BY <1>1, <2>1, <2>2
<1> QED
  BY <1>9, <1>10, <1>11, <1>12

(* Y[b] is what a block b says. *)
NewestFact(n, Q, Y, f) ==
    \E i \in 1 .. n : /\ \E b \in Q[i] : f \in Y[b]
                      /\ \A j \in 1 .. n : j > i => \A c \in Q[j] : \A g \in Y[c] : g[1] # f[1]

NewestItem(n, P, b) ==
    \E i \in 1 .. n : b \in P[i] /\ \A j \in 1 .. n : j > i => \A c \in P[j] : Item(c) # Item(b)

(* What blocks merged into M say last: their attributes, their environment *)
(* variables and their blocks.                                             *)
SaysNewest(proxies, n, Q, M) ==
    /\ KeepsItems(proxies, M)
    /\ \A i \in 1 .. n : \A b \in Q[i] : KeepsItems(proxies, b)
    /\ \A a, v : a # "environment_variables" => ((a \in DOMAIN M.attrs /\ v = M.attrs[a]) <=> NewestAttr(n, Q, a, v))
    /\ \A a, v : (a \in DOMAIN Variables(M).attrs /\ v = Variables(M).attrs[a]) <=>
                     NewestAttr(n, [i \in 1 .. n |-> {Variables(b) : b \in Q[i]}], a, v)
    /\ \A d : d \in SaidBlocks(proxies, M) <=>
                  NewestItem(n, [i \in 1 .. n |-> UNION {SaidBlocks(proxies, b) : b \in Q[i]}], d)

LEMMA NewestOwn ==
    ASSUME NEW proxies, NEW n, NEW Q, NEW M, SaysNewest(proxies, n, Q, M),
           NEW Y, \A i \in 1 .. n : \A b \in Q[i] : Y[b] = Own(proxies, b)
    PROVE  \A f : f \in Own(proxies, M) <=> NewestFact(n, Q, Y, f)
<1> DEFINE V == [i \in 1 .. n |-> {Variables(b) : b \in Q[i]}]
           B == [i \in 1 .. n |-> UNION {SaidBlocks(proxies, b) : b \in Q[i]}]
<1>1. /\ KeepsItems(proxies, M)
      /\ \A i \in 1 .. n : \A b \in Q[i] : KeepsItems(proxies, b)
      /\ \A a, v : a # "environment_variables" => ((a \in DOMAIN M.attrs /\ v = M.attrs[a]) <=> NewestAttr(n, Q, a, v))
      /\ \A a, v : (a \in DOMAIN Variables(M).attrs /\ v = Variables(M).attrs[a]) <=> NewestAttr(n, V, a, v)
      /\ \A d : d \in SaidBlocks(proxies, M) <=> NewestItem(n, B, d)
  BY Zenon DEF SaysNewest
<1>2. \A i \in 1 .. n : \A x : x \in V[i] <=> \E b \in Q[i] : x = Variables(b)
  OBVIOUS
<1>3. \A i \in 1 .. n : \A d : d \in B[i] <=> \E b \in Q[i] : d \in SaidBlocks(proxies, b)
  OBVIOUS
<1> HIDE DEF V, B
<1>4. \A i \in 1 .. n : \A b \in Q[i] :
          /\ \A f \in Y[b] : \/ \E a, v : f = <<<<"attribute", a>>, v>>
                             \/ \E a, v : f = <<<<"variable", a>>, v>>
                             \/ \E d : f = <<<<"block", Item(d)>>, d>>
          /\ \A a, v : <<<<"attribute", a>>, v>> \in Y[b] <=> a \in DOMAIN b.attrs /\ a # "environment_variables" /\ v = b.attrs[a]
          /\ \A a, v : <<<<"variable", a>>, v>> \in Y[b] <=> a \in DOMAIN Variables(b).attrs /\ v = Variables(b).attrs[a]
          /\ \A d : <<<<"block", Item(d)>>, d>> \in Y[b] <=> d \in SaidBlocks(proxies, b)
  <2> TAKE i \in 1 .. n
  <2> TAKE b \in Q[i]
  <2>1. KeepsItems(proxies, b) /\ Y[b] = Own(proxies, b)
    BY <1>1
  <2> QED
    BY <2>1, OwnFacts
<1>5. /\ \A f \in Own(proxies, M) : \/ \E a, v : f = <<<<"attribute", a>>, v>>
                                    \/ \E a, v : f = <<<<"variable", a>>, v>>
                                    \/ \E d : f = <<<<"block", Item(d)>>, d>>
      /\ \A a, v : <<<<"attribute", a>>, v>> \in Own(proxies, M) <=> a \in DOMAIN M.attrs /\ a # "environment_variables" /\ v = M.attrs[a]
      /\ \A a, v : <<<<"variable", a>>, v>> \in Own(proxies, M) <=> a \in DOMAIN Variables(M).attrs /\ v = Variables(M).attrs[a]
      /\ \A d : <<<<"block", Item(d)>>, d>> \in Own(proxies, M) <=> d \in SaidBlocks(proxies, M)
  BY <1>1, OwnFacts
<1>6. \A k, l, v, w : <<k, v>> = <<l, w>> <=> k = l /\ v = w
  OBVIOUS
<1>7. \A x, y : <<"attribute", x>> # <<"variable", y>> /\ <<"attribute", x>> # <<"block", y>> /\ <<"variable", x>> # <<"block", y>>
  OBVIOUS
<1>8. \A k, v : <<k, v>>[1] = k
  OBVIOUS
<1>9. ASSUME NEW a, NEW v
      PROVE  <<<<"attribute", a>>, v>> \in Own(proxies, M) <=> NewestFact(n, Q, Y, <<<<"attribute", a>>, v>>)
  <2> DEFINE key == <<"attribute", a>>
  <2>0. ASSUME a = "environment_variables" PROVE ~NewestFact(n, Q, Y, <<key, v>>)
    BY <1>4, <2>0 DEF NewestFact
  <2>1. ASSUME NEW j \in 1 .. n, NEW c \in Q[j], a # "environment_variables"
        PROVE  (\A g \in Y[c] : g[1] # key) <=> a \notin DOMAIN c.attrs
    <3>1. ASSUME NEW g \in Y[c], g[1] = key PROVE a \in DOMAIN c.attrs
      <4>1. CASE \E b, w : g = <<<<"attribute", b>>, w>>
        BY <1>4, <1>6, <1>8, <3>1, <4>1
      <4>2. CASE \E b, w : g = <<<<"variable", b>>, w>>
        BY <1>7, <1>8, <3>1, <4>2
      <4>3. CASE \E d : g = <<<<"block", Item(d)>>, d>>
        BY <1>7, <1>8, <3>1, <4>3
      <4> QED
        BY <1>4, <4>1, <4>2, <4>3
    <3>2. ASSUME a \in DOMAIN c.attrs PROVE \E g \in Y[c] : g[1] = key
      <4>1. <<key, c.attrs[a]>> \in Y[c]
        BY <1>4, <2>1, <3>2
      <4> QED
        BY <1>8, <4>1
    <3> QED
      BY <3>1, <3>2
  <2>2. ASSUME a # "environment_variables" PROVE NewestFact(n, Q, Y, <<key, v>>) <=> NewestAttr(n, Q, a, v)
    <3>1. \A i \in 1 .. n : (\E b \in Q[i] : <<key, v>> \in Y[b]) <=> (\E b \in Q[i] : a \in DOMAIN b.attrs /\ v = b.attrs[a])
      BY <1>4, <2>2
    <3>2. <<key, v>>[1] = key
      OBVIOUS
    <3> HIDE DEF key
    <3> QED
      BY <2>1, <2>2, <3>1, <3>2 DEF NewestFact, NewestAttr
  <2> QED
    BY <1>1, <1>5, <2>0, <2>2
<1>10. ASSUME NEW a, NEW v
       PROVE  <<<<"variable", a>>, v>> \in Own(proxies, M) <=> NewestFact(n, Q, Y, <<<<"variable", a>>, v>>)
  <2> DEFINE key == <<"variable", a>>
  <2>1. ASSUME NEW j \in 1 .. n, NEW c \in Q[j]
        PROVE  (\A g \in Y[c] : g[1] # key) <=> a \notin DOMAIN Variables(c).attrs
    <3>1. ASSUME NEW g \in Y[c], g[1] = key PROVE a \in DOMAIN Variables(c).attrs
      <4>1. CASE \E b, w : g = <<<<"attribute", b>>, w>>
        BY <1>7, <1>8, <3>1, <4>1
      <4>2. CASE \E b, w : g = <<<<"variable", b>>, w>>
        BY <1>4, <1>6, <1>8, <3>1, <4>2
      <4>3. CASE \E d : g = <<<<"block", Item(d)>>, d>>
        BY <1>7, <1>8, <3>1, <4>3
      <4> QED
        BY <1>4, <4>1, <4>2, <4>3
    <3>2. ASSUME a \in DOMAIN Variables(c).attrs PROVE \E g \in Y[c] : g[1] = key
      <4>1. <<key, Variables(c).attrs[a]>> \in Y[c]
        BY <1>4, <3>2
      <4> QED
        BY <1>8, <4>1
    <3> QED
      BY <3>1, <3>2
  <2>2. NewestFact(n, Q, Y, <<key, v>>) <=> NewestAttr(n, V, a, v)
    <3>1. \A i \in 1 .. n : (\E b \in Q[i] : <<key, v>> \in Y[b]) <=> (\E x \in V[i] : a \in DOMAIN x.attrs /\ v = x.attrs[a])
      BY <1>2, <1>4
    <3>2. \A j \in 1 .. n : (\A c \in Q[j] : \A g \in Y[c] : g[1] # key) <=> (\A x \in V[j] : a \notin DOMAIN x.attrs)
      BY <1>2, <2>1
    <3>3. <<key, v>>[1] = key
      OBVIOUS
    <3> HIDE DEF key
    <3> QED
      BY <3>1, <3>2, <3>3 DEF NewestFact, NewestAttr
  <2> QED
    BY <1>1, <1>5, <2>2
<1>11. ASSUME NEW d
       PROVE  <<<<"block", Item(d)>>, d>> \in Own(proxies, M) <=> NewestFact(n, Q, Y, <<<<"block", Item(d)>>, d>>)
  <2> DEFINE key == <<"block", Item(d)>>
  <2>1. ASSUME NEW j \in 1 .. n, NEW c \in Q[j]
        PROVE  (\A g \in Y[c] : g[1] # key) <=> (\A e \in SaidBlocks(proxies, c) : Item(e) # Item(d))
    <3>1. ASSUME NEW g \in Y[c], g[1] = key PROVE \E e \in SaidBlocks(proxies, c) : Item(e) = Item(d)
      <4>1. CASE \E b, w : g = <<<<"attribute", b>>, w>>
        BY <1>7, <1>8, <3>1, <4>1
      <4>2. CASE \E b, w : g = <<<<"variable", b>>, w>>
        BY <1>7, <1>8, <3>1, <4>2
      <4>3. CASE \E e : g = <<<<"block", Item(e)>>, e>>
        BY <1>4, <1>6, <1>8, <3>1, <4>3
      <4> QED
        BY <1>4, <4>1, <4>2, <4>3
    <3>2. ASSUME NEW e \in SaidBlocks(proxies, c), Item(e) = Item(d) PROVE \E g \in Y[c] : g[1] = key
      <4>1. <<key, e>> \in Y[c]
        BY <1>4, <3>2
      <4> QED
        BY <1>8, <4>1
    <3> QED
      BY <3>1, <3>2
  <2>2. NewestFact(n, Q, Y, <<key, d>>) <=> NewestItem(n, B, d)
    <3>1. \A i \in 1 .. n : (\E b \in Q[i] : <<key, d>> \in Y[b]) <=> d \in B[i]
      BY <1>3, <1>4
    <3>2. \A j \in 1 .. n : (\A c \in Q[j] : \A g \in Y[c] : g[1] # key) <=> (\A e \in B[j] : Item(e) # Item(d))
      BY <1>3, <2>1, ZenonT(60)
    <3>3. <<key, d>>[1] = key
      OBVIOUS
    <3> HIDE DEF key
    <3> QED
      BY <3>1, <3>2, <3>3 DEF NewestFact, NewestItem
  <2> QED
    BY <1>1, <1>5, <2>2
<1>12. ASSUME NEW f, NewestFact(n, Q, Y, f) \/ f \in Own(proxies, M)
       PROVE  \/ \E a, v : f = <<<<"attribute", a>>, v>>
              \/ \E a, v : f = <<<<"variable", a>>, v>>
              \/ \E d : f = <<<<"block", Item(d)>>, d>>
  <2>1. CASE NewestFact(n, Q, Y, f)
    <3>1. PICK i \in 1 .. n : \E b \in Q[i] : f \in Y[b]
      BY <2>1 DEF NewestFact
    <3> QED
      BY <1>4, <3>1, ZenonT(60)
  <2>2. CASE f \in Own(proxies, M)
    BY <1>5, <2>2, Zenon
  <2> QED
    BY <1>12, <2>1, <2>2
<1> SUFFICES ASSUME NEW f PROVE f \in Own(proxies, M) <=> NewestFact(n, Q, Y, f)
  OBVIOUS
<1>13. CASE \E a, v : f = <<<<"attribute", a>>, v>>
  BY <1>9, <1>13, Zenon
<1>14. CASE \E a, v : f = <<<<"variable", a>>, v>>
  BY <1>10, <1>14, Zenon
<1>15. CASE \E d : f = <<<<"block", Item(d)>>, d>>
  BY <1>11, <1>15, Zenon
<1> QED
  BY <1>12, <1>13, <1>14, <1>15

-------------------------------------------------------------------------------
(* The key of an error handler: its kinds, sorted                          *)

OneKind(k) == <<k>>

KindOrder(T) == {p \in T \X T : Sooner(OneKind(p[1]), OneKind(p[2]))}

LEMMA KindsOrdered ==
    ASSUME NEW T, T \subseteq Names
    PROVE  StrictOrder(T, KindOrder(T)) /\ \A x, y \in T : <<x, y>> \in KindOrder(T) <=> Sooner(OneKind(x), OneKind(y))
<1>1. \A x, y \in T : <<x, y>> \in KindOrder(T) <=> Sooner(OneKind(x), OneKind(y))
  BY DEF KindOrder
<1>2. \A x \in T : OneKind(x) \in Seq(Names)
  BY DEF OneKind
<1>3. \A x, y \in T : OneKind(x) = OneKind(y) => x = y
  BY DEF OneKind
<1>4. \A x \in T : <<x, x>> \notin KindOrder(T)
  BY <1>1, <1>2, SoonerOrders
<1>5. \A x, y, z \in T : <<x, y>> \in KindOrder(T) /\ <<y, z>> \in KindOrder(T) => <<x, z>> \in KindOrder(T)
  BY <1>1, <1>2, SoonerOrders
<1>6. \A x, y \in T : x # y => <<x, y>> \in KindOrder(T) \/ <<y, x>> \in KindOrder(T)
  BY <1>1, <1>2, <1>3, SoonerOrders
<1> QED
  BY <1>1, <1>4, <1>5, <1>6 DEF StrictOrder

LEMMA KindsAre ==
    ASSUME NEW b, IsHandler(b)
    PROVE  IsList(Kinds(b)) /\ ToSet(Kinds(b)) \subseteq Names /\ IsFiniteSet(ToSet(Kinds(b)))
<1> DEFINE labels == b.labels
           n == Len(labels)
           P == [i \in 1 .. n |-> ToSet(labels[i])]
           K == Kinds(b)
<1>1. IsList(labels) /\ \A l \in ToSet(labels) : l \in Seq(Names)
  BY DEF IsHandler, IsBlock, IsNames, Names
<1>2. n \in Nat /\ DOMAIN labels = 1 .. n /\ \A i \in 1 .. n : labels[i] \in ToSet(labels)
  BY <1>1, ListElements
<1>3. \A i \in 1 .. n : IsList(labels[i]) /\ ToSet(labels[i]) \subseteq Names
  BY <1>1, <1>2, SeqValues
<1>4. n = 0 => labels = << >>
  BY <1>1 DEF IsList
<1>5. \A i \in 1 .. n : P[i] = ToSet(labels[i])
  OBVIOUS
<1>6. K = FlattenSeq(labels)
  BY DEF Kinds
<1> HIDE DEF P, K
<1>7. Layered(n, K, P)
  <2> HIDE DEF labels
  <2> QED
    BY <1>2, <1>3, <1>4, <1>5, <1>6, FlattenedLayers
<1>8. IsList(K)
  BY <1>7 DEF Layered
<1>9. PICK at : Layers(n, K, P, at)
  BY <1>7 DEF Layered
<1>10. \A k \in 1 .. Len(K) : at[k] \in 1 .. n /\ K[k] \in P[at[k]]
  BY <1>9 DEF Layers
<1>11. \A x : x \in ToSet(K) <=> \E k \in 1 .. Len(K) : K[k] = x
  BY <1>8, ElementPlace
<1>12. ToSet(K) \subseteq Names
  BY <1>3, <1>5, <1>10, <1>11
<1>13. IsFiniteSet(ToSet(K))
  <2>1. DOMAIN K = 1 .. Len(K) /\ Len(K) \in Nat
    BY <1>8, ListElements
  <2>2. IsFiniteSet(DOMAIN K)
    BY <2>1, FS_Interval
  <2> QED
    BY <2>2, ImageFinite DEF ToSet
<1> QED
  BY <1>8, <1>12, <1>13 DEF K

(* The i-th kind of the key is the kind that i - 1 kinds are sooner than.  *)
LEMMA KeyOfKinds ==
    ASSUME NEW b, IsHandler(b)
    PROVE  LET T == ToSet(Kinds(b))
               key == ErrorHandlerKey(b)
           IN  /\ key = [i \in 1 .. Cardinality(T) |-> key[i]]
               /\ \A i \in 1 .. Cardinality(T) :
                      key[i] \in T /\ Cardinality(SmallerIn(T, KindOrder(T), key[i])) = i - 1
<1> DEFINE K == Kinds(b)
           N == Len(K)
           T == ToSet(K)
           S == 1 .. N
           key == ErrorHandlerKey(b)
           sorted == newErrorHandlerKey(b)
           E(e) == {f \in S : Before(<<K[f]>>, <<K[e]>>) \/ (K[f] = K[e] /\ f < e)}
           place(x) == Cardinality(SmallerIn(T, KindOrder(T), x))
<1>1. IsList(K) /\ T \subseteq Names /\ IsFiniteSet(T)
  BY KindsAre
<1>2. N \in Nat /\ DOMAIN K = S /\ (\A i \in S : K[i] \in T) /\ (\A x \in T : \E i \in S : K[i] = x)
  BY <1>1, ListElements, ElementPlace
<1>3. \A i, j \in S : K[i] = K[j] => i = j
  BY <1>2 DEF IsHandler, IsInjective
<1>4. sorted = [i \in 1 .. Cardinality(S) |-> CHOOSE e \in S : Cardinality(E(e)) = i - 1]
  <2>1. sorted = [i \in 1 .. Cardinality(DOMAIN K) |-> CHOOSE e \in DOMAIN K :
                      Cardinality({f \in DOMAIN K : Before(<<K[f]>>, <<K[e]>>) \/ (K[f] = K[e] /\ f < e)}) = i - 1]
    BY DEF newErrorHandlerKey, Sorted
  <2> HIDE DEF K, sorted, S
  <2> QED
    BY <1>2, <2>1
<1>5. key = [i \in S |-> K[sorted[i]]]
  BY <1>2, Zenon DEF ErrorHandlerKey
<1> HIDE DEF K, key, sorted, T
<1>6. IsFiniteSet(S) /\ Cardinality(S) = N
  BY <1>2, FS_Interval, SMTT(30)
<1>7. Cardinality(T) = N
  <2>1. K \in [S -> T]
    BY <1>1, <1>2 DEF IsList, T
  <2>2. K \in Bijection(S, T)
    BY <1>2, <1>3, <2>1 DEF Bijection, Injection, Surjection, IsInjective
  <2>3. ExistsBijection(S, T)
    BY <2>2 DEF ExistsBijection
  <2> QED
    BY <1>6, <2>3, FS_Bijection
<1>8. ASSUME NEW e \in S PROVE Cardinality(E(e)) = place(K[e])
  <2> DEFINE A == E(e)
             B == SmallerIn(T, KindOrder(T), K[e])
             g == [f \in A |-> K[f]]
  <2>1. \A f \in S : f \in A <=> Sooner(OneKind(K[f]), OneKind(K[e]))
    <3> TAKE f \in S
    <3>1. ~(K[f] = K[e] /\ f < e)
      BY <1>3
    <3>2. <<K[f]>> \in Seq(Names) /\ <<K[e]>> \in Seq(Names)
      BY <1>1, <1>2
    <3>3. Before(<<K[f]>>, <<K[e]>>) <=> Sooner(<<K[f]>>, <<K[e]>>)
      BY <3>2, BeforeIsSooner
    <3> QED
      BY <3>1, <3>3 DEF OneKind
  <2>2. \A x : x \in B <=> x \in T /\ Sooner(OneKind(x), OneKind(K[e]))
    <3>1. \A x \in T : <<x, K[e]>> \in KindOrder(T) <=> Sooner(OneKind(x), OneKind(K[e]))
      BY <1>1, <1>2, KindsOrdered
    <3> QED
      BY <3>1 DEF SmallerIn
  <2>3. A \in SUBSET S
    OBVIOUS
  <2> HIDE DEF A, B
  <2>4. \A f \in A : K[f] \in B
    BY <1>2, <2>1, <2>2, <2>3
  <2>5. \A x \in B : \E f \in A : K[f] = x
    BY <1>2, <2>1, <2>2, <2>3
  <2>6. \A f, h \in A : K[f] = K[h] => f = h
    BY <1>3, <2>3
  <2>7. g \in Bijection(A, B)
    BY <2>4, <2>5, <2>6 DEF Bijection, Injection, Surjection, IsInjective
  <2>8. IsFiniteSet(A)
    BY <1>6, <2>3, FS_Subset
  <2>9. ExistsBijection(A, B)
    BY <2>7 DEF ExistsBijection
  <2> QED
    BY <2>8, <2>9, FS_Bijection DEF A, B
<1> HIDE DEF E, place
<1>9. ASSUME NEW i \in 1 .. N PROVE key[i] \in T /\ place(key[i]) = i - 1
  <2>1. \E x \in T : place(x) = i - 1
    <3>1. StrictOrder(T, KindOrder(T))
      BY <1>1, KindsOrdered
    <3>2. \A j \in 1 .. Cardinality(T) : \E x \in T : place(x) = j - 1
      BY <1>1, <3>1, EveryPlaceTaken DEF place
    <3> QED
      BY <1>7, <3>2
  <2>2. \E e \in S : Cardinality(E(e)) = i - 1
    BY <1>2, <1>8, <2>1
  <2>3. sorted[i] = CHOOSE e \in S : Cardinality(E(e)) = i - 1
    BY <1>4, <1>6
  <2>4. sorted[i] \in S /\ Cardinality(E(sorted[i])) = i - 1
    BY <2>2, <2>3
  <2>5. key[i] = K[sorted[i]]
    BY <1>5
  <2> QED
    BY <1>2, <1>8, <2>4, <2>5
<1>10. key = [i \in 1 .. N |-> key[i]]
  BY <1>5
<1> QED
  BY <1>7, <1>9, <1>10 DEF place, T, K, key

LEMMA HandlerKeys ==
    ASSUME NEW b, IsHandler(b), NEW c, IsHandler(c)
    PROVE  /\ ErrorHandlerKey(b) \in Seq(Names)
           /\ ErrorHandlerKey(b) = ErrorHandlerKey(c) <=> ToSet(Kinds(b)) = ToSet(Kinds(c))
<1> DEFINE T(d) == ToSet(Kinds(d))
           place(d, x) == Cardinality(SmallerIn(T(d), KindOrder(T(d)), x))
<1>1. ASSUME NEW d, IsHandler(d)
      PROVE  /\ Cardinality(T(d)) \in Nat /\ T(d) \subseteq Names
             /\ ErrorHandlerKey(d) = [i \in 1 .. Cardinality(T(d)) |-> ErrorHandlerKey(d)[i]]
             /\ \A i \in 1 .. Cardinality(T(d)) : ErrorHandlerKey(d)[i] \in T(d) /\ place(d, ErrorHandlerKey(d)[i]) = i - 1
             /\ \A x \in T(d) : place(d, x) \in Nat /\ place(d, x) + 1 \in 1 .. Cardinality(T(d))
             /\ \A x, y \in T(d) : place(d, x) = place(d, y) => x = y
  <2>1. T(d) \subseteq Names /\ IsFiniteSet(T(d))
    BY <1>1, KindsAre
  <2>2. StrictOrder(T(d), KindOrder(T(d)))
    BY <2>1, KindsOrdered
  <2>3. /\ Cardinality(T(d)) \in Nat
        /\ \A x \in T(d) : place(d, x) \in Nat /\ place(d, x) + 1 \in 1 .. Cardinality(T(d))
        /\ \A x, y \in T(d) : place(d, x) = place(d, y) => x = y
    BY <2>1, <2>2, EveryPlaceTaken
  <2>4. /\ ErrorHandlerKey(d) = [i \in 1 .. Cardinality(T(d)) |-> ErrorHandlerKey(d)[i]]
        /\ \A i \in 1 .. Cardinality(T(d)) : ErrorHandlerKey(d)[i] \in T(d) /\ place(d, ErrorHandlerKey(d)[i]) = i - 1
    BY <1>1, KeyOfKinds, SMTT(30)
  <2> QED
    BY <2>1, <2>3, <2>4
<1>2. ASSUME NEW d, IsHandler(d)
      PROVE  /\ ErrorHandlerKey(d) \in Seq(Names)
             /\ DOMAIN ErrorHandlerKey(d) = 1 .. Cardinality(T(d))
             /\ T(d) = {ErrorHandlerKey(d)[i] : i \in DOMAIN ErrorHandlerKey(d)}
  <2> DEFINE k == ErrorHandlerKey(d)
             m == Cardinality(T(d))
  <2>1. /\ m \in Nat /\ T(d) \subseteq Names
        /\ k = [i \in 1 .. m |-> k[i]]
        /\ \A i \in 1 .. m : k[i] \in T(d) /\ place(d, k[i]) = i - 1
        /\ \A x \in T(d) : place(d, x) \in Nat /\ place(d, x) + 1 \in 1 .. m
        /\ \A x, y \in T(d) : place(d, x) = place(d, y) => x = y
    BY <1>1, <1>2
  <2> HIDE DEF k, m, T, place
  <2>2. DOMAIN k = 1 .. m
    BY <2>1
  <2>3. k \in [1 .. m -> Names]
    BY <2>1
  <2>4. k \in Seq(Names)
    BY <2>1, <2>3
  <2>5. \A i \in 1 .. m : k[i] \in T(d)
    BY <2>1
  <2>6. ASSUME NEW x \in T(d) PROVE \E i \in 1 .. m : k[i] = x
    <3> DEFINE i == place(d, x) + 1
    <3>1. i \in 1 .. m
      BY <2>1
    <3>2. k[i] \in T(d) /\ place(d, k[i]) = i - 1
      BY <2>1, <3>1
    <3>3. i - 1 = place(d, x)
      BY <2>1
    <3> QED
      BY <2>1, <3>1, <3>2, <3>3
  <2>7. T(d) = {k[i] : i \in DOMAIN k}
    BY <2>2, <2>5, <2>6
  <2> QED
    BY <2>2, <2>4, <2>7, ZenonT(40) DEF k, m
<1>3. ASSUME ErrorHandlerKey(b) = ErrorHandlerKey(c) PROVE T(b) = T(c)
  BY <1>2, <1>3
<1>4. ASSUME T(b) = T(c) PROVE ErrorHandlerKey(b) = ErrorHandlerKey(c)
  <2> DEFINE k == ErrorHandlerKey(b)
             l == ErrorHandlerKey(c)
             m == Cardinality(T(b))
  <2>1. k = [i \in 1 .. m |-> k[i]] /\ l = [i \in 1 .. m |-> l[i]]
    BY <1>1, <1>4
  <2>2. \A i \in 1 .. m : k[i] \in T(b) /\ l[i] \in T(b) /\ place(b, k[i]) = i - 1 /\ place(b, l[i]) = i - 1
    BY <1>1, <1>4
  <2>3. \A x, y \in T(b) : place(b, x) = place(b, y) => x = y
    BY <1>1
  <2> HIDE DEF k, l, m, T, place
  <2>4. \A i \in 1 .. m : k[i] = l[i]
    BY <2>2, <2>3
  <2>5. k = l
    BY <2>1, <2>4
  <2> QED
    BY <2>5 DEF k, l
<1> QED
  BY <1>2, <1>3, <1>4

-------------------------------------------------------------------------------
(* Blocks that replace each other are those of one item *)
LEMMA LastOfItems ==
    ASSUME NEW n \in Nat, NEW L, NEW P, Layered(n, L, P), NEW by,
           \A i \in 1 .. n : \A b \in P[i] : KeyOf(by, b) \in Seq(Names),
           \A i, j \in 1 .. n : \A b \in P[i] : \A c \in P[j] : KeyOf(by, b) = KeyOf(by, c) <=> Item(b) = Item(c),
           \A i \in 1 .. n : \A b, c \in P[i] : Item(b) = Item(c) => b = c
    PROVE  /\ IsList(LastOfEach(L, by))
           /\ \A b : b \in ToSet(LastOfEach(L, by)) <=> NewestItem(n, P, b)
<1>1. PICK at : Layers(n, L, P, at)
  BY DEF Layered
<1>2. IsList(L)
  BY DEF Layered
<1>3. \A b \in ToSet(L) : \E i \in 1 .. n : b \in P[i]
  BY <1>1, <1>2, ElementPlace DEF Layers
<1>4. KeysIn(L, by) \subseteq Seq(Names)
  BY <1>3 DEF KeysIn
<1>5. \A i \in 1 .. n : \A b, c \in P[i] : KeyOf(by, b) = KeyOf(by, c) => b = c
  OBVIOUS
<1>6. IsList(LastOfEach(L, by)) /\ \A b : b \in ToSet(LastOfEach(L, by)) <=> Newest(n, P, by, b)
  BY <1>4, <1>5, LastOfEachIs
<1>7. \A b : Newest(n, P, by, b) <=> NewestItem(n, P, b)
  BY DEF Newest, NewestItem
<1> QED
  BY <1>6, <1>7

LEMMA AddedProxy ==
    ASSUME NEW proxies, NEW c, IsEndpointBlock(c)
    PROVE  LET d == addProxy(c, proxies)
           IN  /\ d.type = "endpoint" /\ d.labels = c.labels /\ Item(d) = Item(c)
               /\ addProxy(d, proxies) = d
               /\ KeyOf("pattern", d) = c.labels[1] /\ c.labels[1] \in Seq(Names)
<1> DEFINE d == addProxy(c, proxies)
<1>1. DOMAIN c = {"type", "labels", "attrs", "blocks", "file", "position"} /\ c.type = "endpoint" /\ c.labels[1] \in Seq(Names)
  BY DEF IsEndpointBlock, IsBlock, IsNames, Names
<1>2. CASE Has(c, "proxy")
  <2>1. d = [c EXCEPT !.attrs = Without(@, "proxy"), !.blocks = Append(@, proxies[c.attrs["proxy"]])]
    BY <1>2 DEF addProxy
  <2>2. d.type = c.type /\ d.labels = c.labels /\ d.attrs = Without(c.attrs, "proxy")
    BY <1>1, <2>1
  <2>3. ~Has(d, "proxy")
    BY <2>2 DEF Has, Without
  <2>4. addProxy(d, proxies) = d
    BY <2>3 DEF addProxy
  <2> HIDE DEF d
  <2>5. Item(d) = Item(c)
    BY <1>1, <2>2 DEF Item, Name
  <2>6. KeyOf("pattern", d) = d.labels[1]
    BY DEF KeyOf
  <2> QED
    BY <1>1, <2>2, <2>4, <2>5, <2>6 DEF d
<1>3. CASE ~Has(c, "proxy")
  <2>1. d = c
    BY <1>3 DEF addProxy
  <2>2. KeyOf("pattern", c) = c.labels[1]
    BY DEF KeyOf
  <2> HIDE DEF d
  <2> QED
    BY <1>1, <2>1, <2>2 DEF d
<1> QED
  BY <1>2, <1>3

-------------------------------------------------------------------------------
(* Groups of blocks, and what their merged blocks say                      *)

GroupOf(n, P, g, Q) ==
    /\ Layered(n, g, Q)
    /\ g # << >>
    /\ \A i \in 1 .. n : Q[i] \subseteq P[i]
    /\ \A i, j \in 1 .. n : \A b \in Q[i] : \A c \in Q[j] : Item(b) = Item(c)
    /\ \E i \in 1 .. n : g[1] \in Q[i]

Labels(t, n, P) == \A i \in 1 .. n : \A b \in P[i] : Label(b) \in Seq(Names) /\ Item(b) = <<t, Label(b)>>

LEMMA OneOfAGroup ==
    ASSUME NEW b, NEW P, NEW i \in 1 .. 1, b \in P[i]
    PROVE  GroupOf(1, P, <<b>>, [k \in 1 .. 1 |-> {b}])
<1> DEFINE g == <<b>>
           Q == [k \in 1 .. 1 |-> {b}]
           at == [k \in 1 .. 1 |-> 1]
<1>1. IsList(g) /\ Len(g) = 1 /\ g[1] = b /\ g # << >>
  <2>1. g \in Seq({b})
    OBVIOUS
  <2> QED
    BY <2>1, SeqValues
<1>2. \A k : k \in 1 .. 1 <=> k = 1
  OBVIOUS
<1>3. Q[1] = {b} /\ at[1] = 1 /\ at \in [1 .. 1 -> 1 .. 1]
  OBVIOUS
<1>4. b \in P[1]
  BY <1>2
<1> HIDE DEF g, Q, at
<1>5. Layers(1, g, Q, at)
  BY <1>1, <1>2, <1>3 DEF Layers
<1>6. GroupOf(1, P, g, Q)
  BY <1>1, <1>2, <1>3, <1>4, <1>5 DEF GroupOf, Layered
<1> QED
  BY <1>6 DEF g, Q

LEMMA LabelGroup ==
    ASSUME NEW n \in Nat, NEW L, NEW P, Layered(n, L, P), NEW t, Labels(t, n, P),
           NEW key \in KeysIn(L, "label"),
           NEW Q, \A i \in 1 .. n : Q[i] = {b \in P[i] : Label(b) = key}
    PROVE  LET g == WithKey(L, "label", key)
           IN  GroupOf(n, P, g, Q) /\ Item(g[1]) = <<t, key>>
<1> DEFINE g == WithKey(L, "label", key)
<1>0. \A b : KeyOf("label", b) = Label(b)
  BY DEF KeyOf
<1>1. \A i \in 1 .. n : Q[i] = {b \in P[i] : KeyOf("label", b) = key}
  BY <1>0
<1>2. Layered(n, g, Q)
  BY <1>1, WithKeyLayered
<1>3. PICK at : Layers(n, L, P, at)
  BY DEF Layered
<1>4. PICK b \in ToSet(L) : Label(b) = key
  BY <1>0 DEF KeysIn
<1>5. PICK k \in 1 .. Len(L) : L[k] = b
  BY ElementPlace DEF Layered
<1>6. at[k] \in 1 .. n /\ b \in Q[at[k]]
  BY <1>3, <1>4, <1>5 DEF Layers
<1> HIDE DEF g
<1>7. PICK h : Layers(n, g, Q, h)
  BY <1>2 DEF Layered
<1>8. \E m \in 1 .. Len(g) : g[m] = b
  BY <1>6, <1>7 DEF Layers
<1>9. Len(g) \in Nat /\ 1 \in 1 .. Len(g)
  BY <1>2, <1>8, ListElements DEF Layered
<1>10. h[1] \in 1 .. n /\ g[1] \in Q[h[1]]
  BY <1>7, <1>9 DEF Layers
<1>11. g # << >>
  <2>1. g = << >> => Len(g) = 0
    OBVIOUS
  <2> QED
    BY <1>9, <2>1
<1>12. \A i \in 1 .. n : Q[i] \subseteq P[i] /\ \A c \in Q[i] : Item(c) = <<t, key>>
  BY DEF Labels
<1>13. GroupOf(n, P, g, Q)
  BY <1>2, <1>10, <1>11, <1>12 DEF GroupOf
<1>14. Item(g[1]) = <<t, key>>
  BY <1>10, <1>12
<1> QED
  BY <1>13, <1>14 DEF g

(* Every group is one, whatever is merged. *)
LEMMA GroupsAre ==
    ASSUME NEW n \in Nat, NEW L, NEW P, Layered(n, L, P), NEW t, Labels(t, n, P),
           NEW single \in BOOLEAN, single => n = 1
    PROVE  LET G == Groups(L, single)
           IN  /\ \E N \in Nat : DOMAIN G = 1 .. N
               /\ \A g \in DOMAIN G : \E Q : GroupOf(n, P, G[g], Q)
<1> DEFINE G == Groups(L, single)
<1>1. PICK at : Layers(n, L, P, at)
  BY DEF Layered
<1>2. IsList(L) /\ Len(L) \in Nat /\ DOMAIN L = 1 .. Len(L)
  BY ListElements, SMTT(30) DEF Layered
<1>3. CASE single
  <2>1. G = [i \in 1 .. Len(L) |-> <<L[i]>>]
    BY <1>2, <1>3 DEF Groups
  <2>2. ASSUME NEW g \in 1 .. Len(L) PROVE \E Q : GroupOf(n, P, G[g], Q)
    <3>1. at[g] \in 1 .. 1 /\ L[g] \in P[at[g]]
      BY <1>1, <1>3 DEF Layers
    <3>2. GroupOf(1, P, <<L[g]>>, [k \in 1 .. 1 |-> {L[g]}])
      BY <3>1, OneOfAGroup
    <3>3. G[g] = <<L[g]>>
      BY <2>1
    <3> QED
      BY <1>3, <3>2, <3>3
  <2>3. DOMAIN G = 1 .. Len(L)
    BY <2>1
  <2> QED
    BY <1>2, <2>2, <2>3
<1>4. CASE ~single
  <2>1. G = Grouped(L, "label")
    BY <1>4 DEF Groups
  <2>2. KeysIn(L, "label") \subseteq Seq(Names)
    <3>1. \A b \in ToSet(L) : \E i \in 1 .. n : b \in P[i]
      BY <1>1, <1>2, ElementPlace DEF Layers
    <3>2. \A b : KeyOf("label", b) = Label(b)
      BY DEF KeyOf
    <3> QED
      BY <3>1, <3>2 DEF KeysIn, Labels
  <2> DEFINE N == Cardinality(KeysIn(L, "label"))
             key(i) == SortedKeys(KeysIn(L, "label"))[i]
  <2>3. /\ N \in Nat /\ DOMAIN G = 1 .. N
        /\ \A i \in 1 .. N : key(i) \in KeysIn(L, "label") /\ G[i] = WithKey(L, "label", key(i))
    BY <1>2, <2>1, <2>2, GroupedIs
  <2> HIDE DEF G, key, N
  <2>4. ASSUME NEW g \in DOMAIN G PROVE \E Q : GroupOf(n, P, G[g], Q)
    <3> DEFINE Q == [i \in 1 .. n |-> {b \in P[i] : Label(b) = key(g)}]
    <3>1. \A i \in 1 .. n : Q[i] = {b \in P[i] : Label(b) = key(g)}
      OBVIOUS
    <3>2. key(g) \in KeysIn(L, "label") /\ G[g] = WithKey(L, "label", key(g))
      BY <2>3
    <3> HIDE DEF Q
    <3>3. GroupOf(n, P, WithKey(L, "label", key(g)), Q)
      BY <3>1, <3>2, LabelGroup
    <3> QED
      BY <3>2, <3>3
  <2> QED
    BY <2>3, <2>4 DEF G
<1> QED
  BY <1>3, <1>4

(* Z[g] is what the block that group g is merged into says, at some place  *)
(* in it, and Y[b] what block b says there. The blocks of item I together  *)
(* say what was said last of what the blocks of item I say.                *)
GroupsNewest(n, P, G, Y, Z) ==
    \A g \in DOMAIN G : \A Q : GroupOf(n, P, G[g], Q) => \A f : f \in Z[g] <=> NewestFact(n, Q, Y, f)

GroupsIn(n, L, P, t, single, G) ==
    /\ Layered(n, L, P) /\ Labels(t, n, P)
    /\ single \in BOOLEAN /\ (single => n = 1)
    /\ G = Groups(L, single)

OfItem(n, P, I) == [i \in 1 .. n |-> {b \in P[i] : Item(b) = I}]

LEMMA GroupsSay ==
    ASSUME NEW n \in Nat, NEW L, NEW P, NEW t, NEW single, NEW G, GroupsIn(n, L, P, t, single, G),
           NEW Y, NEW Z, GroupsNewest(n, P, G, Y, Z), NEW I
    PROVE  \A f : (\E g \in DOMAIN G : Item(G[g][1]) = I /\ f \in Z[g]) <=> NewestFact(n, OfItem(n, P, I), Y, f)
<1> DEFINE R == OfItem(n, P, I)
<1>0. \A i \in 1 .. n : R[i] = {b \in P[i] : Item(b) = I}
  BY DEF OfItem
<1> HIDE DEF R
<1> SUFFICES ASSUME Layered(n, L, P), Labels(t, n, P), single \in BOOLEAN, single => n = 1, G = Groups(L, single)
             PROVE  \A f : (\E g \in DOMAIN G : Item(G[g][1]) = I /\ f \in Z[g]) <=> NewestFact(n, R, Y, f)
  BY DEF GroupsIn, R
<1>1. PICK at : Layers(n, L, P, at)
  BY DEF Layered
<1>2. IsList(L) /\ Len(L) \in Nat /\ DOMAIN L = 1 .. Len(L)
  BY ListElements DEF Layered
<1>3. CASE single
  <2>1. G = [i \in 1 .. Len(L) |-> <<L[i]>>] /\ n = 1
    BY <1>2, <1>3 DEF Groups
  <2>2. \A k : k \in 1 .. n <=> k = 1
    BY <2>1
  <2>3. ASSUME NEW g \in 1 .. Len(L) PROVE L[g] \in P[1] /\ \A f : f \in Z[g] <=> f \in Y[L[g]]
    <3> DEFINE Q == [k \in 1 .. 1 |-> {L[g]}]
    <3>1. at[g] \in 1 .. 1 /\ L[g] \in P[at[g]] /\ at[g] = 1
      BY <1>1, <2>1, <2>2 DEF Layers
    <3>2. GroupOf(1, P, <<L[g]>>, Q)
      BY <3>1, OneOfAGroup
    <3>3. G[g] = <<L[g]>> /\ g \in DOMAIN G
      BY <2>1
    <3>4. Q[1] = {L[g]}
      OBVIOUS
    <3> HIDE DEF Q
    <3>5. GroupOf(n, P, G[g], Q)
      BY <2>1, <3>2, <3>3
    <3>6. \A f : f \in Z[g] <=> NewestFact(n, Q, Y, f)
      BY <3>3, <3>5 DEF GroupsNewest
    <3>7. \A f : NewestFact(n, Q, Y, f) <=> f \in Y[L[g]]
      <4> DEFINE places == 1 .. n
      <4>1. \A i : i \in places <=> i = 1
        BY <2>2
      <4>2. \A j \in places : ~(j > 1)
        BY <4>1
      <4>3. \A f : NewestFact(n, Q, Y, f) <=> \E i \in places : /\ \E b \in Q[i] : f \in Y[b]
                                                             /\ \A j \in places : j > i => \A c \in Q[j] : \A h \in Y[c] : h[1] # f[1]
        BY Zenon DEF NewestFact
      <4> HIDE DEF places
      <4> QED
        BY <3>4, <4>1, <4>2, <4>3
    <3> QED
      BY <3>1, <3>6, <3>7
  <2>4. \A b \in P[1] : \E g \in 1 .. Len(L) : L[g] = b
    BY <1>1, <2>2 DEF Layers
  <2>5. \A f : NewestFact(n, R, Y, f) <=> \E b \in P[1] : Item(b) = I /\ f \in Y[b]
    BY <1>0, <2>2 DEF NewestFact
  <2>6. DOMAIN G = 1 .. Len(L) /\ \A g \in 1 .. Len(L) : G[g][1] = L[g]
    BY <2>1
  <2> SUFFICES ASSUME NEW f
               PROVE  (\E g \in DOMAIN G : Item(G[g][1]) = I /\ f \in Z[g]) <=> NewestFact(n, R, Y, f)
    OBVIOUS
  <2>7. (\E g \in DOMAIN G : Item(G[g][1]) = I /\ f \in Z[g]) <=> \E g \in 1 .. Len(L) : Item(L[g]) = I /\ f \in Y[L[g]]
    BY <2>3, <2>6
  <2>8. (\E g \in 1 .. Len(L) : Item(L[g]) = I /\ f \in Y[L[g]]) <=> \E b \in P[1] : Item(b) = I /\ f \in Y[b]
    BY <2>3, <2>4
  <2> QED
    BY <2>5, <2>7, <2>8
<1>4. CASE ~single
  <2> DEFINE S == KeysIn(L, "label")
             N == Cardinality(S)
             key(i) == SortedKeys(S)[i]
             of(k) == [i \in 1 .. n |-> {b \in P[i] : Label(b) = k}]
  <2>1. G = Grouped(L, "label")
    BY <1>4 DEF Groups
  <2>2. \A b : KeyOf("label", b) = Label(b)
    BY DEF KeyOf
  <2>3. S \subseteq Seq(Names)
    <3>1. \A b \in ToSet(L) : \E i \in 1 .. n : b \in P[i]
      BY <1>1, <1>2, ElementPlace DEF Layers
    <3> QED
      BY <2>2, <3>1 DEF KeysIn, Labels
  <2>4. /\ N \in Nat /\ DOMAIN G = 1 .. N
        /\ \A i \in 1 .. N : key(i) \in S /\ G[i] = WithKey(L, "label", key(i))
        /\ \A k \in S : \E i \in 1 .. N : key(i) = k
        /\ \A i, j \in 1 .. N : key(i) = key(j) => i = j
    <3> HIDE DEF S
    <3> QED
      BY <1>2, <2>1, <2>3, GroupedIs DEF S
  <2>5. \A i \in 1 .. n : \A b \in P[i] : Label(b) \in S
    <3>1. \A i \in 1 .. n : \A b \in P[i] : b \in ToSet(L)
      BY <1>1, <1>2, ElementPlace DEF Layers
    <3> QED
      BY <2>2, <3>1 DEF KeysIn
  <2>6. \A k : \A i \in 1 .. n : of(k)[i] = {b \in P[i] : Label(b) = k}
    OBVIOUS
  <2> HIDE DEF S, N, key, of
  <2>7. ASSUME NEW g \in 1 .. N
        PROVE  Item(G[g][1]) = <<t, key(g)>> /\ \A f : f \in Z[g] <=> NewestFact(n, of(key(g)), Y, f)
    <3>1. key(g) \in KeysIn(L, "label") /\ G[g] = WithKey(L, "label", key(g))
      BY <2>4 DEF S
    <3>2. GroupOf(n, P, G[g], of(key(g))) /\ Item(G[g][1]) = <<t, key(g)>>
      BY <2>6, <3>1, LabelGroup
    <3> QED
      BY <2>4, <3>2 DEF GroupsNewest
  <2>8. \A k, l : <<t, k>> = <<t, l>> => k = l
    OBVIOUS
  <2>9. \A i \in 1 .. n : \A b \in P[i] : Item(b) = <<t, Label(b)>>
    BY DEF Labels
  <2>10. CASE \E g \in 1 .. N : I = <<t, key(g)>>
    <3>1. PICK g \in 1 .. N : I = <<t, key(g)>>
      BY <2>10
    <3>2. \A h \in 1 .. N : Item(G[h][1]) = I => h = g
      BY <2>4, <2>7, <2>8, <3>1
    <3>3. \A i \in 1 .. n : R[i] = of(key(g))[i]
      <4> TAKE i \in 1 .. n
      <4>1. \A b \in P[i] : Item(b) = I <=> Label(b) = key(g)
        BY <2>8, <2>9, <3>1
      <4>2. R[i] = {b \in P[i] : Item(b) = I} /\ of(key(g))[i] = {b \in P[i] : Label(b) = key(g)}
        BY <1>0, <2>6
      <4> QED
        BY <4>1, <4>2
    <3>4. \A f : NewestFact(n, R, Y, f) <=> NewestFact(n, of(key(g)), Y, f)
      BY <3>3 DEF NewestFact
    <3> QED
      BY <2>4, <2>7, <3>1, <3>2, <3>4
  <2>11. CASE ~\E g \in 1 .. N : I = <<t, key(g)>>
    <3>1. \A i \in 1 .. n : R[i] = {}
      BY <1>0, <2>4, <2>5, <2>9, <2>11
    <3>2. \A f : ~NewestFact(n, R, Y, f)
      BY <3>1 DEF NewestFact
    <3> QED
      BY <2>4, <2>7, <2>11, <3>2
  <2> QED
    BY <2>10, <2>11
<1> QED
  BY <1>3, <1>4

-------------------------------------------------------------------------------
(* The blocks of some type, and those of others, with and without a label  *)
LEMMA PickedOfThem ==
    ASSUME NEW n \in Nat, NEW L, NEW P, Layered(n, L, P), NEW X, NEW Q, \A i \in 1 .. n : Q[i] = P[i] \cap X,
           NEW D, D \subseteq DOMAIN L, \A i \in DOMAIN L : i \in D <=> L[i] \in X
    PROVE  Layered(n, Picked(L, D), Q)
<1>1. D = {i \in DOMAIN L : L[i] \in X}
  OBVIOUS
<1> QED
  BY <1>1, PickedLayered

LEMMA InLayers ==
    ASSUME NEW n, NEW L, NEW P, Layered(n, L, P)
    PROVE  /\ IsList(L) /\ Len(L) \in Nat /\ DOMAIN L = 1 .. Len(L)
           /\ \A b : b \in ToSet(L) <=> \E i \in 1 .. n : b \in P[i]
<1>1. PICK at : Layers(n, L, P, at)
  BY DEF Layered
<1>2. IsList(L)
  BY DEF Layered
<1>3. \A b : b \in ToSet(L) <=> \E k \in 1 .. Len(L) : L[k] = b
  BY <1>2, ElementPlace
<1>4. /\ \A k \in 1 .. Len(L) : at[k] \in 1 .. n /\ L[k] \in P[at[k]]
      /\ \A i \in 1 .. n : \A b \in P[i] : \E k \in 1 .. Len(L) : at[k] = i /\ L[k] = b
  BY <1>1 DEF Layers
<1> QED
  BY <1>2, <1>3, <1>4, ListElements

LEMMA OfTypeLayered ==
    ASSUME NEW n \in Nat, NEW L, NEW P, Layered(n, L, P), NEW type, NEW Q, \A i \in 1 .. n : Q[i] = {b \in P[i] : b.type = type}
    PROVE  Layered(n, OfType(L, type), Q)
<1> DEFINE X == {b \in ToSet(L) : b.type = type}
           D == {i \in DOMAIN L : L[i].type = type}
<1>1. (\A b : b \in ToSet(L) <=> \E i \in 1 .. n : b \in P[i]) /\ \A i \in DOMAIN L : L[i] \in ToSet(L)
  BY InLayers, ListElements
<1>2. \A i \in 1 .. n : Q[i] = P[i] \cap X
  BY <1>1
<1>3. D \subseteq DOMAIN L /\ \A i \in DOMAIN L : i \in D <=> L[i] \in X
  BY <1>1
<1> HIDE DEF X, D
<1>4. Layered(n, Picked(L, D), Q)
  BY <1>2, <1>3, PickedOfThem
<1> QED
  BY <1>4 DEF OfType, D

LEMMA OthersLayered ==
    ASSUME NEW n \in Nat, NEW L, NEW P, Layered(n, L, P), NEW types, NEW Q, \A i \in 1 .. n : Q[i] = {b \in P[i] : b.type \notin types}
    PROVE  Layered(n, Others(L, types), Q)
<1> DEFINE X == {b \in ToSet(L) : b.type \notin types}
           D == {i \in DOMAIN L : L[i].type \notin types}
<1>1. (\A b : b \in ToSet(L) <=> \E i \in 1 .. n : b \in P[i]) /\ \A i \in DOMAIN L : L[i] \in ToSet(L)
  BY InLayers, ListElements
<1>2. \A i \in 1 .. n : Q[i] = P[i] \cap X
  BY <1>1
<1>3. D \subseteq DOMAIN L /\ \A i \in DOMAIN L : i \in D <=> L[i] \in X
  BY <1>1
<1> HIDE DEF X, D
<1>4. Layered(n, Picked(L, D), Q)
  BY <1>2, <1>3, PickedOfThem
<1> QED
  BY <1>4 DEF Others, D

LEMMA UnlabelledLayered ==
    ASSUME NEW n \in Nat, NEW L, NEW P, Layered(n, L, P), NEW Q, \A i \in 1 .. n : Q[i] = {b \in P[i] : b.labels = << >>}
    PROVE  Layered(n, Unlabelled(L), Q)
<1> DEFINE X == {b \in ToSet(L) : b.labels = << >>}
           D == {i \in DOMAIN L : L[i].labels = << >>}
<1>1. (\A b : b \in ToSet(L) <=> \E i \in 1 .. n : b \in P[i]) /\ \A i \in DOMAIN L : L[i] \in ToSet(L)
  BY InLayers, ListElements
<1>2. \A i \in 1 .. n : Q[i] = P[i] \cap X
  BY <1>1
<1>3. D \subseteq DOMAIN L /\ \A i \in DOMAIN L : i \in D <=> L[i] \in X
  BY <1>1
<1> HIDE DEF X, D
<1>4. Layered(n, Picked(L, D), Q)
  BY <1>2, <1>3, PickedOfThem
<1> QED
  BY <1>4 DEF Unlabelled, D

LEMMA LabelledLayered ==
    ASSUME NEW n \in Nat, NEW L, NEW P, Layered(n, L, P), NEW Q, \A i \in 1 .. n : Q[i] = {b \in P[i] : b.labels # << >>}
    PROVE  Layered(n, Labelled(L), Q)
<1> DEFINE X == {b \in ToSet(L) : b.labels # << >>}
           D == {i \in DOMAIN L : L[i].labels # << >>}
<1>1. (\A b : b \in ToSet(L) <=> \E i \in 1 .. n : b \in P[i]) /\ \A i \in DOMAIN L : L[i] \in ToSet(L)
  BY InLayers, ListElements
<1>2. \A i \in 1 .. n : Q[i] = P[i] \cap X
  BY <1>1
<1>3. D \subseteq DOMAIN L /\ \A i \in DOMAIN L : i \in D <=> L[i] \in X
  BY <1>1
<1> HIDE DEF X, D
<1>4. Layered(n, Picked(L, D), Q)
  BY <1>2, <1>3, PickedOfThem
<1> QED
  BY <1>4 DEF Labelled, D

-------------------------------------------------------------------------------
(* The blocks of a context, by what replaces what                          *)

NewestOf(n, P, s) == IsList(s) /\ \A b : b \in ToSet(s) <=> NewestItem(n, P, b)

OneOfEach(n, P) == \A i \in 1 .. n : \A b, c \in P[i] : Item(b) = Item(c) => b = c

LEMMA NewestOfKinds ==
    ASSUME NEW n, NEW A, NEW B, NEW P, \A i \in 1 .. n : P[i] = A[i] \cup B[i],
           \A i, j \in 1 .. n : \A a \in A[i] : \A b \in B[j] : Item(a) # Item(b),
           NEW s, NEW t, NewestOf(n, A, s), NewestOf(n, B, t)
    PROVE  NewestOf(n, P, s \o t)
<1>1. IsList(s \o t) /\ ToSet(s \o t) = ToSet(s) \cup ToSet(t)
  BY ListConcat DEF NewestOf
<1>2. \A b : NewestItem(n, P, b) <=> NewestItem(n, A, b) \/ NewestItem(n, B, b)
  <2> TAKE b
  <2>1. ASSUME NewestItem(n, A, b) PROVE NewestItem(n, P, b)
    BY <2>1 DEF NewestItem
  <2>2. ASSUME NewestItem(n, B, b) PROVE NewestItem(n, P, b)
    BY <2>2 DEF NewestItem
  <2>3. ASSUME NewestItem(n, P, b) PROVE NewestItem(n, A, b) \/ NewestItem(n, B, b)
    BY <2>3 DEF NewestItem
  <2> QED
    BY <2>1, <2>2, <2>3
<1> QED
  BY <1>1, <1>2 DEF NewestOf

LEMMA SettingItem ==
    ASSUME NEW b, IsSetting(b)
    PROVE  KeyOf("type", b) = <<b.type>> /\ KeyOf("type", b) \in Seq(Names) /\ Item(b) = <<b.type, << >>>>
<1>1. b.type \in Names /\ b.labels = << >> /\ b.type \notin {"endpoint", "error_handler"}
  BY DEF IsSetting, HasNoLabel, HasName, IsName, Names
<1>2. KeyOf("type", b) = <<b.type>>
  BY DEF KeyOf
<1>3. Item(b) = <<b.type, << >>>>
  BY <1>1 DEF Item, Name, Label
<1> QED
  BY <1>1, <1>2, <1>3

LEMMA LastSettings ==
    ASSUME NEW n \in Nat, NEW L, NEW P, Layered(n, L, P), \A i \in 1 .. n : \A b \in P[i] : IsSetting(b), OneOfEach(n, P)
    PROVE  NewestOf(n, P, LastOfEach(L, "type"))
<1>1. \A i \in 1 .. n : \A b \in P[i] : KeyOf("type", b) = <<b.type>> /\ KeyOf("type", b) \in Seq(Names) /\ Item(b) = <<b.type, << >>>>
  BY SettingItem
<1>2. \A x, y : (<<x>> = <<y>> <=> x = y) /\ (<<x, << >>>> = <<y, << >>>> <=> x = y)
  OBVIOUS
<1>3. \A i, j \in 1 .. n : \A b \in P[i] : \A c \in P[j] : KeyOf("type", b) = KeyOf("type", c) <=> Item(b) = Item(c)
  BY <1>1, <1>2
<1>4. \A i \in 1 .. n : \A b, c \in P[i] : Item(b) = Item(c) => b = c
  BY DEF OneOfEach
<1>5. \A i \in 1 .. n : \A b \in P[i] : KeyOf("type", b) \in Seq(Names)
  BY <1>1
<1> QED
  BY <1>3, <1>4, <1>5, LastOfItems DEF NewestOf

LEMMA LastHandlers ==
    ASSUME NEW n \in Nat, NEW L, NEW P, Layered(n, L, P), \A i \in 1 .. n : \A b \in P[i] : IsHandler(b), OneOfEach(n, P)
    PROVE  NewestOf(n, P, LastOfEach(L, "kinds"))
<1>1. \A b : KeyOf("kinds", b) = ErrorHandlerKey(b)
  BY DEF KeyOf
<1>2. \A b : IsHandler(b) => Item(b) = <<"error_handler", ToSet(Kinds(b))>>
  BY DEF IsHandler, Item, Name
<1>3. \A x, y : <<"error_handler", x>> = <<"error_handler", y>> <=> x = y
  OBVIOUS
<1>4. \A b, c : IsHandler(b) /\ IsHandler(c) =>
          ErrorHandlerKey(b) \in Seq(Names) /\ (ErrorHandlerKey(b) = ErrorHandlerKey(c) <=> ToSet(Kinds(b)) = ToSet(Kinds(c)))
  BY HandlerKeys
<1>5. \A i, j \in 1 .. n : \A b \in P[i] : \A c \in P[j] : KeyOf("kinds", b) = KeyOf("kinds", c) <=> Item(b) = Item(c)
  BY <1>1, <1>2, <1>3, <1>4
<1>6. \A i \in 1 .. n : \A b, c \in P[i] : Item(b) = Item(c) => b = c
  BY DEF OneOfEach
<1>7. \A i \in 1 .. n : \A b \in P[i] : KeyOf("kinds", b) \in Seq(Names)
  BY <1>1, <1>4
<1> QED
  BY <1>5, <1>6, <1>7, LastOfItems DEF NewestOf

LEMMA LastEndpoints ==
    ASSUME NEW proxies, NEW n \in Nat, NEW L, NEW P, Layered(n, L, P), \A i \in 1 .. n : \A b \in P[i] : IsEndpointBlock(b),
           NEW Q, \A i \in 1 .. n : Q[i] = {addProxy(b, proxies) : b \in P[i]}, OneOfEach(n, Q)
    PROVE  NewestOf(n, Q, LastOfEach([i \in DOMAIN L |-> addProxy(L[i], proxies)], "pattern"))
<1> DEFINE M == [b \in ToSet(L) |-> addProxy(b, proxies)]
           mapped == [i \in DOMAIN L |-> addProxy(L[i], proxies)]
           K == [i \in DOMAIN L |-> M[L[i]]]
<1>1. /\ IsList(L) /\ DOMAIN L = 1 .. Len(L)
      /\ \A b : b \in ToSet(L) <=> \E i \in 1 .. n : b \in P[i]
  BY InLayers
<1>2. \A i \in DOMAIN L : L[i] \in ToSet(L)
  BY <1>1, ListElements
<1>3. \A i \in 1 .. n : \A b \in P[i] : M[b] = addProxy(b, proxies)
  BY <1>1
<1>4. \A i \in DOMAIN L : M[L[i]] = addProxy(L[i], proxies)
  BY <1>2
<1> HIDE DEF M
<1>5. mapped = K
  BY <1>4
<1>6. \A i \in 1 .. n : Q[i] = {M[b] : b \in P[i]}
  BY <1>3
<1>7. Layered(n, K, Q)
  BY <1>6, MappedLayered
<1> HIDE DEF K, mapped
<1>8. ASSUME NEW i \in 1 .. n, NEW d \in Q[i]
      PROVE  \E p \in Seq(Names) : KeyOf("pattern", d) = p /\ Item(d) = <<"endpoint", p>>
  <2>1. PICK c \in P[i] : d = addProxy(c, proxies)
    BY <1>8
  <2>2. IsEndpointBlock(c)
    OBVIOUS
  <2>3. KeyOf("pattern", d) = c.labels[1] /\ c.labels[1] \in Seq(Names) /\ Item(d) = Item(c)
    BY <2>1, <2>2, AddedProxy
  <2>4. Item(c) = <<"endpoint", c.labels[1]>>
    BY <2>2 DEF IsEndpointBlock, Item, Name
  <2> QED
    BY <2>3, <2>4
<1>9. \A x, y : <<"endpoint", x>> = <<"endpoint", y>> <=> x = y
  OBVIOUS
<1>10. \A i, j \in 1 .. n : \A b \in Q[i] : \A c \in Q[j] : KeyOf("pattern", b) = KeyOf("pattern", c) <=> Item(b) = Item(c)
  <2> SUFFICES ASSUME NEW i \in 1 .. n, NEW j \in 1 .. n, NEW b \in Q[i], NEW c \in Q[j]
               PROVE  KeyOf("pattern", b) = KeyOf("pattern", c) <=> Item(b) = Item(c)
    OBVIOUS
  <2>1. Item(b) = <<"endpoint", KeyOf("pattern", b)>> /\ Item(c) = <<"endpoint", KeyOf("pattern", c)>>
    BY <1>8
  <2> QED
    BY <1>9, <2>1
<1>11. \A i \in 1 .. n : \A b \in Q[i] : KeyOf("pattern", b) \in Seq(Names)
  BY <1>8
<1>12. \A i \in 1 .. n : \A b, c \in Q[i] : Item(b) = Item(c) => b = c
  BY DEF OneOfEach
<1>13. NewestOf(n, Q, LastOfEach(K, "pattern"))
  BY <1>7, <1>10, <1>11, <1>12, LastOfItems DEF NewestOf
<1> QED
  BY <1>5, <1>13 DEF mapped

-------------------------------------------------------------------------------
(* What merged blocks say                                                  *)

SaidIn(proxies, X) == {Value(proxies, c) : c \in {c \in X : c.type \notin Containers \cup {"proxy"}}}

EndpointsIn(X) == \A c \in X : c.type = "endpoint" => IsEndpointBlock(c)

LEMMA SaidInIs ==
    ASSUME NEW proxies, NEW X, EndpointsIn(X)
    PROVE  /\ \A c \in X : Item(Value(proxies, c)) = Item(c)
           /\ \A d \in SaidIn(proxies, X) : Value(proxies, d) = d /\ d.type \notin Containers \cup {"proxy"}
<1>1. \A c \in X : c.type = "endpoint" => IsEndpointBlock(c)
  BY DEF EndpointsIn
<1>2. ASSUME NEW c \in X
      PROVE  Item(Value(proxies, c)) = Item(c) /\ Value(proxies, Value(proxies, c)) = Value(proxies, c) /\ Value(proxies, c).type = c.type
  <2>1. CASE c.type = "endpoint"
    <3> DEFINE d == addProxy(c, proxies)
    <3>1. d.type = "endpoint" /\ Item(d) = Item(c) /\ addProxy(d, proxies) = d
      BY <1>1, <2>1, AddedProxy
    <3> HIDE DEF d
    <3>2. Value(proxies, c) = d /\ Value(proxies, d) = addProxy(d, proxies)
      BY <2>1, <3>1 DEF Value, d
    <3> QED
      BY <2>1, <3>1, <3>2
  <2>2. CASE c.type # "endpoint"
    <3>1. Value(proxies, c) = c
      BY <2>2 DEF Value
    <3> QED
      BY <3>1
  <2> QED
    BY <2>1, <2>2
<1>3. \A d \in SaidIn(proxies, X) : \E c \in X : c.type \notin Containers \cup {"proxy"} /\ d = Value(proxies, c)
  BY DEF SaidIn
<1> QED
  BY <1>2, <1>3

LEMMA SaidBlocksAre ==
    ASSUME NEW proxies
    PROVE  /\ \A b : SaidBlocks(proxies, b) = SaidIn(proxies, ToSet(b.blocks))
           /\ \A b : EndpointsIn(ToSet(b.blocks)) => KeepsItems(proxies, b)
           /\ \A B : UNION {SaidBlocks(proxies, b) : b \in B} = SaidIn(proxies, BlocksOf(B))
<1>1. \A b : SaidBlocks(proxies, b) = SaidIn(proxies, ToSet(b.blocks))
  BY Zenon DEF SaidBlocks, SaidIn, Plain
<1>2. ASSUME NEW b, EndpointsIn(ToSet(b.blocks)) PROVE KeepsItems(proxies, b)
  <2>1. \A c \in ToSet(b.blocks) : Item(Value(proxies, c)) = Item(c)
    BY <1>2, SaidInIs
  <2> QED
    BY <2>1 DEF KeepsItems, Plain
<1>3. ASSUME NEW B PROVE UNION {SaidBlocks(proxies, b) : b \in B} = SaidIn(proxies, BlocksOf(B))
  <2>1. \A d : d \in UNION {SaidBlocks(proxies, b) : b \in B} <=> \E b \in B : d \in SaidBlocks(proxies, b)
    OBVIOUS
  <2>2. \A b, d : d \in SaidBlocks(proxies, b) <=> \E c \in ToSet(b.blocks) : c.type \notin Containers \cup {"proxy"} /\ d = Value(proxies, c)
    BY DEF SaidBlocks, Plain
  <2>3. \A c : c \in BlocksOf(B) <=> \E b \in B : c \in ToSet(b.blocks)
    BY DEF BlocksOf
  <2>4. \A d : d \in SaidIn(proxies, BlocksOf(B)) <=> \E c \in BlocksOf(B) : c.type \notin Containers \cup {"proxy"} /\ d = Value(proxies, c)
    BY DEF SaidIn
  <2>5. \A d : d \in UNION {SaidBlocks(proxies, b) : b \in B} <=> d \in SaidIn(proxies, BlocksOf(B))
    <3> HIDE DEF SaidBlocks
    <3> QED
      BY <2>1, <2>2, <2>3, <2>4
  <2> QED
    BY <2>5
<1> QED
  BY <1>1, <1>2, <1>3

(* Blocks of one file that do not say two things under one key. *)
CertificateItems == {<<t, << >>>> : t \in Certificates}

AgreeTwo(proxies, b, c) ==
    \A f \in Own(proxies, b) : \A g \in Own(proxies, c) :
        f[1] = g[1] /\ f[1] \notin {<<"block", x>> : x \in CertificateItems} => f = g

Agree(proxies, n, Q) == \A i \in 1 .. n : \A b, c \in Q[i] : AgreeTwo(proxies, b, c)

LEMMA AgreeOn ==
    ASSUME NEW proxies, NEW n, NEW Q, Agree(proxies, n, Q), \A i \in 1 .. n : \A b \in Q[i] : KeepsItems(proxies, b)
    PROVE  \A i \in 1 .. n : \A b, c \in Q[i] :
               /\ \A a \in DOMAIN b.attrs \cap DOMAIN c.attrs : a # "environment_variables" => b.attrs[a] = c.attrs[a]
               /\ \A a \in DOMAIN Variables(b).attrs \cap DOMAIN Variables(c).attrs : Variables(b).attrs[a] = Variables(c).attrs[a]
               /\ \A d \in SaidBlocks(proxies, b) : \A e \in SaidBlocks(proxies, c) :
                      Item(d) = Item(e) /\ Item(d) \notin CertificateItems => d = e
<1> SUFFICES ASSUME NEW i \in 1 .. n, NEW b \in Q[i], NEW c \in Q[i]
             PROVE  /\ \A a \in DOMAIN b.attrs \cap DOMAIN c.attrs : a # "environment_variables" => b.attrs[a] = c.attrs[a]
                    /\ \A a \in DOMAIN Variables(b).attrs \cap DOMAIN Variables(c).attrs : Variables(b).attrs[a] = Variables(c).attrs[a]
                    /\ \A d \in SaidBlocks(proxies, b) : \A e \in SaidBlocks(proxies, c) :
                           Item(d) = Item(e) /\ Item(d) \notin CertificateItems => d = e
  OBVIOUS
<1> DEFINE blocks == {<<"block", x>> : x \in CertificateItems}
<1>1. \A f \in Own(proxies, b) : \A g \in Own(proxies, c) : f[1] = g[1] /\ f[1] \notin blocks => f = g
  BY Zenon DEF Agree, AgreeTwo
<1>2. \A x : <<"attribute", x>> \notin blocks /\ <<"variable", x>> \notin blocks /\ (<<"block", x>> \in blocks <=> x \in CertificateItems)
  OBVIOUS
<1> HIDE DEF blocks
<1>3. \A k, v, w : <<k, v>>[1] = k /\ (<<k, v>> = <<k, w>> <=> v = w)
  OBVIOUS
<1>4. KeepsItems(proxies, b) /\ KeepsItems(proxies, c)
  OBVIOUS
<1>5. ASSUME NEW a \in DOMAIN b.attrs \cap DOMAIN c.attrs, a # "environment_variables" PROVE b.attrs[a] = c.attrs[a]
  <2> DEFINE key == <<"attribute", a>>
  <2>1. <<key, b.attrs[a]>> \in Own(proxies, b) /\ <<key, c.attrs[a]>> \in Own(proxies, c)
    BY <1>4, <1>5, OwnFacts
  <2>2. key \notin blocks
    BY <1>2
  <2> HIDE DEF key
  <2> QED
    BY <1>1, <1>3, <2>1, <2>2
<1>6. ASSUME NEW a \in DOMAIN Variables(b).attrs \cap DOMAIN Variables(c).attrs PROVE Variables(b).attrs[a] = Variables(c).attrs[a]
  <2> DEFINE key == <<"variable", a>>
  <2>1. <<key, Variables(b).attrs[a]>> \in Own(proxies, b) /\ <<key, Variables(c).attrs[a]>> \in Own(proxies, c)
    BY <1>4, OwnFacts
  <2>2. key \notin blocks
    BY <1>2
  <2> HIDE DEF key
  <2> QED
    BY <1>1, <1>3, <2>1, <2>2
<1>7. ASSUME NEW d \in SaidBlocks(proxies, b), NEW e \in SaidBlocks(proxies, c), Item(d) = Item(e), Item(d) \notin CertificateItems PROVE d = e
  <2> DEFINE key == <<"block", Item(d)>>
  <2>1. <<key, d>> \in Own(proxies, b)
    BY <1>4, OwnFacts
  <2>2. <<<<"block", Item(e)>>, e>> \in Own(proxies, c)
    BY <1>4, OwnFacts
  <2>3. <<key, e>> \in Own(proxies, c)
    BY <1>7, <2>2
  <2>4. key \notin blocks
    BY <1>2, <1>7
  <2> HIDE DEF key
  <2> QED
    BY <1>1, <1>3, <2>1, <2>3, <2>4
<1> QED
  BY <1>5, <1>6, <1>7

NoVariables(n, Q)           == \A i \in 1 .. n : \A b \in Q[i] : ~Has(b, "environment_variables") /\ EndpointsIn(ToSet(b.blocks))
OwnValues(proxies, inner)   == \A c \in ToSet(inner) : c.type \notin Containers \cup {"proxy"} => Value(proxies, c) = c
SaidOf(proxies, n, Q, B)    == \A i \in 1 .. n : B[i] = SaidIn(proxies, BlocksOf(Q[i]))
SaysItems(proxies, n, B, s) == \A d : d \in SaidIn(proxies, ToSet(s)) <=> NewestItem(n, B, d)

LEMMA MergedBlockSays ==
    ASSUME NEW proxies, NEW n \in Nat, NEW P, NEW g, NEW Q, GroupOf(n, P, g, Q), IsBlock(g[1]), NEW inner,
           NoVariables(n, Q), OwnValues(proxies, inner), Agree(proxies, n, Q),
           NEW B, SaidOf(proxies, n, Q, B), SaysItems(proxies, n, B, inner)
    PROVE  LET M == MergedBlock(g, inner)
           IN  SaysNewest(proxies, n, Q, M) /\ M.type = g[1].type /\ M.labels = g[1].labels /\ M.blocks = inner
<1> DEFINE M == MergedBlock(g, inner)
           attrs == MergedAttrs(g)
           V == [i \in 1 .. n |-> {Variables(b) : b \in Q[i]}]
           C == [i \in 1 .. n |-> UNION {SaidBlocks(proxies, b) : b \in Q[i]}]
<1>1. M = [g[1] EXCEPT !.attrs = attrs, !.blocks = inner] /\ DOMAIN g[1] = {"type", "labels", "attrs", "blocks", "file", "position"}
  BY DEF MergedBlock, IsBlock
<1>2. M.type = g[1].type /\ M.labels = g[1].labels /\ M.attrs = attrs /\ M.blocks = inner
  BY <1>1
<1> HIDE DEF M, attrs
<1>3. \A i \in 1 .. n : \A b \in Q[i] : KeepsItems(proxies, b)
  BY SaidBlocksAre DEF NoVariables
<1>4. KeepsItems(proxies, M)
  BY <1>2 DEF KeepsItems, Plain, OwnValues
<1>5. Layered(n, g, Q)
  BY DEF GroupOf
<1>6. \A i \in 1 .. n : \A b \in Q[i] : "environment_variables" \notin DOMAIN b.attrs
  BY DEF Has, NoVariables
<1>7. ASSUME NEW a PROVE \A v : (a \in DOMAIN attrs /\ v = attrs[a]) <=> NewestAttr(n, Q, a, v)
  <2>1. \A i \in 1 .. n : \A b, c \in Q[i] : a \in DOMAIN b.attrs \cap DOMAIN c.attrs => b.attrs[a] = c.attrs[a]
    BY <1>3, <1>6, AgreeOn
  <2> QED
    BY <1>5, <2>1, MergedAttrsNewest DEF attrs
<1>8. "environment_variables" \notin DOMAIN M.attrs
  <2>1. \A v : ~NewestAttr(n, Q, "environment_variables", v)
    BY <1>6 DEF NewestAttr
  <2> QED
    BY <1>2, <1>7, <2>1
<1>9. DOMAIN Variables(M).attrs = {} /\ \A i \in 1 .. n : \A b \in Q[i] : DOMAIN Variables(b).attrs = {}
  <2>1. \A b : "environment_variables" \notin DOMAIN b.attrs => DOMAIN Variables(b).attrs = {}
    BY DEF Variables, Has, NoAttrs
  <2> QED
    BY <1>6, <1>8, <2>1
<1>10. \A i \in 1 .. n : V[i] = {Variables(b) : b \in Q[i]}
  OBVIOUS
<1>11. \A i \in 1 .. n : C[i] = B[i]
  BY SaidBlocksAre DEF SaidOf
<1> HIDE DEF V, C
<1>12. \A a, v : ~NewestAttr(n, V, a, v)
  BY <1>9, <1>10 DEF NewestAttr
<1>13. \A d : NewestItem(n, C, d) <=> NewestItem(n, B, d)
  BY <1>11 DEF NewestItem
<1>14. SaidBlocks(proxies, M) = SaidIn(proxies, ToSet(inner))
  BY <1>2, SaidBlocksAre
<1>15. /\ KeepsItems(proxies, M)
       /\ \A i \in 1 .. n : \A b \in Q[i] : KeepsItems(proxies, b)
       /\ \A a, v : a # "environment_variables" => ((a \in DOMAIN M.attrs /\ v = M.attrs[a]) <=> NewestAttr(n, Q, a, v))
       /\ \A a, v : (a \in DOMAIN Variables(M).attrs /\ v = Variables(M).attrs[a]) <=> NewestAttr(n, V, a, v)
       /\ \A d : d \in SaidBlocks(proxies, M) <=> NewestItem(n, C, d)
  BY <1>2, <1>3, <1>4, <1>7, <1>9, <1>12, <1>13, <1>14 DEF SaysItems
<1>16. SaysNewest(proxies, n, Q, M)
  BY <1>15, Zenon DEF SaysNewest, V, C
<1> QED
  BY <1>2, <1>16 DEF M

LEMMA APIBlocks ==
    ASSUME NEW proxies, NEW n \in Nat, NEW L, NEW P, Layered(n, L, P),
           \A i \in 1 .. n : \A d \in P[i] : IsEndpointBlock(d) \/ IsHandler(d) \/ IsSetting(d),
           NEW B, \A i \in 1 .. n : B[i] = SaidIn(proxies, P[i]), OneOfEach(n, B)
    PROVE  NewestOf(n, B, MergedAPI(proxies, L))
<1> DEFINE S == [i \in 1 .. n |-> {b \in P[i] : b.type \notin {"endpoint", "error_handler"}}]
           E == [i \in 1 .. n |-> {b \in P[i] : b.type = "endpoint"}]
           H == [i \in 1 .. n |-> {b \in P[i] : b.type = "error_handler"}]
           A == [i \in 1 .. n |-> {addProxy(b, proxies) : b \in E[i]}]
           SA == [i \in 1 .. n |-> S[i] \cup A[i]]
           endpoints == OfType(L, "endpoint")
           settings == LastOfEach(Others(L, {"endpoint", "error_handler"}), "type")
           added == LastOfEach([i \in DOMAIN endpoints |-> addProxy(endpoints[i], proxies)], "pattern")
           handlers == LastOfEach(OfType(L, "error_handler"), "kinds")
<1>1. \A b : /\ IsEndpointBlock(b) => b.type = "endpoint"
             /\ IsHandler(b) => b.type = "error_handler"
             /\ IsSetting(b) => b.type \notin Containers \cup {"endpoint", "error_handler", "proxy"}
  BY DEF IsEndpointBlock, IsHandler, IsSetting, HasName
<1>2. /\ \A i \in 1 .. n : S[i] = {b \in P[i] : b.type \notin {"endpoint", "error_handler"}}
      /\ \A i \in 1 .. n : E[i] = {b \in P[i] : b.type = "endpoint"}
      /\ \A i \in 1 .. n : H[i] = {b \in P[i] : b.type = "error_handler"}
      /\ \A i \in 1 .. n : A[i] = {addProxy(b, proxies) : b \in E[i]}
      /\ \A i \in 1 .. n : SA[i] = S[i] \cup A[i]
  OBVIOUS
<1> HIDE DEF S, E, H, A, SA, endpoints, settings, added, handlers
<1>3. /\ \A i \in 1 .. n : \A b \in S[i] : IsSetting(b)
      /\ \A i \in 1 .. n : \A b \in E[i] : IsEndpointBlock(b)
      /\ \A i \in 1 .. n : \A b \in H[i] : IsHandler(b)
  BY <1>1, <1>2
<1>4. \A i \in 1 .. n : \A b \in A[i] : b.type = "endpoint"
  <2> TAKE i \in 1 .. n
  <2> TAKE b \in A[i]
  <2>1. PICK c \in E[i] : b = addProxy(c, proxies)
    BY <1>2
  <2> QED
    BY <1>3, <2>1, AddedProxy
<1>5. \A i \in 1 .. n : B[i] = SA[i] \cup H[i]
  <2> TAKE i \in 1 .. n
  <2>1. \A d : d \in B[i] <=> \E c \in P[i] : c.type \notin Containers \cup {"proxy"} /\ d = Value(proxies, c)
    BY DEF SaidIn
  <2>2. \A d : d \in A[i] <=> \E c \in P[i] : c.type = "endpoint" /\ d = addProxy(c, proxies)
    BY <1>2
  <2>3. \A c : Value(proxies, c) = IF c.type = "endpoint" THEN addProxy(c, proxies) ELSE c
    BY DEF Value
  <2>4. \A c \in P[i] : c.type \notin Containers \cup {"proxy"}
    BY <1>1 DEF Containers
  <2>5. ASSUME NEW d \in B[i] PROVE d \in SA[i] \cup H[i]
    <3>1. PICK c \in P[i] : d = Value(proxies, c)
      BY <2>1
    <3>2. CASE c.type = "endpoint"
      BY <1>2, <2>2, <2>3, <3>1, <3>2
    <3>3. CASE c.type # "endpoint"
      BY <1>2, <2>3, <3>1, <3>3
    <3> QED
      BY <3>2, <3>3
  <2>6. ASSUME NEW d \in SA[i] \cup H[i] PROVE d \in B[i]
    <3>1. CASE d \in A[i]
      <4>1. PICK c \in P[i] : c.type = "endpoint" /\ d = addProxy(c, proxies)
        BY <2>2, <3>1
      <4> QED
        BY <2>1, <2>3, <2>4, <4>1
    <3>2. CASE d \in S[i] \cup H[i]
      BY <1>2, <2>1, <2>3, <2>4, <3>2
    <3> QED
      BY <1>2, <3>1, <3>2
  <2> QED
    BY <2>5, <2>6
<1>6. OneOfEach(n, S) /\ OneOfEach(n, A) /\ OneOfEach(n, H)
  BY <1>2, <1>5 DEF OneOfEach
<1>7. NewestOf(n, S, settings)
  <2>1. Layered(n, Others(L, {"endpoint", "error_handler"}), S)
    BY <1>2, OthersLayered
  <2> QED
    BY <1>3, <1>6, <2>1, LastSettings DEF settings
<1>8. NewestOf(n, A, added)
  <2>1. Layered(n, endpoints, E)
    BY <1>2, OfTypeLayered DEF endpoints
  <2> QED
    BY <1>2, <1>3, <1>6, <2>1, LastEndpoints DEF added
<1>9. NewestOf(n, H, handlers)
  <2>1. Layered(n, OfType(L, "error_handler"), H)
    BY <1>2, OfTypeLayered
  <2> QED
    BY <1>3, <1>6, <2>1, LastHandlers DEF handlers
<1>10. \A b, c : b.type # c.type => Item(b) # Item(c)
  BY DEF Item
<1>11. NewestOf(n, SA, settings \o added)
  <2>1. \A i, j \in 1 .. n : \A a \in S[i] : \A b \in A[j] : Item(a) # Item(b)
    BY <1>2, <1>4, <1>10
  <2> QED
    BY <1>2, <1>7, <1>8, <2>1, NewestOfKinds
<1>12. NewestOf(n, B, (settings \o added) \o handlers)
  <2>1. \A i, j \in 1 .. n : \A a \in SA[i] : \A b \in H[j] : Item(a) # Item(b)
    BY <1>2, <1>4, <1>10
  <2> QED
    BY <1>5, <1>9, <1>11, <2>1, NewestOfKinds
<1>13. MergedAPI(proxies, L) = (settings \o added) \o handlers
  BY Zenon DEF MergedAPI, settings, added, handlers, endpoints
<1> QED
  BY <1>12, <1>13

-------------------------------------------------------------------------------
(* Labelled blocks, and certificates                                       *)
LEMMA LabelledItem ==
    ASSUME NEW b, HasLabel(b), HasName(b)
    PROVE  /\ KeyOf("type and label", b) = <<b.type, b.labels[1]>>
           /\ KeyOf("type and label", b) \in Seq(Names)
           /\ Item(b) = <<b.type, <<b.labels[1]>>>>
<1>1. b.type \in Names /\ b.labels # << >> /\ b.labels[1] \in Names /\ b.type \notin {"endpoint", "error_handler"}
  BY DEF HasLabel, MayHaveOne, HasName, IsName, Names
<1>2. KeyOf("type and label", b) = <<b.type, b.labels[1]>>
  BY DEF KeyOf
<1>3. Item(b) = <<b.type, <<b.labels[1]>>>>
  BY <1>1 DEF Item, Name, Label
<1>4. <<b.type, b.labels[1]>> \in Seq(Names)
  BY <1>1
<1> QED
  BY <1>2, <1>3, <1>4

LEMMA LastLabelled ==
    ASSUME NEW n \in Nat, NEW L, NEW P, Layered(n, L, P), \A i \in 1 .. n : \A b \in P[i] : HasLabel(b) /\ HasName(b), OneOfEach(n, P)
    PROVE  NewestOf(n, P, LastOfEach(L, "type and label"))
<1> DEFINE key(x, y) == <<x, y>>
           item(x, y) == <<x, <<y>>>>
<1>1. \A i \in 1 .. n : \A b \in P[i] : /\ KeyOf("type and label", b) = key(b.type, b.labels[1])
                                       /\ KeyOf("type and label", b) \in Seq(Names)
                                       /\ Item(b) = item(b.type, b.labels[1])
  BY LabelledItem
<1>2. \A x, y, v, w : (key(x, y) = key(v, w) <=> x = v /\ y = w) /\ (item(x, y) = item(v, w) <=> x = v /\ y = w)
  OBVIOUS
<1> HIDE DEF key, item
<1>3. \A i, j \in 1 .. n : \A b \in P[i] : \A c \in P[j] : KeyOf("type and label", b) = KeyOf("type and label", c) <=> Item(b) = Item(c)
  <2> SUFFICES ASSUME NEW i \in 1 .. n, NEW j \in 1 .. n, NEW b \in P[i], NEW c \in P[j]
               PROVE  KeyOf("type and label", b) = KeyOf("type and label", c) <=> Item(b) = Item(c)
    OBVIOUS
  <2>1. KeyOf("type and label", b) = key(b.type, b.labels[1]) /\ Item(b) = item(b.type, b.labels[1])
    BY <1>1
  <2>2. KeyOf("type and label", c) = key(c.type, c.labels[1]) /\ Item(c) = item(c.type, c.labels[1])
    BY <1>1
  <2> DEFINE x == b.type
             y == b.labels[1]
             v == c.type
             w == c.labels[1]
  <2>3. (key(x, y) = key(v, w) <=> x = v /\ y = w) /\ (item(x, y) = item(v, w) <=> x = v /\ y = w)
    BY <1>2
  <2> HIDE DEF x, y, v, w
  <2>4. KeyOf("type and label", b) = key(x, y) /\ Item(b) = item(x, y) /\ KeyOf("type and label", c) = key(v, w) /\ Item(c) = item(v, w)
    BY <2>1, <2>2 DEF x, y, v, w
  <2> QED
    BY <2>3, <2>4
<1>4. \A i \in 1 .. n : \A b, c \in P[i] : Item(b) = Item(c) => b = c
  BY DEF OneOfEach
<1>5. \A i \in 1 .. n : \A b \in P[i] : KeyOf("type and label", b) \in Seq(Names)
  BY <1>1
<1> QED
  BY <1>3, <1>4, <1>5, LastOfItems DEF NewestOf

LEMMA ListPicked ==
    ASSUME NEW s, IsList(s), NEW D, D \subseteq DOMAIN s
    PROVE  IsList(Picked(s, D)) /\ \A x : x \in ToSet(Picked(s, D)) <=> \E i \in D : s[i] = x
<1> DEFINE p == Picked(s, D)
<1>1. D \cap DOMAIN s = D
  OBVIOUS
<1>2. IsList(p) /\ \E at : PlacesOf(p, s, D, at)
  <2>1. IsList(p) /\ \E at : PlacesOf(p, s, D \cap DOMAIN s, at)
    BY PickedPlaces
  <2> QED
    BY <1>1, <2>1, Zenon
<1>3. PICK at : PlacesOf(p, s, D, at)
  BY <1>2
<1> HIDE DEF p
<1>4. \A x : x \in ToSet(p) <=> \E k \in 1 .. Len(p) : p[k] = x
  BY <1>2, ElementPlace
<1>5. /\ \A k \in 1 .. Len(p) : at[k] \in D /\ p[k] = s[at[k]]
      /\ \A i \in D : \E k \in 1 .. Len(p) : at[k] = i
  BY <1>3 DEF PlacesOf
<1> QED
  BY <1>2, <1>4, <1>5 DEF p

UnlabelledOf(s, t) == OfType(Unlabelled(s), t)

LEMMA UnlabelledOfType ==
    ASSUME NEW s, IsList(s), NEW t
    PROVE  /\ IsList(UnlabelledOf(s, t))
           /\ \A x : x \in ToSet(UnlabelledOf(s, t)) <=> x \in ToSet(s) /\ x.labels = << >> /\ x.type = t
<1> DEFINE D == {i \in DOMAIN s : s[i].labels = << >>}
           u == Unlabelled(s)
           E == {i \in DOMAIN u : u[i].type = t}
<1>1. u = Picked(s, D) /\ D \subseteq DOMAIN s
  BY DEF Unlabelled
<1>2. UnlabelledOf(s, t) = Picked(u, E) /\ E \subseteq DOMAIN u
  BY DEF UnlabelledOf, OfType
<1>3. \A i : (i \in D <=> i \in DOMAIN s /\ s[i].labels = << >>) /\ (i \in E <=> i \in DOMAIN u /\ u[i].type = t)
  OBVIOUS
<1> HIDE DEF D, u, E
<1>4. IsList(u) /\ \A x : x \in ToSet(u) <=> \E i \in D : s[i] = x
  BY <1>1, ListPicked
<1>5. IsList(Picked(u, E)) /\ \A x : x \in ToSet(Picked(u, E)) <=> \E i \in E : u[i] = x
  BY <1>2, <1>4, ListPicked
<1>6. (\A x : x \in ToSet(s) <=> \E i \in DOMAIN s : s[i] = x) /\ (\A x : x \in ToSet(u) <=> \E i \in DOMAIN u : u[i] = x)
  BY Zenon DEF ToSet
<1> QED
  BY <1>2, <1>3, <1>4, <1>5, <1>6

(* Certificates of a type: all of the last file that has any. *)
LEMMA CertificatesNewest ==
    ASSUME NEW n \in Nat, NEW L, NEW P, Layered(n, L, P), \A i \in 1 .. n : \A b \in P[i] : IsTLS(b),
           \A i \in 1 .. n : \A b, c \in P[i] : b = c,
           NEW U, \A i \in 1 .. n : U[i] = {c \in BlocksOf(P[i]) : c.labels = << >>},
           NEW t, \E i \in 1 .. n : \E c \in U[i] : c.type = t
    PROVE  /\ IsList(CertificatesOfLast(L, t))
           /\ \A x : x \in ToSet(CertificatesOfLast(L, t)) <=> NewestItem(n, U, x) /\ x.type = t
<1> DEFINE N == Len(L)
           of(i) == UnlabelledOf(L[i].blocks, t)
           D == {i \in DOMAIN L : of(i) # << >>}
           k == Max(D)
<1>1. PICK at : Layers(n, L, P, at)
  BY DEF Layered
<1>2. N \in Nat /\ DOMAIN L = 1 .. N
  BY InLayers
<1>3. /\ \A m \in 1 .. N : at[m] \in 1 .. n /\ L[m] \in P[at[m]]
      /\ \A l, m \in 1 .. N : l < m => at[l] <= at[m]
      /\ \A i \in 1 .. n : \A b \in P[i] : \E m \in 1 .. N : at[m] = i /\ L[m] = b
  BY <1>1 DEF Layers
<1>4. \A i \in 1 .. n : \A b \in P[i] : IsList(b.blocks)
  BY DEF IsTLS, HasNoLabel, IsBlock
<1>5. \A m \in 1 .. N : /\ IsList(of(m))
                        /\ \A x : x \in ToSet(of(m)) <=> x \in ToSet(L[m].blocks) /\ x.labels = << >> /\ x.type = t
  BY <1>3, <1>4, UnlabelledOfType
<1>6. CertificatesOfLast(L, t) = of(k)
  BY DEF CertificatesOfLast, UnlabelledOf
<1>7. \A m : m \in D <=> m \in 1 .. N /\ of(m) # << >>
  BY <1>2
<1> HIDE DEF of, D
<1>8. \A m \in 1 .. N : m \in D <=> \E x : x \in ToSet(of(m))
  <2> TAKE m \in 1 .. N
  <2>1. IsList(of(m))
    BY <1>5
  <2> DEFINE s == of(m)
  <2>2. Len(s) \in Nat /\ \A x : x \in ToSet(s) <=> \E i \in 1 .. Len(s) : s[i] = x
    BY <2>1, ListElements, ElementPlace
  <2>3. s = << >> <=> Len(s) = 0
    BY <2>1 DEF IsList
  <2> HIDE DEF s
  <2>4. s # << >> <=> \E x : x \in ToSet(s)
    <3>1. ASSUME s # << >> PROVE s[1] \in ToSet(s)
      <4>1. 1 \in 1 .. Len(s)
        BY <2>2, <2>3, <3>1
      <4> QED
        BY <2>2, <4>1
    <3>2. ASSUME NEW x, x \in ToSet(s) PROVE s # << >>
      BY <2>2, <2>3, <3>2
    <3> QED
      BY <3>1, <3>2
  <2> QED
    BY <1>7, <2>4 DEF s
<1>9. \A i \in 1 .. n : \A c : c \in U[i] <=> \E b \in P[i] : c \in ToSet(b.blocks) /\ c.labels = << >>
  BY DEF BlocksOf
<1>10. D # {}
  <2>1. PICK i \in 1 .. n : \E c \in U[i] : c.type = t
    OBVIOUS
  <2>2. PICK c \in U[i] : c.type = t
    BY <2>1
  <2>3. PICK b \in P[i] : c \in ToSet(b.blocks) /\ c.labels = << >>
    BY <1>9
  <2>4. PICK m \in 1 .. N : L[m] = b
    BY <1>3
  <2>5. c \in ToSet(of(m))
    BY <1>5, <2>2, <2>3, <2>4
  <2> QED
    BY <1>8, <2>5
<1>11. k \in D /\ \A j \in D : j <= k
  <2>1. D \in SUBSET (1 .. N)
    BY <1>7
  <2> QED
    BY <1>2, <1>10, <2>1, Greatest
<1> HIDE DEF k
<1>12. k \in 1 .. N
  BY <1>7, <1>11
<1>13. \A i, j \in 1 .. n : \A c \in U[i] : \A d \in U[j] : c.type = t => (Item(d) = Item(c) <=> d.type = t)
  <2>1. \A i \in 1 .. n : \A c \in U[i] : c.labels = << >> /\ c.type \notin {"endpoint", "error_handler"}
    BY <1>9 DEF IsTLS, HasName
  <2>2. \A i \in 1 .. n : \A c \in U[i] : Item(c) = <<c.type, << >>>>
    BY <2>1 DEF Item, Name, Label
  <2>3. \A x, y : <<x, << >>>> = <<y, << >>>> <=> x = y
    OBVIOUS
  <2> QED
    BY <2>2, <2>3
<1>14. ASSUME NEW x, x \in ToSet(of(k)) PROVE NewestItem(n, U, x) /\ x.type = t
  <2>1. x \in ToSet(L[k].blocks) /\ x.labels = << >> /\ x.type = t
    BY <1>5, <1>12, <1>14
  <2>2. at[k] \in 1 .. n /\ x \in U[at[k]]
    BY <1>3, <1>9, <1>12, <2>1
  <2>3. ASSUME NEW j \in 1 .. n, j > at[k], NEW c \in U[j], Item(c) = Item(x) PROVE FALSE
    <3>1. c.type = t
      BY <1>13, <2>1, <2>2, <2>3
    <3>2. PICK b \in P[j] : c \in ToSet(b.blocks) /\ c.labels = << >>
      BY <1>9
    <3>3. PICK m \in 1 .. N : at[m] = j /\ L[m] = b
      BY <1>3
    <3>4. c \in ToSet(of(m))
      BY <1>5, <3>1, <3>2, <3>3
    <3>5. m \in D
      BY <1>8, <3>4
    <3>6. m <= k
      BY <1>11, <3>5
    <3>7. at[m] <= at[k]
      <4>1. m = k \/ m < k
        BY <1>12, <3>6
      <4> QED
        BY <1>3, <1>12, <2>2, <4>1
    <3> QED
      BY <2>2, <2>3, <3>3, <3>7
  <2> QED
    BY <2>1, <2>2, <2>3 DEF NewestItem
<1>15. ASSUME NEW x, NewestItem(n, U, x), x.type = t PROVE x \in ToSet(of(k))
  <2>1. PICK i \in 1 .. n : x \in U[i] /\ \A j \in 1 .. n : j > i => \A c \in U[j] : Item(c) # Item(x)
    BY <1>15 DEF NewestItem
  <2>2. PICK b \in P[i] : x \in ToSet(b.blocks) /\ x.labels = << >>
    BY <1>9, <2>1
  <2>3. PICK m \in 1 .. N : at[m] = i /\ L[m] = b
    BY <1>3
  <2>4. x \in ToSet(of(m))
    BY <1>5, <1>15, <2>2, <2>3
  <2>5. m \in D /\ m <= k
    BY <1>8, <1>11, <2>4
  <2>6. i <= at[k] /\ at[k] \in 1 .. n
    <3>1. m = k \/ m < k
      BY <1>12, <2>5
    <3> QED
      BY <1>3, <1>12, <2>3, <3>1
  <2>7. PICK c : c \in ToSet(of(k))
    BY <1>8, <1>11, <1>12
  <2>8. c \in U[at[k]] /\ c.type = t
    BY <1>3, <1>5, <1>9, <1>12, <2>7
  <2>9. ~(at[k] > i)
    BY <1>13, <1>15, <2>1, <2>6, <2>8
  <2>10. at[k] = i
    BY <2>6, <2>9
  <2>11. L[k] = b
    BY <1>3, <1>12, <2>10
  <2> QED
    BY <1>5, <1>12, <1>15, <2>2, <2>11
<1> QED
  BY <1>5, <1>6, <1>12, <1>14, <1>15

-------------------------------------------------------------------------------
(* Contexts that are merged                                                *)

LEMMA OneOfEachSaid ==
    ASSUME NEW proxies, NEW n, NEW Q, Agree(proxies, n, Q), \A i \in 1 .. n : \A b \in Q[i] : EndpointsIn(ToSet(b.blocks)),
           NEW B, \A i \in 1 .. n : B[i] = SaidIn(proxies, BlocksOf(Q[i])),
           \A i \in 1 .. n : \A d \in B[i] : Item(d) \notin CertificateItems
    PROVE  OneOfEach(n, B)
<1>1. \A i \in 1 .. n : \A b \in Q[i] : KeepsItems(proxies, b)
  BY SaidBlocksAre
<1>2. \A i \in 1 .. n : B[i] = UNION {SaidBlocks(proxies, b) : b \in Q[i]}
  BY SaidBlocksAre
<1>3. \A i \in 1 .. n : \A d \in B[i] : \E b \in Q[i] : d \in SaidBlocks(proxies, b)
  BY <1>2
<1>4. \A i \in 1 .. n : \A b, c \in Q[i] : \A d \in SaidBlocks(proxies, b) : \A e \in SaidBlocks(proxies, c) :
          Item(d) = Item(e) /\ Item(d) \notin CertificateItems => d = e
  BY <1>1, AgreeOn
<1> SUFFICES ASSUME NEW i \in 1 .. n, NEW d \in B[i], NEW e \in B[i], Item(d) = Item(e) PROVE d = e
  BY DEF OneOfEach
<1>5. PICK b \in Q[i] : d \in SaidBlocks(proxies, b)
  BY <1>3
<1>6. PICK c \in Q[i] : e \in SaidBlocks(proxies, c)
  BY <1>3
<1> QED
  BY <1>4, <1>5, <1>6

(* A block whose blocks are the newest says what is newest. *)
LEMMA MergedSays ==
    ASSUME NEW proxies, NEW n \in Nat, NEW P, NEW g, NEW Q, GroupOf(n, P, g, Q), IsBlock(g[1]), NEW inner,
           NoVariables(n, Q), Agree(proxies, n, Q), NEW B, SaidOf(proxies, n, Q, B), NewestOf(n, B, inner)
    PROVE  LET M == MergedBlock(g, inner)
           IN  SaysNewest(proxies, n, Q, M) /\ M.type = g[1].type /\ M.labels = g[1].labels
<1>1. \A i \in 1 .. n : EndpointsIn(BlocksOf(Q[i]))
  BY DEF EndpointsIn, BlocksOf, NoVariables
<1>2. \A i \in 1 .. n : \A d \in B[i] : Value(proxies, d) = d /\ d.type \notin Containers \cup {"proxy"}
  BY <1>1, SaidInIs DEF SaidOf
<1>3. \A d : d \in ToSet(inner) <=> NewestItem(n, B, d)
  BY DEF NewestOf
<1>4. \A d \in ToSet(inner) : Value(proxies, d) = d /\ d.type \notin Containers \cup {"proxy"}
  BY <1>2, <1>3 DEF NewestItem
<1>5. \A d : d \in SaidIn(proxies, ToSet(inner)) <=> d \in ToSet(inner)
  BY <1>4 DEF SaidIn
<1>6. SaysItems(proxies, n, B, inner)
  BY <1>3, <1>5 DEF SaysItems
<1>7. OwnValues(proxies, inner)
  BY <1>4 DEF OwnValues
<1> QED
  BY <1>6, <1>7, MergedBlockSays

LEMMA APISays ==
    ASSUME NEW proxies, NEW n \in Nat, NEW P, \A i \in 1 .. n : \A b \in P[i] : IsAPI(b),
           NEW g, NEW Q, GroupOf(n, P, g, Q), Agree(proxies, n, Q)
    PROVE  LET M == MergedBlock(g, MergedAPI(proxies, SubBlocks(g)))
           IN  SaysNewest(proxies, n, Q, M) /\ M.type = g[1].type /\ M.labels = g[1].labels
<1> DEFINE C == [i \in 1 .. n |-> BlocksOf(Q[i])]
           B == [i \in 1 .. n |-> SaidIn(proxies, BlocksOf(Q[i]))]
           inner == MergedAPI(proxies, SubBlocks(g))
<1>1. Layered(n, g, Q) /\ (\A i \in 1 .. n : \A b \in Q[i] : IsAPI(b)) /\ IsAPI(g[1])
  BY DEF GroupOf
<1>2. \A b : IsAPI(b) => /\ IsBlock(b) /\ IsList(b.blocks) /\ ~Has(b, "environment_variables")
                         /\ \A d \in ToSet(b.blocks) : IsEndpointBlock(d) \/ IsHandler(d) \/ IsSetting(d)
  BY DEF IsAPI, MayHaveOne, IsBlock
<1>3. (\A i \in 1 .. n : C[i] = BlocksOf(Q[i])) /\ (\A i \in 1 .. n : B[i] = SaidIn(proxies, BlocksOf(Q[i])))
  OBVIOUS
<1> HIDE DEF C, B, inner
<1>4. Layered(n, SubBlocks(g), C)
  BY <1>1, <1>2, <1>3, SubBlocksLayered
<1>5. \A i \in 1 .. n : \A d \in C[i] : IsEndpointBlock(d) \/ IsHandler(d) \/ IsSetting(d)
  BY <1>1, <1>2, <1>3 DEF BlocksOf
<1>6. \A i \in 1 .. n : \A b \in Q[i] : EndpointsIn(ToSet(b.blocks))
  <2>1. \A d : (IsHandler(d) \/ IsSetting(d)) => d.type # "endpoint"
    BY DEF IsHandler, IsSetting, HasName
  <2> QED
    BY <1>1, <1>2, <2>1 DEF EndpointsIn
<1>7. \A i \in 1 .. n : \A d \in B[i] : Item(d) \notin CertificateItems
  <2> SUFFICES ASSUME NEW i \in 1 .. n, NEW d \in B[i] PROVE Item(d) \notin CertificateItems
    OBVIOUS
  <2>1. PICK c \in C[i] : d = Value(proxies, c)
    BY <1>3 DEF SaidIn
  <2>2. EndpointsIn(C[i])
    BY <1>3, <1>6 DEF EndpointsIn, BlocksOf
  <2>3. Item(d) = Item(c)
    BY <2>1, <2>2, SaidInIs
  <2>4. c.type \notin Certificates
    BY <1>5 DEF IsEndpointBlock, IsHandler, IsSetting, Certificates
  <2>5. Item(c) \notin CertificateItems
    BY <2>4 DEF Item, CertificateItems
  <2> QED
    BY <2>3, <2>5
<1>8. OneOfEach(n, B)
  BY <1>3, <1>6, <1>7, OneOfEachSaid
<1>9. NewestOf(n, B, inner)
  <2>1. \A i \in 1 .. n : B[i] = SaidIn(proxies, C[i])
    BY <1>3
  <2> QED
    BY <1>4, <1>5, <1>8, <2>1, APIBlocks DEF inner
<1>10. NoVariables(n, Q)
  BY <1>1, <1>2, <1>6 DEF NoVariables
<1>11. IsBlock(g[1]) /\ SaidOf(proxies, n, Q, B)
  BY <1>1, <1>2, <1>3 DEF SaidOf
<1> QED
  BY <1>9, <1>10, <1>11, MergedSays DEF inner

LEMMA SiteSays ==
    ASSUME NEW proxies, NEW n \in Nat, NEW P, \A i \in 1 .. n : \A b \in P[i] : IsSite(b),
           NEW g, NEW Q, GroupOf(n, P, g, Q), Agree(proxies, n, Q)
    PROVE  LET M == MergedBlock(g, LastOfEach(SubBlocks(g), "type"))
           IN  SaysNewest(proxies, n, Q, M) /\ M.type = g[1].type /\ M.labels = g[1].labels
<1> DEFINE C == [i \in 1 .. n |-> BlocksOf(Q[i])]
           inner == LastOfEach(SubBlocks(g), "type")
<1>1. Layered(n, g, Q) /\ (\A i \in 1 .. n : \A b \in Q[i] : IsSite(b)) /\ IsSite(g[1])
  BY DEF GroupOf
<1>2. \A b : IsSite(b) => IsBlock(b) /\ IsList(b.blocks) /\ ~Has(b, "environment_variables") /\ \A d \in ToSet(b.blocks) : IsSetting(d)
  BY DEF IsSite, MayHaveOne, IsBlock
<1>3. \A i \in 1 .. n : C[i] = BlocksOf(Q[i])
  OBVIOUS
<1> HIDE DEF C, inner
<1>4. Layered(n, SubBlocks(g), C)
  BY <1>1, <1>2, <1>3, SubBlocksLayered
<1>5. \A i \in 1 .. n : \A d \in C[i] : IsSetting(d)
  BY <1>1, <1>2, <1>3 DEF BlocksOf
<1>6. \A d : IsSetting(d) => d.type \notin Containers \cup {"endpoint", "proxy"} \cup Certificates
  BY DEF IsSetting, HasName
<1>7. \A i \in 1 .. n : \A b \in Q[i] : EndpointsIn(ToSet(b.blocks))
  BY <1>1, <1>2, <1>6 DEF EndpointsIn
<1>8. \A i \in 1 .. n : C[i] = SaidIn(proxies, BlocksOf(Q[i]))
  <2> TAKE i \in 1 .. n
  <2>1. \A d \in C[i] : Value(proxies, d) = d /\ d.type \notin Containers \cup {"proxy"}
    BY <1>5, <1>6 DEF Value
  <2>2. \A d : d \in SaidIn(proxies, C[i]) <=> d \in C[i]
    BY <2>1 DEF SaidIn
  <2>3. SaidIn(proxies, C[i]) = C[i]
    <3>1. \A X, Y : (\A d : d \in X <=> d \in Y) => X = Y
      OBVIOUS
    <3> QED
      BY <2>2, <3>1, Zenon
  <2> QED
    BY <1>3, <2>3
<1>9. \A i \in 1 .. n : \A d \in C[i] : Item(d) \notin CertificateItems
  BY <1>5, <1>6 DEF Item, CertificateItems
<1>10. OneOfEach(n, C)
  BY <1>7, <1>8, <1>9, OneOfEachSaid
<1>11. NewestOf(n, C, inner)
  BY <1>4, <1>5, <1>10, LastSettings DEF inner
<1>12. NoVariables(n, Q)
  BY <1>1, <1>2, <1>7 DEF NoVariables
<1>13. IsBlock(g[1]) /\ SaidOf(proxies, n, Q, C)
  BY <1>1, <1>2, <1>8 DEF SaidOf
<1> QED
  BY <1>11, <1>12, <1>13, MergedSays DEF inner

-------------------------------------------------------------------------------
(* The certificates of a server                                            *)
CertificatesIn(blocks) ==
    LET types == SortedKeys({<<c.type>> : c \in ToSet(Unlabelled(SubBlocks(blocks)))})
    IN  FlattenSeq([i \in DOMAIN types |-> CertificatesOfLast(blocks, types[i][1])])
        \o LastOfEach(Labelled(SubBlocks(blocks)), "type and label")

LEMMA CertificateBlocks ==
    ASSUME NEW n \in Nat, NEW L, NEW P, Layered(n, L, P), \A i \in 1 .. n : \A b \in P[i] : IsTLS(b),
           \A i \in 1 .. n : \A b, c \in P[i] : b = c,
           NEW C, \A i \in 1 .. n : C[i] = BlocksOf(P[i]),
           \A i \in 1 .. n : \A d, e \in C[i] : Item(d) = Item(e) /\ Item(d) \notin CertificateItems => d = e
    PROVE  NewestOf(n, C, CertificatesIn(L))
<1> DEFINE U == [i \in 1 .. n |-> {c \in C[i] : c.labels = << >>}]
           W == [i \in 1 .. n |-> {c \in C[i] : c.labels # << >>}]
           inside == SubBlocks(L)
           without == Unlabelled(inside)
           S == {<<c.type>> : c \in ToSet(without)}
           types == SortedKeys(S)
           N == Cardinality(S)
           ss == [i \in DOMAIN types |-> CertificatesOfLast(L, types[i][1])]
           E == [i \in 1 .. N |-> ToSet(ss[i])]
           F == FlattenSeq(ss)
           labelled == LastOfEach(Labelled(inside), "type and label")
<1>1. \A b : IsTLS(b) => IsList(b.blocks) /\ \A d \in ToSet(b.blocks) : MayHaveOne(d) /\ HasName(d) /\ d.type \in Certificates
  BY DEF IsTLS, HasNoLabel, IsBlock
<1>2. Layered(n, inside, C)
  BY <1>1, SubBlocksLayered
<1>3. \A i \in 1 .. n : \A d \in C[i] : MayHaveOne(d) /\ HasName(d) /\ d.type \in Certificates
  BY <1>1 DEF BlocksOf
<1>4. (\A i \in 1 .. n : U[i] = {c \in C[i] : c.labels = << >>}) /\ (\A i \in 1 .. n : W[i] = {c \in C[i] : c.labels # << >>})
  OBVIOUS
<1>5. CertificatesIn(L) = F \o labelled
  BY Zenon DEF CertificatesIn
<1> HIDE DEF U, W, inside, ss, E, F, labelled
<1>6. Layered(n, without, U)
  BY <1>2, <1>4, UnlabelledLayered
<1>7. Layered(n, Labelled(inside), W)
  BY <1>2, <1>4, LabelledLayered
<1> HIDE DEF without
<1>8. IsFiniteSet(S) /\ S \subseteq Seq(Names) /\ \A c : c \in ToSet(without) <=> \E i \in 1 .. n : c \in U[i]
  <2>1. IsList(without) /\ \A c : c \in ToSet(without) <=> \E i \in 1 .. n : c \in U[i]
    BY <1>6, InLayers
  <2>2. \A b : KeyOf("type", b) = <<b.type>>
    BY DEF KeyOf
  <2>3. S = KeysIn(without, "type")
    BY <2>2 DEF KeysIn
  <2>4. \A i \in 1 .. n : \A c \in U[i] : c.type \in Names
    BY <1>3, <1>4 DEF HasName, IsName, Names
  <2>5. S \subseteq Seq(Names)
    <3>1. \A x \in Names : <<x>> \in Seq(Names)
      OBVIOUS
    <3>2. \A c \in ToSet(without) : c.type \in Names
      BY <2>1, <2>4
    <3> QED
      BY <3>1, <3>2
  <2> HIDE DEF S
  <2> QED
    BY <2>1, <2>3, <2>5, KeysFinite
<1>9. \A x : <<x>> \in S <=> \E c \in ToSet(without) : x = c.type
  OBVIOUS
<1>10. \A s \in S : \E x : s = <<x>> /\ s[1] = x
  OBVIOUS
<1> HIDE DEF S, N, types
<1>11. /\ N \in Nat /\ DOMAIN types = 1 .. N
       /\ \A i \in 1 .. N : types[i] \in S
       /\ \A k \in S : \E i \in 1 .. N : types[i] = k
  BY <1>8, SortedKeysAre DEF N, types
<1>12. /\ DOMAIN ss = 1 .. N /\ ss = [i \in 1 .. N |-> ss[i]]
       /\ \A i \in 1 .. N : ss[i] = CertificatesOfLast(L, types[i][1])
  BY <1>11 DEF ss
<1>13. IsList(ss) /\ Len(ss) = N
  BY <1>11, <1>12, ListOf
<1>14. ASSUME NEW i \in 1 .. N
       PROVE  IsList(ss[i]) /\ \A x : x \in ToSet(ss[i]) <=> NewestItem(n, U, x) /\ x.type = types[i][1]
  <2> DEFINE t == types[i][1]
  <2>1. <<t>> \in S
    BY <1>10, <1>11
  <2>2. \E j \in 1 .. n : \E c \in U[j] : c.type = t
    BY <1>8, <1>9, <2>1
  <2> HIDE DEF t
  <2>3. \A j \in 1 .. n : U[j] = {c \in BlocksOf(P[j]) : c.labels = << >>}
    BY <1>4
  <2>4. IsList(CertificatesOfLast(L, t)) /\ \A x : x \in ToSet(CertificatesOfLast(L, t)) <=> NewestItem(n, U, x) /\ x.type = t
    BY <2>2, <2>3, CertificatesNewest, SMTT(60)
  <2> QED
    BY <1>12, <2>4 DEF t
<1>15. \A i \in 1 .. N : E[i] = ToSet(ss[i])
  BY DEF E
<1>16. Layered(N, F, E)
  <2>1. N = 0 => ss = << >>
    BY <1>13 DEF IsList
  <2>2. \A i \in 1 .. N : IsList(ss[i])
    BY <1>14
  <2> QED
    BY <1>11, <1>13, <1>15, <2>1, <2>2, FlattenedLayers DEF F
<1>17. IsList(F) /\ \A x : x \in ToSet(F) <=> \E i \in 1 .. N : x \in E[i]
  BY <1>16, InLayers
<1>18. NewestOf(n, U, F)
  <2>1. ASSUME NEW x, NewestItem(n, U, x) PROVE \E i \in 1 .. N : x.type = types[i][1]
    <3>1. \E i \in 1 .. n : x \in U[i]
      BY <2>1 DEF NewestItem
    <3>2. <<x.type>> \in S
      BY <1>8, <1>9, <3>1
    <3>3. PICK i \in 1 .. N : types[i] = <<x.type>>
      BY <1>11, <3>2
    <3> QED
      BY <3>3
  <2>2. \A x : x \in ToSet(F) <=> NewestItem(n, U, x)
    BY <1>14, <1>15, <1>17, <2>1
  <2> QED
    BY <1>17, <2>2 DEF NewestOf
<1>19. \A i \in 1 .. n : \A b \in W[i] : HasLabel(b) /\ HasName(b)
  BY <1>3, <1>4 DEF HasLabel
<1>20. \A i \in 1 .. n : \A b \in W[i] : \E x : Item(b) = <<b.type, <<x>>>>
  <2> TAKE i \in 1 .. n
  <2> TAKE b \in W[i]
  <2>1. Item(b) = <<b.type, <<b.labels[1]>>>>
    BY <1>19, LabelledItem
  <2> QED
    BY <2>1
<1>21. \A i \in 1 .. n : \A b \in U[i] : Item(b) = <<b.type, << >>>>
  <2>1. \A i \in 1 .. n : \A b \in U[i] : b.labels = << >> /\ b.type \notin {"endpoint", "error_handler"}
    BY <1>3, <1>4 DEF HasName
  <2> QED
    BY <2>1 DEF Item, Name, Label
<1>22. \A t, u, x : <<t, << >>>> # <<u, <<x>>>>
  OBVIOUS
<1>23. \A i, j \in 1 .. n : \A a \in U[i] : \A b \in W[j] : Item(a) # Item(b)
  BY <1>20, <1>21, <1>22
<1>24. OneOfEach(n, W)
  <2>1. \A i \in 1 .. n : \A b \in W[i] : b \in C[i] /\ Item(b) \notin CertificateItems
    BY <1>4, <1>20, <1>22 DEF CertificateItems
  <2> QED
    BY <2>1 DEF OneOfEach
<1>25. NewestOf(n, W, labelled)
  BY <1>7, <1>19, <1>24, LastLabelled DEF labelled
<1>26. \A i \in 1 .. n : C[i] = U[i] \cup W[i]
  BY <1>4
<1>27. NewestOf(n, C, F \o labelled)
  BY <1>18, <1>23, <1>25, <1>26, NewestOfKinds
<1> QED
  BY <1>5, <1>27

-------------------------------------------------------------------------------
(* What the contexts of an item say, of several files the last that said   *)
(* something under the same key.                                           *)
SaidLast(proxies, n, P, I, f) ==
    \E i \in 1 .. n : /\ \E b \in P[i] : Item(b) = I /\ f \in Own(proxies, b)
                      /\ \A j \in 1 .. n : j > i => \A c \in P[j] : Item(c) = I => \A g \in Own(proxies, c) : g[1] # f[1]

ContextsSay(proxies, n, P, s) ==
    /\ IsList(s)
    /\ \A m \in ToSet(s) : m.type \in Containers
    /\ \A I, f : (\E m \in ToSet(s) : Item(m) = I /\ f \in Own(proxies, m)) <=> SaidLast(proxies, n, P, I, f)

GroupsMerged(proxies, n, P, G, s) ==
    \A g \in DOMAIN G : \A Q : GroupOf(n, P, G[g], Q) => SaysNewest(proxies, n, Q, s[g])

LEMMA GroupsContexts ==
    ASSUME NEW proxies, NEW n \in Nat, NEW L, NEW P, NEW t, NEW single, NEW G, GroupsIn(n, L, P, t, single, G),
           t \in Containers, NEW s, s = [g \in DOMAIN G |-> s[g]],
           \A g \in DOMAIN G : Item(s[g]) = Item(G[g][1]), GroupsMerged(proxies, n, P, G, s)
    PROVE  ContextsSay(proxies, n, P, s)
<1> DEFINE all == UNION {P[i] : i \in 1 .. n}
           Y == [b \in all |-> Own(proxies, b)]
           Z == [g \in DOMAIN G |-> Own(proxies, s[g])]
<1>1. \A i \in 1 .. n : \A b \in P[i] : Y[b] = Own(proxies, b)
  <2>1. \A i \in 1 .. n : \A b \in P[i] : b \in all
    OBVIOUS
  <2> HIDE DEF all
  <2> QED
    BY <2>1
<1>2. \A g \in DOMAIN G : Z[g] = Own(proxies, s[g])
  OBVIOUS
<1> HIDE DEF Y, Z
<1>3. IsList(s) /\ \A m : m \in ToSet(s) <=> \E g \in DOMAIN G : s[g] = m
  <2>1. \E N \in Nat : DOMAIN G = 1 .. N
    BY GroupsAre DEF GroupsIn
  <2>2. PICK N \in Nat : DOMAIN G = 1 .. N
    BY <2>1
  <2>3. s = [g \in 1 .. N |-> s[g]]
    BY <2>2
  <2>4. IsList(s) /\ Len(s) = N
    BY <2>3, ListOf
  <2> QED
    BY <2>2, <2>4, ElementPlace
<1>4. ASSUME NEW g \in DOMAIN G, NEW Q, GroupOf(n, P, G[g], Q) PROVE \A f : f \in Z[g] <=> NewestFact(n, Q, Y, f)
  <2>1. SaysNewest(proxies, n, Q, s[g])
    BY <1>4 DEF GroupsMerged
  <2>2. \A i \in 1 .. n : \A b \in Q[i] : Y[b] = Own(proxies, b)
    BY <1>1, <1>4 DEF GroupOf
  <2>3. \A f : f \in Own(proxies, s[g]) <=> NewestFact(n, Q, Y, f)
    BY <2>1, <2>2, NewestOwn
  <2> QED
    BY <1>2, <2>3
<1>4a. GroupsNewest(n, P, G, Y, Z)
  BY <1>4 DEF GroupsNewest
<1>5. ASSUME NEW I PROVE \A f : (\E m \in ToSet(s) : Item(m) = I /\ f \in Own(proxies, m)) <=> SaidLast(proxies, n, P, I, f)
  <2> DEFINE R == OfItem(n, P, I)
  <2>1. \A i \in 1 .. n : R[i] = {b \in P[i] : Item(b) = I}
    BY DEF OfItem
  <2>2. \A f : (\E g \in DOMAIN G : Item(G[g][1]) = I /\ f \in Z[g]) <=> NewestFact(n, R, Y, f)
    BY <1>4a, GroupsSay
  <2> HIDE DEF R
  <2>3. \A i \in 1 .. n : \A b : b \in R[i] <=> b \in P[i] /\ Item(b) = I
    BY <2>1
  <2>4. \A f : NewestFact(n, R, Y, f) <=> SaidLast(proxies, n, P, I, f)
    BY <1>1, <2>3 DEF NewestFact, SaidLast
  <2> QED
    BY <1>2, <1>3, <2>2, <2>4
<1>6. \A m \in ToSet(s) : m.type \in Containers
  <2>1. \A g \in DOMAIN G : \E Q : GroupOf(n, P, G[g], Q)
    BY GroupsAre DEF GroupsIn
  <2>2. \A g \in DOMAIN G : \E i \in 1 .. n : G[g][1] \in P[i]
    BY <2>1 DEF GroupOf
  <2>3. \A g \in DOMAIN G : \E l : Item(s[g]) = <<t, l>>
    <3> TAKE g \in DOMAIN G
    <3>1. Item(s[g]) = <<t, Label(G[g][1])>>
      BY <2>2 DEF Labels, GroupsIn
    <3> QED
      BY <3>1
  <2>4. \A m, l : Item(m) = <<t, l>> => m.type = t
    BY DEF Item
  <2> QED
    BY <1>3, <2>3, <2>4
<1> QED
  BY <1>3, <1>5, <1>6 DEF ContextsSay

LEMMA ContextsOfKinds ==
    ASSUME NEW proxies, NEW n, NEW A, NEW B, NEW P, \A i \in 1 .. n : P[i] = A[i] \cup B[i],
           \A i, j \in 1 .. n : \A a \in A[i] : \A b \in B[j] : a.type # b.type,
           NEW s, NEW t, ContextsSay(proxies, n, A, s), ContextsSay(proxies, n, B, t)
    PROVE  ContextsSay(proxies, n, P, s \o t)
<1>1. IsList(s \o t) /\ ToSet(s \o t) = ToSet(s) \cup ToSet(t)
  BY ListConcat DEF ContextsSay
<1>2. ASSUME NEW I, NEW f PROVE SaidLast(proxies, n, P, I, f) <=> SaidLast(proxies, n, A, I, f) \/ SaidLast(proxies, n, B, I, f)
  <2>1. \A i, j \in 1 .. n : \A a \in A[i] : \A b \in B[j] : Item(a) # Item(b)
    BY DEF Item
  <2>2. ASSUME SaidLast(proxies, n, A, I, f) PROVE SaidLast(proxies, n, P, I, f)
    BY <2>1, <2>2 DEF SaidLast
  <2>3. ASSUME SaidLast(proxies, n, B, I, f) PROVE SaidLast(proxies, n, P, I, f)
    BY <2>1, <2>3 DEF SaidLast
  <2>4. ASSUME SaidLast(proxies, n, P, I, f) PROVE SaidLast(proxies, n, A, I, f) \/ SaidLast(proxies, n, B, I, f)
    BY <2>4 DEF SaidLast
  <2> QED
    BY <2>2, <2>3, <2>4
<1>3. \A m \in ToSet(s \o t) : m.type \in Containers
  BY <1>1 DEF ContextsSay
<1> QED
  BY <1>1, <1>2, <1>3 DEF ContextsSay

(* One block for the contexts of an item. *)
LEMMA OneContext ==
    ASSUME NEW proxies, NEW n \in Nat, NEW P, NEW M, SaysNewest(proxies, n, P, M), M.type \in Containers,
           \A i \in 1 .. n : \A b \in P[i] : Item(b) = Item(M)
    PROVE  ContextsSay(proxies, n, P, <<M>>)
<1> DEFINE all == UNION {P[i] : i \in 1 .. n}
           Y == [b \in all |-> Own(proxies, b)]
<1>1. \A i \in 1 .. n : \A b \in P[i] : Y[b] = Own(proxies, b)
  <2>1. \A i \in 1 .. n : \A b \in P[i] : b \in all
    OBVIOUS
  <2> HIDE DEF all
  <2> QED
    BY <2>1
<1> HIDE DEF Y
<1>2. \A f : f \in Own(proxies, M) <=> NewestFact(n, P, Y, f)
  BY <1>1, NewestOwn
<1>3. \A I, f : SaidLast(proxies, n, P, I, f) <=> I = Item(M) /\ NewestFact(n, P, Y, f)
  <2> TAKE I, f
  <2>1. CASE I = Item(M)
    BY <1>1, <2>1 DEF SaidLast, NewestFact
  <2>2. CASE I # Item(M)
    BY <2>2 DEF SaidLast
  <2> QED
    BY <2>1, <2>2
<1>4. IsList(<<M>>) /\ ToSet(<<M>>) = {M}
  BY ListOne
<1> QED
  BY <1>2, <1>3, <1>4 DEF ContextsSay

LEMMA TLSContexts ==
    ASSUME NEW proxies, NEW n \in Nat, NEW L, NEW P, Layered(n, L, P), \A i \in 1 .. n : \A b \in P[i] : IsTLS(b),
           \A i \in 1 .. n : \A b, c \in P[i] : b = c, Agree(proxies, n, P)
    PROVE  ContextsSay(proxies, n, P, MergedTLS(L))
<1>1. \A b : IsTLS(b) => /\ IsBlock(b) /\ b.type = "tls" /\ Item(b) = <<"tls", << >>>> /\ ~Has(b, "environment_variables")
                         /\ IsList(b.blocks)
                         /\ \A d \in ToSet(b.blocks) : HasName(d) /\ d.type \in Certificates
  BY DEF IsTLS, HasNoLabel, IsBlock, Item, Name, Label
<1>2. IsList(L) /\ \A b : b \in ToSet(L) <=> \E i \in 1 .. n : b \in P[i]
  BY InLayers
<1>3. CASE L = << >>
  <2>1. MergedTLS(L) = << >>
    BY <1>3 DEF MergedTLS
  <2>2. \A i \in 1 .. n : P[i] = {}
    BY <1>2, <1>3 DEF ToSet
  <2>3. \A I, f : ~SaidLast(proxies, n, P, I, f)
    BY <2>2 DEF SaidLast
  <2>4. IsList(<< >>) /\ ToSet(<< >>) = {}
    BY ListEmpty DEF ToSet
  <2> QED
    BY <2>1, <2>3, <2>4 DEF ContextsSay
<1>4. CASE L # << >>
  <2> DEFINE C == [i \in 1 .. n |-> BlocksOf(P[i])]
             inner == CertificatesIn(L)
             M == MergedBlock(L, inner)
  <2>1. MergedTLS(L) = <<M>>
    BY <1>4, Zenon DEF MergedTLS, CertificatesIn
  <2>2. \A i \in 1 .. n : C[i] = BlocksOf(P[i])
    OBVIOUS
  <2> HIDE DEF C, inner, M
  <2>4. \E i \in 1 .. n : L[1] \in P[i]
    <3>1. 1 \in 1 .. Len(L)
      BY <1>2, <1>4 DEF IsList
    <3>2. L[1] \in ToSet(L)
      BY <1>2, <3>1, ListElements
    <3> QED
      BY <1>2, <3>2
  <2>5. GroupOf(n, P, L, P)
    <3>1. \A i, j \in 1 .. n : \A b \in P[i] : \A c \in P[j] : Item(b) = Item(c)
      BY <1>1
    <3> QED
      BY <1>4, <2>4, <3>1 DEF GroupOf
  <2>6. NoVariables(n, P)
    BY <1>1 DEF NoVariables, EndpointsIn, Certificates
  <2>7. \A i \in 1 .. n : \A d \in C[i] : HasName(d) /\ d.type \in Certificates
    BY <1>1, <2>2 DEF BlocksOf
  <2>8. \A i \in 1 .. n : C[i] = SaidIn(proxies, BlocksOf(P[i]))
    <3> TAKE i \in 1 .. n
    <3>1. \A d \in C[i] : Value(proxies, d) = d /\ d.type \notin Containers \cup {"proxy"}
      BY <2>7 DEF Value, HasName
    <3>2. \A d : d \in SaidIn(proxies, C[i]) <=> d \in C[i]
      BY <3>1 DEF SaidIn
    <3>3. SaidIn(proxies, C[i]) = C[i]
      <4>1. \A X, V : (\A d : d \in X <=> d \in V) => X = V
        OBVIOUS
      <4> QED
        BY <3>2, <4>1, Zenon
    <3> QED
      BY <2>2, <3>3
  <2>9. \A i \in 1 .. n : \A d, e \in C[i] : Item(d) = Item(e) /\ Item(d) \notin CertificateItems => d = e
    <3> SUFFICES ASSUME NEW i \in 1 .. n, NEW d \in C[i], NEW e \in C[i], Item(d) = Item(e), Item(d) \notin CertificateItems PROVE d = e
      OBVIOUS
    <3>1. \A b \in P[i] : KeepsItems(proxies, b)
      BY <2>6, SaidBlocksAre DEF NoVariables
    <3>2. C[i] = UNION {SaidBlocks(proxies, b) : b \in P[i]}
      BY <2>8, SaidBlocksAre
    <3>3. PICK b \in P[i] : d \in SaidBlocks(proxies, b)
      BY <3>2
    <3>4. PICK c \in P[i] : e \in SaidBlocks(proxies, c)
      BY <3>2
    <3>5. \A j \in 1 .. n : \A x \in P[j] : KeepsItems(proxies, x)
      BY <2>6, SaidBlocksAre DEF NoVariables
    <3> QED
      BY <3>3, <3>4, <3>5, AgreeOn
  <2>10. NewestOf(n, C, inner)
    BY <2>2, <2>9, CertificateBlocks DEF inner
  <2>11. IsBlock(L[1]) /\ SaidOf(proxies, n, P, C) /\ L[1].type = "tls" /\ IsTLS(L[1])
    BY <1>1, <2>4, <2>8 DEF SaidOf
  <2>12. SaysNewest(proxies, n, P, M) /\ M.type = L[1].type /\ M.labels = L[1].labels
    BY <2>5, <2>6, <2>10, <2>11, MergedSays DEF M
  <2>13. Item(M) = <<"tls", << >>>> /\ M.type \in Containers
    BY <2>11, <2>12 DEF Item, Name, Label, IsTLS, HasNoLabel, Containers
  <2>14. ContextsSay(proxies, n, P, <<M>>)
    BY <1>1, <2>12, <2>13, OneContext
  <2> QED
    BY <2>1, <2>14
<1> QED
  BY <1>3, <1>4

-------------------------------------------------------------------------------
(* Servers                                                                 *)
IsOneOfServer(d) == IsEndpointBlock(d) \/ IsAPI(d) \/ IsSite(d) \/ IsTLS(d) \/ IsSetting(d)

ServerSettings(L) == LastOfEach(Others(L, {"endpoint", "api", "spa", "files", "tls"}), "type")
ServerEndpoints(proxies, L) ==
    LET endpoints == OfType(L, "endpoint")
    IN  LastOfEach([i \in DOMAIN endpoints |-> addProxy(endpoints[i], proxies)], "pattern")

LEMMA ServerBlocks ==
    ASSUME NEW proxies, NEW n \in Nat, NEW L, NEW P, Layered(n, L, P), \A i \in 1 .. n : \A d \in P[i] : IsOneOfServer(d),
           NEW B, \A i \in 1 .. n : B[i] = SaidIn(proxies, P[i]), OneOfEach(n, B)
    PROVE  /\ NewestOf(n, B, ServerSettings(L) \o ServerEndpoints(proxies, L))
           /\ IsList(ServerSettings(L)) /\ IsList(ServerEndpoints(proxies, L))
<1> DEFINE E == [i \in 1 .. n |-> {c \in P[i] : c.type = "endpoint"}]
           S == [i \in 1 .. n |-> {c \in P[i] : c.type \notin {"endpoint", "api", "spa", "files", "tls"}}]
           A == [i \in 1 .. n |-> {addProxy(c, proxies) : c \in E[i]}]
           endpoints == OfType(L, "endpoint")
           settings == ServerSettings(L)
           added == ServerEndpoints(proxies, L)
<1>1. \A d : /\ IsEndpointBlock(d) => d.type = "endpoint"
             /\ IsAPI(d) \/ IsSite(d) \/ IsTLS(d) => d.type \in {"api", "spa", "files", "tls"}
             /\ IsSetting(d) => d.type \notin Containers \cup {"endpoint", "proxy"}
  BY DEF IsEndpointBlock, IsAPI, IsSite, IsTLS, IsSetting, HasName
<1>2. \A i \in 1 .. n : /\ E[i] = {c \in P[i] : c.type = "endpoint"}
                        /\ S[i] = {c \in P[i] : c.type \notin {"endpoint", "api", "spa", "files", "tls"}}
                        /\ A[i] = {addProxy(c, proxies) : c \in E[i]}
  OBVIOUS
<1> HIDE DEF E, S, A, settings, added, endpoints
<1>3. \A i \in 1 .. n : (\A c \in E[i] : IsEndpointBlock(c)) /\ (\A c \in S[i] : IsSetting(c))
  BY <1>1, <1>2 DEF IsOneOfServer
<1>4. \A i \in 1 .. n : \A b \in A[i] : b.type = "endpoint"
  <2> TAKE i \in 1 .. n
  <2> TAKE b \in A[i]
  <2>1. PICK c \in E[i] : b = addProxy(c, proxies)
    BY <1>2
  <2> QED
    BY <1>3, <2>1, AddedProxy
<1>5. \A i \in 1 .. n : B[i] = S[i] \cup A[i]
  <2> TAKE i \in 1 .. n
  <2>1. \A d : d \in B[i] <=> \E c \in P[i] : c.type \notin Containers \cup {"proxy"} /\ d = Value(proxies, c)
    BY DEF SaidIn
  <2>2. \A d : d \in A[i] <=> \E c \in P[i] : c.type = "endpoint" /\ d = addProxy(c, proxies)
    BY <1>2
  <2>3. \A c : Value(proxies, c) = IF c.type = "endpoint" THEN addProxy(c, proxies) ELSE c
    BY DEF Value
  <2>4. \A c \in P[i] : c.type \notin Containers \cup {"proxy"} <=> c.type \notin {"api", "spa", "files", "tls"}
    BY <1>1 DEF Containers, IsOneOfServer
  <2>5. ASSUME NEW d \in B[i] PROVE d \in S[i] \cup A[i]
    <3>1. PICK c \in P[i] : c.type \notin Containers \cup {"proxy"} /\ d = Value(proxies, c)
      BY <2>1
    <3>2. CASE c.type = "endpoint"
      BY <2>2, <2>3, <3>1, <3>2
    <3>3. CASE c.type # "endpoint"
      BY <1>2, <2>3, <2>4, <3>1, <3>3
    <3> QED
      BY <3>2, <3>3
  <2>6. ASSUME NEW d \in S[i] \cup A[i] PROVE d \in B[i]
    <3>1. CASE d \in A[i]
      <4>1. PICK c \in P[i] : c.type = "endpoint" /\ d = addProxy(c, proxies)
        BY <2>2, <3>1
      <4> QED
        BY <2>1, <2>3, <2>4, <4>1
    <3>2. CASE d \in S[i]
      BY <1>2, <2>1, <2>3, <2>4, <3>2
    <3> QED
      BY <3>1, <3>2, <2>6
  <2> QED
    BY <2>5, <2>6
<1>6. OneOfEach(n, S) /\ OneOfEach(n, A)
  BY <1>5 DEF OneOfEach
<1>7. NewestOf(n, S, settings)
  <2>1. Layered(n, Others(L, {"endpoint", "api", "spa", "files", "tls"}), S)
    BY <1>2, OthersLayered
  <2> QED
    BY <1>3, <1>6, <2>1, LastSettings DEF settings, ServerSettings
<1>8. NewestOf(n, A, added)
  <2>1. Layered(n, endpoints, E)
    BY <1>2, OfTypeLayered DEF endpoints
  <2> QED
    BY <1>2, <1>3, <1>6, <2>1, LastEndpoints DEF added, ServerEndpoints, endpoints
<1>9. \A b, c : b.type # c.type => Item(b) # Item(c)
  BY DEF Item
<1>10. NewestOf(n, B, settings \o added)
  <2>1. \A i, j \in 1 .. n : \A a \in S[i] : \A b \in A[j] : Item(a) # Item(b)
    BY <1>2, <1>4, <1>9
  <2> QED
    BY <1>5, <1>7, <1>8, <2>1, NewestOfKinds
<1> QED
  BY <1>7, <1>8, <1>10 DEF settings, added, NewestOf

(* Contexts of one item in one file do not contradict each other. *)
ContextsAgree(proxies, n, C) ==
    \A i \in 1 .. n : \A d, e \in C[i] : d.type \in Containers /\ Item(d) = Item(e) => AgreeTwo(proxies, d, e)

LEMMA GroupAgrees ==
    ASSUME NEW proxies, NEW n, NEW C, ContextsAgree(proxies, n, C), NEW P,
           \A i \in 1 .. n : P[i] \subseteq C[i], \A i \in 1 .. n : \A d \in P[i] : d.type \in Containers,
           NEW g, NEW Q, GroupOf(n, P, g, Q)
    PROVE  Agree(proxies, n, Q)
BY DEF ContextsAgree, GroupOf, Agree

LEMMA APIContexts ==
    ASSUME NEW proxies, NEW n \in Nat, NEW L, NEW P, Layered(n, L, P), \A i \in 1 .. n : \A b \in P[i] : IsAPI(b),
           NEW single \in BOOLEAN, single => n = 1,
           NEW C, ContextsAgree(proxies, n, C), \A i \in 1 .. n : P[i] \subseteq C[i]
    PROVE  ContextsSay(proxies, n, P, MergedAPIs(proxies, single, L))
<1> DEFINE G == Groups(L, single)
           M(g) == MergedBlock(G[g], MergedAPI(proxies, SubBlocks(G[g])))
           s == [g \in DOMAIN G |-> M(g)]
<1>1. \A i \in 1 .. n : \A b \in P[i] : b.type = "api" /\ b.type \in Containers
  BY DEF IsAPI, Containers
<1>2. Labels("api", n, P)
  <2> SUFFICES ASSUME NEW i \in 1 .. n, NEW b \in P[i] PROVE Label(b) \in Seq(Names) /\ Item(b) = <<"api", Label(b)>>
    BY DEF Labels
  <2>1. b.labels # << >> => b.labels[1] \in Names
    BY DEF IsAPI, MayHaveOne, IsName, Names
  <2> QED
    BY <1>1, <2>1 DEF Label, Item, Name
<1>3. MergedAPIs(proxies, single, L) = s
  BY Zenon DEF MergedAPIs
<1>4. \A g \in DOMAIN G : s[g] = M(g)
  OBVIOUS
<1>5. s = [g \in DOMAIN G |-> s[g]]
  OBVIOUS
<1>6. GroupsIn(n, L, P, "api", single, G)
  BY <1>2 DEF GroupsIn
<1> HIDE DEF G, s
<1>7. ASSUME NEW g \in DOMAIN G, NEW Q, GroupOf(n, P, G[g], Q)
      PROVE  SaysNewest(proxies, n, Q, s[g]) /\ s[g].type = G[g][1].type /\ s[g].labels = G[g][1].labels
  <2>1. Agree(proxies, n, Q)
    BY <1>1, <1>7, GroupAgrees
  <2> QED
    BY <1>4, <1>7, <2>1, APISays
<1>8. GroupsMerged(proxies, n, P, G, s)
  BY <1>7 DEF GroupsMerged
<1>9. \A g \in DOMAIN G : Item(s[g]) = Item(G[g][1])
  <2> TAKE g \in DOMAIN G
  <2>1. PICK Q : GroupOf(n, P, G[g], Q)
    BY <1>6, GroupsAre DEF GroupsIn
  <2>2. G[g][1].type = "api"
    BY <1>1, <2>1 DEF GroupOf
  <2> QED
    BY <1>7, <2>1, <2>2 DEF Item, Name, Label
<1> QED
  BY <1>3, <1>5, <1>6, <1>8, <1>9, GroupsContexts DEF Containers

LEMMA SiteContexts ==
    ASSUME NEW proxies, NEW n \in Nat, NEW L, NEW P, Layered(n, L, P), \A i \in 1 .. n : \A b \in P[i] : IsSite(b),
           NEW t \in {"spa", "files"}, \A i \in 1 .. n : \A b \in P[i] : b.type = t,
           NEW single \in BOOLEAN, single => n = 1,
           NEW C, ContextsAgree(proxies, n, C), \A i \in 1 .. n : P[i] \subseteq C[i]
    PROVE  ContextsSay(proxies, n, P, MergedSites(single, L))
<1> DEFINE G == Groups(L, single)
           M(g) == MergedBlock(G[g], LastOfEach(SubBlocks(G[g]), "type"))
           s == [g \in DOMAIN G |-> M(g)]
<1>1. \A i \in 1 .. n : \A b \in P[i] : b.type \in Containers
  BY DEF Containers
<1>2. Labels(t, n, P)
  <2> SUFFICES ASSUME NEW i \in 1 .. n, NEW b \in P[i] PROVE Label(b) \in Seq(Names) /\ Item(b) = <<t, Label(b)>>
    BY DEF Labels
  <2>1. b.labels # << >> => b.labels[1] \in Names
    BY DEF IsSite, MayHaveOne, IsName, Names
  <2> QED
    BY <2>1 DEF Label, Item, Name
<1>3. MergedSites(single, L) = s
  BY Zenon DEF MergedSites
<1>4. \A g \in DOMAIN G : s[g] = M(g)
  OBVIOUS
<1>5. s = [g \in DOMAIN G |-> s[g]]
  OBVIOUS
<1>6. GroupsIn(n, L, P, t, single, G)
  BY <1>2 DEF GroupsIn
<1> HIDE DEF G, s
<1>7. ASSUME NEW g \in DOMAIN G, NEW Q, GroupOf(n, P, G[g], Q)
      PROVE  SaysNewest(proxies, n, Q, s[g]) /\ s[g].type = G[g][1].type /\ s[g].labels = G[g][1].labels
  <2>1. Agree(proxies, n, Q)
    BY <1>1, <1>7, GroupAgrees
  <2>2. s[g] = MergedBlock(G[g], LastOfEach(SubBlocks(G[g]), "type"))
    BY <1>4
  <2> DEFINE group == G[g]
  <2>3. GroupOf(n, P, group, Q)
    BY <1>7
  <2> HIDE DEF group
  <2>4. LET m == MergedBlock(group, LastOfEach(SubBlocks(group), "type"))
        IN  SaysNewest(proxies, n, Q, m) /\ m.type = group[1].type /\ m.labels = group[1].labels
    BY <2>1, <2>3, SiteSays
  <2> QED
    BY <2>2, <2>4 DEF group
<1>8. GroupsMerged(proxies, n, P, G, s)
  BY <1>7 DEF GroupsMerged
<1>9. \A g \in DOMAIN G : Item(s[g]) = Item(G[g][1])
  <2> TAKE g \in DOMAIN G
  <2>1. PICK Q : GroupOf(n, P, G[g], Q)
    BY <1>6, GroupsAre DEF GroupsIn
  <2>2. G[g][1].type = t
    BY <2>1 DEF GroupOf
  <2> QED
    BY <1>7, <2>1, <2>2 DEF Item, Name, Label
<1>10. t \in Containers
  BY DEF Containers
<1> QED
  BY <1>3, <1>5, <1>6, <1>8, <1>9, <1>10, GroupsContexts

(* What the merged blocks of a server say, of the blocks C[i] of file i.   *)
ContextsIn(X) == {d \in X : d.type \in Containers}
InnerContexts(proxies, X, I, f) == \E m \in ContextsIn(X) : Item(m) = I /\ f \in Own(proxies, m)

ContextsOf(n, C) == [i \in 1 .. n |-> ContextsIn(C[i])]

LEMMA ServerContexts ==
    ASSUME NEW proxies, NEW n \in Nat, NEW L, NEW C, Layered(n, L, C), \A i \in 1 .. n : \A d \in C[i] : IsOneOfServer(d),
           \A i \in 1 .. n : \A d, e \in C[i] : d.type = "tls" /\ e.type = "tls" => d = e,
           ContextsAgree(proxies, n, C), NEW single \in BOOLEAN, single => n = 1
    PROVE  LET apis  == MergedAPIs(proxies, single, OfType(L, "api"))
               spas  == MergedSites(single, OfType(L, "spa"))
               files == MergedSites(single, OfType(L, "files"))
               tls   == MergedTLS(OfType(L, "tls"))
           IN  /\ ContextsSay(proxies, n, ContextsOf(n, C), ((apis \o spas) \o files) \o tls)
               /\ IsList(apis) /\ IsList(spas) /\ IsList(files) /\ IsList(tls)
<1> DEFINE A == [i \in 1 .. n |-> {d \in C[i] : d.type = "api"}]
           S == [i \in 1 .. n |-> {d \in C[i] : d.type = "spa"}]
           F == [i \in 1 .. n |-> {d \in C[i] : d.type = "files"}]
           T == [i \in 1 .. n |-> {d \in C[i] : d.type = "tls"}]
           AS == [i \in 1 .. n |-> A[i] \cup S[i]]
           ASF == [i \in 1 .. n |-> AS[i] \cup F[i]]
           apis == MergedAPIs(proxies, single, OfType(L, "api"))
           spas == MergedSites(single, OfType(L, "spa"))
           files == MergedSites(single, OfType(L, "files"))
           tls == MergedTLS(OfType(L, "tls"))
<1>1. \A i \in 1 .. n : /\ A[i] = {d \in C[i] : d.type = "api"} /\ S[i] = {d \in C[i] : d.type = "spa"}
                        /\ F[i] = {d \in C[i] : d.type = "files"} /\ T[i] = {d \in C[i] : d.type = "tls"}
                        /\ AS[i] = A[i] \cup S[i] /\ ASF[i] = AS[i] \cup F[i]
                        /\ A[i] \subseteq C[i] /\ S[i] \subseteq C[i] /\ F[i] \subseteq C[i] /\ T[i] \subseteq C[i]
  OBVIOUS
<1>2. /\ Layered(n, OfType(L, "api"), A) /\ Layered(n, OfType(L, "spa"), S)
      /\ Layered(n, OfType(L, "files"), F) /\ Layered(n, OfType(L, "tls"), T)
  <2> HIDE DEF A, S, F, T
  <2> QED
    BY <1>1, OfTypeLayered
<1> HIDE DEF A, S, F, T, AS, ASF, apis, spas, files, tls
<1>3. \A d : /\ IsEndpointBlock(d) => d.type = "endpoint"
             /\ IsAPI(d) => d.type = "api"
             /\ IsSite(d) => d.type \in {"spa", "files"}
             /\ IsTLS(d) => d.type = "tls"
             /\ IsSetting(d) => d.type \notin Containers
  BY DEF IsEndpointBlock, IsAPI, IsSite, IsTLS, IsSetting, HasName
<1>4. \A i \in 1 .. n : /\ \A d \in A[i] : IsAPI(d)
                        /\ \A d \in S[i] : IsSite(d) /\ d.type = "spa"
                        /\ \A d \in F[i] : IsSite(d) /\ d.type = "files"
                        /\ \A d \in T[i] : IsTLS(d)
  BY <1>1, <1>3 DEF IsOneOfServer, Containers
<1>5. ContextsSay(proxies, n, A, apis)
  BY <1>1, <1>2, <1>4, APIContexts DEF apis
<1>6. ContextsSay(proxies, n, S, spas)
  BY <1>1, <1>2, <1>4, SiteContexts DEF spas
<1>7. ContextsSay(proxies, n, F, files)
  BY <1>1, <1>2, <1>4, SiteContexts DEF files
<1>8. ContextsSay(proxies, n, T, tls)
  <2>1. \A i \in 1 .. n : \A b, c \in T[i] : b = c
    BY <1>1
  <2>2. Agree(proxies, n, T)
    <3> SUFFICES ASSUME NEW i \in 1 .. n, NEW b \in T[i], NEW c \in T[i] PROVE AgreeTwo(proxies, b, c)
      BY DEF Agree
    <3>1. b = c /\ b \in C[i] /\ b.type \in Containers
      BY <1>1, <2>1 DEF Containers
    <3> QED
      BY <3>1 DEF ContextsAgree
  <2> QED
    BY <1>2, <1>4, <2>1, <2>2, TLSContexts DEF tls
<1>9. ContextsSay(proxies, n, AS, apis \o spas)
  <2>1. \A i, j \in 1 .. n : \A a \in A[i] : \A b \in S[j] : a.type # b.type
    BY <1>1
  <2> QED
    BY <1>1, <1>5, <1>6, <2>1, ContextsOfKinds
<1>10. ContextsSay(proxies, n, ASF, (apis \o spas) \o files)
  <2>1. \A i, j \in 1 .. n : \A a \in AS[i] : \A b \in F[j] : a.type # b.type
    BY <1>1
  <2> QED
    BY <1>1, <1>7, <1>9, <2>1, ContextsOfKinds
<1>11. ContextsSay(proxies, n, ContextsOf(n, C), ((apis \o spas) \o files) \o tls)
  <2>1. \A i, j \in 1 .. n : \A a \in ASF[i] : \A b \in T[j] : a.type # b.type
    BY <1>1
  <2>2. \A i \in 1 .. n : ContextsOf(n, C)[i] = ASF[i] \cup T[i]
    <3> TAKE i \in 1 .. n
    <3>1. ContextsOf(n, C)[i] = {d \in C[i] : d.type \in Containers}
      BY DEF ContextsOf, ContextsIn
    <3>2. \A d \in C[i] : d.type \in Containers <=> d.type \in {"api", "spa", "files", "tls"}
      BY <1>3 DEF IsOneOfServer, Containers
    <3> QED
      BY <1>1, <3>1, <3>2
  <2> QED
    BY <1>8, <1>10, <2>1, <2>2, ContextsOfKinds
<1>12. IsList(apis) /\ IsList(spas) /\ IsList(files) /\ IsList(tls)
  BY <1>5, <1>6, <1>7, <1>8 DEF ContextsSay
<1> QED
  BY <1>11, <1>12 DEF apis, spas, files, tls

LEMMA ServerInner ==
    ASSUME NEW proxies, NEW n \in Nat, NEW L, NEW C, Layered(n, L, C), \A i \in 1 .. n : \A d \in C[i] : IsOneOfServer(d),
           \A i \in 1 .. n : \A d, e \in C[i] : d.type = "tls" /\ e.type = "tls" => d = e,
           ContextsAgree(proxies, n, C), NEW single \in BOOLEAN, single => n = 1,
           NEW B, \A i \in 1 .. n : B[i] = SaidIn(proxies, C[i]), OneOfEach(n, B)
    PROVE  LET s == MergedServer(proxies, single, L)
           IN  /\ OwnValues(proxies, s) /\ SaysItems(proxies, n, B, s)
               /\ \A I, f : InnerContexts(proxies, ToSet(s), I, f) <=> SaidLast(proxies, n, ContextsOf(n, C), I, f)
<1> DEFINE settings == ServerSettings(L)
           added == ServerEndpoints(proxies, L)
           apis == MergedAPIs(proxies, single, OfType(L, "api"))
           spas == MergedSites(single, OfType(L, "spa"))
           files == MergedSites(single, OfType(L, "files"))
           tls == MergedTLS(OfType(L, "tls"))
           plain == settings \o added
           contexts == ((apis \o spas) \o files) \o tls
           s == MergedServer(proxies, single, L)
<1>1. NewestOf(n, B, plain) /\ IsList(settings) /\ IsList(added)
  BY ServerBlocks
<1>2. ContextsSay(proxies, n, ContextsOf(n, C), contexts) /\ IsList(apis) /\ IsList(spas) /\ IsList(files) /\ IsList(tls)
  BY ServerContexts
<1>3. s = ((((settings \o added) \o apis) \o spas) \o files) \o tls
  BY Zenon DEF MergedServer, ServerSettings, ServerEndpoints
<1> HIDE DEF settings, added, apis, spas, files, tls, s
<1>4. ToSet(s) = ToSet(plain) \cup ToSet(contexts)
  <2>1. \A x, y : IsList(x) /\ IsList(y) => IsList(x \o y) /\ ToSet(x \o y) = ToSet(x) \cup ToSet(y)
    BY ListConcat
  <2>2. ToSet(s) = ToSet(settings) \cup ToSet(added) \cup ToSet(apis) \cup ToSet(spas) \cup ToSet(files) \cup ToSet(tls)
    BY <1>1, <1>2, <1>3, <2>1
  <2>3. ToSet(contexts) = ToSet(apis) \cup ToSet(spas) \cup ToSet(files) \cup ToSet(tls)
    BY <1>2, <2>1
  <2>4. ToSet(plain) = ToSet(settings) \cup ToSet(added)
    BY <1>1, <2>1
  <2> QED
    BY <2>2, <2>3, <2>4
<1> HIDE DEF plain, contexts
<1>5. \A i \in 1 .. n : EndpointsIn(C[i])
  <2>1. \A d : IsAPI(d) \/ IsSite(d) \/ IsTLS(d) \/ IsSetting(d) => d.type # "endpoint"
    BY DEF IsAPI, IsSite, IsTLS, IsSetting, HasName
  <2> QED
    BY <2>1 DEF EndpointsIn, IsOneOfServer
<1>6. \A d \in ToSet(plain) : Value(proxies, d) = d /\ d.type \notin Containers \cup {"proxy"}
  <2>1. \A d \in ToSet(plain) : \E i \in 1 .. n : d \in B[i]
    BY <1>1 DEF NewestOf, NewestItem
  <2> QED
    BY <1>5, <2>1, SaidInIs
<1>7. \A d \in ToSet(contexts) : d.type \in Containers
  BY <1>2 DEF ContextsSay
<1>8. OwnValues(proxies, s)
  BY <1>4, <1>6, <1>7 DEF OwnValues
<1>9. SaysItems(proxies, n, B, s)
  <2>1. \A d : d \in SaidIn(proxies, ToSet(s)) <=> d \in ToSet(plain)
    <3> TAKE d
    <3>1. d \in SaidIn(proxies, ToSet(s)) <=> \E c \in ToSet(s) : c.type \notin Containers \cup {"proxy"} /\ d = Value(proxies, c)
      BY DEF SaidIn
    <3> QED
      BY <1>4, <1>6, <1>7, <3>1
  <2> QED
    BY <1>1, <2>1 DEF SaysItems, NewestOf
<1>10. \A I, f : InnerContexts(proxies, ToSet(s), I, f) <=> SaidLast(proxies, n, ContextsOf(n, C), I, f)
  <2>1. ContextsIn(ToSet(s)) = ToSet(contexts)
    <3>1. \A d : d \in ContextsIn(ToSet(s)) <=> d \in ToSet(s) /\ d.type \in Containers
      BY DEF ContextsIn
    <3>2. \A d : d \in ContextsIn(ToSet(s)) <=> d \in ToSet(contexts)
      BY <1>4, <1>6, <1>7, <3>1
    <3>3. \A X, V : (\A d : d \in X <=> d \in V) => X = V
      OBVIOUS
    <3> QED
      BY <3>2, <3>3, Zenon
  <2> QED
    BY <1>2, <2>1 DEF InnerContexts, ContextsSay
<1> QED
  BY <1>8, <1>9, <1>10 DEF s

(* In one file, servers of one label, and contexts of one item in them, do *)
(* not contradict each other.                                              *)
FilesAgree(proxies, n, P) ==
    \A i \in 1 .. n : \A b, c \in P[i] : Item(b) = Item(c) =>
        /\ AgreeTwo(proxies, b, c)
        /\ \A d \in Contexts(b) : \A e \in Contexts(c) : Item(d) = Item(e) => AgreeTwo(proxies, d, e)

OneServer(n, Q) == \A i \in 1 .. n : \A b, c \in Q[i] : b = c

BlocksIn(n, Q) == [i \in 1 .. n |-> BlocksOf(Q[i])]

(* What contexts of item J in the blocks X say. *)
InnerFacts(proxies, X, J) == UNION {Own(proxies, d) : d \in {d \in ContextsIn(X) : Item(d) = J}}

LEMMA InnerFactsAre ==
    ASSUME NEW proxies, NEW X, NEW J
    PROVE  \A f : f \in InnerFacts(proxies, X, J) <=> InnerContexts(proxies, X, J, f)
BY DEF InnerFacts, InnerContexts

LEMMA ServerSays ==
    ASSUME NEW proxies, NEW n \in Nat, NEW P, \A i \in 1 .. n : \A b \in P[i] : IsServer(b), FilesAgree(proxies, n, P),
           NEW g, NEW Q, GroupOf(n, P, g, Q), OneServer(n, Q), NEW single \in BOOLEAN, single => n = 1
    PROVE  LET M == MergedBlock(g, MergedServer(proxies, single, SubBlocks(g)))
           IN  /\ SaysNewest(proxies, n, Q, M) /\ M.type = g[1].type /\ M.labels = g[1].labels
               /\ \A J, f : InnerContexts(proxies, ToSet(M.blocks), J, f) <=> SaidLast(proxies, n, ContextsOf(n, BlocksIn(n, Q)), J, f)
<1> DEFINE C == BlocksIn(n, Q)
           B == [i \in 1 .. n |-> SaidIn(proxies, BlocksOf(Q[i]))]
           inner == MergedServer(proxies, single, SubBlocks(g))
<1>1. Layered(n, g, Q) /\ (\A i \in 1 .. n : \A b \in Q[i] : IsServer(b)) /\ IsServer(g[1])
  BY DEF GroupOf
<1>2. \A b : IsServer(b) => /\ IsBlock(b) /\ IsList(b.blocks) /\ ~Has(b, "environment_variables")
                            /\ \A d \in ToSet(b.blocks) : IsOneOfServer(d)
                            /\ \A d, e \in ToSet(b.blocks) : d.type = "tls" /\ e.type = "tls" => d = e
  BY DEF IsServer, MayHaveOne, IsBlock, IsOneOfServer
<1>3. (\A i \in 1 .. n : C[i] = BlocksOf(Q[i])) /\ (\A i \in 1 .. n : B[i] = SaidIn(proxies, BlocksOf(Q[i])))
  BY DEF BlocksIn
<1> HIDE DEF C, B, inner
<1>4. Layered(n, SubBlocks(g), C)
  BY <1>1, <1>2, <1>3, SubBlocksLayered
<1>5. \A i \in 1 .. n : \A d \in C[i] : \E b \in Q[i] : d \in ToSet(b.blocks)
  BY <1>3 DEF BlocksOf
<1>6. \A i \in 1 .. n : \A d \in C[i] : IsOneOfServer(d)
  BY <1>1, <1>2, <1>5
<1>7. \A i \in 1 .. n : \A d, e \in C[i] : d.type = "tls" /\ e.type = "tls" => d = e
  <2> SUFFICES ASSUME NEW i \in 1 .. n, NEW d \in C[i], NEW e \in C[i], d.type = "tls", e.type = "tls" PROVE d = e
    OBVIOUS
  <2>1. PICK b \in Q[i] : d \in ToSet(b.blocks)
    BY <1>5
  <2>2. PICK c \in Q[i] : e \in ToSet(c.blocks)
    BY <1>5
  <2>3. b = c /\ IsServer(b)
    BY <1>1 DEF OneServer
  <2> QED
    BY <1>2, <2>1, <2>2, <2>3
<1>8. ContextsAgree(proxies, n, C)
  <2> SUFFICES ASSUME NEW i \in 1 .. n, NEW d \in C[i], NEW e \in C[i], d.type \in Containers, Item(d) = Item(e)
               PROVE  AgreeTwo(proxies, d, e)
    BY DEF ContextsAgree
  <2>1. PICK b \in Q[i] : d \in ToSet(b.blocks)
    BY <1>5
  <2>2. PICK c \in Q[i] : e \in ToSet(c.blocks)
    BY <1>5
  <2>3. b = c /\ b \in P[i]
    BY DEF OneServer, GroupOf
  <2>4. e.type = d.type
    BY DEF Item
  <2>5. d \in Contexts(b) /\ e \in Contexts(b)
    BY <2>1, <2>2, <2>3, <2>4 DEF Contexts
  <2> QED
    BY <2>3, <2>5 DEF FilesAgree
<1>9. Agree(proxies, n, Q)
  BY DEF Agree, FilesAgree, GroupOf
<1>10. \A d : IsAPI(d) \/ IsSite(d) \/ IsTLS(d) \/ IsSetting(d) => d.type # "endpoint"
  BY DEF IsAPI, IsSite, IsTLS, IsSetting, HasName
<1>11. \A i \in 1 .. n : \A b \in Q[i] : EndpointsIn(ToSet(b.blocks))
  BY <1>1, <1>2, <1>10 DEF EndpointsIn, IsOneOfServer
<1>12. \A i \in 1 .. n : \A d \in B[i] : Item(d) \notin CertificateItems
  <2> SUFFICES ASSUME NEW i \in 1 .. n, NEW d \in B[i] PROVE Item(d) \notin CertificateItems
    OBVIOUS
  <2>1. PICK c \in C[i] : d = Value(proxies, c)
    BY <1>3 DEF SaidIn
  <2>2. EndpointsIn(C[i])
    BY <1>5, <1>11 DEF EndpointsIn
  <2>3. Item(d) = Item(c)
    BY <2>1, <2>2, SaidInIs
  <2>4. c.type \notin Certificates
    BY <1>6 DEF IsOneOfServer, IsEndpointBlock, IsAPI, IsSite, IsTLS, IsSetting, Certificates
  <2>5. Item(c) \notin CertificateItems
    BY <2>4 DEF Item, CertificateItems
  <2> QED
    BY <2>3, <2>5
<1>13. OneOfEach(n, B)
  BY <1>3, <1>9, <1>11, <1>12, OneOfEachSaid
<1>14. \A i \in 1 .. n : B[i] = SaidIn(proxies, C[i])
  BY <1>3
<1>15. /\ OwnValues(proxies, inner) /\ SaysItems(proxies, n, B, inner)
       /\ \A I, f : InnerContexts(proxies, ToSet(inner), I, f) <=> SaidLast(proxies, n, ContextsOf(n, C), I, f)
  BY <1>4, <1>6, <1>7, <1>8, <1>13, <1>14, ServerInner DEF inner
<1>16. NoVariables(n, Q)
  BY <1>1, <1>2, <1>11 DEF NoVariables
<1>17. IsBlock(g[1]) /\ SaidOf(proxies, n, Q, B)
  BY <1>1, <1>2, <1>3 DEF SaidOf
<1>18. LET M == MergedBlock(g, inner)
       IN  SaysNewest(proxies, n, Q, M) /\ M.type = g[1].type /\ M.labels = g[1].labels /\ M.blocks = inner
  BY <1>9, <1>15, <1>16, <1>17, MergedBlockSays
<1> QED
  BY <1>15, <1>18 DEF inner, C

(* The facts that are said at the place of J in I. *)
SaidLastIn(proxies, n, P, I, J, f) ==
    \E i \in 1 .. n : /\ \E b \in P[i] : Item(b) = I /\ f \in InnerFacts(proxies, ToSet(b.blocks), J)
                      /\ \A j \in 1 .. n : j > i => \A c \in P[j] : Item(c) = I =>
                             \A h \in InnerFacts(proxies, ToSet(c.blocks), J) : h[1] # f[1]

LEMMA NewestInner ==
    ASSUME NEW proxies, NEW n, NEW Q, NEW J, NEW Y, \A i \in 1 .. n : \A b \in Q[i] : Y[b] = InnerFacts(proxies, ToSet(b.blocks), J)
    PROVE  \A f : SaidLast(proxies, n, ContextsOf(n, BlocksIn(n, Q)), J, f) <=> NewestFact(n, Q, Y, f)
<1> DEFINE D == ContextsOf(n, BlocksIn(n, Q))
<1>1. \A i \in 1 .. n : \A d : d \in D[i] <=> d.type \in Containers /\ \E b \in Q[i] : d \in ToSet(b.blocks)
  <2> TAKE i \in 1 .. n
  <2>1. D[i] = ContextsIn(BlocksIn(n, Q)[i]) /\ BlocksIn(n, Q)[i] = BlocksOf(Q[i])
    BY DEF ContextsOf, BlocksIn
  <2>2. \A d : d \in D[i] <=> d \in BlocksOf(Q[i]) /\ d.type \in Containers
    BY <2>1 DEF ContextsIn
  <2> QED
    BY <2>2 DEF BlocksOf
<1> HIDE DEF D
<1>2. \A b, f : f \in InnerFacts(proxies, ToSet(b.blocks), J) <=>
                    \E d \in ToSet(b.blocks) : d.type \in Containers /\ Item(d) = J /\ f \in Own(proxies, d)
  BY InnerFactsAre DEF InnerContexts, ContextsIn
<1>3. \A i \in 1 .. n : \A f : (\E d \in D[i] : Item(d) = J /\ f \in Own(proxies, d)) <=> \E b \in Q[i] : f \in Y[b]
  BY <1>1, <1>2
<1> SUFFICES ASSUME NEW f PROVE SaidLast(proxies, n, D, J, f) <=> NewestFact(n, Q, Y, f)
  BY DEF D
<1>4. \A j \in 1 .. n : (\A c \in D[j] : Item(c) = J => \A g \in Own(proxies, c) : g[1] # f[1])
                        <=> \A c \in Q[j] : \A g \in Y[c] : g[1] # f[1]
  BY <1>3
<1> QED
  BY <1>3, <1>4 DEF SaidLast, NewestFact

MergedServers(proxies, single, L) ==
    LET groups == Groups(L, single)
    IN  [i \in DOMAIN groups |-> MergedBlock(groups[i], MergedServer(proxies, single, SubBlocks(groups[i])))]

LEMMA OneServerOfAGroup ==
    ASSUME NEW n \in Nat, NEW L, NEW P, NEW t, NEW single, NEW G, GroupsIn(n, L, P, t, single, G), ~single => OneOfEach(n, P),
           NEW g \in DOMAIN G, NEW Q, GroupOf(n, P, G[g], Q)
    PROVE  OneServer(n, Q)
<1>1. CASE ~single
  <2>1. \A i \in 1 .. n : \A b, c \in Q[i] : Item(b) = Item(c) /\ b \in P[i] /\ c \in P[i]
    BY DEF GroupOf
  <2> QED
    BY <1>1, <2>1 DEF OneServer, OneOfEach
<1>2. CASE single
  <2>1. G[g] = <<L[g]>>
    BY <1>2 DEF GroupsIn, Groups
  <2>2. PICK at : Layers(n, G[g], Q, at)
    BY DEF GroupOf, Layered
  <2>3. \A i \in 1 .. n : \A b \in Q[i] : b = L[g]
    <3>1. Len(G[g]) = 1 /\ G[g][1] = L[g]
      BY <2>1
    <3>2. \A k \in 1 .. Len(G[g]) : G[g][k] = L[g]
      BY <3>1
    <3> QED
      BY <2>2, <3>2 DEF Layers
  <2> QED
    BY <2>3 DEF OneServer
<1> QED
  BY <1>1, <1>2

OneServerEach(single, n, P) == single \in BOOLEAN /\ (single => n = 1) /\ (~single => OneOfEach(n, P))

ServersSaid(proxies, n, P, s) ==
    /\ ContextsSay(proxies, n, P, s)
    /\ \A m \in ToSet(s) : m.type = "server"
    /\ \A I, J, f : (\E m \in ToSet(s) : Item(m) = I /\ f \in InnerFacts(proxies, ToSet(m.blocks), J))
                    <=> SaidLastIn(proxies, n, P, I, J, f)

LEMMA ServersSay ==
    ASSUME NEW proxies, NEW n \in Nat, NEW L, NEW P, Layered(n, L, P), \A i \in 1 .. n : \A b \in P[i] : IsServer(b),
           FilesAgree(proxies, n, P), NEW single, OneServerEach(single, n, P)
    PROVE  ServersSaid(proxies, n, P, MergedServers(proxies, single, L))
<1> DEFINE G == Groups(L, single)
           M(g) == MergedBlock(G[g], MergedServer(proxies, single, SubBlocks(G[g])))
           s == [g \in DOMAIN G |-> M(g)]
<1> USE DEF OneServerEach
<1>1. \A i \in 1 .. n : \A b \in P[i] : b.type = "server"
  BY DEF IsServer
<1>2. Labels("server", n, P)
  <2> SUFFICES ASSUME NEW i \in 1 .. n, NEW b \in P[i] PROVE Label(b) \in Seq(Names) /\ Item(b) = <<"server", Label(b)>>
    BY DEF Labels
  <2>1. b.labels # << >> => b.labels[1] \in Names
    BY DEF IsServer, MayHaveOne, IsName, Names
  <2> QED
    BY <1>1, <2>1 DEF Label, Item, Name
<1>3. MergedServers(proxies, single, L) = s
  BY Zenon DEF MergedServers
<1>4. \A g \in DOMAIN G : s[g] = MergedBlock(G[g], MergedServer(proxies, single, SubBlocks(G[g])))
  OBVIOUS
<1>5. s = [g \in DOMAIN G |-> s[g]]
  OBVIOUS
<1>6. GroupsIn(n, L, P, "server", single, G)
  BY <1>2 DEF GroupsIn
<1> HIDE DEF G, s, M
<1>7. ASSUME NEW g \in DOMAIN G, NEW Q, GroupOf(n, P, G[g], Q)
      PROVE  /\ SaysNewest(proxies, n, Q, s[g]) /\ s[g].type = G[g][1].type /\ s[g].labels = G[g][1].labels
             /\ \A J, f : InnerContexts(proxies, ToSet(s[g].blocks), J, f) <=> SaidLast(proxies, n, ContextsOf(n, BlocksIn(n, Q)), J, f)
  <2>1. OneServer(n, Q)
    BY <1>6, <1>7, OneServerOfAGroup
  <2> DEFINE group == G[g]
  <2>2. GroupOf(n, P, group, Q)
    BY <1>7
  <2> HIDE DEF group
  <2>3. LET m == MergedBlock(group, MergedServer(proxies, single, SubBlocks(group)))
        IN  /\ SaysNewest(proxies, n, Q, m) /\ m.type = group[1].type /\ m.labels = group[1].labels
            /\ \A J, f : InnerContexts(proxies, ToSet(m.blocks), J, f) <=> SaidLast(proxies, n, ContextsOf(n, BlocksIn(n, Q)), J, f)
    BY <2>1, <2>2, ServerSays
  <2> QED
    BY <1>4, <2>3 DEF group
<1>8. GroupsMerged(proxies, n, P, G, s)
  BY <1>7 DEF GroupsMerged
<1>9. \A g \in DOMAIN G : Item(s[g]) = Item(G[g][1]) /\ s[g].type = "server"
  <2> TAKE g \in DOMAIN G
  <2>1. PICK Q : GroupOf(n, P, G[g], Q)
    BY <1>6, GroupsAre DEF GroupsIn
  <2>2. G[g][1].type = "server"
    BY <1>1, <2>1 DEF GroupOf
  <2> QED
    BY <1>7, <2>1, <2>2 DEF Item, Name, Label
<1>10. ContextsSay(proxies, n, P, s)
  BY <1>5, <1>6, <1>8, <1>9, GroupsContexts DEF Containers
<1>11. \A m : m \in ToSet(s) <=> \E g \in DOMAIN G : s[g] = m
  <2>1. PICK N \in Nat : DOMAIN G = 1 .. N
    BY <1>6, GroupsAre DEF GroupsIn
  <2>2. s = [g \in 1 .. N |-> s[g]]
    BY <1>5, <2>1
  <2>3. IsList(s) /\ Len(s) = N
    BY <2>2, ListOf
  <2> QED
    BY <2>1, <2>3, ElementPlace
<1>12. ASSUME NEW I, NEW J
       PROVE  \A f : (\E m \in ToSet(s) : Item(m) = I /\ f \in InnerFacts(proxies, ToSet(m.blocks), J))
                     <=> SaidLastIn(proxies, n, P, I, J, f)
  <2> DEFINE all == UNION {P[i] : i \in 1 .. n}
             Y == [b \in all |-> InnerFacts(proxies, ToSet(b.blocks), J)]
             Z == [g \in DOMAIN G |-> InnerFacts(proxies, ToSet(s[g].blocks), J)]
  <2>1. \A i \in 1 .. n : \A b \in P[i] : Y[b] = InnerFacts(proxies, ToSet(b.blocks), J)
    <3>1. \A i \in 1 .. n : \A b \in P[i] : b \in all
      OBVIOUS
    <3> HIDE DEF all
    <3> QED
      BY <3>1
  <2>2. \A g \in DOMAIN G : Z[g] = InnerFacts(proxies, ToSet(s[g].blocks), J)
    OBVIOUS
  <2> HIDE DEF Y, Z
  <2>3. ASSUME NEW g \in DOMAIN G, NEW Q, GroupOf(n, P, G[g], Q) PROVE \A f : f \in Z[g] <=> NewestFact(n, Q, Y, f)
    <3>1. \A f : InnerContexts(proxies, ToSet(s[g].blocks), J, f) <=> SaidLast(proxies, n, ContextsOf(n, BlocksIn(n, Q)), J, f)
      BY <1>7, <2>3
    <3>2. \A i \in 1 .. n : \A b \in Q[i] : Y[b] = InnerFacts(proxies, ToSet(b.blocks), J)
      BY <2>1, <2>3 DEF GroupOf
    <3>3. \A f : SaidLast(proxies, n, ContextsOf(n, BlocksIn(n, Q)), J, f) <=> NewestFact(n, Q, Y, f)
      BY <3>2, NewestInner
    <3>4. \A f : f \in Z[g] <=> InnerContexts(proxies, ToSet(s[g].blocks), J, f)
      BY <2>2, InnerFactsAre
    <3> QED
      BY <3>1, <3>3, <3>4
  <2>4. GroupsNewest(n, P, G, Y, Z)
    BY <2>3 DEF GroupsNewest
  <2>5. \A f : (\E g \in DOMAIN G : Item(G[g][1]) = I /\ f \in Z[g]) <=> NewestFact(n, OfItem(n, P, I), Y, f)
    BY <1>6, <2>4, GroupsSay
  <2>6. \A i \in 1 .. n : \A b : b \in OfItem(n, P, I)[i] <=> b \in P[i] /\ Item(b) = I
    BY DEF OfItem
  <2>7. \A f : NewestFact(n, OfItem(n, P, I), Y, f) <=> SaidLastIn(proxies, n, P, I, J, f)
    BY <2>1, <2>6 DEF NewestFact, SaidLastIn
  <2> QED
    BY <1>9, <1>11, <2>2, <2>5, <2>7
<1>13. \A m \in ToSet(s) : m.type = "server"
  BY <1>9, <1>11
<1> QED
  BY <1>3, <1>10, <1>12, <1>13 DEF ServersSaid

-------------------------------------------------------------------------------
(* Definitions, defaults and settings                                      *)
LEMMA BlockIs ==
    ASSUME NEW t, NEW l, NEW a, NEW s, NEW b, b = Block(t, l, a, s)
    PROVE  b.type = t /\ b.labels = l /\ b.attrs = a /\ b.blocks = s
<1> DEFINE file == NoName
<1>1. Block(t, l, a, s) = [type |-> t, labels |-> l, attrs |-> a, blocks |-> s, file |-> file, position |-> 0]
  BY Zenon DEF Block, BlockAt, NoName
<1> HIDE DEF file
<1> QED
  BY <1>1

LEMMA NothingSaid ==
    ASSUME NEW proxies, NEW b, b.blocks = << >>
    PROVE  KeepsItems(proxies, b) /\ SaidBlocks(proxies, b) = {} /\ Plain(b) = {}
<1>1. ToSet(b.blocks) = {}
  BY ListEmpty
<1>2. Plain(b) = {}
  BY <1>1 DEF Plain
<1> QED
  BY <1>2 DEF KeepsItems, SaidBlocks

LEMMA ContextDefinitions ==
    ASSUME NEW proxies, NEW n \in Nat, NEW L, NEW P, Layered(n, L, P), \A i \in 1 .. n : \A b \in P[i] : IsDefinitions(b),
           Agree(proxies, n, P)
    PROVE  LET M == Block("definitions", << >>, NoAttrs, LastOfEach(Others(SubBlocks(L), {"proxy"}), "type and label"))
           IN  ContextsSay(proxies, n, P, <<M>>) /\ \A d \in ToSet(M.blocks) : d.type \notin Containers
<1> DEFINE C == [i \in 1 .. n |-> BlocksOf(P[i])]
           B == [i \in 1 .. n |-> {c \in BlocksOf(P[i]) : c.type \notin {"proxy"}}]
           inner == LastOfEach(Others(SubBlocks(L), {"proxy"}), "type and label")
           M == Block("definitions", << >>, NoAttrs, inner)
<1>1. \A i \in 1 .. n : C[i] = BlocksOf(P[i]) /\ B[i] = {c \in C[i] : c.type \notin {"proxy"}}
  OBVIOUS
<1>2. M.type = "definitions" /\ M.labels = << >> /\ M.attrs = NoAttrs /\ M.blocks = inner
  <2>1. M = Block("definitions", << >>, NoAttrs, inner)
    OBVIOUS
  <2> HIDE DEF inner, M
  <2> QED
    BY <2>1, BlockIs
<1> HIDE DEF C, B, inner, M
<1>3. \A b : IsDefinitions(b) => /\ IsList(b.blocks) /\ b.type = "definitions" /\ b.labels = << >> /\ DOMAIN b.attrs = {}
                                 /\ \A d \in ToSet(b.blocks) : HasLabel(d) /\ (HasName(d) \/ d.type = "proxy")
  BY DEF IsDefinitions, HasNoLabel, IsBlock
<1>4. Layered(n, SubBlocks(L), C)
  BY <1>1, <1>3, SubBlocksLayered
<1>5. Layered(n, Others(SubBlocks(L), {"proxy"}), B)
  BY <1>1, <1>4, OthersLayered
<1>6. \A i \in 1 .. n : \A d \in C[i] : HasLabel(d) /\ (HasName(d) \/ d.type = "proxy")
  BY <1>1, <1>3 DEF BlocksOf
<1>7. \A i \in 1 .. n : \A d \in B[i] : HasLabel(d) /\ HasName(d)
  BY <1>1, <1>6
<1>8. \A d : HasName(d) => Value(proxies, d) = d /\ d.type \notin Containers \cup {"proxy", "endpoint"}
  BY DEF HasName, Value
<1>9. \A i \in 1 .. n : B[i] = SaidIn(proxies, BlocksOf(P[i]))
  <2> TAKE i \in 1 .. n
  <2>1. \A d : d \in SaidIn(proxies, C[i]) <=> \E c \in C[i] : c.type \notin Containers \cup {"proxy"} /\ d = Value(proxies, c)
    BY DEF SaidIn
  <2>2. \A d : d \in SaidIn(proxies, C[i]) <=> d \in B[i]
    BY <1>1, <1>6, <1>8, <2>1
  <2>3. \A X, V : (\A d : d \in X <=> d \in V) => X = V
    OBVIOUS
  <2>4. SaidIn(proxies, C[i]) = B[i]
    BY <2>2, <2>3, Zenon
  <2> QED
    BY <1>1, <2>4
<1>10. \A i \in 1 .. n : \A b \in P[i] : EndpointsIn(ToSet(b.blocks))
  <2>1. \A b : IsDefinitions(b) => \A d \in ToSet(b.blocks) : d.type # "endpoint"
    BY <1>3, <1>8
  <2> QED
    BY <2>1 DEF EndpointsIn
<1>11. \A i \in 1 .. n : \A d \in B[i] : Item(d) \notin CertificateItems
  <2> SUFFICES ASSUME NEW i \in 1 .. n, NEW d \in B[i] PROVE Item(d) \notin CertificateItems
    OBVIOUS
  <2>1. Item(d) = <<d.type, <<d.labels[1]>>>>
    BY <1>7, LabelledItem
  <2>2. \A t, u, x : <<t, << >>>> # <<u, <<x>>>>
    OBVIOUS
  <2> QED
    BY <2>1, <2>2 DEF CertificateItems
<1>12. OneOfEach(n, B)
  BY <1>9, <1>10, <1>11, OneOfEachSaid
<1>13. NewestOf(n, B, inner)
  BY <1>5, <1>7, <1>12, LastLabelled DEF inner
<1>14. \A d : d \in ToSet(inner) <=> NewestItem(n, B, d)
  BY <1>13 DEF NewestOf
<1>15. \A d \in ToSet(inner) : Value(proxies, d) = d /\ d.type \notin Containers \cup {"proxy", "endpoint"}
  BY <1>7, <1>8, <1>14 DEF NewestItem
<1>16. \A d : d \in SaidIn(proxies, ToSet(inner)) <=> d \in ToSet(inner)
  <2>1. \A d : d \in SaidIn(proxies, ToSet(inner)) <=> \E c \in ToSet(inner) : c.type \notin Containers \cup {"proxy"} /\ d = Value(proxies, c)
    BY DEF SaidIn
  <2> QED
    BY <1>15, <2>1
<1>17. \A b : DOMAIN b.attrs = {} => Variables(b).attrs = NoAttrs
  BY DEF Variables, Has
<1>18. DOMAIN NoAttrs = {}
  BY DEF NoAttrs
<1>19. SaysNewest(proxies, n, P, M)
  <2>1. KeepsItems(proxies, M)
    <3>1. EndpointsIn(ToSet(M.blocks))
      BY <1>2, <1>15 DEF EndpointsIn
    <3> QED
      BY <3>1, SaidBlocksAre
  <2>2. \A i \in 1 .. n : \A b \in P[i] : KeepsItems(proxies, b)
    BY <1>10, SaidBlocksAre
  <2>3. \A a, v : ~NewestAttr(n, P, a, v)
    BY <1>3 DEF NewestAttr
  <2>4. \A a, v : ~NewestAttr(n, [i \in 1 .. n |-> {Variables(b) : b \in P[i]}], a, v)
    BY <1>3, <1>17, <1>18 DEF NewestAttr
  <2>5. DOMAIN M.attrs = {} /\ DOMAIN Variables(M).attrs = {}
    BY <1>2, <1>17, <1>18
  <2>6. \A d : d \in SaidBlocks(proxies, M) <=> NewestItem(n, B, d)
    BY <1>2, <1>14, <1>16, SaidBlocksAre
  <2> DEFINE S == [i \in 1 .. n |-> UNION {SaidBlocks(proxies, b) : b \in P[i]}]
  <2>7. \A i \in 1 .. n : S[i] = B[i]
    BY <1>9, SaidBlocksAre
  <2> HIDE DEF S
  <2>8. \A d : NewestItem(n, S, d) <=> NewestItem(n, B, d)
    BY <2>7 DEF NewestItem
  <2>9. \A d : d \in SaidBlocks(proxies, M) <=> NewestItem(n, S, d)
    BY <2>6, <2>8
  <2> QED
    BY <2>1, <2>2, <2>3, <2>4, <2>5, <2>9 DEF SaysNewest, S
<1>20. \A i \in 1 .. n : \A b \in P[i] : Item(b) = Item(M)
  BY <1>2, <1>3 DEF Item, Name, Label
<1>21. M.type \in Containers
  BY <1>2 DEF Containers
<1>22. \A d \in ToSet(M.blocks) : d.type \notin Containers
  BY <1>2, <1>15
<1>23. ContextsSay(proxies, n, P, <<M>>)
  BY <1>19, <1>20, <1>21, OneContext
<1> QED
  BY <1>22, <1>23, Zenon DEF M, inner

SaysAttrs(n, P, M) ==
    \A a, v : a # "environment_variables" => ((a \in DOMAIN M.attrs /\ v = M.attrs[a]) <=> NewestAttr(n, P, a, v))
VariablesIn(n, P) == [i \in 1 .. n |-> {Variables(b) : b \in P[i]}]
SaysVariables(n, P, M) ==
    \A a, v : (a \in DOMAIN Variables(M).attrs /\ v = Variables(M).attrs[a]) <=> NewestAttr(n, VariablesIn(n, P), a, v)

LEMMA ValuesSay ==
    ASSUME NEW proxies, NEW n \in Nat, NEW P, NEW t, \A i \in 1 .. n : \A b \in P[i] : IsValues(b) /\ b.type = t,
           NEW M, M.type = t, M.labels = << >>, M.blocks = << >>, t \in Containers, SaysAttrs(n, P, M), SaysVariables(n, P, M)
    PROVE  ContextsSay(proxies, n, P, <<M>>)
<1>1. \A b : IsValues(b) => b.blocks = << >> /\ b.labels = << >> /\ b.type \in {"defaults", "settings"}
  BY DEF IsValues, HasNoLabel
<1>2. KeepsItems(proxies, M) /\ SaidBlocks(proxies, M) = {}
  BY NothingSaid
<1>3. \A i \in 1 .. n : \A b \in P[i] : KeepsItems(proxies, b) /\ SaidBlocks(proxies, b) = {}
  BY <1>1, NothingSaid
<1> DEFINE S == [i \in 1 .. n |-> UNION {SaidBlocks(proxies, b) : b \in P[i]}]
<1>4. \A i \in 1 .. n : S[i] = {}
  BY <1>3
<1> HIDE DEF S
<1>5. \A d : d \in SaidBlocks(proxies, M) <=> NewestItem(n, S, d)
  BY <1>2, <1>4 DEF NewestItem
<1>6. SaysNewest(proxies, n, P, M)
  BY <1>2, <1>3, <1>5 DEF SaysNewest, SaysAttrs, SaysVariables, VariablesIn, S
<1>7. \A i \in 1 .. n : \A b \in P[i] : Item(b) = Item(M)
  <2>1. t \in {"defaults", "settings"} \/ \A i \in 1 .. n : P[i] = {}
    BY <1>1
  <2> QED
    BY <1>1, <2>1 DEF Item, Name, Label
<1> QED
  BY <1>6, <1>7, OneContext

LEMMA ValuesAgree ==
    ASSUME NEW proxies, NEW n \in Nat, NEW P, \A i \in 1 .. n : \A b \in P[i] : IsValues(b), Agree(proxies, n, P)
    PROVE  \A i \in 1 .. n : \A b, c \in P[i] :
               /\ \A a \in DOMAIN b.attrs \cap DOMAIN c.attrs : a # "environment_variables" => b.attrs[a] = c.attrs[a]
               /\ \A a \in DOMAIN Variables(b).attrs \cap DOMAIN Variables(c).attrs : Variables(b).attrs[a] = Variables(c).attrs[a]
<1>1. \A i \in 1 .. n : \A b \in P[i] : KeepsItems(proxies, b)
  BY NothingSaid DEF IsValues
<1> QED
  BY <1>1, AgreeOn

LEMMA ContextSettings ==
    ASSUME NEW proxies, NEW n \in Nat, NEW L, NEW P, Layered(n, L, P),
           \A i \in 1 .. n : \A b \in P[i] : IsValues(b) /\ b.type = "settings", Agree(proxies, n, P)
    PROVE  ContextsSay(proxies, n, P, <<Block("settings", << >>, MergedAttrs(L), << >>)>>)
<1> DEFINE M == Block("settings", << >>, MergedAttrs(L), << >>)
<1>1. M = Block("settings", << >>, MergedAttrs(L), << >>)
  OBVIOUS
<1> HIDE DEF M
<1>2. M.type = "settings" /\ M.labels = << >> /\ M.attrs = MergedAttrs(L) /\ M.blocks = << >>
  BY <1>1, BlockIs
<1>3. \A i \in 1 .. n : \A b, c \in P[i] :
          \A a \in DOMAIN b.attrs \cap DOMAIN c.attrs : a # "environment_variables" => b.attrs[a] = c.attrs[a]
  BY ValuesAgree
<1>4. \A i \in 1 .. n : \A b \in P[i] : ~Has(b, "environment_variables")
  BY DEF IsValues, HasNoLabel, IsBlock
<1>5. \A b : ~Has(b, "environment_variables") => DOMAIN Variables(b).attrs = {}
  BY DEF Variables, NoAttrs
<1>6. ASSUME NEW a PROVE \A v : (a \in DOMAIN M.attrs /\ v = M.attrs[a]) <=> NewestAttr(n, P, a, v)
  <2>1. \A i \in 1 .. n : \A b, c \in P[i] : a \in DOMAIN b.attrs \cap DOMAIN c.attrs => b.attrs[a] = c.attrs[a]
    BY <1>3, <1>4 DEF Has
  <2> QED
    BY <1>2, <2>1, MergedAttrsNewest
<1>7. SaysAttrs(n, P, M)
  BY <1>6 DEF SaysAttrs
<1>8. SaysVariables(n, P, M)
  <2>1. \A v : ~NewestAttr(n, P, "environment_variables", v)
    BY <1>4 DEF NewestAttr, Has
  <2>2. ~Has(M, "environment_variables")
    BY <1>6, <2>1 DEF Has
  <2>3. \A i \in 1 .. n : \A c \in VariablesIn(n, P)[i] : DOMAIN c.attrs = {}
    BY <1>4, <1>5 DEF VariablesIn
  <2> QED
    BY <1>5, <2>2, <2>3 DEF SaysVariables, NewestAttr
<1> QED
  BY <1>2, <1>7, <1>8, <1>1, ValuesSay DEF Containers

DefaultsOf(L) ==
    LET vars  == MergedAttrs([i \in DOMAIN L |-> Variables(L[i])])
        attrs == MergedAttrs(L)
    IN  IF vars = NoAttrs THEN attrs
        ELSE [n \in DOMAIN attrs \cup {"environment_variables"} |->
                 IF n = "environment_variables" THEN vars ELSE attrs[n]]

LEMMA ContextDefaults ==
    ASSUME NEW proxies, NEW n \in Nat, NEW L, NEW P, Layered(n, L, P),
           \A i \in 1 .. n : \A b \in P[i] : IsValues(b) /\ b.type = "defaults", Agree(proxies, n, P)
    PROVE  ContextsSay(proxies, n, P, <<Block("defaults", << >>, DefaultsOf(L), << >>)>>)
<1> DEFINE M == Block("defaults", << >>, DefaultsOf(L), << >>)
           all == ToSet(L)
           V == [b \in all |-> Variables(b)]
           W == [i \in DOMAIN L |-> V[L[i]]]
           vars == MergedAttrs([i \in DOMAIN L |-> Variables(L[i])])
           attrs == MergedAttrs(L)
           R == VariablesIn(n, P)
           ev == "environment_variables"
<1>1. M = Block("defaults", << >>, DefaultsOf(L), << >>)
  OBVIOUS
<1>2. DefaultsOf(L) = IF vars = NoAttrs THEN attrs ELSE [x \in DOMAIN attrs \cup {ev} |-> IF x = ev THEN vars ELSE attrs[x]]
  BY Zenon DEF DefaultsOf
<1>3. IsList(L) /\ Len(L) \in Nat /\ DOMAIN L = 1 .. Len(L) /\ \A b : b \in ToSet(L) <=> \E i \in 1 .. n : b \in P[i]
  BY InLayers
<1>4. \A i \in DOMAIN L : L[i] \in all
  BY <1>3, ListElements
<1>5. \A i \in 1 .. n : \A b \in P[i] : V[b] = Variables(b)
  <2>1. \A i \in 1 .. n : \A b \in P[i] : b \in all
    BY <1>3
  <2> HIDE DEF all
  <2> QED
    BY <2>1
<1>6. W = [i \in DOMAIN L |-> Variables(L[i])] /\ \A i \in DOMAIN L : W[i] = Variables(L[i])
  <2> HIDE DEF all
  <2>1. \A i \in DOMAIN L : V[L[i]] = Variables(L[i])
    BY <1>4
  <2> QED
    BY <2>1
<1>7. vars = MergedAttrs(W)
  <2> HIDE DEF W
  <2> QED
    BY <1>6
<1> HIDE DEF M, all, V, vars, attrs, R, ev
<1>8. M.type = "defaults" /\ M.labels = << >> /\ M.attrs = DefaultsOf(L) /\ M.blocks = << >>
  BY <1>1, BlockIs
<1>9. \A i \in 1 .. n : R[i] = {V[b] : b \in P[i]}
  BY <1>5 DEF R, VariablesIn
<1>10. Layered(n, W, R)
  BY <1>9, MappedLayered
<1> HIDE DEF W
<1>11. \A i \in 1 .. n : \A b, c \in P[i] :
          /\ \A a \in DOMAIN b.attrs \cap DOMAIN c.attrs : a # ev => b.attrs[a] = c.attrs[a]
          /\ \A a \in DOMAIN Variables(b).attrs \cap DOMAIN Variables(c).attrs : Variables(b).attrs[a] = Variables(c).attrs[a]
  BY ValuesAgree DEF ev
<1>12. ASSUME NEW a, a # ev PROVE \A v : (a \in DOMAIN attrs /\ v = attrs[a]) <=> NewestAttr(n, P, a, v)
  <2>1. \A i \in 1 .. n : \A b, c \in P[i] : a \in DOMAIN b.attrs \cap DOMAIN c.attrs => b.attrs[a] = c.attrs[a]
    BY <1>11, <1>12
  <2> QED
    BY <2>1, MergedAttrsNewest DEF attrs
<1>13. ASSUME NEW a PROVE \A v : (a \in DOMAIN vars /\ v = vars[a]) <=> NewestAttr(n, R, a, v)
  <2>1. \A i \in 1 .. n : \A x \in R[i] : \E b \in P[i] : x = Variables(b)
    BY <1>5, <1>9
  <2>2. \A i \in 1 .. n : \A x, y \in R[i] : a \in DOMAIN x.attrs \cap DOMAIN y.attrs => x.attrs[a] = y.attrs[a]
    BY <1>11, <2>1
  <2> QED
    BY <1>7, <1>10, <2>2, MergedAttrsNewest
<1>14. \A a : a # ev => (a \in DOMAIN M.attrs <=> a \in DOMAIN attrs) /\ (a \in DOMAIN attrs => M.attrs[a] = attrs[a])
  <2>1. CASE vars = NoAttrs
    BY <1>2, <1>8, <2>1
  <2>2. CASE vars # NoAttrs
    BY <1>2, <1>8, <2>2
  <2> QED
    BY <2>1, <2>2
<1>15. SaysAttrs(n, P, M)
  BY <1>12, <1>14 DEF SaysAttrs, ev
<1>16. DOMAIN Variables(M).attrs = DOMAIN vars /\ \A a \in DOMAIN vars : Variables(M).attrs[a] = vars[a]
  <2>1. \A b : Variables(b).attrs = IF ev \in DOMAIN b.attrs THEN b.attrs[ev] ELSE NoAttrs
    BY DEF Variables, Has, ev
  <2>2. CASE vars # NoAttrs
    BY <1>2, <1>8, <2>1, <2>2
  <2>3. CASE vars = NoAttrs
    <3>1. M.attrs = attrs /\ DOMAIN vars = {} /\ DOMAIN NoAttrs = {}
      BY <1>2, <1>8, <2>3 DEF NoAttrs
    <3>2. CASE ev \notin DOMAIN attrs
      BY <2>1, <3>1, <3>2
    <3>3. CASE ev \in DOMAIN attrs
      <4>1. PICK k \in 1 .. Len(L) : SetLast(L, Len(L), ev, k)
        BY <1>3, <3>3, MergedAttrsAre DEF attrs
      <4>2. attrs[ev] = L[k].attrs[ev]
        BY <1>3, <4>1, MergedAttrsAre DEF attrs
      <4>3. \A j \in 1 .. Len(L) : W[j].attrs = IF ev \in DOMAIN L[j].attrs THEN L[j].attrs[ev] ELSE NoAttrs
        BY <1>3, <1>6, <2>1
      <4>4. W[k].attrs = attrs[ev] /\ \A j \in 1 .. Len(L) : j > k => DOMAIN W[j].attrs = {}
        BY <3>1, <4>1, <4>2, <4>3 DEF SetLast
      <4>5. IsList(W) /\ Len(W) = Len(L)
        BY <1>3, <1>6, <1>10, ListOf
      <4>6. \A a \in DOMAIN attrs[ev] : SetLast(W, Len(W), a, k)
        BY <4>4, <4>5 DEF SetLast
      <4>7. \A a \in DOMAIN attrs[ev] : a \in DOMAIN vars
        BY <1>7, <4>5, <4>6, MergedAttrsAre
      <4>8. DOMAIN attrs[ev] = {}
        BY <3>1, <4>7
      <4> QED
        BY <2>1, <3>1, <3>3, <4>8
    <3> QED
      BY <3>2, <3>3
  <2> QED
    BY <2>2, <2>3
<1>17. SaysVariables(n, P, M)
  BY <1>13, <1>16 DEF SaysVariables, R
<1> QED
  BY <1>8, <1>15, <1>17, <1>1, ValuesSay DEF Containers

-------------------------------------------------------------------------------
(* Files                                                                   *)
LEMMA BlocksOfTypeAre ==
    ASSUME NEW body, IsList(body.blocks), NEW t
    PROVE  /\ IsList(BlocksOfType(body, t))
           /\ \A b : b \in ToSet(BlocksOfType(body, t)) <=> b \in ToSet(body.blocks) /\ b.type = t
<1> DEFINE s == body.blocks
           D == {i \in DOMAIN s : s[i].type = t}
<1>1. BlocksOfType(body, t) = Picked(s, D)
  BY Zenon DEF BlocksOfType
<1>2. D \subseteq DOMAIN s /\ \A i : i \in D <=> i \in DOMAIN s /\ s[i].type = t
  OBVIOUS
<1>3. IsList(s) /\ DOMAIN s = 1 .. Len(s)
  BY ListElements
<1> HIDE DEF s, D
<1>4. IsList(Picked(s, D)) /\ \A x : x \in ToSet(Picked(s, D)) <=> \E i \in D : s[i] = x
  BY <1>2, <1>3, ListPicked
<1>5. \A x : x \in ToSet(s) <=> \E i \in DOMAIN s : s[i] = x
  BY <1>3, ElementPlace
<1> QED
  BY <1>1, <1>2, <1>4, <1>5 DEF s

InFiles(files, t) == [i \in 1 .. Len(files) |-> {b \in ToSet(files[i].blocks) : b.type = t}]

LEMMA AllOfTypeLayered ==
    ASSUME NEW files, IsList(files), \A i \in 1 .. Len(files) : IsList(files[i].blocks), NEW t
    PROVE  Layered(Len(files), AllOfType(files, t), InFiles(files, t))
<1> DEFINE n == Len(files)
           ss == [i \in DOMAIN files |-> BlocksOfType(files[i], t)]
           E == [i \in 1 .. n |-> ToSet(ss[i])]
           P == InFiles(files, t)
<1>1. n \in Nat /\ DOMAIN files = 1 .. n
  BY ListElements
<1>2. AllOfType(files, t) = FlattenSeq(ss)
  BY Zenon DEF AllOfType
<1>3. ss = [i \in 1 .. n |-> ss[i]] /\ \A i \in 1 .. n : ss[i] = BlocksOfType(files[i], t)
  BY <1>1
<1>4. \A i \in 1 .. n : E[i] = ToSet(ss[i])
  OBVIOUS
<1>5. \A i \in 1 .. n : P[i] = {b \in ToSet(files[i].blocks) : b.type = t}
  BY DEF InFiles
<1> HIDE DEF ss, E, P
<1>6. IsList(ss) /\ Len(ss) = n
  BY <1>1, <1>3, ListOf
<1> HIDE DEF n
<1>7. Layered(n, FlattenSeq(ss), E)
  <2>1. n = 0 => ss = << >>
    BY <1>6 DEF IsList
  <2>2. \A i \in 1 .. n : IsList(ss[i])
    BY <1>3, BlocksOfTypeAre DEF n
  <2> QED
    BY <1>1, <1>4, <1>6, <2>1, <2>2, FlattenedLayers
<1>8. \A i \in 1 .. n : E[i] = P[i]
  <2> TAKE i \in 1 .. n
  <2>1. \A b : b \in ToSet(BlocksOfType(files[i], t)) <=> b \in ToSet(files[i].blocks) /\ b.type = t
    BY BlocksOfTypeAre DEF n
  <2>2. \A b : b \in E[i] <=> b \in P[i]
    BY <1>3, <1>4, <1>5, <2>1
  <2>3. \A X, V : (\A b : b \in X <=> b \in V) => X = V
    OBVIOUS
  <2> QED
    BY <2>2, <2>3, Zenon
<1> QED
  BY <1>1, <1>2, <1>7, <1>8, SameLayers DEF n, P

-------------------------------------------------------------------------------
(* What a file says, at each place                                         *)
Fact(place, h) == <<<<place, h[1]>>, h[2]>>

LEMMA Pairs ==
    /\ \A x, y, v, w : <<x, y>> = <<v, w>> => x = v /\ y = w
    /\ \A x, y : <<x, y>>[1] = x /\ <<x, y>>[2] = y
    /\ \A I, J : <<I>> = <<J>> => I = J
    /\ \A I, J, K : <<I>> # <<J, K>>
  OBVIOUS

LEMMA FactsDiffer ==
    ASSUME NEW p, NEW q, NEW g, NEW h
    PROVE  /\ Fact(p, g)[1] = Fact(q, h)[1] <=> p = q /\ g[1] = h[1]
           /\ Fact(p, g)[1][2] = g[1]
           /\ g = <<g[1], g[2]>> /\ h = <<h[1], h[2]>> /\ Fact(p, g) = Fact(q, h) => p = q /\ g = h
<1> DEFINE a == g[1]
           b == h[1]
           v == g[2]
           w == h[2]
<1>1. Fact(p, g) = <<<<p, a>>, v>> /\ Fact(q, h) = <<<<q, b>>, w>>
  BY DEF Fact
<1> HIDE DEF a, b, v, w
<1>2. Fact(p, g)[1] = <<p, a>> /\ Fact(q, h)[1] = <<q, b>> /\ Fact(p, g)[1][2] = a
  BY <1>1, Pairs
<1>3. <<p, a>> = <<q, b>> <=> p = q /\ a = b
  BY Pairs
<1>4. Fact(p, g) = Fact(q, h) => p = q /\ a = b /\ v = w
  BY <1>1, Pairs
<1>5. g = <<a, v>> /\ h = <<b, w>> /\ a = b /\ v = w => g = h
  OBVIOUS
<1> QED
  BY <1>2, <1>3, <1>4, <1>5 DEF a, b, v, w

LEMMA OwnPairs ==
    ASSUME NEW proxies, NEW b, NEW h \in Own(proxies, b)
    PROVE  h = <<h[1], h[2]>>
<1>1. \E x, y : h = <<x, y>>
  BY DEF Own
<1> QED
  BY <1>1, Pairs

SaidAt(proxies, body, I, h)      == \E c \in Contexts(body) : Item(c) = I /\ h \in Own(proxies, c)
SaidInside(proxies, body, I, J, h) == \E c \in Contexts(body) : Item(c) = I /\ h \in InnerFacts(proxies, ToSet(c.blocks), J)

LEMMA SaidByIs ==
    ASSUME NEW proxies, NEW body, DOMAIN body.attrs = {}, \A b \in ToSet(body.blocks) : b.type \in Containers
    PROVE  \A f : f \in SaidBy(proxies, body) <=>
               \/ \E I, h : f = Fact(<<I>>, h) /\ SaidAt(proxies, body, I, h)
               \/ \E I, J, h : f = Fact(<<I, J>>, h) /\ SaidInside(proxies, body, I, J, h)
<1>1. Own(proxies, body) = {}
  <2>1. Plain(body) = {}
    BY DEF Plain
  <2>2. DOMAIN Variables(body).attrs = {}
    BY DEF Variables, Has, NoAttrs
  <2> QED
    BY <2>1, <2>2 DEF Own
<1>2. \A p, b, f : f \in Says(proxies, p, b) <=> \E h \in Own(proxies, b) : f = Fact(p, h)
  BY DEF Says, Fact
<1>3. \A f : f \in SaidBy(proxies, body) <=>
                 \/ f \in Says(proxies, << >>, body)
                 \/ \E c \in Contexts(body) : \/ f \in Says(proxies, <<Item(c)>>, c)
                                              \/ \E d \in Contexts(c) : f \in Says(proxies, <<Item(c), Item(d)>>, d)
  BY DEF SaidBy
<1>4. \A c, J, h : h \in InnerFacts(proxies, ToSet(c.blocks), J) <=> \E d \in Contexts(c) : Item(d) = J /\ h \in Own(proxies, d)
  BY InnerFactsAre DEF InnerContexts, ContextsIn, Contexts
<1> SUFFICES ASSUME NEW f
             PROVE  f \in SaidBy(proxies, body) <=>
                        \/ \E I, h : f = Fact(<<I>>, h) /\ SaidAt(proxies, body, I, h)
                        \/ \E I, J, h : f = Fact(<<I, J>>, h) /\ SaidInside(proxies, body, I, J, h)
  OBVIOUS
<1>5. (\E I, h : f = Fact(<<I>>, h) /\ SaidAt(proxies, body, I, h))
      <=> \E c \in Contexts(body) : f \in Says(proxies, <<Item(c)>>, c)
  <2>1. ASSUME NEW I, NEW h, f = Fact(<<I>>, h), SaidAt(proxies, body, I, h)
        PROVE  \E c \in Contexts(body) : f \in Says(proxies, <<Item(c)>>, c)
    <3>1. PICK c \in Contexts(body) : Item(c) = I /\ h \in Own(proxies, c)
      BY <2>1 DEF SaidAt
    <3>2. f \in Says(proxies, <<Item(c)>>, c)
      BY <1>2, <2>1, <3>1
    <3> QED
      BY <3>2
  <2>2. ASSUME NEW c \in Contexts(body), f \in Says(proxies, <<Item(c)>>, c)
        PROVE  \E I, h : f = Fact(<<I>>, h) /\ SaidAt(proxies, body, I, h)
    <3>1. PICK h \in Own(proxies, c) : f = Fact(<<Item(c)>>, h)
      BY <1>2, <2>2
    <3>2. SaidAt(proxies, body, Item(c), h)
      BY DEF SaidAt
    <3> QED
      BY <3>1, <3>2
  <2> QED
    BY <2>1, <2>2
<1>6. (\E I, J, h : f = Fact(<<I, J>>, h) /\ SaidInside(proxies, body, I, J, h))
      <=> \E c \in Contexts(body) : \E d \in Contexts(c) : f \in Says(proxies, <<Item(c), Item(d)>>, d)
  <2>1. ASSUME NEW I, NEW J, NEW h, f = Fact(<<I, J>>, h), SaidInside(proxies, body, I, J, h)
        PROVE  \E c \in Contexts(body) : \E d \in Contexts(c) : f \in Says(proxies, <<Item(c), Item(d)>>, d)
    <3>1. PICK c \in Contexts(body) : Item(c) = I /\ h \in InnerFacts(proxies, ToSet(c.blocks), J)
      BY <2>1 DEF SaidInside
    <3>2. PICK d \in Contexts(c) : Item(d) = J /\ h \in Own(proxies, d)
      BY <1>4, <3>1
    <3>3. f \in Says(proxies, <<Item(c), Item(d)>>, d)
      BY <1>2, <2>1, <3>1, <3>2
    <3> QED
      BY <3>3
  <2>2. ASSUME NEW c \in Contexts(body), NEW d \in Contexts(c), f \in Says(proxies, <<Item(c), Item(d)>>, d)
        PROVE  \E I, J, h : f = Fact(<<I, J>>, h) /\ SaidInside(proxies, body, I, J, h)
    <3>1. PICK h \in Own(proxies, d) : f = Fact(<<Item(c), Item(d)>>, h)
      BY <1>2, <2>2
    <3>2. SaidInside(proxies, body, Item(c), Item(d), h)
      BY <1>4 DEF SaidInside
    <3> QED
      BY <3>1, <3>2
  <2> QED
    BY <2>1, <2>2
<1> QED
  BY <1>1, <1>2, <1>3, <1>5, <1>6

HasContexts(body) == DOMAIN body.attrs = {} /\ \A b \in ToSet(body.blocks) : b.type \in Containers

LEMMA PlacesOfFacts ==
    ASSUME NEW proxies, NEW body, HasContexts(body)
    PROVE  /\ \A I, h : SaidAt(proxies, body, I, h) => h = <<h[1], h[2]>> /\ Fact(<<I>>, h) \in SaidBy(proxies, body)
           /\ \A I, J, h : SaidInside(proxies, body, I, J, h) => h = <<h[1], h[2]>> /\ Fact(<<I, J>>, h) \in SaidBy(proxies, body)
           /\ \A I, h, g : g \in SaidBy(proxies, body) /\ g[1] = Fact(<<I>>, h)[1] =>
                  \E e : g = Fact(<<I>>, e) /\ e[1] = h[1] /\ SaidAt(proxies, body, I, e)
           /\ \A I, J, h, g : g \in SaidBy(proxies, body) /\ g[1] = Fact(<<I, J>>, h)[1] =>
                  \E e : g = Fact(<<I, J>>, e) /\ e[1] = h[1] /\ SaidInside(proxies, body, I, J, e)
<1>1. \A f : f \in SaidBy(proxies, body) <=>
                 \/ \E I, h : f = Fact(<<I>>, h) /\ SaidAt(proxies, body, I, h)
                 \/ \E I, J, h : f = Fact(<<I, J>>, h) /\ SaidInside(proxies, body, I, J, h)
  BY SaidByIs DEF HasContexts
<1>2. \A I, h : SaidAt(proxies, body, I, h) => h = <<h[1], h[2]>>
  BY OwnPairs DEF SaidAt
<1>3. \A I, J, h : SaidInside(proxies, body, I, J, h) => h = <<h[1], h[2]>>
  <2>1. \A c, J, h : h \in InnerFacts(proxies, ToSet(c.blocks), J) => \E d : h \in Own(proxies, d)
    BY DEF InnerFacts
  <2> QED
    BY <2>1, OwnPairs DEF SaidInside
<1>4. ASSUME NEW I, NEW h, NEW g \in SaidBy(proxies, body), g[1] = Fact(<<I>>, h)[1]
      PROVE  \E e : g = Fact(<<I>>, e) /\ e[1] = h[1] /\ SaidAt(proxies, body, I, e)
  <2>1. CASE \E K, e : g = Fact(<<K>>, e) /\ SaidAt(proxies, body, K, e)
    <3>1. PICK K, e : g = Fact(<<K>>, e) /\ SaidAt(proxies, body, K, e)
      BY <2>1
    <3>2. <<K>> = <<I>> /\ e[1] = h[1]
      BY <1>4, <3>1, FactsDiffer
    <3>3. K = I
      BY <3>2, Pairs
    <3> QED
      BY <3>1, <3>2, <3>3
  <2>2. CASE \E K, L, e : g = Fact(<<K, L>>, e) /\ SaidInside(proxies, body, K, L, e)
    <3>1. PICK K, L, e : g = Fact(<<K, L>>, e)
      BY <2>2
    <3>2. <<K, L>> = <<I>>
      BY <1>4, <3>1, FactsDiffer
    <3> QED
      BY <3>2, Pairs
  <2> QED
    BY <1>1, <2>1, <2>2
<1>5. ASSUME NEW I, NEW J, NEW h, NEW g \in SaidBy(proxies, body), g[1] = Fact(<<I, J>>, h)[1]
      PROVE  \E e : g = Fact(<<I, J>>, e) /\ e[1] = h[1] /\ SaidInside(proxies, body, I, J, e)
  <2>1. CASE \E K, L, e : g = Fact(<<K, L>>, e) /\ SaidInside(proxies, body, K, L, e)
    <3>1. PICK K, L, e : g = Fact(<<K, L>>, e) /\ SaidInside(proxies, body, K, L, e)
      BY <2>1
    <3>2. <<K, L>> = <<I, J>> /\ e[1] = h[1]
      BY <1>5, <3>1, FactsDiffer
    <3>3. K = I /\ L = J
      BY <3>2, Pairs
    <3> QED
      BY <3>1, <3>2, <3>3
  <2>2. CASE \E K, e : g = Fact(<<K>>, e) /\ SaidAt(proxies, body, K, e)
    <3>1. PICK K, e : g = Fact(<<K>>, e)
      BY <2>2
    <3>2. <<K>> = <<I, J>>
      BY <1>5, <3>1, FactsDiffer
    <3> QED
      BY <3>2, Pairs
  <2> QED
    BY <1>1, <2>1, <2>2
<1>6. \A I, h : SaidAt(proxies, body, I, h) => Fact(<<I>>, h) \in SaidBy(proxies, body)
  BY <1>1
<1>7. \A I, J, h : SaidInside(proxies, body, I, J, h) => Fact(<<I, J>>, h) \in SaidBy(proxies, body)
  BY <1>1
<1> QED
  BY <1>2, <1>3, <1>4, <1>5, <1>6, <1>7

(* What contexts of one item in a file say. *)
LEMMA UnambiguousAgree ==
    ASSUME NEW proxies, NEW body, HasContexts(body), Unambiguous(SaidBy(proxies, body))
    PROVE  \A b, c \in Contexts(body) : Item(b) = Item(c) =>
               /\ AgreeTwo(proxies, b, c)
               /\ \A d \in Contexts(b) : \A e \in Contexts(c) : Item(d) = Item(e) => AgreeTwo(proxies, d, e)
<1> DEFINE N == {<<"block", x>> : x \in CertificateItems}
<1>1. \A x : x \in {<<"block", <<t, << >>>>>> : t \in Certificates} => x \in N
  <2> SUFFICES ASSUME NEW t \in Certificates PROVE <<"block", <<t, << >>>>>> \in N
    OBVIOUS
  <2>1. <<t, << >>>> \in CertificateItems
    BY DEF CertificateItems
  <2> QED
    BY <2>1
<1> HIDE DEF N
<1>2. \A f, g \in SaidBy(proxies, body) : f[1] = g[1] /\ f[1][2] \notin N => f = g
  BY <1>1 DEF Unambiguous
<1>3. \A b, c : (\A f \in Own(proxies, b) : \A g \in Own(proxies, c) : f[1] = g[1] /\ f[1] \notin N => f = g) => AgreeTwo(proxies, b, c)
  BY DEF AgreeTwo, N
<1> SUFFICES ASSUME NEW b \in Contexts(body), NEW c \in Contexts(body), Item(b) = Item(c)
             PROVE  /\ AgreeTwo(proxies, b, c)
                    /\ \A d \in Contexts(b) : \A e \in Contexts(c) : Item(d) = Item(e) => AgreeTwo(proxies, d, e)
  OBVIOUS
<1>4. ASSUME NEW f \in Own(proxies, b), NEW g \in Own(proxies, c), f[1] = g[1], f[1] \notin N PROVE f = g
  <2> DEFINE I == Item(b)
  <2>1. SaidAt(proxies, body, I, f) /\ SaidAt(proxies, body, I, g)
    BY DEF SaidAt
  <2> HIDE DEF I
  <2>2. /\ f = <<f[1], f[2]>> /\ g = <<g[1], g[2]>>
        /\ Fact(<<I>>, f) \in SaidBy(proxies, body) /\ Fact(<<I>>, g) \in SaidBy(proxies, body)
    BY <2>1, PlacesOfFacts
  <2>3. Fact(<<I>>, f)[1] = Fact(<<I>>, g)[1] /\ Fact(<<I>>, f)[1][2] \notin N
    BY <1>4, FactsDiffer
  <2>4. Fact(<<I>>, f) = Fact(<<I>>, g)
    BY <1>2, <2>2, <2>3
  <2> QED
    BY <2>2, <2>4, FactsDiffer
<1>5. ASSUME NEW d \in Contexts(b), NEW e \in Contexts(c), Item(d) = Item(e),
             NEW f \in Own(proxies, d), NEW g \in Own(proxies, e), f[1] = g[1], f[1] \notin N PROVE f = g
  <2> DEFINE I == Item(b)
             J == Item(d)
  <2>1. SaidInside(proxies, body, I, J, f) /\ SaidInside(proxies, body, I, J, g)
    <3>1. f \in InnerFacts(proxies, ToSet(b.blocks), J) /\ g \in InnerFacts(proxies, ToSet(c.blocks), J)
      BY <1>5, InnerFactsAre DEF InnerContexts, ContextsIn, Contexts
    <3> QED
      BY <3>1 DEF SaidInside
  <2> HIDE DEF I, J
  <2>2. /\ f = <<f[1], f[2]>> /\ g = <<g[1], g[2]>>
        /\ Fact(<<I, J>>, f) \in SaidBy(proxies, body) /\ Fact(<<I, J>>, g) \in SaidBy(proxies, body)
    BY <2>1, PlacesOfFacts
  <2>3. Fact(<<I, J>>, f)[1] = Fact(<<I, J>>, g)[1] /\ Fact(<<I, J>>, f)[1][2] \notin N
    BY <1>5, FactsDiffer
  <2>4. Fact(<<I, J>>, f) = Fact(<<I, J>>, g)
    BY <1>2, <2>2, <2>3
  <2> QED
    BY <2>2, <2>4, FactsDiffer
<1> QED
  BY <1>3, <1>4, <1>5

LEMMA LatestIs ==
    ASSUME NEW proxies, NEW n \in Nat, NEW files, \A i \in 1 .. n : HasContexts(files[i]),
           NEW said, said = [i \in 1 .. n |-> SaidBy(proxies, files[i])],
           NEW K, \A i \in 1 .. n : K[i] = Contexts(files[i]), NEW C, HasContexts(C),
           \A I, h : SaidAt(proxies, C, I, h) <=> SaidLast(proxies, n, K, I, h),
           \A I, J, h : SaidInside(proxies, C, I, J, h) <=> SaidLastIn(proxies, n, K, I, J, h)
    PROVE  SaidBy(proxies, C) = Latest(said)
<1>1. DOMAIN said = 1 .. n /\ \A i \in 1 .. n : said[i] = SaidBy(proxies, files[i])
  OBVIOUS
<1>2. \A f : f \in Latest(said) <=> \E i \in 1 .. n : f \in said[i] /\ \A j \in 1 .. n : j > i => \A g \in said[j] : g[1] # f[1]
  BY <1>1 DEF Latest
<1>3. \A I, h : SaidAt(proxies, C, I, h) <=>
          \E i \in 1 .. n : /\ SaidAt(proxies, files[i], I, h)
                            /\ \A j \in 1 .. n : j > i => \A e : SaidAt(proxies, files[j], I, e) => e[1] # h[1]
  <2> TAKE I, h
  <2>1. \A i \in 1 .. n : \A e : SaidAt(proxies, files[i], I, e) <=> \E c \in K[i] : Item(c) = I /\ e \in Own(proxies, c)
    BY DEF SaidAt
  <2>3. \A j \in 1 .. n : (\A c \in K[j] : Item(c) = I => \A e \in Own(proxies, c) : e[1] # h[1])
                          <=> \A e : SaidAt(proxies, files[j], I, e) => e[1] # h[1]
    BY <2>1
  <2>2. SaidLast(proxies, n, K, I, h) <=>
            \E i \in 1 .. n : /\ SaidAt(proxies, files[i], I, h)
                              /\ \A j \in 1 .. n : j > i => \A e : SaidAt(proxies, files[j], I, e) => e[1] # h[1]
    BY <2>1, <2>3 DEF SaidLast
  <2> QED
    BY <2>2
<1>4. \A I, J, h : SaidInside(proxies, C, I, J, h) <=>
          \E i \in 1 .. n : /\ SaidInside(proxies, files[i], I, J, h)
                            /\ \A j \in 1 .. n : j > i => \A e : SaidInside(proxies, files[j], I, J, e) => e[1] # h[1]
  <2> TAKE I, J, h
  <2>1. \A i \in 1 .. n : \A e : SaidInside(proxies, files[i], I, J, e)
                                 <=> \E c \in K[i] : Item(c) = I /\ e \in InnerFacts(proxies, ToSet(c.blocks), J)
    BY DEF SaidInside
  <2>3. \A j \in 1 .. n : (\A c \in K[j] : Item(c) = I => \A e \in InnerFacts(proxies, ToSet(c.blocks), J) : e[1] # h[1])
                          <=> \A e : SaidInside(proxies, files[j], I, J, e) => e[1] # h[1]
    BY <2>1
  <2>2. SaidLastIn(proxies, n, K, I, J, h) <=>
            \E i \in 1 .. n : /\ SaidInside(proxies, files[i], I, J, h)
                              /\ \A j \in 1 .. n : j > i => \A e : SaidInside(proxies, files[j], I, J, e) => e[1] # h[1]
    <3> DEFINE Said(i) == \E c \in K[i] : Item(c) = I /\ h \in InnerFacts(proxies, ToSet(c.blocks), J)
               No(j) == \A c \in K[j] : Item(c) = I => \A e \in InnerFacts(proxies, ToSet(c.blocks), J) : e[1] # h[1]
    <3>1. SaidLastIn(proxies, n, K, I, J, h) <=> \E i \in 1 .. n : Said(i) /\ \A j \in 1 .. n : j > i => No(j)
      BY Zenon DEF SaidLastIn
    <3>2. /\ \A i \in 1 .. n : Said(i) <=> SaidInside(proxies, files[i], I, J, h)
          /\ \A j \in 1 .. n : No(j) <=> \A e : SaidInside(proxies, files[j], I, J, e) => e[1] # h[1]
      BY <2>1, <2>3
    <3> HIDE DEF Said, No
    <3> QED
      BY <3>1, <3>2
  <2> QED
    BY <2>2
<1>5. ASSUME NEW I, NEW h PROVE SaidAt(proxies, C, I, h) => Fact(<<I>>, h) \in Latest(said)
  <2> SUFFICES ASSUME SaidAt(proxies, C, I, h) PROVE Fact(<<I>>, h) \in Latest(said)
    OBVIOUS
  <2>1. PICK i \in 1 .. n : /\ SaidAt(proxies, files[i], I, h)
                            /\ \A j \in 1 .. n : j > i => \A e : SaidAt(proxies, files[j], I, e) => e[1] # h[1]
    BY <1>3
  <2>2. Fact(<<I>>, h) \in said[i]
    BY <1>1, <2>1, PlacesOfFacts
  <2>3. ASSUME NEW j \in 1 .. n, j > i, NEW g \in said[j] PROVE g[1] # Fact(<<I>>, h)[1]
    <3> SUFFICES ASSUME g[1] = Fact(<<I>>, h)[1] PROVE FALSE
      OBVIOUS
    <3>1. PICK e : e[1] = h[1] /\ SaidAt(proxies, files[j], I, e)
      BY <1>1, PlacesOfFacts
    <3> QED
      BY <2>1, <2>3, <3>1
  <2> QED
    BY <1>2, <2>2, <2>3
<1>6. ASSUME NEW I, NEW J, NEW h PROVE SaidInside(proxies, C, I, J, h) => Fact(<<I, J>>, h) \in Latest(said)
  <2> SUFFICES ASSUME SaidInside(proxies, C, I, J, h) PROVE Fact(<<I, J>>, h) \in Latest(said)
    OBVIOUS
  <2>1. PICK i \in 1 .. n : /\ SaidInside(proxies, files[i], I, J, h)
                            /\ \A j \in 1 .. n : j > i => \A e : SaidInside(proxies, files[j], I, J, e) => e[1] # h[1]
    BY <1>4
  <2>2. Fact(<<I, J>>, h) \in said[i]
    BY <1>1, <2>1, PlacesOfFacts
  <2>3. ASSUME NEW j \in 1 .. n, j > i, NEW g \in said[j] PROVE g[1] # Fact(<<I, J>>, h)[1]
    <3> SUFFICES ASSUME g[1] = Fact(<<I, J>>, h)[1] PROVE FALSE
      OBVIOUS
    <3>1. PICK e : e[1] = h[1] /\ SaidInside(proxies, files[j], I, J, e)
      BY <1>1, PlacesOfFacts
    <3> QED
      BY <2>1, <2>3, <3>1
  <2> QED
    BY <1>2, <2>2, <2>3
<1>7. ASSUME NEW f \in Latest(said) PROVE f \in SaidBy(proxies, C)
  <2>1. PICK i \in 1 .. n : f \in said[i] /\ \A j \in 1 .. n : j > i => \A g \in said[j] : g[1] # f[1]
    BY <1>2
  <2>2. \/ \E I, h : f = Fact(<<I>>, h) /\ SaidAt(proxies, files[i], I, h)
        \/ \E I, J, h : f = Fact(<<I, J>>, h) /\ SaidInside(proxies, files[i], I, J, h)
    BY <1>1, <2>1, SaidByIs DEF HasContexts
  <2>3. CASE \E I, h : f = Fact(<<I>>, h) /\ SaidAt(proxies, files[i], I, h)
    <3>1. PICK I, h : f = Fact(<<I>>, h) /\ SaidAt(proxies, files[i], I, h)
      BY <2>3
    <3>2. ASSUME NEW j \in 1 .. n, j > i, NEW e, SaidAt(proxies, files[j], I, e) PROVE e[1] # h[1]
      <4>1. Fact(<<I>>, e) \in said[j]
        BY <1>1, <3>2, PlacesOfFacts
      <4>2. Fact(<<I>>, e)[1] # Fact(<<I>>, h)[1]
        BY <2>1, <3>1, <3>2, <4>1
      <4> QED
        BY <4>2, FactsDiffer
    <3>3. SaidAt(proxies, C, I, h)
      BY <1>3, <3>1, <3>2
    <3> QED
      BY <3>1, <3>3, PlacesOfFacts
  <2>4. CASE \E I, J, h : f = Fact(<<I, J>>, h) /\ SaidInside(proxies, files[i], I, J, h)
    <3>1. PICK I, J, h : f = Fact(<<I, J>>, h) /\ SaidInside(proxies, files[i], I, J, h)
      BY <2>4
    <3>2. ASSUME NEW j \in 1 .. n, j > i, NEW e, SaidInside(proxies, files[j], I, J, e) PROVE e[1] # h[1]
      <4>1. Fact(<<I, J>>, e) \in said[j]
        BY <1>1, <3>2, PlacesOfFacts
      <4>2. Fact(<<I, J>>, e)[1] # Fact(<<I, J>>, h)[1]
        BY <2>1, <3>1, <3>2, <4>1
      <4> QED
        BY <4>2, FactsDiffer
    <3>3. SaidInside(proxies, C, I, J, h)
      BY <1>4, <3>1, <3>2
    <3> QED
      BY <3>1, <3>3, PlacesOfFacts
  <2> QED
    BY <2>2, <2>3, <2>4
<1>8. ASSUME NEW f \in SaidBy(proxies, C) PROVE f \in Latest(said)
  <2>1. \/ \E I, h : f = Fact(<<I>>, h) /\ SaidAt(proxies, C, I, h)
        \/ \E I, J, h : f = Fact(<<I, J>>, h) /\ SaidInside(proxies, C, I, J, h)
    BY SaidByIs DEF HasContexts
  <2> QED
    BY <1>5, <1>6, <2>1
<1> QED
  BY <1>7, <1>8

-------------------------------------------------------------------------------
(* The merged configuration                                                *)
LEMMA FileBlocks ==
    ASSUME NEW body, IsFile(body)
    PROVE  /\ IsList(body.blocks) /\ HasContexts(body)
           /\ \A b \in ToSet(body.blocks) : /\ b.type \in {"server", "definitions", "defaults", "settings"}
                                            /\ b.type = "server" => IsServer(b)
                                            /\ b.type = "definitions" => IsDefinitions(b)
                                            /\ b.type \in {"defaults", "settings"} => IsValues(b)
                                            /\ b.type # "server" => \A d \in ToSet(b.blocks) : d.type \notin Containers
<1>1. \A b : /\ IsServer(b) => b.type = "server"
             /\ IsDefinitions(b) => b.type = "definitions" /\ \A d \in ToSet(b.blocks) : HasName(d) \/ d.type = "proxy"
             /\ IsValues(b) => b.type \in {"defaults", "settings"} /\ b.blocks = << >>
  BY DEF IsServer, IsDefinitions, IsValues
<1>2. \A d : HasName(d) \/ d.type = "proxy" => d.type \notin Containers
  BY DEF HasName, Containers
<1>3. ToSet(<< >>) = {}
  BY ListEmpty
<1> SUFFICES ASSUME NEW b \in ToSet(body.blocks)
             PROVE  /\ b.type \in {"server", "definitions", "defaults", "settings"}
                    /\ b.type = "server" => IsServer(b)
                    /\ b.type = "definitions" => IsDefinitions(b)
                    /\ b.type \in {"defaults", "settings"} => IsValues(b)
                    /\ b.type # "server" => \A d \in ToSet(b.blocks) : d.type \notin Containers
  <2>1. \A x : x \in {"server", "definitions", "defaults", "settings"} => x \in Containers
    BY DEF Containers
  <2> QED
    BY <2>1 DEF IsFile, HasContexts
<1>4. IsServer(b) \/ IsDefinitions(b) \/ IsValues(b)
  BY DEF IsFile
<1>5. CASE IsServer(b)
  BY <1>1, <1>5
<1>6. CASE IsDefinitions(b)
  BY <1>1, <1>2, <1>6
<1>7. CASE IsValues(b)
  BY <1>1, <1>3, <1>7
<1> QED
  BY <1>4, <1>5, <1>6, <1>7

LEMMA ServersOnce ==
    ASSUME NEW files, IsList(files), \A i \in 1 .. Len(files) : IsFile(files[i]), Len(files) > 1, ~LabelTwice(files)
    PROVE  OneOfEach(Len(files), InFiles(files, "server"))
<1>1. Len(files) \in Nat /\ DOMAIN files = 1 .. Len(files)
  BY ListElements
<1> SUFFICES ASSUME NEW f \in 1 .. Len(files), NEW b \in InFiles(files, "server")[f], NEW c \in InFiles(files, "server")[f],
                    Item(b) = Item(c), b # c
             PROVE  FALSE
  BY DEF OneOfEach
<1> DEFINE own == BlocksOfType(files[f], "server")
<1>2. b \in ToSet(files[f].blocks) /\ c \in ToSet(files[f].blocks) /\ b.type = "server" /\ c.type = "server"
  BY DEF InFiles
<1>3. IsList(files[f].blocks)
  BY FileBlocks
<1>4. IsList(own) /\ b \in ToSet(own) /\ c \in ToSet(own)
  BY <1>2, <1>3, BlocksOfTypeAre
<1> HIDE DEF own
<1>5. DOMAIN own = 1 .. Len(own)
  BY <1>4, ListElements
<1>6. PICK i \in DOMAIN own : own[i] = b
  BY <1>4, <1>5, ElementPlace
<1>7. PICK j \in DOMAIN own : own[j] = c
  BY <1>4, <1>5, ElementPlace
<1>8. Label(b) = Label(c)
  <2>1. Item(b) = <<"server", Label(b)>> /\ Item(c) = <<"server", Label(c)>>
    BY <1>2 DEF Item, Name
  <2> QED
    BY <2>1, Pairs, ZenonT(40)
<1>9. \E k, l \in DOMAIN own : k # l /\ Label(own[k]) = Label(own[l])
  BY <1>6, <1>7, <1>8
<1>10. LabelTwice(files)
  BY <1>1, <1>9, Zenon DEF LabelTwice, own
<1> QED
  BY <1>10

LEMMA SameContexts ==
    ASSUME NEW proxies, NEW n, NEW P, NEW s, ContextsSay(proxies, n, P, s), NEW t, IsList(t), ToSet(t) = ToSet(s)
    PROVE  ContextsSay(proxies, n, P, t)
BY DEF ContextsSay

LEMMA ListThree ==
    ASSUME NEW a, NEW b, NEW c
    PROVE  /\ IsList(<<a, b, c>>) /\ ToSet(<<a, b, c>>) = {a, b, c}
           /\ ToSet((<<a>> \o <<b>>) \o <<c>>) = {a, b, c}
<1>1. <<a, b, c>> \in Seq({a, b, c})
  OBVIOUS
<1>2. ToSet(<<a, b, c>>) = {a, b, c}
  BY DEF ToSet
<1>3. ToSet((<<a>> \o <<b>>) \o <<c>>) = ({a} \cup {b}) \cup {c}
  BY ListOne, ListConcat
<1> QED
  BY <1>1, <1>2, <1>3, SeqValues

LEMMA MergedSay ==
    ASSUME NEW files, IsList(files), \A i \in 1 .. Len(files) : IsFile(files[i]), ~LabelTwice(files),
           NEW proxies, proxies = Proxies(files),
           \A i \in 1 .. Len(files) : Unambiguous(SaidBy(proxies, files[i]))
    PROVE  SaidBy(proxies, Merged(files)) = Latest([i \in 1 .. Len(files) |-> SaidBy(proxies, files[i])])
<1> DEFINE n == Len(files)
           single == Len(files) = 1
           K == [i \in 1 .. n |-> Contexts(files[i])]
           S == InFiles(files, "server")
           D == InFiles(files, "definitions")
           F == InFiles(files, "defaults")
           T == InFiles(files, "settings")
           DF == [i \in 1 .. n |-> D[i] \cup F[i]]
           DFT == [i \in 1 .. n |-> DF[i] \cup T[i]]
           servers == MergedServers(proxies, single, AllOfType(files, "server"))
           definitions == Block("definitions", << >>, NoAttrs,
                                LastOfEach(Others(SubBlocks(AllOfType(files, "definitions")), {"proxy"}), "type and label"))
           defaults == Block("defaults", << >>, DefaultsOf(AllOfType(files, "defaults")), << >>)
           settings == Block("settings", << >>, MergedAttrs(AllOfType(files, "settings")), << >>)
           C == Merged(files)
           said == [i \in 1 .. n |-> SaidBy(proxies, files[i])]
<1>1. n \in Nat /\ DOMAIN files = 1 .. n
  BY ListElements
<1>2. \A i \in 1 .. n : IsList(files[i].blocks) /\ HasContexts(files[i]) /\ K[i] = Contexts(files[i]) /\ K[i] = ToSet(files[i].blocks)
  BY FileBlocks DEF HasContexts, Contexts
<1>3. \A i \in 1 .. n : /\ S[i] = {b \in ToSet(files[i].blocks) : b.type = "server"}
                        /\ D[i] = {b \in ToSet(files[i].blocks) : b.type = "definitions"}
                        /\ F[i] = {b \in ToSet(files[i].blocks) : b.type = "defaults"}
                        /\ T[i] = {b \in ToSet(files[i].blocks) : b.type = "settings"}
                        /\ DF[i] = D[i] \cup F[i] /\ DFT[i] = DF[i] \cup T[i]
  BY DEF InFiles
<1>4. /\ Layered(n, AllOfType(files, "server"), S) /\ Layered(n, AllOfType(files, "definitions"), D)
      /\ Layered(n, AllOfType(files, "defaults"), F) /\ Layered(n, AllOfType(files, "settings"), T)
  BY <1>2, AllOfTypeLayered
<1>5. C.attrs = NoAttrs /\ C.blocks = servers \o <<definitions, defaults, settings>>
  <2>1. mergeServers(files, proxies) = servers
    BY Zenon DEF mergeServers, MergedServers
  <2>2. mergeDefinitions(files) = definitions
    BY Zenon DEF mergeDefinitions, Definitions
  <2>3. mergeDefaults(files) = defaults
    BY Zenon DEF mergeDefaults, DefaultsOf
  <2>4. mergeSettings(files) = settings
    BY Zenon DEF mergeSettings
  <2> DEFINE all == mergeServers(files, proxies) \o <<mergeDefinitions(files), mergeDefaults(files), mergeSettings(files)>>
  <2>5. Merged(files) = [attrs |-> NoAttrs, blocks |-> all]
    BY Zenon DEF Merged, Body
  <2>6. all = servers \o <<definitions, defaults, settings>>
    BY <2>1, <2>2, <2>3, <2>4, Zenon
  <2>7. C = Merged(files)
    OBVIOUS
  <2> HIDE DEF all, C, servers, definitions, defaults, settings
  <2> QED
    BY <2>5, <2>6, <2>7
<1>6. said = [i \in 1 .. n |-> SaidBy(proxies, files[i])]
  OBVIOUS
<1>7. single \in BOOLEAN /\ (single => n = 1) /\ (~single => n = 0 \/ n > 1)
  BY <1>1
<1> HIDE DEF n, single, K, S, D, F, T, DF, DFT, servers, definitions, defaults, settings, C, said
<1>8. \A i \in 1 .. n : \A b \in K[i] : /\ b.type \in {"server", "definitions", "defaults", "settings"}
                                        /\ b.type = "server" => IsServer(b)
                                        /\ b.type = "definitions" => IsDefinitions(b)
                                        /\ b.type \in {"defaults", "settings"} => IsValues(b)
                                        /\ b.type # "server" => \A d \in ToSet(b.blocks) : d.type \notin Containers
  BY <1>2, FileBlocks DEF n
<1>9. \A i \in 1 .. n : /\ \A b \in S[i] : b \in K[i] /\ b.type = "server" /\ IsServer(b)
                        /\ \A b \in D[i] : b \in K[i] /\ b.type = "definitions" /\ IsDefinitions(b)
                        /\ \A b \in F[i] : b \in K[i] /\ b.type = "defaults" /\ IsValues(b)
                        /\ \A b \in T[i] : b \in K[i] /\ b.type = "settings" /\ IsValues(b)
                        /\ K[i] = S[i] \cup DFT[i]
  BY <1>2, <1>3, <1>8
<1>10. \A i \in 1 .. n : \A b, c \in K[i] : Item(b) = Item(c) =>
           /\ AgreeTwo(proxies, b, c)
           /\ \A d \in Contexts(b) : \A e \in Contexts(c) : Item(d) = Item(e) => AgreeTwo(proxies, d, e)
  <2> TAKE i \in 1 .. n
  <2>1. HasContexts(files[i]) /\ Unambiguous(SaidBy(proxies, files[i]))
    BY <1>2 DEF n
  <2> QED
    BY <1>2, <2>1, UnambiguousAgree
<1>11. FilesAgree(proxies, n, S)
  BY <1>9, <1>10 DEF FilesAgree
<1>12. Agree(proxies, n, D) /\ Agree(proxies, n, F) /\ Agree(proxies, n, T)
  <2>1. \A b : IsDefinitions(b) \/ IsValues(b) => Item(b) = <<b.type, << >>>>
    BY DEF IsDefinitions, IsValues, HasNoLabel, Item, Name, Label
  <2> QED
    BY <1>9, <1>10, <2>1 DEF Agree
<1>13. ~single => OneOfEach(n, S)
  <2>1. CASE n > 1
    BY <2>1, ServersOnce DEF n, S
  <2>2. CASE n = 0
    BY <2>2 DEF OneOfEach
  <2> QED
    BY <1>7, <2>1, <2>2
<1>14. /\ ContextsSay(proxies, n, S, servers)
       /\ \A m \in ToSet(servers) : m.type = "server"
       /\ \A I, J, f : (\E m \in ToSet(servers) : Item(m) = I /\ f \in InnerFacts(proxies, ToSet(m.blocks), J))
                       <=> SaidLastIn(proxies, n, S, I, J, f)
  <2>1. OneServerEach(single, n, S)
    BY <1>7, <1>13 DEF OneServerEach
  <2>2. \A i \in 1 .. n : \A b \in S[i] : IsServer(b)
    BY <1>9
  <2> DEFINE L == AllOfType(files, "server")
  <2>3. Layered(n, L, S)
    BY <1>4
  <2> HIDE DEF L
  <2>4. ServersSaid(proxies, n, S, MergedServers(proxies, single, L))
    BY <1>1, <1>11, <2>1, <2>2, <2>3, ServersSay
  <2> QED
    BY <2>4, Zenon DEF servers, L, ServersSaid
<1>15. ContextsSay(proxies, n, D, <<definitions>>) /\ \A d \in ToSet(definitions.blocks) : d.type \notin Containers
  BY <1>1, <1>4, <1>9, <1>12, ContextDefinitions DEF definitions
<1>16. ContextsSay(proxies, n, F, <<defaults>>) /\ defaults.blocks = << >>
  BY <1>1, <1>4, <1>9, <1>12, ContextDefaults, BlockIs DEF defaults
<1>17. ContextsSay(proxies, n, T, <<settings>>) /\ settings.blocks = << >>
  BY <1>1, <1>4, <1>9, <1>12, ContextSettings, BlockIs DEF settings
<1> DEFINE three == <<definitions, defaults, settings>>
           chain == (<<definitions>> \o <<defaults>>) \o <<settings>>
<1>17a. IsList(three) /\ ToSet(three) = {definitions, defaults, settings} /\ ToSet(chain) = {definitions, defaults, settings}
  BY ListThree, Zenon
<1>17b. C.blocks = servers \o three
  BY <1>5
<1>18. ContextsSay(proxies, n, K, servers \o three)
  <2>1. ContextsSay(proxies, n, DF, <<definitions>> \o <<defaults>>)
    <3>1. \A i, j \in 1 .. n : \A a \in D[i] : \A b \in F[j] : a.type # b.type
      BY <1>9
    <3> QED
      BY <1>3, <1>15, <1>16, <3>1, ContextsOfKinds
  <2>2. ContextsSay(proxies, n, DFT, (<<definitions>> \o <<defaults>>) \o <<settings>>)
    <3>1. \A i, j \in 1 .. n : \A a \in DF[i] : \A b \in T[j] : a.type # b.type
      BY <1>3, <1>9
    <3> QED
      BY <1>3, <1>17, <2>1, <3>1, ContextsOfKinds
  <2>4. \A i, j \in 1 .. n : \A a \in S[i] : \A b \in DFT[j] : a.type # b.type
    BY <1>3, <1>9
  <2>5. ContextsSay(proxies, n, DFT, chain)
    BY <2>2
  <2> HIDE DEF three, chain
  <2>6. ContextsSay(proxies, n, DFT, three)
    BY <1>17a, <2>5, SameContexts
  <2> QED
    BY <1>9, <1>14, <2>4, <2>6, ContextsOfKinds
<1> HIDE DEF three, chain
<1>19. /\ \A m \in ToSet(C.blocks) : m.type \in Containers
       /\ \A I, f : (\E m \in ToSet(C.blocks) : Item(m) = I /\ f \in Own(proxies, m)) <=> SaidLast(proxies, n, K, I, f)
  BY <1>17b, <1>18 DEF ContextsSay
<1>20. HasContexts(C)
  <2>1. DOMAIN C.attrs = {}
    BY <1>5 DEF NoAttrs
  <2> QED
    BY <1>19, <2>1 DEF HasContexts
<1>21. \A c : c \in Contexts(C) <=> c \in ToSet(C.blocks)
  BY <1>19 DEF Contexts
<1>22. \A I, h : SaidAt(proxies, C, I, h) <=> SaidLast(proxies, n, K, I, h)
  BY <1>19, <1>21 DEF SaidAt
<1>23. \A b : (\A d \in ToSet(b.blocks) : d.type \notin Containers) => \A J : InnerFacts(proxies, ToSet(b.blocks), J) = {}
  BY DEF InnerFacts, ContextsIn
<1>24. \A m : m \in ToSet(C.blocks) <=> m \in ToSet(servers) \/ m \in {definitions, defaults, settings}
  <2>1. IsList(servers)
    BY <1>14 DEF ContextsSay
  <2>2. ToSet(C.blocks) = ToSet(servers) \cup {definitions, defaults, settings}
    BY <1>17a, <1>17b, <2>1, ListConcat
  <2> QED
    BY <2>2
<1>25. \A m \in {definitions, defaults, settings} : \A J : InnerFacts(proxies, ToSet(m.blocks), J) = {}
  BY <1>15, <1>16, <1>17, <1>23, ListEmpty
<1>26. \A I, J, h : SaidInside(proxies, C, I, J, h) <=> SaidLastIn(proxies, n, S, I, J, h)
  <2> TAKE I, J, h
  <2>1. SaidInside(proxies, C, I, J, h) <=> \E m \in ToSet(servers) : Item(m) = I /\ h \in InnerFacts(proxies, ToSet(m.blocks), J)
    BY <1>21, <1>24, <1>25 DEF SaidInside
  <2> QED
    BY <1>14, <2>1
<1>27. \A I, J, h : SaidLastIn(proxies, n, K, I, J, h) <=> SaidLastIn(proxies, n, S, I, J, h)
  <2> TAKE I, J, h
  <2>1. \A i \in 1 .. n : \A b \in K[i] : \A e : e \in InnerFacts(proxies, ToSet(b.blocks), J) => b \in S[i]
    BY <1>2, <1>3, <1>8, <1>23
  <2>2. \A i \in 1 .. n : \A b \in S[i] : b \in K[i]
    BY <1>9
  <2> QED
    BY <2>1, <2>2 DEF SaidLastIn
<1>28. \A I, J, h : SaidInside(proxies, C, I, J, h) <=> SaidLastIn(proxies, n, K, I, J, h)
  BY <1>26, <1>27
<1>29. (\A i \in 1 .. n : HasContexts(files[i])) /\ \A i \in 1 .. n : K[i] = Contexts(files[i])
  BY <1>2
<1> QED
  BY <1>1, <1>6, <1>20, <1>22, <1>28, <1>29, LatestIs, SMTT(30) DEF n, said, C

-------------------------------------------------------------------------------
(* The backends of the definitions                                         *)

(* A backend whose blocks are lists, as are those of its authorizers and   *)
(* the labels there.                                                       *)
IsBackend(b) == /\ IsList(b.blocks)
                /\ \A a \in ToSet(b.blocks) : /\ IsList(a.blocks)
                                              /\ \A c \in ToSet(a.blocks) : IsList(c.labels)

LEMMA AuthorizerNames ==
    ASSUME NEW a, IsList(a.blocks), \A c \in ToSet(a.blocks) : IsList(c.labels)
    PROVE  IsList((IF Has(a, "backend") THEN <<a.attrs["backend"]>> ELSE << >>)
                  \o FlattenSeq([i \in DOMAIN BlocksOfType(a, "backend") |-> BlocksOfType(a, "backend")[i].labels]))
<1> DEFINE blocks == BlocksOfType(a, "backend")
           ss == [i \in DOMAIN blocks |-> blocks[i].labels]
           own == IF Has(a, "backend") THEN <<a.attrs["backend"]>> ELSE << >>
<1>1. IsList(blocks) /\ \A b : b \in ToSet(blocks) <=> b \in ToSet(a.blocks) /\ b.type = "backend"
  BY BlocksOfTypeAre
<1> HIDE DEF blocks
<1>2. DOMAIN blocks = 1 .. Len(blocks) /\ Len(blocks) \in Nat /\ \A i \in 1 .. Len(blocks) : blocks[i] \in ToSet(blocks)
  BY <1>1, ListElements
<1>3. Len(ss) \in Nat /\ (Len(ss) = 0 => ss = << >>) /\ \A i \in 1 .. Len(ss) : ss[i] = blocks[i].labels /\ i \in 1 .. Len(blocks)
  BY <1>2
<1>4. \A i \in 1 .. Len(ss) : IsList(ss[i])
  BY <1>1, <1>2, <1>3
<1> HIDE DEF ss
<1>5. IsList(FlattenSeq(ss))
  BY <1>3, <1>4, FlattenedList
<1>6. IsList(own)
  BY ListEmpty, ListOne
<1> HIDE DEF own
<1>7. IsList(own \o FlattenSeq(ss))
  BY <1>5, <1>6, ListConcat
<1> QED
  BY <1>7 DEF own, ss, blocks

LEMMA ReferencesListed ==
    ASSUME NEW b, IsBackend(b)
    PROVE  IsList(References(b))
<1> DEFINE names(a) == (IF Has(a, "backend") THEN <<a.attrs["backend"]>> ELSE << >>)
                       \o FlattenSeq([i \in DOMAIN BlocksOfType(a, "backend") |-> BlocksOfType(a, "backend")[i].labels])
           as == Authorizers(b)
           ss == [i \in DOMAIN as |-> names(as[i])]
<1>1. IsList(as) /\ ToSet(as) \subseteq ToSet(b.blocks)
  <2> DEFINE s == BlocksOfType(b, "oauth2")
             t == BlocksOfType(b, "beta_token_request")
  <2>1. IsList(s) /\ ToSet(s) \subseteq ToSet(b.blocks) /\ IsList(t) /\ ToSet(t) \subseteq ToSet(b.blocks)
    BY BlocksOfTypeAre DEF IsBackend
  <2>2. as = s \o t
    BY DEF Authorizers
  <2> HIDE DEF s, t, as
  <2> QED
    BY <2>1, <2>2, ListConcat
<1>2. \A a \in ToSet(as) : IsList(names(a))
  BY <1>1, AuthorizerNames DEF IsBackend
<1>3. References(b) = FlattenSeq(ss)
  BY Zenon DEF References
<1> HIDE DEF as, names
<1>4. DOMAIN as = 1 .. Len(as) /\ Len(as) \in Nat /\ \A i \in 1 .. Len(as) : as[i] \in ToSet(as)
  BY <1>1, ListElements
<1>0. ss = [i \in 1 .. Len(as) |-> ss[i]] /\ \A i \in DOMAIN as : ss[i] = names(as[i])
  BY <1>4, Zenon
<1>5. Len(ss) \in Nat /\ (Len(ss) = 0 => ss = << >>) /\ \A i \in 1 .. Len(ss) : ss[i] = names(as[i]) /\ i \in 1 .. Len(as)
  <2> HIDE DEF ss
  <2>1. Len(ss) = Len(as) /\ IsList(ss)
    BY <1>0, <1>4, ListOf
  <2>2. \A i \in 1 .. Len(as) : ss[i] = names(as[i])
    BY <1>0, <1>4
  <2>3. Len(ss) = 0 => ss = << >>
    BY <2>1 DEF IsList
  <2>4. Len(ss) \in Nat /\ (Len(ss) = 0 => ss = << >>) /\ 1 .. Len(ss) = 1 .. Len(as)
    BY <1>4, <2>1, <2>3
  <2> QED
    BY <2>2, <2>4, Zenon
<1>6. \A i \in 1 .. Len(ss) : IsList(ss[i])
  BY <1>2, <1>4, <1>5
<1> HIDE DEF ss
<1> QED
  BY <1>3, <1>5, <1>6, FlattenedList

(* resolveBackendDeps and configureDefinedBackends: of any finite number   *)
(* of backends that refer to any others, however the Go maps are ordered,  *)
(* each is prepared after the ones it refers to, unless some refer to each *)
(* other in a circle.                                                      *)
THEOREM ReferencedBackendsFirst ==
    ASSUME NEW backends, IsFiniteSet(DOMAIN backends),
           \A n \in DOMAIN backends : IsBackend(backends[n])
    PROVE  PrepareSpec(backends) => []ReferencedFirst
<1>1. NothingPrepared => ReferencedFirst
  BY DEF NothingPrepared, ReferencedFirst
<1>2. ASSUME ReferencedFirst, [Prepare(backends)]_prepared PROVE ReferencedFirst'
  <2>1. CASE UNCHANGED prepared
    BY <1>2, <2>1 DEF ReferencedFirst
  <2>2. CASE Prepare(backends)
    <3> DEFINE refs  == AllReferences(backends)
    <3>1. DOMAIN refs = DOMAIN backends /\ WellFormed(refs)
      <4>1. \A n \in DOMAIN backends : IsList(References(backends[n]))
        BY ReferencesListed
      <4> QED
        BY <4>1 DEF AllReferences, WellFormed
    <3>2. PICK order \in Orders(DOMAIN backends), standalone \in Orders(DOMAIN backends) :
              prepared' = [refs     |-> refs,
                           circular |-> Linked(refs, order).circular,
                           order    |-> IF Linked(refs, order).circular THEN << >>
                                        ELSE PrepareOrder(refs, Linked(refs, order).deps, order, standalone)]
      BY <2>2, Zenon DEF Prepare
    <3> HIDE DEF refs
    <3>3. prepared'.refs = refs
      BY <3>2
    <3>4. CASE Linked(refs, order).circular
      <4>1. prepared'.order = << >>
        BY <3>2, <3>4
      <4> QED
        BY <4>1 DEF ReferencedFirst
    <3>5. CASE ~Linked(refs, order).circular
      <4>1. prepared'.order = PrepareOrder(refs, Linked(refs, order).deps, order, standalone)
        BY <3>2, <3>5
      <4>2. IsList(order) /\ ToSet(order) = DOMAIN refs
        BY <3>1, OrderIsList
      <4>3. DepsMatch(refs, Linked(refs, order).deps)
        BY <3>1, <3>5, <4>2, LinkedItems DEF DepsMatch
      <4>4. ~Circle(refs) => InOrder(refs, prepared'.order)
        BY <3>1, <4>1, <4>3, PreparedInOrder
      <4> QED
        BY <3>3, <4>4 DEF ReferencedFirst, InOrder
    <3> QED
      BY <3>4, <3>5
  <2> QED
    BY <1>2, <2>1, <2>2
<1> QED
  BY <1>1, <1>2, PTL DEF PrepareSpec

-------------------------------------------------------------------------------
(* The last definition counts                                              *)

(* What the files and the merged configuration can be. *)
MergedInv(files) ==
    /\ bodies \in {<< >>, files}
    /\ conf = Nothing \/ (bodies = files /\ ~LabelTwice(files) /\ conf = Merged(files))

LEMMA MergedLast ==
    ASSUME NEW files, IsList(files), \A i \in 1 .. Len(files) : IsFile(files[i]), MergedInv(files)
    PROVE  LastDefinitionCounts
<1>1. CASE conf = Nothing
  BY <1>1, Zenon DEF LastDefinitionCounts
<1>2. CASE conf # Nothing
  <2>1. bodies = files /\ ~LabelTwice(files) /\ conf = Merged(files)
    BY <1>2 DEF MergedInv
  <2> DEFINE proxies == Proxies(files)
             said == [i \in 1 .. Len(files) |-> SaidBy(proxies, files[i])]
  <2>2. DOMAIN files = 1 .. Len(files)
    BY ListElements
  <2>3. ASSUME \A i \in 1 .. Len(files) : Unambiguous(said[i]) PROVE SaidBy(proxies, Merged(files)) = Latest(said)
    <3>1. \A i \in 1 .. Len(files) : Unambiguous(SaidBy(proxies, files[i]))
      BY <2>3
    <3> QED
      BY <2>1, <3>1, MergedSay
  <2>4. LastDefinitionCounts <=>
            (conf # Nothing /\ (\A i \in DOMAIN files : Unambiguous([k \in DOMAIN files |-> SaidBy(proxies, files[k])][i]))
                 => SaidBy(proxies, conf) = Latest([i \in DOMAIN files |-> SaidBy(proxies, files[i])]))
    BY <2>1, Zenon DEF LastDefinitionCounts
  <2> HIDE DEF proxies
  <2>5. said = [i \in DOMAIN files |-> SaidBy(proxies, files[i])]
    BY <2>2
  <2> HIDE DEF said
  <2>6. LastDefinitionCounts <=>
            (conf # Nothing /\ (\A i \in 1 .. Len(files) : Unambiguous(said[i])) => SaidBy(proxies, Merged(files)) = Latest(said))
    BY <2>1, <2>2, <2>4, <2>5
  <2> QED
    BY <2>3, <2>6
<1> QED
  BY <1>1, <1>2

(* mergeServers, mergeDefinitions, mergeDefaults and mergeSettings: however *)
(* many files there are and whatever blocks and attributes they have, of    *)
(* everything that several files say, in whatever block, the merged         *)
(* configuration says what the last of them said that said something, and   *)
(* nothing else.                                                            *)
THEOREM LastDefinitions ==
    ASSUME NEW files, IsList(files), \A i \in 1 .. Len(files) : IsFile(files[i])
    PROVE  MergeSpec(files) => []LastDefinitionCounts
<1>1. NothingMerged => MergedInv(files)
  BY DEF NothingMerged, MergedInv
<1>2. MergedInv(files) /\ [ParsedFiles(files) \/ MergeBodies]_<<bodies, conf>> => MergedInv(files)'
  <2> SUFFICES ASSUME MergedInv(files), [ParsedFiles(files) \/ MergeBodies]_<<bodies, conf>> PROVE MergedInv(files)'
    OBVIOUS
  <2>1. CASE ParsedFiles(files)
    BY <2>1 DEF MergedInv, ParsedFiles
  <2>2. CASE MergeBodies
    BY <2>2 DEF MergedInv, MergeBodies
  <2>3. CASE UNCHANGED <<bodies, conf>>
    BY <2>3 DEF MergedInv
  <2> QED
    BY <2>1, <2>2, <2>3
<1>3. MergedInv(files) => LastDefinitionCounts
  BY MergedLast
<1> QED
  BY <1>1, <1>2, <1>3, PTL DEF MergeSpec
===============================================================================
