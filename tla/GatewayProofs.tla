---------------------------- MODULE GatewayProofs -----------------------------
(***************************************************************************)
(* A request on its way through the handler chain: nobody gets past a      *)
(* refused access control or a missing permission, a private answer stays  *)
(* private, the CORS fields are those of the route, and a timeout is       *)
(* reported as one, for every set of scenarios that meets                  *)
(* ScenarioAssumption; and which route of any server a request reaches     *)
(* (Mux).  The first sections say what the operators of the chain return,  *)
(* preserve and bound, for every header, writer, request and block; each   *)
(* theorem after them rests on the invariants of a section before it.      *)
(***************************************************************************)
EXTENDS Gateway, Mux, FiniteSetTheorems, SequenceTheorems, WellFoundedInduction, TLAPS

-------------------------------------------------------------------------------
(* Lists and induction: what the proofs below need of them.                *)
(* ConfigurationProofs proves the same of them for itself: neither module  *)
(* rests on the other.                                                     *)

LEMMA SeqValues ==
    ASSUME NEW S, NEW s \in Seq(S)
    PROVE  ToSet(s) \subseteq S /\ IsList(s)
<1>1. DOMAIN s = 1 .. Len(s) /\ Len(s) \in Nat /\ \A i \in DOMAIN s : s[i] \in S
  OBVIOUS
<1>2. \A i \in DOMAIN s : s[i] \in ToSet(s)
  BY Zenon DEF ToSet
<1>3. s = [i \in 1 .. Len(s) |-> s[i]]
  BY <1>1
<1>4. s \in [1 .. Len(s) -> ToSet(s)]
  BY <1>1, <1>2, <1>3
<1>5. s \in Seq(ToSet(s))
  BY <1>1, <1>4
<1> QED
  BY <1>1, <1>5 DEF ToSet, IsList

LEMMA ListEmpty == IsList(<< >>) /\ ToSet(<< >>) = {}
  BY DEF IsList, ToSet

LEMMA ListOne == ASSUME NEW v PROVE IsList(<<v>>) /\ ToSet(<<v>>) = {v}
<1>1. <<v>> \in Seq({v}) /\ 1 \in DOMAIN <<v>> /\ <<v>>[1] = v
  OBVIOUS
<1>2. v \in ToSet(<<v>>)
  BY <1>1, Zenon DEF ToSet
<1> QED
  BY <1>1, <1>2, SeqValues

LEMMA AppendedTo ==
    ASSUME NEW S, NEW s \in Seq(S), NEW v \in S
    PROVE  Append(s, v) \in Seq(S) /\ v \in ToSet(Append(s, v)) /\ ToSet(s) \subseteq ToSet(Append(s, v))
<1> DEFINE t == Append(s, v)
<1>1. /\ t \in Seq(S) /\ Len(t) = Len(s) + 1 /\ t[Len(s) + 1] = v
      /\ \A i \in 1 .. Len(s) : t[i] = s[i]
  BY AppendProperties
<1> HIDE DEF t
<1>2. Len(s) \in Nat /\ DOMAIN s = 1 .. Len(s) /\ DOMAIN t = 1 .. Len(s) + 1
  BY <1>1
<1>3. Len(s) + 1 \in DOMAIN t /\ \A i \in DOMAIN s : i \in DOMAIN t /\ t[i] = s[i]
  BY <1>1, <1>2
<1>4. v \in ToSet(t) /\ ToSet(s) \subseteq ToSet(t)
  BY <1>1, <1>3, Zenon DEF ToSet
<1> QED
  BY <1>1, <1>4 DEF t

LEMMA ListAppend ==
    ASSUME NEW s, IsList(s), NEW v
    PROVE  IsList(Append(s, v)) /\ v \in ToSet(Append(s, v)) /\ ToSet(s) \subseteq ToSet(Append(s, v))
<1> DEFINE S == ToSet(s) \cup {v}
<1>1. s \in Seq(S)
  BY DEF IsList
<1>2. v \in S
  OBVIOUS
<1> HIDE DEF S
<1> QED
  BY <1>1, <1>2, AppendedTo, SeqValues

LEMMA ListConcat ==
    ASSUME NEW s, NEW t, IsList(s), IsList(t)
    PROVE  IsList(s \o t) /\ ToSet(s \o t) = ToSet(s) \cup ToSet(t)
<1> DEFINE S == ToSet(s) \cup ToSet(t)
<1>1. s \in Seq(S) /\ t \in Seq(S)
  BY DEF IsList
<1> HIDE DEF S
<1>2. s \o t \in Seq(S)
  BY <1>1
<1>3. IsList(s \o t) /\ ToSet(s \o t) \subseteq S
  BY <1>2, SeqValues
<1>4. ToSet(s) \subseteq ToSet(s \o t)
  <2>1. \A i \in DOMAIN s : i \in DOMAIN (s \o t) /\ (s \o t)[i] = s[i]
    BY <1>1
  <2> QED
    BY <2>1, Zenon DEF ToSet
<1>5. ToSet(t) \subseteq ToSet(s \o t)
  <2>1. \A i \in DOMAIN t : Len(s) + i \in DOMAIN (s \o t) /\ (s \o t)[Len(s) + i] = t[i]
    BY <1>1
  <2> QED
    BY <2>1, Zenon DEF ToSet
<1> QED
  BY <1>3, <1>4, <1>5 DEF S

LEMMA NotEmpty == ASSUME NEW S, NEW s \in Seq(S), s # << >> PROVE 1 \in DOMAIN s
  OBVIOUS

(* Induction on the natural numbers, for a set: the least number outside   *)
(* has a predecessor inside.                                               *)
LEMMA SetInduction ==
    ASSUME NEW S, 0 \in S, \A n \in Nat : n \in S => n + 1 \in S
    PROVE  Nat \subseteq S
<1> DEFINE R == {ss \in Nat \X Nat : ss[1] < ss[2]}
<1>0. IsWellFoundedOn(R, Nat)
  BY NatLessThanWellFounded DEF OpToRel
<1>1. SUFFICES ASSUME Nat \ S # {} PROVE FALSE
  OBVIOUS
<1>2. PICK x \in Nat \ S : \A y \in Nat \ S : ~(<<y, x>> \in R)
  <2> HIDE DEF R
  <2> QED
    BY <1>0, <1>1, WFMin
<1>3. x - 1 \in Nat /\ x - 1 \in S
  <2>1. \A y \in Nat \ S : ~(y < x)
    BY <1>2
  <2>2. x # 0
    BY <1>2
  <2> QED
    BY <1>2, <2>1, <2>2
<1>4. QED
  BY <1>2, <1>3

LEMMA Least ==
    ASSUME NEW S \in SUBSET Nat, S # {}
    PROVE  Min(S) \in S /\ \A n \in S : Min(S) <= n
<1> DEFINE R == {ss \in Nat \X Nat : ss[1] < ss[2]}
<1>1. IsWellFoundedOn(R, Nat)
  BY NatLessThanWellFounded DEF OpToRel
<1>2. PICK x \in S : \A y \in S : ~(<<y, x>> \in R)
  <2> HIDE DEF R
  <2> QED
    BY <1>1, WFMin
<1>3. \A y \in S : x <= y
  <2>1. \A y \in S : y \in Nat /\ x \in Nat
    OBVIOUS
  <2>2. \A y \in S : ~(y < x)
    BY <1>2, <2>1
  <2> QED
    BY <2>1, <2>2
<1>4. \E m \in S : \A y \in S : m <= y
  BY <1>3
<1> QED
  BY <1>4 DEF Min

LEMMA Greatest ==
    ASSUME NEW n \in Nat, NEW S \in SUBSET (1 .. n), S # {}
    PROVE  Max(S) \in S /\ \A i \in S : i <= Max(S)
<1> DEFINE R == {n - i : i \in S}
           m == Min(R)
<1>1. R \in SUBSET Nat /\ R # {}
  <2>1. \A i \in S : n - i \in Nat
    OBVIOUS
  <2>2. \E i \in S : n - i \in R
    OBVIOUS
  <2> QED
    BY <2>1, <2>2
<1>2. m \in R /\ \A r \in R : m <= r
  <2> HIDE DEF R
  <2> QED
    BY <1>1, Least
<1>3. PICK x \in S : m = n - x
  BY <1>2
<1>4. ASSUME NEW i \in S PROVE i <= x
  <2>1. n - i \in R
    OBVIOUS
  <2>2. n - x <= n - i
    BY <1>2, <1>3, <2>1
  <2> QED
    BY <2>2
<1>5. \E y \in S : \A i \in S : y >= i
  BY <1>4
<1>6. Max(S) \in S /\ \A i \in S : Max(S) >= i
  BY <1>5 DEF Max
<1> QED
  BY <1>6

LEMMA RankOrders ==
    /\ \A a \in Names : Rank(a) \in Nat
    /\ \A a, b \in Names : Rank(a) = Rank(b) => a = b
<1>1. DOMAIN Lexical = 1 .. Len(Lexical) /\ Len(Lexical) \in Nat
  BY LexicalAssumption DEF IsList
<1>2. ASSUME NEW a \in Names PROVE Rank(a) \in DOMAIN Lexical /\ Lexical[Rank(a)] = a
  <2>1. \E i \in DOMAIN Lexical : Lexical[i] = a
    BY Zenon DEF Names, ToSet
  <2> QED
    BY <2>1, Zenon DEF Rank
<1> QED
  BY <1>1, <1>2

-------------------------------------------------------------------------------
(* Header fields and what sets, adds and deletes them                      *)

(* The values of a field are a list.                                       *)
Typed(h, f) == IsList(Values(h, f))

LEMMA ValuesPut ==
    ASSUME NEW h, NEW g, NEW vs, NEW f
    PROVE  Values(Put(h, g, vs), f) = IF f = g THEN vs ELSE Values(h, f)
  BY DEF Values, Put

LEMMA ValuesSet ==
    ASSUME NEW h, NEW g, NEW v, NEW f
    PROVE  Values(Set(h, g, v), f) = IF f = g THEN <<v>> ELSE Values(h, f)
  BY ValuesPut DEF Set

LEMMA ValuesAdd ==
    ASSUME NEW h, NEW g, NEW v, NEW f
    PROVE  Values(Add(h, g, v), f) = IF f = g THEN Append(Values(h, f), v) ELSE Values(h, f)
<1> DEFINE vs == Append(Values(h, g), v)
<1>1. Add(h, g, v) = Put(h, g, vs)
  BY DEF Add
<1>2. f = g => vs = Append(Values(h, f), v)
  OBVIOUS
<1> HIDE DEF vs
<1>3. Values(Put(h, g, vs), f) = IF f = g THEN vs ELSE Values(h, f)
  BY ValuesPut
<1> QED
  BY <1>1, <1>2, <1>3

LEMMA ValuesDel ==
    ASSUME NEW h, NEW fs, NEW f
    PROVE  Values(Del(h, fs), f) = IF f \in fs THEN << >> ELSE Values(h, f)
  BY DEF Values, Del

LEMMA ValuesCopy ==
    ASSUME NEW h, NEW g, NEW f
    PROVE  Values(copyHeader(h, g), f) = Values(h, f) \o Values(g, f)
<1>1. CASE f \in DOMAIN h \cup DOMAIN g
  BY <1>1 DEF copyHeader, Values
<1>2. CASE f \notin DOMAIN h \cup DOMAIN g
  <2>1. Values(h, f) = << >> /\ Values(g, f) = << >> /\ Values(copyHeader(h, g), f) = << >>
    BY <1>2 DEF copyHeader, Values
  <2>2. << >> \o << >> = << >>
    OBVIOUS
  <2> QED
    BY <2>1, <2>2
<1> QED
  BY <1>1, <1>2

LEMMA SetLeaves == \A h, g, v, f : f # g => Values(Set(h, g, v), f) = Values(h, f)
  BY ValuesSet

LEMMA AddLeaves == \A h, g, v, f : f # g => Values(Add(h, g, v), f) = Values(h, f)
  BY ValuesAdd

LEMMA HeaderTyped ==
    ASSUME NEW h, IsHeader(h), NEW f
    PROVE  Typed(h, f)
<1>1. CASE f \in DOMAIN h
  <2>1. Values(h, f) \in Seq(STRING)
    BY <1>1, Zenon DEF IsHeader, Values
  <2> QED
    BY <2>1, SeqValues DEF Typed
<1>2. CASE f \notin DOMAIN h
  BY <1>2, ListEmpty DEF Values, Typed
<1> QED
  BY <1>1, <1>2

(* A first value that is not empty is one of the values.                   *)
LEMMA FirstValue ==
    ASSUME NEW h, IsHeader(h), NEW f, NEW v, v # "", v = Get(h, f)
    PROVE  f \in DOMAIN h /\ v \in ToSet(h[f])
<1>1. f \in DOMAIN h /\ h[f] # << >> /\ v = h[f][1]
  BY DEF Get, Values
<1>2. h[f] \in Seq(STRING)
  BY <1>1 DEF IsHeader
<1>3. 1 \in DOMAIN h[f]
  BY <1>1, <1>2, NotEmpty
<1> QED
  BY <1>1, <1>3 DEF ToSet

LEMMA GivenIsHeader ==
    ASSUME NEW values, IsHeader(values)
    PROVE  IsHeader(Given(values))
  BY DEF IsHeader, Given, Del

LEMMA OpsTyped ==
    ASSUME NEW ops, IsOps(ops), NEW h, NEW f, Typed(h, f)
    PROVE  Typed(applyHeaderOps(ops, h), f)
<1> DEFINE first == Over(Given(ops.set), Del(h, ops.del))
<1>1. Typed(Given(ops.set), f) /\ Typed(Given(ops.add), f)
  BY GivenIsHeader, HeaderTyped DEF IsOps
<1>2. Typed(Del(h, ops.del), f)
  <2>1. Values(Del(h, ops.del), f) \in {<< >>, Values(h, f)}
    BY ValuesDel
  <2> QED
    BY <2>1, ListEmpty DEF Typed
<1>3. Typed(first, f)
  BY <1>1, <1>2 DEF Typed, Over, Values
<1>4. Values(applyHeaderOps(ops, h), f) = Values(first, f) \o Values(Given(ops.add), f)
  BY ValuesCopy DEF applyHeaderOps
<1> QED
  BY <1>1, <1>3, <1>4, ListConcat DEF Typed

LEMMA NoOpsIsOps == IsOps(NoOps) /\ IsContext(NoContext)
<1>1. IsHeader(<< >>)
  BY DEF IsHeader
<1> QED
  BY <1>1 DEF IsOps, NoOps, IsContext, NoContext

(* The modifiers that the proxy, the endpoint, the api and the server hand to the writer. *)
AreOps(ops) == IsList(ops) /\ \A o \in ToSet(ops) : IsOps(o)

LEMMA OpsConcat ==
    ASSUME NEW a, NEW b, AreOps(a), AreOps(b)
    PROVE  AreOps(a \o b)
  BY ListConcat DEF AreOps

LEMMA OpsPair == ASSUME NEW a, NEW b, IsOps(a), IsOps(b) PROVE AreOps(<<a, b>>)
<1>1. <<a, b>> \in Seq({a, b})
  OBVIOUS
<1>2. IsList(<<a, b>>) /\ ToSet(<<a, b>>) \subseteq {a, b}
  BY <1>1, SeqValues
<1> QED
  BY <1>2 DEF AreOps

(* What a modifier names. *)
Touched(ops) == ops.del \cup DOMAIN ops.set \cup DOMAIN ops.add

LEMMA NoOpsTouchNothing == Touched(NoOps) = {}
<1>1. DOMAIN << >> = {}
  OBVIOUS
<1> QED
  BY <1>1 DEF Touched, NoOps

LEMMA OpsLeave ==
    ASSUME NEW ops, NEW h, NEW f, f \notin Touched(ops), Typed(h, f)
    PROVE  Values(applyHeaderOps(ops, h), f) = Values(h, f)
<1> DEFINE first == Over(Given(ops.set), Del(h, ops.del))
<1>1. f \notin DOMAIN Given(ops.set) /\ f \notin DOMAIN Given(ops.add)
  BY DEF Given, Del, Touched
<1>2. Values(first, f) = Values(h, f)
  BY <1>1 DEF Over, Values, Del, Touched
<1> HIDE DEF first
<1>3. Values(applyHeaderOps(ops, h), f) = Values(first, f) \o Values(Given(ops.add), f)
  BY ValuesCopy DEF applyHeaderOps, first
<1>4. Values(Given(ops.add), f) = << >>
  BY <1>1 DEF Values
<1>5. \A s : IsList(s) => s \o << >> = s
  BY DEF IsList
<1> QED
  BY <1>2, <1>3, <1>4, <1>5 DEF Typed

-------------------------------------------------------------------------------
(* The modifiers of the writer, one after another                          *)

LEMMA EveryModifier ==
    ASSUME NEW s, IsList(s)
    PROVE  Len(s) \in Nat /\ \A n \in 1 .. Len(s) : s[n] \in ToSet(s)
<1>1. DOMAIN s = 1 .. Len(s) /\ Len(s) \in Nat
  BY DEF IsList
<1>2. \A n \in DOMAIN s : s[n] \in ToSet(s)
  BY Zenon DEF ToSet
<1> QED
  BY <1>1, <1>2

(* The header after each of the modifiers. *)
Stages(ops, h, N, applied) ==
    applied = [n \in 0 .. N |-> IF n = 0 THEN h ELSE applyHeaderOps(ops[n], applied[n - 1])]

(* There is such a sequence of headers for every number of modifiers.      *)
LEMMA StagesExist ==
    ASSUME NEW ops, NEW h, NEW N \in Nat
    PROVE  \E applied : Stages(ops, h, N, applied)
<1> DEFINE S == {m \in Nat : \E g : Stages(ops, h, m, g)}
<1>1. 0 \in S
  <2>1. Stages(ops, h, 0, [n \in 0 .. 0 |-> h])
    BY DEF Stages
  <2> QED
    BY <2>1
<1>2. ASSUME NEW m \in Nat, m \in S PROVE m + 1 \in S
  <2>1. PICK g : Stages(ops, h, m, g)
    BY <1>2
  <2> DEFINE g2 == [n \in 0 .. m + 1 |-> IF n = m + 1 THEN applyHeaderOps(ops[m + 1], g[m]) ELSE g[n]]
  <2>2. Stages(ops, h, m + 1, g2)
    <3>1. g = [n \in 0 .. m |-> IF n = 0 THEN h ELSE applyHeaderOps(ops[n], g[n - 1])]
      BY <2>1 DEF Stages
    <3>2. \A n \in 0 .. m + 1 : g2[n] = IF n = 0 THEN h ELSE applyHeaderOps(ops[n], g2[n - 1])
      BY <3>1
    <3> QED
      BY <3>2, Zenon DEF Stages
  <2>3. \E f : Stages(ops, h, m + 1, f)
    <3> HIDE DEF g2
    <3> QED
      BY <2>2
  <2> QED
    BY <2>3
<1>3. Nat \subseteq S
  <2> HIDE DEF S
  <2> QED
    BY <1>1, <1>2, SetInduction
<1> QED
  BY <1>3

(* applyModifiers returns the last header of that sequence.                *)
LEMMA AppliedModifiers ==
    ASSUME NEW x, Len(x.modifiers) \in Nat, NEW h
    PROVE  \E applied : /\ applied[0] = h /\ applyModifiers(x, h) = applied[Len(x.modifiers)]
                       /\ \A n \in 0 .. Len(x.modifiers) - 1 :
                             applied[n + 1] = applyHeaderOps(x.modifiers[n + 1], applied[n])
<1> DEFINE N == Len(x.modifiers)
           applied == CHOOSE g : Stages(x.modifiers, h, N, g)
<1>1. Stages(x.modifiers, h, N, applied)
  BY StagesExist
<1>2. applyModifiers(x, h) = applied[N]
  BY DEF applyModifiers, Stages
<1> HIDE DEF applied
<1>3. applied = [n \in 0 .. N |-> IF n = 0 THEN h ELSE applyHeaderOps(x.modifiers[n], applied[n - 1])]
  BY <1>1 DEF Stages
<1>4. applied[0] = h
  BY <1>3
<1>5. ASSUME NEW n \in 0 .. N - 1 PROVE applied[n + 1] = applyHeaderOps(x.modifiers[n + 1], applied[n])
  <2>1. n + 1 \in 0 .. N /\ n + 1 # 0 /\ (n + 1) - 1 = n
    OBVIOUS
  <2> QED
    BY <1>3, <2>1
<1> QED
  BY <1>2, <1>4, <1>5

(* No modifier turns the values of a field into something else than a      *)
(* list.                                                                   *)
LEMMA ModifiersTyped ==
    ASSUME NEW x, AreOps(x.modifiers), NEW h, NEW f, Typed(h, f)
    PROVE  Typed(applyModifiers(x, h), f)
<1> DEFINE N == Len(x.modifiers)
<1>1. N \in Nat /\ \A n \in 1 .. N : IsOps(x.modifiers[n])
  BY EveryModifier DEF AreOps
<1>2. PICK applied : /\ applied[0] = h /\ applyModifiers(x, h) = applied[N]
                     /\ \A n \in 0 .. N - 1 : applied[n + 1] = applyHeaderOps(x.modifiers[n + 1], applied[n])
  BY <1>1, AppliedModifiers
<1> DEFINE S == {n \in Nat : n <= N => Typed(applied[n], f)}
<1>3. 0 \in S
  BY <1>2
<1>4. ASSUME NEW n \in Nat, n \in S PROVE n + 1 \in S
  <2>1. n + 1 <= N => /\ applied[n + 1] = applyHeaderOps(x.modifiers[n + 1], applied[n])
                      /\ Typed(applied[n], f) /\ IsOps(x.modifiers[n + 1])
    BY <1>1, <1>2, <1>4
  <2> QED
    BY <2>1, OpsTyped
<1>5. Nat \subseteq S
  <2> HIDE DEF S
  <2> QED
    BY <1>3, <1>4, SetInduction
<1> QED
  BY <1>1, <1>2, <1>5

(* A field that no modifier names is what it was.                          *)
LEMMA ModifiersLeave ==
    ASSUME NEW x, IsList(x.modifiers), NEW h, NEW f, Typed(h, f), \A o \in ToSet(x.modifiers) : f \notin Touched(o)
    PROVE  Values(applyModifiers(x, h), f) = Values(h, f)
<1> DEFINE N == Len(x.modifiers)
<1>1. N \in Nat /\ \A n \in 1 .. N : f \notin Touched(x.modifiers[n])
  BY EveryModifier
<1>2. PICK applied : /\ applied[0] = h /\ applyModifiers(x, h) = applied[N]
                     /\ \A n \in 0 .. N - 1 : applied[n + 1] = applyHeaderOps(x.modifiers[n + 1], applied[n])
  BY <1>1, AppliedModifiers
<1> DEFINE S == {n \in Nat : n <= N => Values(applied[n], f) = Values(h, f)}
<1>3. 0 \in S
  BY <1>2
<1>4. ASSUME NEW n \in Nat, n \in S PROVE n + 1 \in S
  <2>1. n + 1 <= N => /\ applied[n + 1] = applyHeaderOps(x.modifiers[n + 1], applied[n])
                      /\ Values(applied[n], f) = Values(h, f) /\ f \notin Touched(x.modifiers[n + 1])
    BY <1>1, <1>2, <1>4
  <2> QED
    BY <2>1, OpsLeave DEF Typed
<1>5. Nat \subseteq S
  <2> HIDE DEF S
  <2> QED
    BY <1>3, <1>4, SetInduction
<1> QED
  BY <1>1, <1>2, <1>5

-------------------------------------------------------------------------------
(* The fields that the writer itself changes                               *)

(* The answer to a preflight request names four fields.                    *)
LEMMA PreflightLeaves ==
    ASSUME NEW cors, NEW methods, NEW r, NEW g, NEW f,
           f \notin {"Access-Control-Max-Age", "Access-Control-Allow-Headers", "Access-Control-Allow-Methods", "Vary"}
    PROVE  Values(PreflightHeaders(cors, methods, r, g), f) = Values(g, f)
<1> DEFINE method  == Get(r.header, "Access-Control-Request-Method")
           headers == Get(r.header, "Access-Control-Request-Headers")
           age     == IF cors.maxAge = "" THEN g ELSE Set(g, "Access-Control-Max-Age", cors.maxAge)
           named   == IF headers = "" THEN age
                      ELSE Add(Set(age, "Access-Control-Allow-Headers", headers), "Vary", "Access-Control-Request-Headers")
           varies  == IF method = "" THEN named ELSE Add(named, "Vary", "Access-Control-Request-Method")
<1>1. Values(age, f) = Values(g, f)
  <2>1. Values(Set(g, "Access-Control-Max-Age", cors.maxAge), f) = Values(g, f)
    BY SetLeaves
  <2> QED
    BY <2>1, Zenon
<1>2. Values(named, f) = Values(g, f)
  <2> HIDE DEF age
  <2>1. Values(Set(age, "Access-Control-Allow-Headers", headers), f) = Values(age, f)
    BY SetLeaves
  <2>2. \A k : Values(Add(k, "Vary", "Access-Control-Request-Headers"), f) = Values(k, f)
    BY AddLeaves
  <2> QED
    BY <1>1, <2>1, <2>2, Zenon
<1>3. Values(varies, f) = Values(g, f)
  <2> HIDE DEF named
  <2>1. Values(Add(named, "Vary", "Access-Control-Request-Method"), f) = Values(named, f)
    BY AddLeaves
  <2> QED
    BY <1>2, <2>1, Zenon
<1>4. PreflightHeaders(cors, methods, r, g) =
        IF method \in methods THEN Set(varies, "Access-Control-Allow-Methods", method) ELSE varies
  BY Zenon DEF PreflightHeaders
<1> HIDE DEF varies, method
<1> QED
  BY <1>3, <1>4, ValuesSet

(* setCorsRespHeaders changes the CORS fields and Vary, nothing else.      *)
LEMMA CorsLeaves ==
    ASSUME NEW cors, NEW methods, NEW r, NEW h, NEW f, f \notin CorsHeaders, f # "Vary"
    PROVE  Values(setCorsRespHeaders(cors, methods, r, h), f) = Values(h, f)
<1>1. \A g : Values(PreflightHeaders(cors, methods, r, g), f) = Values(g, f)
  BY PreflightLeaves DEF CorsHeaders
<1> DEFINE any      == AllowsOrigin(cors, "*") /\ ~cors.credentials
           origin   == Get(r.header, "Origin")
           first    == IF any THEN Set(OurCorsHeaders(h), "Access-Control-Allow-Origin", "*")
                       ELSE Add(OurCorsHeaders(h), "Vary", "Origin")
           specific == IF any THEN first ELSE Set(first, "Access-Control-Allow-Origin", origin)
           allowed  == IF cors.credentials THEN Set(specific, "Access-Control-Allow-Credentials", "true") ELSE specific
<1>2. Values(first, f) = Values(h, f)
  BY ValuesSet, ValuesAdd, ValuesDel DEF OurCorsHeaders, CorsHeaders
<1>3. Values(specific, f) = Values(h, f)
  <2> HIDE DEF first, any
  <2> QED
    BY <1>2, ValuesSet DEF CorsHeaders
<1>4. Values(allowed, f) = Values(h, f)
  <2> HIDE DEF specific
  <2> QED
    BY <1>3, ValuesSet DEF CorsHeaders
<1>5. setCorsRespHeaders(cors, methods, r, h) \in {first, allowed, PreflightHeaders(cors, methods, r, allowed)}
  BY DEF setCorsRespHeaders
<1> HIDE DEF first, allowed
<1> QED
  BY <1>1, <1>2, <1>4, <1>5

LEMMA ConfigureLeaves ==
    ASSUME NEW x, NEW f, f \notin {"Server", "Set-Cookie"}
    PROVE  Values(configureHeader(x), f) = Values(x.header, f)
<1>1. ASSUME NEW h PROVE Values(stripSecureCookies(h), f) = Values(h, f)
  BY DEF stripSecureCookies, Values
<1>2. Values(Set(x.header, "Server", "couper.io"), f) = Values(x.header, f)
  BY ValuesSet
<1> QED
  BY <1>1, <1>2 DEF configureHeader

LEMMA HeaderModifiersLeave ==
    ASSUME NEW x, NEW r, NEW f, f \notin CorsHeaders \cup {"Vary", "Server", "Set-Cookie"}
    PROVE  Values(applyHeaderModifiers(x, r, configureHeader(x)), f) = Values(x.header, f)
  BY CorsLeaves, ConfigureLeaves DEF applyHeaderModifiers

-------------------------------------------------------------------------------
(* The writer, and Cache-Control: private                                  *)

(* The answer is not for shared caches.                                    *)
HasPrivate(h) == "private" \in ToSet(Values(h, "Cache-Control"))
WriterFields  == {"header", "secureCookies", "private", "cors", "modifiers", "gzip", "hijacked", "status"}

(* A writer whose answer is private as soon as the header is written.      *)
IsWriter(x) ==
    /\ DOMAIN x = WriterFields
    /\ Typed(x.header, "Cache-Control")
    /\ AreOps(x.modifiers)
    /\ x.private /\ x.status # 0 => HasPrivate(x.header)
    /\ x.hijacked => x.status # 0

(* What a later writer still has of an earlier one. *)
Keeps(x, y) ==
    /\ IsWriter(y)
    /\ y.private = x.private
    /\ x.status # 0 => y.status # 0

LEMMA KeepsItself == ASSUME NEW x, IsWriter(x) PROVE Keeps(x, x)
  BY DEF Keeps

(* A writer keeps what the one before it has kept. *)
LEMMA KeepsOn == ASSUME NEW x, NEW y, NEW z, Keeps(x, y), Keeps(y, z) PROVE Keeps(x, z)
  BY DEF Keeps

LEMMA KeepsWithHeader ==
    ASSUME NEW x, IsWriter(x), NEW header, Typed(header, "Cache-Control")
    PROVE  Keeps(x, WithHeader(x, header)) /\ WithHeader(x, header).status = x.status
<1>1. CASE x.status # 0
  BY <1>1 DEF WithHeader, Keeps
<1>2. CASE x.status = 0
  <2> DEFINE y == [x EXCEPT !.header = header]
  <2>1. /\ DOMAIN y = DOMAIN x /\ y.header = header
        /\ y.private = x.private /\ y.modifiers = x.modifiers /\ y.hijacked = x.hijacked /\ y.status = x.status
    BY DEF IsWriter, WriterFields
  <2>2. WithHeader(x, header) = y
    BY <1>2 DEF WithHeader
  <2> HIDE DEF y
  <2> QED
    BY <1>2, <2>1, <2>2 DEF IsWriter, Keeps
<1> QED
  BY <1>1, <1>2

LEMMA KeepsSetHeader ==
    ASSUME NEW x, IsWriter(x), NEW f, NEW v
    PROVE  Keeps(x, SetHeader(x, f, v))
<1>1. Typed(Set(x.header, f, v), "Cache-Control")
  <2>1. CASE f = "Cache-Control"
    <3>1. Values(Set(x.header, f, v), f) = <<v>>
      BY ValuesSet
    <3> QED
      BY <2>1, <3>1, ListOne DEF Typed
  <2>2. CASE f # "Cache-Control"
    BY <2>2, SetLeaves DEF IsWriter, Typed
  <2> QED
    BY <2>1, <2>2
<1> QED
  BY <1>1, KeepsWithHeader DEF SetHeader

LEMMA KeepsAddModifiers ==
    ASSUME NEW x, IsWriter(x), NEW ops, AreOps(ops)
    PROVE  Keeps(x, AddModifiers(x, ops)) /\ AddModifiers(x, ops).status = x.status
<1> DEFINE y == [x EXCEPT !.modifiers = @ \o ops]
<1>1. /\ DOMAIN y = DOMAIN x /\ y.header = x.header /\ y.modifiers = x.modifiers \o ops
      /\ y.private = x.private /\ y.hijacked = x.hijacked /\ y.status = x.status
  BY DEF IsWriter, WriterFields
<1>2. AreOps(x.modifiers \o ops)
  BY OpsConcat DEF IsWriter
<1>3. AddModifiers(x, ops) = y
  BY DEF AddModifiers
<1> HIDE DEF y
<1> QED
  BY <1>1, <1>2, <1>3 DEF IsWriter, Keeps

LEMMA KeepsAddCORS ==
    ASSUME NEW x, IsWriter(x), NEW cors, NEW methods
    PROVE  Keeps(x, AddCORS(x, cors, methods)) /\ AddCORS(x, cors, methods).status = x.status
<1> DEFINE y == [x EXCEPT !.cors = <<[options |-> cors, methods |-> methods]>>]
<1>1. /\ DOMAIN y = DOMAIN x /\ y.header = x.header /\ y.modifiers = x.modifiers
      /\ y.private = x.private /\ y.hijacked = x.hijacked /\ y.status = x.status
  BY DEF IsWriter, WriterFields
<1>2. AddCORS(x, cors, methods) = y
  BY DEF AddCORS
<1> HIDE DEF y
<1> QED
  BY <1>1, <1>2 DEF IsWriter, Keeps

LEMMA PrivateFromNowOn ==
    ASSUME NEW x, IsWriter(x), x.status = 0
    PROVE  IsWriter(AddPrivateCC(x)) /\ AddPrivateCC(x).private = TRUE /\ AddPrivateCC(x).status = 0
<1> DEFINE y == [x EXCEPT !.private = TRUE]
<1>1. /\ DOMAIN y = DOMAIN x /\ y.header = x.header /\ y.modifiers = x.modifiers
      /\ y.private = TRUE /\ y.hijacked = x.hijacked /\ y.status = x.status
  BY DEF IsWriter, WriterFields
<1>2. AddPrivateCC(x) = y
  BY DEF AddPrivateCC
<1> HIDE DEF y
<1> QED
  BY <1>1, <1>2 DEF IsWriter

LEMMA NewWriterIsWriter ==
    ASSUME NEW secureCookies, NEW r
    PROVE  IsWriter(NewWriter(secureCookies, r)) /\ NewWriter(secureCookies, r).status = 0
<1> DEFINE x == NewWriter(secureCookies, r)
<1>1. /\ DOMAIN x = WriterFields /\ x.header = << >> /\ x.private = FALSE /\ x.modifiers = << >>
      /\ x.hijacked = FALSE /\ x.status = 0
  BY DEF NewWriter, WriterFields
<1>2. Typed(<< >>, "Cache-Control")
  <2>1. Values(<< >>, "Cache-Control") = << >>
    BY DEF Values
  <2> QED
    BY <2>1, ListEmpty DEF Typed
<1>3. AreOps(<< >>)
  BY ListEmpty DEF AreOps
<1> QED
  BY <1>1, <1>2, <1>3 DEF IsWriter

(* The changed header is private at the end, whatever the modifiers do. *)
LEMMA KeepsWriteHeader ==
    ASSUME NEW x, IsWriter(x) \/ (x.status = 0 /\ DOMAIN x = WriterFields /\ AreOps(x.modifiers) /\ Typed(x.header, "Cache-Control")),
           NEW r, NEW status
    PROVE  Keeps(x, WriteHeader(x, r, status)) /\ WriteHeader(x, r, status).status # 0
<1>1. CASE x.status # 0
  BY <1>1 DEF WriteHeader, Keeps
<1>2. CASE x.status = 0
  <2> DEFINE changed == applyModifiers(x, applyHeaderModifiers(x, r, configureHeader(x)))
             header  == IF x.private THEN Add(changed, "Cache-Control", "private") ELSE changed
             code    == IF status = 0 THEN 500 ELSE status
             y       == [x EXCEPT !.header = header, !.status = code]
  <2>1. DOMAIN x = WriterFields /\ AreOps(x.modifiers) /\ Typed(x.header, "Cache-Control")
    BY DEF IsWriter
  <2>2. Typed(applyHeaderModifiers(x, r, configureHeader(x)), "Cache-Control")
    <3>1. "Cache-Control" \notin CorsHeaders \cup {"Vary", "Server", "Set-Cookie"}
      BY DEF CorsHeaders
    <3> QED
      BY <2>1, <3>1, HeaderModifiersLeave DEF Typed
  <2>3. Typed(changed, "Cache-Control")
    BY <2>1, <2>2, ModifiersTyped
  <2> HIDE DEF changed
  <2>4. Values(Add(changed, "Cache-Control", "private"), "Cache-Control") = Append(Values(changed, "Cache-Control"), "private")
    BY ValuesAdd
  <2>5. Typed(Add(changed, "Cache-Control", "private"), "Cache-Control") /\ HasPrivate(Add(changed, "Cache-Control", "private"))
    BY <2>3, <2>4, ListAppend DEF Typed, HasPrivate
  <2>6. Typed(header, "Cache-Control") /\ (x.private => HasPrivate(header))
    BY <2>3, <2>5
  <2> HIDE DEF header
  <2>7. code # 0
    OBVIOUS
  <2> HIDE DEF code
  <2>8. /\ DOMAIN y = DOMAIN x /\ y.header = header /\ y.modifiers = x.modifiers
        /\ y.private = x.private /\ y.status = code
    BY <2>1 DEF WriterFields
  <2>9. WriteHeader(x, r, status) = y
    BY <1>2 DEF WriteHeader, header, changed, code
  <2> HIDE DEF y
  <2> QED
    BY <1>2, <2>1, <2>6, <2>7, <2>8, <2>9 DEF IsWriter, Keeps
<1> QED
  BY <1>1, <1>2

(* The header of an upgraded connection goes through WriteHeader too.      *)
LEMMA KeepsSwitchProtocols ==
    ASSUME NEW x, IsWriter(x), NEW r, NEW res, Typed(res.header, "Cache-Control")
    PROVE  Keeps(x, SwitchProtocols(x, r, res))
<1> DEFINE header == copyHeader(x.header, res.header)
           y == [x EXCEPT !.hijacked = TRUE, !.header = copyHeader(@, res.header)]
<1>1. /\ DOMAIN y = DOMAIN x /\ y.header = header /\ y.modifiers = x.modifiers
      /\ y.private = x.private /\ y.status = x.status
  BY DEF IsWriter, WriterFields
<1>2. SwitchProtocols(x, r, res) = WriteHeader(y, r, res.status)
  BY DEF SwitchProtocols
<1> HIDE DEF y
<1>3. Values(header, "Cache-Control") = Values(x.header, "Cache-Control") \o Values(res.header, "Cache-Control")
  BY ValuesCopy
<1>4. Typed(header, "Cache-Control") /\ (HasPrivate(x.header) => HasPrivate(header))
  <2> DEFINE s == Values(x.header, "Cache-Control")
             t == Values(res.header, "Cache-Control")
  <2>1. IsList(s) /\ IsList(t)
    BY DEF Typed, IsWriter
  <2>2. IsList(s \o t) /\ ToSet(s) \subseteq ToSet(s \o t)
    <3> HIDE DEF s, t
    <3> QED
      BY <2>1, ListConcat
  <2> QED
    BY <1>3, <2>2 DEF Typed, HasPrivate
<1> HIDE DEF header
<1>5. CASE x.status = 0
  BY <1>1, <1>2, <1>4, <1>5, KeepsWriteHeader DEF IsWriter, Keeps
<1>6. CASE x.status # 0
  <2>1. IsWriter(y)
    BY <1>1, <1>4, <1>6 DEF IsWriter
  <2> QED
    BY <1>1, <1>2, <1>6, <2>1, KeepsWriteHeader DEF Keeps
<1> QED
  BY <1>5, <1>6

LEMMA KeepsWebsockets ==
    ASSUME NEW x, IsWriter(x), NEW p, IsProducer(p), NEW r
    PROVE  Keeps(x, registerWebsocketsResponse(p, r, x)) /\ registerWebsocketsResponse(p, r, x).status = x.status
<1> DEFINE ops == <<getWebsocketsBody(p).response, Context(p).response>>
<1>1. AreOps(ops)
  BY OpsPair DEF IsProducer, IsContext
<1>2. registerWebsocketsResponse(p, r, x) \in {x, AddModifiers(x, ops)}
  BY DEF registerWebsocketsResponse
<1> HIDE DEF ops
<1> QED
  BY <1>1, <1>2, KeepsItself, KeepsAddModifiers

(* Compression does not touch it. *)
LEMMA SentPrivately ==
    ASSUME NEW x, IsWriter(x), x.status # 0, x.private, NEW length, NEW gzips
    PROVE  HasPrivate(Sent(x, length, gzips).header)
<1>1. HasPrivate(x.header)
  BY DEF IsWriter
<1> DEFINE varied == IF length >= minCompressBodyLength THEN Add(x.header, "Vary", "Accept-Encoding") ELSE x.header
<1>2. Values(varied, "Cache-Control") = Values(x.header, "Cache-Control")
  BY AddLeaves
<1> HIDE DEF varied
<1>3. Values(Set(Del(varied, {"Content-Length"}), "Content-Encoding", "gzip"), "Cache-Control") = Values(varied, "Cache-Control")
  BY SetLeaves, ValuesDel
<1>4. Sent(x, length, gzips).header \in {varied, Set(Del(varied, {"Content-Length"}), "Content-Encoding", "gzip")}
  BY DEF Sent, Response, varied
<1> QED
  BY <1>1, <1>2, <1>3, <1>4 DEF HasPrivate

LEMMA WrittenHeader ==
    ASSUME NEW x, IsWriter(x), NEW r, NEW status, NEW length, NEW gzips
    PROVE  x.private => HasPrivate(Sent(WriteHeader(x, r, status), length, gzips).header)
  BY KeepsWriteHeader, SentPrivately DEF Keeps

LEMMA WrittenFields ==
    ASSUME NEW x, DOMAIN x = WriterFields, NEW r, NEW status
    PROVE  WriteHeader(x, r, status).cors = x.cors /\ WriteHeader(x, r, status).hijacked = x.hijacked
<1> DEFINE changed == applyModifiers(x, applyHeaderModifiers(x, r, configureHeader(x)))
           header  == IF x.private THEN Add(changed, "Cache-Control", "private") ELSE changed
           code    == IF status = 0 THEN 500 ELSE status
           y       == [x EXCEPT !.header = header, !.status = code]
<1>1. WriteHeader(x, r, status) = IF x.status # 0 THEN x ELSE y
  BY DEF WriteHeader
<1> HIDE DEF header, code
<1>2. y.cors = x.cors /\ y.hijacked = x.hijacked
  BY DEF WriterFields
<1> QED
  BY <1>1, <1>2

-------------------------------------------------------------------------------
(* The answers of the producers                                            *)

(* An answer of a backend, of a response block, or of the proxy in place   *)
(* of them.                                                                *)
IsAnswer(res) ==
    /\ {"status", "header", "length", "gzips"} \subseteq DOMAIN res
    /\ \A f : Typed(res.header, f)

LEMMA DelTyped ==
    ASSUME NEW h, \A f : Typed(h, f), NEW fs, NEW g
    PROVE  Typed(Del(h, fs), g)
<1>1. Values(Del(h, fs), g) \in {<< >>, Values(h, g)}
  BY ValuesDel
<1> QED
  BY <1>1, ListEmpty DEF Typed

LEMMA WithNewHeader ==
    ASSUME NEW res, IsAnswer(res), NEW h, \A f : Typed(h, f)
    PROVE  IsAnswer([res EXCEPT !.header = h]) /\ [res EXCEPT !.header = h].header = h
<1> DEFINE y == [res EXCEPT !.header = h]
<1>1. DOMAIN y = DOMAIN res /\ y.header = h
  BY DEF IsAnswer
<1> HIDE DEF y
<1>2. IsAnswer(y) /\ y.header = h
  BY <1>1 DEF IsAnswer
<1> QED
  BY <1>2 DEF y

LEMMA StatusAnswer ==
    ASSUME NEW status, NEW res, IsAnswer(res)
    PROVE  IsAnswer(ApplyResponseStatus(status, res))
<1>1. ASSUME status = 204 PROVE IsAnswer(ApplyResponseStatus(status, res))
  <2> DEFINE y == [res EXCEPT !.status = 204, !.length = 0, !.gzips = 0, !.header = Del(@, {"Content-Length"})]
  <2>1. DOMAIN y = DOMAIN res /\ y.header = Del(res.header, {"Content-Length"})
    BY DEF IsAnswer
  <2>2. ApplyResponseStatus(status, res) = y
    BY <1>1 DEF ApplyResponseStatus
  <2> HIDE DEF y
  <2> QED
    BY <2>1, <2>2, DelTyped DEF IsAnswer
<1>2. ASSUME status # 204 PROVE IsAnswer(ApplyResponseStatus(status, res))
  <2> DEFINE y == [res EXCEPT !.status = status]
  <2>1. DOMAIN y = DOMAIN res /\ y.header = res.header
    BY DEF IsAnswer
  <2>2. ApplyResponseStatus(status, res) = y
    BY <1>2 DEF ApplyResponseStatus
  <2> HIDE DEF y
  <2> QED
    BY <2>1, <2>2 DEF IsAnswer
<1> QED
  BY <1>1, <1>2

LEMMA ContextAnswer ==
    ASSUME NEW body, IsContext(body), NEW r, NEW res, IsAnswer(res)
    PROVE  IsAnswer(ApplyResponseContext(body, r, res))
<1> DEFINE h == applyHeaderOps(body.response, res.header)
           modified == [res EXCEPT !.header = applyHeaderOps(body.response, @)]
<1>1. IsOps(body.response)
  BY DEF IsContext
<1>2. \A f : Typed(h, f)
  BY <1>1, OpsTyped DEF IsAnswer
<1>3. modified = [res EXCEPT !.header = h]
  BY DEF IsAnswer
<1> HIDE DEF h
<1>4. IsAnswer(modified)
  BY <1>2, <1>3, WithNewHeader
<1>5. ApplyResponseContext(body, r, res) \in {modified, ApplyResponseStatus(body.status, modified)}
  BY DEF ApplyResponseContext, h
<1> HIDE DEF modified
<1> QED
  BY <1>4, <1>5, StatusAnswer

LEMMA HopsTyped ==
    ASSUME NEW h, \A f : Typed(h, f)
    PROVE  \A f : Typed(RemoveAllHopHeaders(h), f)
<1> DEFINE g == RemoveConnectionHeaders(h)
<1>1. \A f : Typed(g, f)
  BY DelTyped DEF RemoveConnectionHeaders
<1> HIDE DEF g
<1>2. \A f : Typed(RemoveHopHeaders(g), f)
  BY <1>1, DelTyped DEF RemoveHopHeaders
<1> QED
  BY <1>2 DEF g, RemoveAllHopHeaders

LEMMA HopsAnswer ==
    ASSUME NEW res, IsAnswer(res)
    PROVE  IsAnswer([res EXCEPT !.header = RemoveAllHopHeaders(@)])
<1> DEFINE h == RemoveAllHopHeaders(res.header)
<1>1. \A f : Typed(h, f)
  BY HopsTyped DEF IsAnswer
<1>2. [res EXCEPT !.header = RemoveAllHopHeaders(@)] = [res EXCEPT !.header = h]
  BY DEF IsAnswer
<1> HIDE DEF h
<1> QED
  BY <1>1, <1>2, WithNewHeader

LEMMA GzipAnswer ==
    ASSUME NEW bufs, NEW res, IsAnswer(res)
    PROVE  IsAnswer(setGzipReader(bufs, res))
<1> DEFINE y == [res EXCEPT !.gzips = @ - 1, !.header = Del(@, {"Content-Encoding", "Content-Length"})]
<1>1. DOMAIN y = DOMAIN res /\ y.header = Del(res.header, {"Content-Encoding", "Content-Length"})
  BY DEF IsAnswer
<1>2. setGzipReader(bufs, res) \in {res, y}
  BY DEF setGzipReader
<1> HIDE DEF y
<1> QED
  BY <1>1, <1>2, DelTyped DEF IsAnswer

(* Whatever a producer does to an answer, it leaves an answer.             *)
LEMMA AnsweredAnswer ==
    ASSUME NEW p, IsProducer(p), NEW bufs, NEW out, NEW res, IsAnswer(res)
    PROVE  IsAnswer(Answered(p, bufs, out, res))
<1>1. ASSUME NEW x, IsAnswer(x) PROVE IsAnswer(ProxyResponse(p, out, x))
  <2> DEFINE y == [x EXCEPT !.header = RemoveAllHopHeaders(@)]
  <2>1. IsAnswer(y)
    BY <1>1, HopsAnswer
  <2> HIDE DEF y
  <2>2. IsAnswer(ApplyResponseContext(Context(p), out, y))
    BY <2>1, ContextAnswer DEF IsProducer
  <2> QED
    BY <2>2 DEF ProxyResponse, y
<1>2. IsAnswer(BackendResponse(BackendOf(p), IsProxy(p), bufs, out, res))
  <2> DEFINE unpacked == IF IsUpgradeResponse(out, res) THEN res ELSE setGzipReader(bufs, res)
             x        == IF IsProxy(p) THEN unpacked ELSE [unpacked EXCEPT !.header = RemoveAllHopHeaders(@)]
  <2>1. IsAnswer(unpacked)
    BY GzipAnswer
  <2> HIDE DEF unpacked
  <2>2. IsAnswer(x)
    BY <2>1, HopsAnswer
  <2> HIDE DEF x
  <2>3. IsAnswer(ApplyResponseContext(Context(BackendOf(p)), out, x))
    BY <2>2, ContextAnswer DEF IsProducer
  <2> QED
    BY <2>3 DEF BackendResponse, x, unpacked
<1> QED
  BY <1>1, <1>2 DEF Answered

-------------------------------------------------------------------------------
(* The fields of CORS                                                      *)

AllowOrigin      == "Access-Control-Allow-Origin"
AllowCredentials == "Access-Control-Allow-Credentials"

(* What CorsIsOurs asks of a header. *)
Fits(cors, asks, h) ==
    LET origin == Values(h, AllowOrigin)
    IN  /\ Len(origin) <= 1
        /\ origin # << >> => origin[1] \in {"*", asks} /\ {"*", origin[1]} \cap cors.origins # {}
        /\ Get(h, AllowCredentials) # "" => cors.credentials /\ origin = <<asks>>

FitsTyped(cors, asks, h) == Fits(cors, asks, h) /\ Typed(h, AllowOrigin) /\ Typed(h, AllowCredentials)

(* Neither CORS field is there.                                            *)
Blank(h) == Values(h, AllowOrigin) = << >> /\ Values(h, AllowCredentials) = << >>

(* Both CORS fields are the same.                                          *)
SameCors(g, h) ==
    Values(g, AllowOrigin) = Values(h, AllowOrigin) /\ Values(g, AllowCredentials) = Values(h, AllowCredentials)

(* The request comes from that origin, or names none. *)
ComesFrom(r, asks) == Typed(r.header, "Origin") /\ Get(r.header, "Origin") \in {"", asks}

LEMMA FitsSame ==
    ASSUME NEW cors, NEW asks, NEW g, NEW h, SameCors(g, h), Fits(cors, asks, h)
    PROVE  Fits(cors, asks, g)
  BY DEF Fits, SameCors, Get

LEMMA BlankFits == ASSUME NEW cors, NEW asks, NEW h, Blank(h) PROVE Fits(cors, asks, h)
<1>1. Len(<< >>) = 0
  OBVIOUS
<1> QED
  BY <1>1 DEF Blank, Fits, Get

LEMMA CorsFields == AllowOrigin # AllowCredentials /\ {AllowOrigin, AllowCredentials} \subseteq CorsHeaders /\ "Vary" \notin CorsHeaders
  BY DEF AllowOrigin, AllowCredentials, CorsHeaders

LEMMA NoneOfTheirs == \A h : Blank(OurCorsHeaders(h))
  BY CorsFields, ValuesDel DEF OurCorsHeaders, Blank

LEMMA CorsSet ==
    \A h, v : /\ Values(Set(h, AllowOrigin, v), AllowOrigin) = <<v>>
              /\ Values(Set(h, AllowOrigin, v), AllowCredentials) = Values(h, AllowCredentials)
              /\ Values(Set(h, AllowCredentials, v), AllowCredentials) = <<v>>
              /\ Values(Set(h, AllowCredentials, v), AllowOrigin) = Values(h, AllowOrigin)
  BY CorsFields, ValuesSet

LEMMA CorsVary == \A h : SameCors(Add(h, "Vary", "Origin"), h)
  BY CorsFields, AddLeaves DEF SameCors

LEMMA OneFits ==
    ASSUME NEW cors, NEW asks, NEW h, NEW v, NEW c, Values(h, AllowOrigin) = <<v>>, v \in {"*", asks},
           {"*", v} \cap cors.origins # {},
           Values(h, AllowCredentials) = << >> \/ (Values(h, AllowCredentials) = <<c>> /\ cors.credentials /\ v = asks)
    PROVE  FitsTyped(cors, asks, h)
<1>1. Len(<<v>>) = 1 /\ <<v>>[1] = v
  OBVIOUS
<1>2. Get(h, AllowCredentials) # "" => cors.credentials /\ v = asks
  BY DEF Get
<1>3. <<v>> # << >> => <<v>>[1] \in {"*", asks} /\ {"*", <<v>>[1]} \cap cors.origins # {}
  BY <1>1
<1>4. Get(h, AllowCredentials) # "" => cors.credentials /\ <<v>> = <<asks>>
  BY <1>2
<1>5. Len(<<v>>) <= 1
  BY <1>1
<1>6. Fits(cors, asks, h)
  BY <1>3, <1>4, <1>5, Zenon DEF Fits
<1> QED
  BY <1>6, ListOne, ListEmpty DEF Typed, FitsTyped

LEMMA CorsPreflight == ASSUME NEW cors, NEW methods, NEW r, NEW k PROVE SameCors(PreflightHeaders(cors, methods, r, k), k)
  BY PreflightLeaves DEF SameCors, AllowOrigin, AllowCredentials

(* setCorsRespHeaders allows what the options name, whatever the header    *)
(* said before: the fields of a backend are deleted first.                 *)
LEMMA CorsFits ==
    ASSUME NEW cors, NEW methods, NEW r, NEW h, NEW asks, ComesFrom(r, asks)
    PROVE  FitsTyped(cors, asks, setCorsRespHeaders(cors, methods, r, h))
<1> DEFINE any      == AllowsOrigin(cors, "*") /\ ~cors.credentials
           origin   == Get(r.header, "Origin")
           first    == IF any THEN Set(OurCorsHeaders(h), AllowOrigin, "*")
                       ELSE Add(OurCorsHeaders(h), "Vary", "Origin")
           specific == IF any THEN first ELSE Set(first, AllowOrigin, origin)
           allowed  == IF cors.credentials THEN Set(specific, AllowCredentials, "true") ELSE specific
           answers  == isCorsRequest(r) /\ AllowsOrigin(cors, origin)
           g        == setCorsRespHeaders(cors, methods, r, h)
<1>1. /\ Values(first, AllowOrigin) = IF any THEN <<"*">> ELSE << >>
      /\ Values(first, AllowCredentials) = << >>
  <2>1. Blank(OurCorsHeaders(h))
    BY NoneOfTheirs
  <2>2. SameCors(Add(OurCorsHeaders(h), "Vary", "Origin"), OurCorsHeaders(h))
    BY CorsVary
  <2> QED
    BY <2>1, <2>2, CorsSet DEF Blank, SameCors
<1>2. /\ Values(specific, AllowOrigin) = IF any THEN <<"*">> ELSE <<origin>>
      /\ Values(specific, AllowCredentials) = << >>
  <2> HIDE DEF first, any, origin
  <2> QED
    BY <1>1, CorsSet
<1>3. /\ Values(allowed, AllowOrigin) = IF any THEN <<"*">> ELSE <<origin>>
      /\ Values(allowed, AllowCredentials) = IF cors.credentials THEN <<"true">> ELSE << >>
  <2> HIDE DEF specific, any, origin
  <2> QED
    BY <1>2, CorsSet
<1>4. ASSUME NEW k PROVE SameCors(PreflightHeaders(cors, methods, r, k), k)
  BY CorsPreflight
<1>5. /\ ~answers => g = first
      /\ answers => g = allowed \/ g = PreflightHeaders(cors, methods, r, allowed)
  BY DEF setCorsRespHeaders, AllowOrigin, AllowCredentials
<1> SUFFICES FitsTyped(cors, asks, g)
  BY DEF g
<1>6. CASE ~answers
  <2>1. Values(g, AllowOrigin) = (IF any THEN <<"*">> ELSE << >>) /\ Values(g, AllowCredentials) = << >>
    BY <1>1, <1>5, <1>6
  <2>2. any => {"*", "*"} \cap cors.origins # {}
    BY DEF AllowsOrigin
  <2> HIDE DEF g, any
  <2>3. CASE any
    BY <2>1, <2>2, <2>3, OneFits
  <2>4. CASE ~any
    BY <2>1, <2>4, BlankFits, ListEmpty DEF Blank, Typed, FitsTyped
  <2> QED
    BY <2>3, <2>4
<1>7. CASE answers
  <2>1. /\ Values(g, AllowOrigin) = IF any THEN <<"*">> ELSE <<origin>>
        /\ Values(g, AllowCredentials) = IF cors.credentials THEN <<"true">> ELSE << >>
    <3> HIDE DEF g, any, allowed, answers
    <3> QED
      BY <1>3, <1>4, <1>5, <1>7 DEF SameCors
  <2>2. origin = asks /\ {"*", origin} \cap cors.origins # {} /\ (any => {"*", "*"} \cap cors.origins # {} /\ ~cors.credentials)
    BY <1>7 DEF isCorsRequest, AllowsOrigin, ComesFrom
  <2> HIDE DEF g, any, origin
  <2>3. CASE any
    BY <2>1, <2>2, <2>3, OneFits
  <2>4. CASE ~any
    BY <2>1, <2>2, <2>4, OneFits
  <2> QED
    BY <2>3, <2>4
<1> QED
  BY <1>6, <1>7

(* A modifier that does not name the CORS fields.                          *)
LeavesCors(ops) == {AllowOrigin, AllowCredentials} \cap Touched(ops) = {}

(* A writer on a route with these options, for a client that asks so. *)
CorsWriter(cors, asks, x) ==
    /\ x.cors # << >> => x.cors[1].options = cors
    /\ x.cors = << >> => Blank(x.header)
    /\ \A o \in ToSet(x.modifiers) : LeavesCors(o)
    /\ x.status # 0 => Fits(cors, asks, x.header)

LEMMA FitsWithHeader ==
    ASSUME NEW cors, NEW asks, NEW x, IsWriter(x), CorsWriter(cors, asks, x), NEW h, x.cors = << >> => Blank(h)
    PROVE  CorsWriter(cors, asks, WithHeader(x, h)) /\ WithHeader(x, h).cors = x.cors
<1>1. CASE x.status # 0
  BY <1>1 DEF WithHeader
<1>2. CASE x.status = 0
  <2> DEFINE y == [x EXCEPT !.header = h]
  <2>1. y.header = h /\ y.cors = x.cors /\ y.modifiers = x.modifiers /\ y.status = x.status
    BY DEF IsWriter, WriterFields
  <2>2. WithHeader(x, h) = y
    BY <1>2 DEF WithHeader
  <2> HIDE DEF y
  <2> QED
    BY <1>2, <2>1, <2>2 DEF CorsWriter
<1> QED
  BY <1>1, <1>2

LEMMA CacheLeavesCors == \A h, v : SameCors(Add(h, "Cache-Control", v), h)
  BY CorsFields, AddLeaves DEF SameCors, CorsHeaders, AllowOrigin, AllowCredentials

LEMMA VaryLeavesCors == \A h, v : SameCors(Add(h, "Vary", v), h)
  BY CorsFields, AddLeaves DEF SameCors

LEMMA ConfigureLeavesCors == \A x : SameCors(configureHeader(x), x.header)
<1> TAKE x
<1>1. AllowOrigin \notin {"Server", "Set-Cookie"} /\ AllowCredentials \notin {"Server", "Set-Cookie"}
  BY DEF AllowOrigin, AllowCredentials
<1> QED
  BY <1>1, ConfigureLeaves DEF SameCors

LEMMA PackingLeavesCors == \A h : SameCors(Set(Del(h, {"Content-Length"}), "Content-Encoding", "gzip"), h)
<1> TAKE h
<1>1. /\ AllowOrigin # "Content-Encoding" /\ AllowCredentials # "Content-Encoding"
      /\ AllowOrigin \notin {"Content-Length"} /\ AllowCredentials \notin {"Content-Length"}
  BY DEF AllowOrigin, AllowCredentials
<1> DEFINE g == Del(h, {"Content-Length"})
<1>2. SameCors(g, h)
  BY <1>1, ValuesDel DEF SameCors
<1> HIDE DEF g
<1>3. SameCors(Set(g, "Content-Encoding", "gzip"), g)
  BY <1>1, SetLeaves DEF SameCors
<1>4. SameCors(Set(g, "Content-Encoding", "gzip"), h)
  BY <1>2, <1>3 DEF SameCors
<1> QED
  BY <1>4 DEF g

LEMMA ModifiersLeaveCors ==
    ASSUME NEW x, AreOps(x.modifiers), \A o \in ToSet(x.modifiers) : LeavesCors(o),
           NEW h, Typed(h, AllowOrigin), Typed(h, AllowCredentials)
    PROVE  SameCors(applyModifiers(x, h), h)
<1>1. \A o \in ToSet(x.modifiers) : AllowOrigin \notin Touched(o) /\ AllowCredentials \notin Touched(o)
  BY DEF LeavesCors
<1> QED
  BY <1>1, ModifiersLeave DEF SameCors, AreOps

LEMMA NoOpsLeaveCors ==
    ASSUME NEW h, Typed(h, AllowOrigin), Typed(h, AllowCredentials)
    PROVE  SameCors(applyHeaderOps(NoOps, h), h)
<1>1. DOMAIN << >> = {}
  OBVIOUS
<1>2. Touched(NoOps) = {}
  BY <1>1 DEF Touched, NoOps
<1> QED
  BY <1>2, OpsLeave DEF SameCors

LEMMA SetLeavesCors == \A h, f, v : f \notin {AllowOrigin, AllowCredentials} => SameCors(Set(h, f, v), h)
  BY SetLeaves DEF SameCors

LEMMA SameBlank == \A g, h : SameCors(g, h) /\ Blank(h) => Blank(g)
  BY DEF SameCors, Blank

LEMMA FitsSetHeader ==
    ASSUME NEW cors, NEW asks, NEW x, IsWriter(x), CorsWriter(cors, asks, x),
           NEW f, NEW v, f \notin {AllowOrigin, AllowCredentials}
    PROVE  CorsWriter(cors, asks, SetHeader(x, f, v)) /\ SetHeader(x, f, v).cors = x.cors
<1> DEFINE h == Set(x.header, f, v)
<1>1. x.cors = << >> => Blank(h)
  BY SetLeavesCors, SameBlank DEF CorsWriter
<1> HIDE DEF h
<1>2. CorsWriter(cors, asks, WithHeader(x, h)) /\ WithHeader(x, h).cors = x.cors
  BY <1>1, FitsWithHeader
<1> QED
  BY <1>2 DEF SetHeader, h

LEMMA FitsAddModifiers ==
    ASSUME NEW cors, NEW asks, NEW x, IsWriter(x), CorsWriter(cors, asks, x),
           NEW ops, IsList(ops), \A o \in ToSet(ops) : LeavesCors(o)
    PROVE  CorsWriter(cors, asks, AddModifiers(x, ops)) /\ AddModifiers(x, ops).cors = x.cors
<1> DEFINE y == [x EXCEPT !.modifiers = @ \o ops]
<1>1. y.header = x.header /\ y.modifiers = x.modifiers \o ops /\ y.cors = x.cors /\ y.status = x.status
  BY DEF IsWriter, WriterFields
<1>2. \A o \in ToSet(x.modifiers \o ops) : LeavesCors(o)
  BY ListConcat DEF IsWriter, AreOps, CorsWriter
<1>3. AddModifiers(x, ops) = y
  BY DEF AddModifiers
<1> HIDE DEF y
<1> QED
  BY <1>1, <1>2, <1>3 DEF CorsWriter

LEMMA FitsAddCORS ==
    ASSUME NEW cors, NEW asks, NEW x, IsWriter(x), CorsWriter(cors, asks, x), NEW methods
    PROVE  CorsWriter(cors, asks, AddCORS(x, cors, methods)) /\ AddCORS(x, cors, methods).cors # << >>
<1> DEFINE new == <<[options |-> cors, methods |-> methods]>>
           y   == [x EXCEPT !.cors = new]
<1>1. new # << >> /\ new[1].options = cors
  OBVIOUS
<1> HIDE DEF new
<1>2. y.header = x.header /\ y.modifiers = x.modifiers /\ y.cors = new /\ y.status = x.status
  BY DEF IsWriter, WriterFields
<1>3. AddCORS(x, cors, methods) = y
  BY DEF AddCORS, new
<1> HIDE DEF y
<1> QED
  BY <1>1, <1>2, <1>3 DEF CorsWriter

LEMMA FitsPrivateCC ==
    ASSUME NEW cors, NEW asks, NEW x, IsWriter(x), CorsWriter(cors, asks, x)
    PROVE  /\ CorsWriter(cors, asks, AddPrivateCC(x)) /\ AddPrivateCC(x).cors = x.cors
           /\ AddPrivateCC(x).status = x.status /\ AddPrivateCC(x).hijacked = x.hijacked
<1> DEFINE y == [x EXCEPT !.private = TRUE]
<1>1. /\ y.header = x.header /\ y.modifiers = x.modifiers /\ y.cors = x.cors /\ y.status = x.status
      /\ y.hijacked = x.hijacked
  BY DEF IsWriter, WriterFields
<1>2. AddPrivateCC(x) = y
  BY DEF AddPrivateCC
<1> HIDE DEF y
<1> QED
  BY <1>1, <1>2 DEF CorsWriter

(* The header gets what the request asks for when it is written. *)
LEMMA FitsWriteHeader ==
    ASSUME NEW cors, NEW asks, NEW x, DOMAIN x = WriterFields, AreOps(x.modifiers),
           CorsWriter(cors, asks, x), NEW r, ComesFrom(r, asks), NEW status
    PROVE  CorsWriter(cors, asks, WriteHeader(x, r, status)) /\ WriteHeader(x, r, status).status # 0
<1>1. CASE x.status # 0
  BY <1>1 DEF WriteHeader
<1>2. CASE x.status = 0
  <2> DEFINE own     == configureHeader(x)
             decided == applyHeaderModifiers(x, r, own)
             changed == applyModifiers(x, decided)
             header  == IF x.private THEN Add(changed, "Cache-Control", "private") ELSE changed
             code    == IF status = 0 THEN 500 ELSE status
             y       == [x EXCEPT !.header = header, !.status = code]
  <2>1. /\ FitsTyped(cors, asks, decided)
        /\ x.cors = << >> => Blank(decided)
    <3>1. CASE x.cors # << >>
      <4> DEFINE methods == x.cors[1].methods
      <4>1. decided = setCorsRespHeaders(cors, methods, r, own)
        BY <3>1 DEF applyHeaderModifiers, CorsWriter
      <4> HIDE DEF decided, own, methods
      <4> QED
        BY <3>1, <4>1, CorsFits
    <3>2. CASE x.cors = << >>
      <4>1. SameCors(own, x.header)
        BY ConfigureLeavesCors
      <4>2. decided = own
        BY <3>2 DEF applyHeaderModifiers
      <4>3. Blank(own)
        BY <3>2, <4>1, SameBlank DEF CorsWriter
      <4> HIDE DEF own, decided
      <4> QED
        BY <4>2, <4>3, BlankFits, ListEmpty DEF FitsTyped, Typed, Blank
    <3> QED
      BY <3>1, <3>2
  <2> HIDE DEF decided
  <2>2. SameCors(changed, decided)
    BY <2>1, ModifiersLeaveCors DEF FitsTyped, CorsWriter
  <2> HIDE DEF changed
  <2>3. SameCors(header, changed)
    BY CacheLeavesCors DEF SameCors
  <2> HIDE DEF header
  <2>4. Fits(cors, asks, header) /\ (x.cors = << >> => Blank(header))
    BY <2>1, <2>2, <2>3, FitsSame, SameBlank DEF FitsTyped
  <2>5. code # 0
    <3>1. CASE status = 0
      BY <3>1
    <3>2. CASE status # 0
      BY <3>2
    <3> QED
      BY <3>1, <3>2
  <2> HIDE DEF code
  <2>6. y.header = header /\ y.modifiers = x.modifiers /\ y.cors = x.cors /\ y.status = code
    BY DEF WriterFields
  <2>7. WriteHeader(x, r, status) = y
    BY <1>2 DEF WriteHeader, header, changed, decided, code
  <2> HIDE DEF y
  <2> QED
    BY <2>4, <2>5, <2>6, <2>7 DEF CorsWriter
<1> QED
  BY <1>1, <1>2

(* An upgraded connection too gets the CORS fields of the route.           *)
LEMMA FitsSwitchProtocols ==
    ASSUME NEW cors, NEW asks, NEW x, IsWriter(x), CorsWriter(cors, asks, x), x.status = 0, x.cors # << >>,
           NEW r, ComesFrom(r, asks), NEW res
    PROVE  CorsWriter(cors, asks, SwitchProtocols(x, r, res))
<1> DEFINE y == [x EXCEPT !.hijacked = TRUE, !.header = copyHeader(@, res.header)]
<1>1. DOMAIN y = DOMAIN x /\ y.modifiers = x.modifiers /\ y.cors = x.cors /\ y.status = x.status
  BY DEF IsWriter, WriterFields
<1>2. SwitchProtocols(x, r, res) = WriteHeader(y, r, res.status)
  BY DEF SwitchProtocols
<1> HIDE DEF y
<1>3. DOMAIN y = WriterFields /\ AreOps(y.modifiers) /\ CorsWriter(cors, asks, y)
  BY <1>1 DEF IsWriter, CorsWriter
<1> QED
  BY <1>2, <1>3, FitsWriteHeader

LEMMA FitsWebsockets ==
    ASSUME NEW cors, NEW asks, NEW x, IsWriter(x), CorsWriter(cors, asks, x), NEW p, IsProducer(p), NEW r,
           LeavesCors(getWebsocketsBody(p).response), LeavesCors(Context(p).response)
    PROVE  LET y == registerWebsocketsResponse(p, r, x)
           IN  CorsWriter(cors, asks, y) /\ y.cors = x.cors /\ y.status = x.status /\ y.hijacked = x.hijacked
<1> DEFINE ops == <<getWebsocketsBody(p).response, Context(p).response>>
           y   == AddModifiers(x, ops)
<1>1. AreOps(ops)
  BY OpsPair DEF IsProducer, IsContext
<1>2. \A o \in ToSet(ops) : LeavesCors(o)
  <2> DEFINE a == getWebsocketsBody(p).response
             b == Context(p).response
  <2>1. <<a, b>> \in Seq({a, b})
    OBVIOUS
  <2>2. ToSet(<<a, b>>) \subseteq {a, b}
    <3> HIDE DEF a, b
    <3> QED
      BY <2>1, SeqValues
  <2> QED
    BY <2>2
<1>3. registerWebsocketsResponse(p, r, x) \in {x, y}
  BY DEF registerWebsocketsResponse
<1> HIDE DEF ops
<1>4. CorsWriter(cors, asks, y) /\ y.cors = x.cors
  BY <1>1, <1>2, FitsAddModifiers DEF AreOps
<1>5. y.status = x.status
  BY <1>1, KeepsAddModifiers
<1>6. y.hijacked = x.hijacked
  BY DEF AddModifiers, IsWriter, WriterFields
<1> HIDE DEF y
<1> QED
  BY <1>3, <1>4, <1>5, <1>6

LEMMA FitsSent ==
    ASSUME NEW cors, NEW asks, NEW x, CorsWriter(cors, asks, x), x.status # 0, NEW length, NEW gzips
    PROVE  Fits(cors, asks, Sent(x, length, gzips).header)
<1> DEFINE varied == IF length >= minCompressBodyLength THEN Add(x.header, "Vary", "Accept-Encoding") ELSE x.header
           packed == Set(Del(varied, {"Content-Length"}), "Content-Encoding", "gzip")
<1>1. SameCors(varied, x.header)
  BY VaryLeavesCors DEF SameCors
<1> HIDE DEF varied
<1>2. SameCors(packed, varied)
  BY PackingLeavesCors
<1>3. Sent(x, length, gzips).header \in {varied, packed}
  BY DEF Sent, Response, varied, packed
<1> HIDE DEF packed
<1> QED
  BY <1>1, <1>2, <1>3, FitsSame DEF CorsWriter

LEMMA FitsWritten ==
    ASSUME NEW cors, NEW asks, NEW x, IsWriter(x), CorsWriter(cors, asks, x),
           NEW r, ComesFrom(r, asks), NEW status, NEW length, NEW gzips
    PROVE  Fits(cors, asks, Sent(WriteHeader(x, r, status), length, gzips).header)
<1> DEFINE y == WriteHeader(x, r, status)
<1>1. CorsWriter(cors, asks, y) /\ y.status # 0
  BY FitsWriteHeader DEF IsWriter
<1> HIDE DEF y
<1>2. Fits(cors, asks, Sent(y, length, gzips).header)
  BY <1>1, FitsSent
<1> QED
  BY <1>2 DEF y

LEMMA UntouchedWriter == ASSUME NEW cors, NEW asks, NEW x, x.cors = << >>, x.modifiers = << >>, x.header = << >>, x.status = 0
                         PROVE  CorsWriter(cors, asks, x)
<1>1. ToSet(x.modifiers) = {}
  BY ListEmpty
<1>2. Blank(<< >>)
  <2>1. DOMAIN << >> = {}
    OBVIOUS
  <2> QED
    BY <2>1 DEF Blank, Values
<1> QED
  BY <1>1, <1>2 DEF CorsWriter

-------------------------------------------------------------------------------
(* How often a body is packed, and what its header says of it              *)

Encoding == "Content-Encoding"

(* A body that is not empty is packed as often as the header says.         *)
SaysPacked(res) == res.length # 0 => res.gzips = IF Get(res.header, Encoding) = "gzip" THEN 1 ELSE 0

(* An answer that says so, and that no hop makes say something else: its   *)
(* encoding is not for one hop only, and it has none when it upgrades.     *)
Honest(res) ==
    /\ SaysPacked(res)
    /\ Encoding \notin ToSet(Values(res.header, "Connection"))
    /\ res.status = 101 => Values(res.header, Encoding) = << >>

(* A body of attributes that leaves it at that.                            *)
LeavesEncoding(body) == body.status # 101 /\ {Encoding, "Connection"} \cap Touched(body.response) = {}

(* Nothing the proxy or request and its backend configure is about it.     *)
PassesEncoding(p) ==
    /\ LeavesEncoding(Context(p)) /\ LeavesEncoding(Context(BackendOf(p)))
    /\ Encoding \notin Touched(getWebsocketsBody(p).response)

(* The length, the packing and the encoding are the same.                  *)
LEMMA HonestSame ==
    ASSUME NEW x, Honest(x), NEW y, y.length = x.length, y.gzips = x.gzips, y.status = 101 => x.status = 101,
           Values(y.header, Encoding) = Values(x.header, Encoding),
           Values(y.header, "Connection") \in {<< >>, Values(x.header, "Connection")}
    PROVE  Honest(y)
  BY ListEmpty DEF Honest, SaysPacked, Get

LEMMA HonestHops ==
    ASSUME NEW x, IsAnswer(x), Honest(x)
    PROVE  Honest([x EXCEPT !.header = RemoveAllHopHeaders(@)])
<1> DEFINE h == RemoveAllHopHeaders(x.header)
           y == [x EXCEPT !.header = RemoveAllHopHeaders(@)]
<1>1. y.header = h /\ y.length = x.length /\ y.gzips = x.gzips /\ y.status = x.status
  BY DEF IsAnswer
<1> DEFINE g == RemoveConnectionHeaders(x.header)
<1>2. Values(g, Encoding) = Values(x.header, Encoding) /\ Values(g, "Connection") \in {<< >>, Values(x.header, "Connection")}
  BY ValuesDel DEF RemoveConnectionHeaders, Honest
<1> HIDE DEF g
<1>3. Encoding \notin HopHeaders
  BY DEF Encoding, HopHeaders
<1> DEFINE fs == {f \in HopHeaders : Get(g, f) # "" /\ ~(f = "Te" /\ Get(g, f) = "trailers")}
<1>4. RemoveHopHeaders(g) = Del(g, fs) /\ Encoding \notin fs
  BY <1>3 DEF RemoveHopHeaders
<1> HIDE DEF fs
<1>5. /\ Values(RemoveHopHeaders(g), Encoding) = Values(g, Encoding)
      /\ Values(RemoveHopHeaders(g), "Connection") \in {<< >>, Values(g, "Connection")}
  BY <1>4, ValuesDel
<1>6. h = RemoveHopHeaders(g)
  BY DEF RemoveAllHopHeaders, g
<1> HIDE DEF h, y
<1>7. Honest(y)
  BY <1>1, <1>2, <1>5, <1>6, HonestSame
<1> QED
  BY <1>7 DEF y

(* 204 takes the body, and every other status leaves it.                   *)
LEMMA HonestStatus ==
    ASSUME NEW x, IsAnswer(x), Honest(x), NEW status, status # 101
    PROVE  Honest(ApplyResponseStatus(status, x))
<1>1. CASE status = 204
  <2> DEFINE y == [x EXCEPT !.status = 204, !.length = 0, !.gzips = 0, !.header = Del(@, {"Content-Length"})]
  <2>1. y.header = Del(x.header, {"Content-Length"}) /\ y.length = 0 /\ y.status = 204
    BY DEF IsAnswer
  <2>2. Values(y.header, "Connection") = Values(x.header, "Connection")
    BY <2>1, ValuesDel
  <2>3. ApplyResponseStatus(status, x) = y
    BY <1>1 DEF ApplyResponseStatus
  <2> HIDE DEF y
  <2> QED
    BY <2>1, <2>2, <2>3 DEF Honest, SaysPacked
<1>2. CASE status # 204
  <2> DEFINE y == [x EXCEPT !.status = status]
  <2>1. y.header = x.header /\ y.length = x.length /\ y.gzips = x.gzips /\ y.status = status
    BY DEF IsAnswer
  <2>2. ApplyResponseStatus(status, x) = y
    BY <1>2 DEF ApplyResponseStatus
  <2> HIDE DEF y
  <2> QED
    BY <2>1, <2>2, HonestSame
<1> QED
  BY <1>1, <1>2

LEMMA HonestContext ==
    ASSUME NEW body, IsContext(body), LeavesEncoding(body), NEW r, NEW x, IsAnswer(x), Honest(x)
    PROVE  Honest(ApplyResponseContext(body, r, x))
<1> DEFINE h == applyHeaderOps(body.response, x.header)
           y == [x EXCEPT !.header = applyHeaderOps(body.response, @)]
<1>1. y.header = h /\ y.length = x.length /\ y.gzips = x.gzips /\ y.status = x.status
  BY DEF IsAnswer
<1>2. Values(h, Encoding) = Values(x.header, Encoding) /\ Values(h, "Connection") = Values(x.header, "Connection")
  BY OpsLeave DEF IsAnswer, LeavesEncoding
<1>3. IsAnswer(y)
  <2>1. \A f : Typed(h, f)
    BY OpsTyped DEF IsAnswer, IsContext
  <2>2. y = [x EXCEPT !.header = h]
    BY DEF IsAnswer
  <2> HIDE DEF h, y
  <2> QED
    BY <2>1, <2>2, WithNewHeader
<1>4. ApplyResponseContext(body, r, x) \in {y, ApplyResponseStatus(body.status, y)}
  BY DEF ApplyResponseContext
<1> HIDE DEF h, y
<1>5. Honest(y)
  BY <1>1, <1>2, HonestSame
<1> QED
  BY <1>3, <1>4, <1>5, HonestStatus DEF LeavesEncoding

(* What else a body of attributes changes leaves the packing and the name. *)
LEMMA PackedContext ==
    ASSUME NEW body, IsContext(body), Encoding \notin Touched(body.response), NEW r, NEW x, IsAnswer(x), SaysPacked(x)
    PROVE  SaysPacked(ApplyResponseContext(body, r, x))
<1> DEFINE h == applyHeaderOps(body.response, x.header)
           y == [x EXCEPT !.header = applyHeaderOps(body.response, @)]
           z == [y EXCEPT !.status = 204, !.length = 0, !.gzips = 0, !.header = Del(@, {"Content-Length"})]
           u == [y EXCEPT !.status = body.status]
<1>1. DOMAIN y = DOMAIN x /\ y.header = h /\ y.length = x.length /\ y.gzips = x.gzips
  BY DEF IsAnswer
<1>2. Values(h, Encoding) = Values(x.header, Encoding)
  BY OpsLeave DEF IsAnswer
<1>3. ApplyResponseContext(body, r, x) \in {y, z, u}
  BY DEF ApplyResponseContext, ApplyResponseStatus
<1> HIDE DEF h, y
<1>4. SaysPacked(y)
  BY <1>1, <1>2 DEF SaysPacked, Get
<1>5. z.length = 0 /\ u.length = y.length /\ u.gzips = y.gzips /\ u.header = y.header
  BY <1>1 DEF IsAnswer
<1> HIDE DEF z, u
<1> QED
  BY <1>3, <1>4, <1>5 DEF SaysPacked

(* Who unpacks the body takes the encoding away.                           *)
LEMMA HonestGzip ==
    ASSUME NEW bufs, NEW x, IsAnswer(x), Honest(x)
    PROVE  Honest(setGzipReader(bufs, x))
<1> DEFINE y == [x EXCEPT !.gzips = @ - 1, !.header = Del(@, {Encoding, "Content-Length"})]
<1>1. /\ y.header = Del(x.header, {Encoding, "Content-Length"}) /\ y.length = x.length
      /\ y.gzips = x.gzips - 1 /\ y.status = x.status
  BY DEF IsAnswer
<1>2. Values(y.header, Encoding) = << >> /\ Values(y.header, "Connection") = Values(x.header, "Connection")
  BY <1>1, ValuesDel DEF Encoding
<1>3. setGzipReader(bufs, x) = x \/ (setGzipReader(bufs, x) = y /\ Get(x.header, Encoding) = "gzip")
  BY DEF setGzipReader, Encoding
<1> HIDE DEF y
<1>4. Get(y.header, Encoding) # "gzip"
  BY <1>2 DEF Get
<1>5. Get(x.header, Encoding) = "gzip" => Honest(y)
  BY <1>1, <1>2, <1>4 DEF Honest, SaysPacked
<1> QED
  BY <1>3, <1>5

(* What the producer makes of an honest answer is one.                     *)
LEMMA HonestAnswered ==
    ASSUME NEW p, IsProducer(p), PassesEncoding(p), NEW bufs, NEW out, NEW res, IsAnswer(res), Honest(res)
    PROVE  Honest(Answered(p, bufs, out, res))
<1>1. ASSUME NEW x, IsAnswer(x), Honest(x) PROVE Honest(ProxyResponse(p, out, x))
  <2> DEFINE y == [x EXCEPT !.header = RemoveAllHopHeaders(@)]
  <2>1. IsAnswer(y) /\ Honest(y)
    BY <1>1, HopsAnswer, HonestHops
  <2> HIDE DEF y
  <2>2. Honest(ApplyResponseContext(Context(p), out, y))
    BY <2>1, HonestContext DEF IsProducer, PassesEncoding
  <2> QED
    BY <2>2 DEF ProxyResponse, y
<1>2. LET reply == BackendResponse(BackendOf(p), IsProxy(p), bufs, out, res) IN IsAnswer(reply) /\ Honest(reply)
  <2> DEFINE unpacked == IF IsUpgradeResponse(out, res) THEN res ELSE setGzipReader(bufs, res)
             x        == IF IsProxy(p) THEN unpacked ELSE [unpacked EXCEPT !.header = RemoveAllHopHeaders(@)]
  <2>1. IsAnswer(unpacked) /\ Honest(unpacked)
    BY GzipAnswer, HonestGzip
  <2> HIDE DEF unpacked
  <2>2. IsAnswer(x) /\ Honest(x)
    BY <2>1, HopsAnswer, HonestHops
  <2> HIDE DEF x
  <2> DEFINE y == ApplyResponseContext(Context(BackendOf(p)), out, x)
  <2>3. IsAnswer(y) /\ Honest(y)
    BY <2>2, ContextAnswer, HonestContext DEF IsProducer, PassesEncoding
  <2> QED
    BY <2>3 DEF BackendResponse, x, unpacked
<1> QED
  BY <1>1, <1>2 DEF Answered

(* A writer that says nothing of an encoding, and whose modifiers do not.  *)
LeavesPacking(ops) == \A o \in ToSet(ops) : Encoding \notin Touched(o)
PlainWriter(x)     == Values(x.header, Encoding) = << >> /\ LeavesPacking(x.modifiers)

LEMMA PlainWithHeader ==
    ASSUME NEW x, IsWriter(x), PlainWriter(x), NEW h, Values(h, Encoding) = << >>
    PROVE  PlainWriter(WithHeader(x, h))
<1>1. CASE x.status # 0
  BY <1>1 DEF WithHeader
<1>2. CASE x.status = 0
  <2> DEFINE y == [x EXCEPT !.header = h]
  <2>1. y.header = h /\ y.modifiers = x.modifiers
    BY DEF IsWriter, WriterFields
  <2>2. WithHeader(x, h) = y
    BY <1>2 DEF WithHeader
  <2> HIDE DEF y
  <2> QED
    BY <2>1, <2>2 DEF PlainWriter
<1> QED
  BY <1>1, <1>2

LEMMA PlainSetHeader ==
    ASSUME NEW x, IsWriter(x), PlainWriter(x), NEW f, f # Encoding, NEW v
    PROVE  PlainWriter(SetHeader(x, f, v))
<1>1. Values(Set(x.header, f, v), Encoding) = << >>
  BY SetLeaves DEF PlainWriter
<1> QED
  BY <1>1, PlainWithHeader DEF SetHeader

LEMMA PlainAddModifiers ==
    ASSUME NEW x, IsWriter(x), PlainWriter(x), NEW ops, IsList(ops), LeavesPacking(ops)
    PROVE  LET y == AddModifiers(x, ops) IN PlainWriter(y) /\ y.status = x.status /\ y.hijacked = x.hijacked
<1> DEFINE y == [x EXCEPT !.modifiers = @ \o ops]
<1>1. y.header = x.header /\ y.modifiers = x.modifiers \o ops /\ y.status = x.status /\ y.hijacked = x.hijacked
  BY DEF IsWriter, WriterFields
<1>2. LeavesPacking(x.modifiers \o ops)
  BY ListConcat DEF IsWriter, AreOps, PlainWriter, LeavesPacking
<1>3. AddModifiers(x, ops) = y
  BY DEF AddModifiers
<1> HIDE DEF y
<1> QED
  BY <1>1, <1>2, <1>3 DEF PlainWriter

LEMMA PlainAdds ==
    ASSUME NEW x, IsWriter(x), PlainWriter(x), NEW cors, NEW methods, NEW y, y \in {AddPrivateCC(x), AddCORS(x, cors, methods)}
    PROVE  PlainWriter(y) /\ y.status = x.status /\ y.hijacked = x.hijacked
<1> DEFINE new == <<[options |-> cors, methods |-> methods]>>
           a   == [x EXCEPT !.private = TRUE]
           b   == [x EXCEPT !.cors = new]
<1>1. /\ a.header = x.header /\ a.modifiers = x.modifiers /\ a.status = x.status /\ a.hijacked = x.hijacked
      /\ b.header = x.header /\ b.modifiers = x.modifiers /\ b.status = x.status /\ b.hijacked = x.hijacked
  <2> HIDE DEF new
  <2> QED
    BY DEF IsWriter, WriterFields
<1>2. y \in {a, b}
  BY DEF AddPrivateCC, AddCORS
<1> HIDE DEF a, b
<1> QED
  BY <1>1, <1>2 DEF PlainWriter

(* The header that is written says of the encoding what it said before.    *)
LEMMA EncodingWritten ==
    ASSUME NEW x, DOMAIN x = WriterFields, AreOps(x.modifiers), LeavesPacking(x.modifiers), Typed(x.header, Encoding),
           NEW r, NEW status
    PROVE  LET y == WriteHeader(x, r, status)
           IN  Values(y.header, Encoding) = Values(x.header, Encoding) /\ y.modifiers = x.modifiers
<1>1. CASE x.status # 0
  BY <1>1 DEF WriteHeader
<1>2. CASE x.status = 0
  <2> DEFINE decided == applyHeaderModifiers(x, r, configureHeader(x))
             changed == applyModifiers(x, decided)
             header  == IF x.private THEN Add(changed, "Cache-Control", "private") ELSE changed
             code    == IF status = 0 THEN 500 ELSE status
             y       == [x EXCEPT !.header = header, !.status = code]
  <2>1. Values(decided, Encoding) = Values(x.header, Encoding)
    <3>1. Encoding \notin CorsHeaders \cup {"Vary", "Server", "Set-Cookie"}
      BY DEF Encoding, CorsHeaders
    <3> QED
      BY <3>1, HeaderModifiersLeave
  <2> HIDE DEF decided
  <2>2. Values(changed, Encoding) = Values(decided, Encoding)
    BY <2>1, ModifiersLeave DEF Typed, AreOps, LeavesPacking
  <2> HIDE DEF changed
  <2>3. Values(header, Encoding) = Values(changed, Encoding)
    BY AddLeaves DEF Encoding
  <2> HIDE DEF header, code
  <2>4. y.header = header /\ y.modifiers = x.modifiers
    BY DEF WriterFields
  <2>5. WriteHeader(x, r, status) = y
    BY <1>2 DEF WriteHeader, header, changed, decided, code
  <2> HIDE DEF y
  <2> QED
    BY <2>1, <2>2, <2>3, <2>4, <2>5
<1> QED
  BY <1>1, <1>2

LEMMA PlainWriteHeader ==
    ASSUME NEW x, DOMAIN x = WriterFields, AreOps(x.modifiers), PlainWriter(x), NEW r, NEW status
    PROVE  PlainWriter(WriteHeader(x, r, status))
  BY EncodingWritten, ListEmpty DEF PlainWriter, Typed

LEMMA PlainSwitchProtocols ==
    ASSUME NEW x, IsWriter(x), PlainWriter(x), NEW r, NEW res, Values(res.header, Encoding) = << >>
    PROVE  PlainWriter(SwitchProtocols(x, r, res)) /\ SwitchProtocols(x, r, res).hijacked = TRUE
<1> DEFINE h == copyHeader(x.header, res.header)
           y == [x EXCEPT !.hijacked = TRUE, !.header = copyHeader(@, res.header)]
<1>1. DOMAIN y = DOMAIN x /\ y.modifiers = x.modifiers /\ y.header = h /\ y.hijacked = TRUE
  BY DEF IsWriter, WriterFields
<1>2. SwitchProtocols(x, r, res) = WriteHeader(y, r, res.status)
  BY DEF SwitchProtocols
<1>3. Values(h, Encoding) = << >>
  <2>1. << >> \o << >> = << >>
    OBVIOUS
  <2> QED
    BY <2>1, ValuesCopy DEF PlainWriter
<1> HIDE DEF h, y
<1>4. DOMAIN y = WriterFields /\ AreOps(y.modifiers) /\ PlainWriter(y)
  BY <1>1, <1>3 DEF IsWriter, PlainWriter
<1> QED
  BY <1>1, <1>2, <1>4, PlainWriteHeader, WrittenFields

LEMMA PlainWebsockets ==
    ASSUME NEW x, IsWriter(x), PlainWriter(x), NEW p, IsProducer(p), PassesEncoding(p), NEW r
    PROVE  LET y == registerWebsocketsResponse(p, r, x)
           IN  PlainWriter(y) /\ y.status = x.status /\ y.hijacked = x.hijacked
<1> DEFINE a == getWebsocketsBody(p).response
           b == Context(p).response
<1>1. Encoding \notin Touched(a) /\ Encoding \notin Touched(b) /\ AreOps(<<a, b>>)
  BY OpsPair DEF PassesEncoding, LeavesEncoding, IsProducer, IsContext
<1>2. registerWebsocketsResponse(p, r, x) \in {x, AddModifiers(x, <<a, b>>)}
  BY DEF registerWebsocketsResponse
<1> HIDE DEF a, b
<1>3. LeavesPacking(<<a, b>>)
  <2>1. <<a, b>> \in Seq({a, b})
    OBVIOUS
  <2>2. ToSet(<<a, b>>) \subseteq {a, b}
    BY <2>1, SeqValues
  <2> QED
    BY <1>1, <2>2 DEF LeavesPacking
<1> QED
  BY <1>1, <1>2, <1>3, PlainAddModifiers DEF AreOps

(* Gzip packs what is not packed, and says so.                             *)
LEMMA MatchesSent ==
    ASSUME NEW x, NEW length, NEW gzips, length # 0 => gzips = IF Get(x.header, Encoding) = "gzip" THEN 1 ELSE 0
    PROVE  SaysPacked(Sent(x, length, gzips))
<1> DEFINE varied == IF length >= minCompressBodyLength THEN Add(x.header, "Vary", "Accept-Encoding") ELSE x.header
           packed == Set(Del(varied, {"Content-Length"}), Encoding, "gzip")
           status == x.status
           final   == Sent(x, length, gzips)
<1>1. Values(varied, Encoding) = Values(x.header, Encoding)
  BY AddLeaves DEF Encoding
<1>2. Values(packed, Encoding) = <<"gzip">>
  BY ValuesSet
<1>3. final = IF Compresses(x, length) THEN Response(status, packed, length, gzips + 1) ELSE Response(status, varied, length, gzips)
  BY DEF Sent, Encoding
<1> HIDE DEF varied, packed, status, final
<1>4. CASE Compresses(x, length)
  <2>1. final.header = packed /\ final.length = length /\ final.gzips = gzips + 1
    BY <1>3, <1>4 DEF Response
  <2>2. Get(x.header, Encoding) # "gzip"
    BY <1>4 DEF Compresses, Encoding
  <2>3. Get(packed, Encoding) = "gzip"
    BY <1>2 DEF Get
  <2>4. SaysPacked(final)
    BY <2>1, <2>2, <2>3 DEF SaysPacked
  <2> QED
    BY <2>4 DEF final
<1>5. CASE ~Compresses(x, length)
  <2>1. final.header = varied /\ final.length = length /\ final.gzips = gzips
    BY <1>3, <1>5 DEF Response
  <2>2. Get(varied, Encoding) = Get(x.header, Encoding)
    BY <1>1 DEF Get
  <2>3. SaysPacked(final)
    BY <2>1, <2>2 DEF SaysPacked
  <2> QED
    BY <2>3 DEF final
<1> QED
  BY <1>4, <1>5

LEMMA PlainSent == ASSUME NEW x, PlainWriter(x), NEW length PROVE SaysPacked(Sent(x, length, 0))
<1>1. Get(x.header, Encoding) # "gzip"
  BY DEF PlainWriter, Get
<1> QED
  BY <1>1, MatchesSent

LEMMA PlainWritten ==
    ASSUME NEW x, IsWriter(x), PlainWriter(x), NEW r, NEW status, NEW length
    PROVE  SaysPacked(Sent(WriteHeader(x, r, status), length, 0))
  BY PlainWriteHeader, PlainSent DEF IsWriter

-------------------------------------------------------------------------------
(* The request that a proxy sends                                          *)

LEMMA ContextHeader ==
    ASSUME NEW body, NEW r, DOMAIN r = RequestFields
    PROVE  LET s == ApplyRequestContext(body, r)
               h == applyHeaderOps(body.request, r.header)
           IN  /\ DOMAIN s = RequestFields /\ s.header \in {h, Set(h, "Content-Length", "encoded")}
               /\ s.websockets = r.websockets
<1> DEFINE h == applyHeaderOps(body.request, r.header)
           path  == evalPathAttr(body, r)
           query == applyHeaderOps(body.query, r.query)
           t == [r EXCEPT !.path = path, !.header = h, !.query = query]
<1>1. DOMAIN t = RequestFields /\ t.header = h /\ t.websockets = r.websockets
  BY DEF RequestFields
<1>2. ApplyRequestContext(body, r) = getFormParams(body.form, t)
  BY DEF ApplyRequestContext
<1> HIDE DEF t, h
<1> DEFINE form == applyHeaderOps(body.form, t.form)
           g == Set(h, "Content-Length", "encoded")
           u == [t EXCEPT !.form = form, !.header = g]
<1>3. DOMAIN u = RequestFields /\ u.header = g /\ u.websockets = r.websockets
  BY <1>1 DEF RequestFields
<1>4. getFormParams(body.form, t) \in {t, u}
  BY <1>1 DEF getFormParams
<1> HIDE DEF u, g
<1>5. /\ DOMAIN getFormParams(body.form, t) = RequestFields /\ getFormParams(body.form, t).header \in {h, g}
      /\ getFormParams(body.form, t).websockets = r.websockets
  BY <1>1, <1>3, <1>4
<1> QED
  BY <1>2, <1>5 DEF h, g

(* Without modifiers for Origin the request asks as it did, or not at all. *)
LEMMA ContextAsks ==
    ASSUME NEW body, NEW r, DOMAIN r = RequestFields, NEW asks, ComesFrom(r, asks),
           "Origin" \notin DOMAIN body.request.set \cup DOMAIN body.request.add
    PROVE  DOMAIN ApplyRequestContext(body, r) = RequestFields /\ ComesFrom(ApplyRequestContext(body, r), asks)
<1> DEFINE ops   == body.request
           h     == applyHeaderOps(ops, r.header)
           first == Over(Given(ops.set), Del(r.header, ops.del))
           s     == ApplyRequestContext(body, r)
<1>1. "Origin" \notin DOMAIN Given(ops.set) /\ "Origin" \notin DOMAIN Given(ops.add)
  BY DEF Given, Del
<1>2. Values(first, "Origin") \in {<< >>, Values(r.header, "Origin")}
  BY <1>1 DEF Over, Values, Del
<1> HIDE DEF first
<1>3. Values(h, "Origin") = Values(first, "Origin") \o << >>
  <2>1. Values(h, "Origin") = Values(first, "Origin") \o Values(Given(ops.add), "Origin")
    BY ValuesCopy DEF applyHeaderOps, first
  <2> QED
    BY <1>1, <2>1 DEF Values
<1> HIDE DEF h
<1>4. Values(h, "Origin") \in {<< >>, Values(r.header, "Origin")}
  <2>1. IsList(Values(r.header, "Origin")) /\ IsList(<< >>)
    BY ListEmpty DEF ComesFrom, Typed
  <2>2. \A v : IsList(v) => v \o << >> = v
    BY DEF IsList
  <2> QED
    BY <1>2, <1>3, <2>1, <2>2
<1>5. s.header \in {h, Set(h, "Content-Length", "encoded")} /\ DOMAIN s = RequestFields
  BY ContextHeader DEF h
<1>6. Values(Set(h, "Content-Length", "encoded"), "Origin") = Values(h, "Origin")
  BY SetLeaves
<1>7. Values(s.header, "Origin") \in {<< >>, Values(r.header, "Origin")}
  BY <1>4, <1>5, <1>6
<1> HIDE DEF s
<1>8. ComesFrom(s, asks)
  BY <1>7, ListEmpty DEF ComesFrom, Typed, Get
<1> QED
  BY <1>5, <1>8 DEF s

(* Only a proxy that allows websockets asks for an upgrade. *)
LEMMA UpgradesAllowed ==
    ASSUME NEW p, NEW r, DOMAIN r = RequestFields, IsUpgradeRequest(ProxyRequest(p, r))
    PROVE  AllowsWebsockets(p)
<1> DEFINE path    == NewURL(p, r)
           outreq0 == [r EXCEPT !.path = path, !.header = Del(@, headerBlacklist)]
           first   == ApplyRequestContext(Context(p), outreq0)
           allows  == AllowsWebsockets(p)
           allowed == [first EXCEPT !.websockets = allows]
           ws      == getWebsocketsBody(p)
           second  == ApplyRequestContext(ws, allowed)
           applied == applyWebsocketsRequest(p, first)
<1>1. DOMAIN outreq0 = RequestFields
  BY DEF RequestFields
<1> HIDE DEF outreq0
<1>2. DOMAIN first = RequestFields
  BY <1>1, ContextHeader
<1> HIDE DEF first, allows
<1>3. DOMAIN allowed = RequestFields /\ allowed.websockets = allows
  BY <1>2 DEF RequestFields
<1>4. applied \in {allowed, second}
  BY DEF applyWebsocketsRequest, allows
<1> HIDE DEF allowed, ws
<1>5. DOMAIN second = RequestFields /\ second.websockets = allows
  BY <1>3, ContextHeader
<1> HIDE DEF second, applied
<1>6. DOMAIN applied = RequestFields /\ applied.websockets = allows
  BY <1>3, <1>4, <1>5
<1>7. \E h : ProxyRequest(p, r) = [applied EXCEPT !.header = h]
  BY DEF ProxyRequest, applied, first, outreq0
<1>8. PICK h : ProxyRequest(p, r) = [applied EXCEPT !.header = h]
  BY <1>7
<1>9. [applied EXCEPT !.header = h].websockets = applied.websockets
  BY <1>6 DEF RequestFields
<1> QED
  BY <1>6, <1>8, <1>9 DEF IsUpgradeRequest, allows

-------------------------------------------------------------------------------
(* Fields that stay between two hops                                       *)

(* None of these fields is there.                                          *)
Free(fs, h) == fs \cap DOMAIN h = {}

(* The fields a modifier may add to a header.                              *)
Adds(ops)        == DOMAIN ops.set \cup DOMAIN ops.add
FreeOps(fs, ops) == \A o \in ToSet(ops) : fs \cap Adds(o) = {}

(* What Couper says in an answer of its own accord.                        *)
OwnFields ==
    {"Server", "Couper-Error", "Content-Type", "Content-Length", "Vary", "Cache-Control", "Location", "Content-Encoding"}
    \cup CorsHeaders

LEMMA FreeFields ==
    ASSUME NEW fs, NEW h, Free(fs, h)
    PROVE  /\ \A f, v : f \notin fs => Free(fs, Set(h, f, v)) /\ Free(fs, Add(h, f, v))
           /\ \A gs : Free(fs, Del(h, gs))
           /\ \A g : Free(fs, g) => Free(fs, copyHeader(h, g))
<1>1. \A f, vs : DOMAIN Put(h, f, vs) = DOMAIN h \cup {f}
  BY DEF Put
<1>2. ASSUME NEW f, NEW v, f \notin fs PROVE Free(fs, Set(h, f, v)) /\ Free(fs, Add(h, f, v))
  <2> DEFINE vs == Append(Values(h, f), v)
  <2>1. DOMAIN Put(h, f, <<v>>) = DOMAIN h \cup {f} /\ DOMAIN Put(h, f, vs) = DOMAIN h \cup {f}
    BY <1>1
  <2>2. Set(h, f, v) = Put(h, f, <<v>>) /\ Add(h, f, v) = Put(h, f, vs)
    BY DEF Set, Add
  <2> HIDE DEF vs
  <2> QED
    BY <1>2, <2>1, <2>2 DEF Free
<1>3. \A gs : Free(fs, Del(h, gs))
  BY DEF Free, Del
<1>4. \A g : Free(fs, g) => Free(fs, copyHeader(h, g))
  BY DEF Free, copyHeader
<1> QED
  BY <1>2, <1>3, <1>4

LEMMA OpsDomain == ASSUME NEW ops, NEW h PROVE DOMAIN applyHeaderOps(ops, h) \subseteq (DOMAIN h \ ops.del) \cup Adds(ops)
<1> DEFINE first == Over(Given(ops.set), Del(h, ops.del))
<1>1. DOMAIN Given(ops.set) \subseteq DOMAIN ops.set /\ DOMAIN Given(ops.add) \subseteq DOMAIN ops.add
  BY DEF Given, Del
<1>2. DOMAIN first = DOMAIN Given(ops.set) \cup (DOMAIN h \ ops.del)
  BY DEF Over, Del
<1>3. applyHeaderOps(ops, h) = copyHeader(first, Given(ops.add))
  BY DEF applyHeaderOps
<1> HIDE DEF first
<1>4. DOMAIN copyHeader(first, Given(ops.add)) = DOMAIN first \cup DOMAIN Given(ops.add)
  BY DEF copyHeader
<1> QED
  BY <1>1, <1>2, <1>3, <1>4 DEF Adds

LEMMA FreeApplied ==
    ASSUME NEW fs, NEW h, Free(fs, h), NEW ops, fs \cap Adds(ops) = {}
    PROVE  Free(fs, applyHeaderOps(ops, h))
  BY OpsDomain DEF Free

LEMMA FreeModifiers ==
    ASSUME NEW fs, NEW x, IsList(x.modifiers), FreeOps(fs, x.modifiers), NEW h, Free(fs, h)
    PROVE  Free(fs, applyModifiers(x, h))
<1> DEFINE N == Len(x.modifiers)
<1>1. N \in Nat /\ \A n \in 1 .. N : fs \cap Adds(x.modifiers[n]) = {}
  BY EveryModifier DEF FreeOps
<1>0. Len(x.modifiers) \in Nat
  BY <1>1
<1>2. PICK applied : /\ applied[0] = h /\ applyModifiers(x, h) = applied[N]
                     /\ \A n \in 0 .. N - 1 : applied[n + 1] = applyHeaderOps(x.modifiers[n + 1], applied[n])
  BY <1>0, AppliedModifiers
<1> DEFINE S == {n \in Nat : n <= N => Free(fs, applied[n])}
<1>3. 0 \in S
  BY <1>2
<1>4. ASSUME NEW n \in Nat, n \in S PROVE n + 1 \in S
  <2>1. n + 1 <= N => /\ applied[n + 1] = applyHeaderOps(x.modifiers[n + 1], applied[n])
                      /\ Free(fs, applied[n]) /\ fs \cap Adds(x.modifiers[n + 1]) = {}
    BY <1>1, <1>2, <1>4
  <2> QED
    BY <2>1, FreeApplied
<1>5. Nat \subseteq S
  <2> HIDE DEF S
  <2> QED
    BY <1>3, <1>4, SetInduction
<1> QED
  BY <1>1, <1>2, <1>5

LEMMA FreePreflight ==
    ASSUME NEW fs, fs \cap OwnFields = {}, NEW cors, NEW methods, NEW r, NEW h, Free(fs, h)
    PROVE  Free(fs, PreflightHeaders(cors, methods, r, h))
<1> DEFINE method  == Get(r.header, "Access-Control-Request-Method")
           headers == Get(r.header, "Access-Control-Request-Headers")
           age     == IF cors.maxAge = "" THEN h ELSE Set(h, "Access-Control-Max-Age", cors.maxAge)
           allow   == Set(age, "Access-Control-Allow-Headers", headers)
           named   == IF headers = "" THEN age ELSE Add(allow, "Vary", "Access-Control-Request-Headers")
           varies  == IF method = "" THEN named ELSE Add(named, "Vary", "Access-Control-Request-Method")
<1>1. {"Access-Control-Max-Age", "Access-Control-Allow-Headers", "Access-Control-Allow-Methods", "Vary"} \cap fs = {}
  BY DEF OwnFields, CorsHeaders
<1>2. Free(fs, age)
  BY <1>1, FreeFields
<1> HIDE DEF age
<1>3. Free(fs, allow)
  BY <1>1, <1>2, FreeFields
<1> HIDE DEF allow
<1>4. Free(fs, named)
  BY <1>1, <1>2, <1>3, FreeFields
<1> HIDE DEF named
<1>5. Free(fs, varies)
  BY <1>1, <1>4, FreeFields
<1>6. PreflightHeaders(cors, methods, r, h) =
        IF method \in methods THEN Set(varies, "Access-Control-Allow-Methods", method) ELSE varies
  BY Zenon DEF PreflightHeaders, varies, named, allow, age
<1> HIDE DEF varies, method
<1> QED
  BY <1>1, <1>5, <1>6, FreeFields

LEMMA FreeCors ==
    ASSUME NEW fs, fs \cap OwnFields = {}, NEW cors, NEW methods, NEW r, NEW h, Free(fs, h)
    PROVE  Free(fs, setCorsRespHeaders(cors, methods, r, h))
<1> DEFINE any      == AllowsOrigin(cors, "*") /\ ~cors.credentials
           origin   == Get(r.header, "Origin")
           g        == OurCorsHeaders(h)
           first    == IF any THEN Set(g, "Access-Control-Allow-Origin", "*") ELSE Add(g, "Vary", "Origin")
           specific == IF any THEN first ELSE Set(first, "Access-Control-Allow-Origin", origin)
           allowed  == IF cors.credentials THEN Set(specific, "Access-Control-Allow-Credentials", "true") ELSE specific
<1>1. {"Access-Control-Allow-Origin", "Access-Control-Allow-Credentials", "Vary"} \cap fs = {}
  BY DEF OwnFields, CorsHeaders
<1>2. Free(fs, g)
  BY FreeFields DEF OurCorsHeaders
<1>3. setCorsRespHeaders(cors, methods, r, h) \in {first, allowed, PreflightHeaders(cors, methods, r, allowed)}
  BY DEF setCorsRespHeaders
<1> HIDE DEF g, any, origin
<1>4. Free(fs, first)
  BY <1>1, <1>2, FreeFields
<1> HIDE DEF first
<1>5. Free(fs, specific)
  BY <1>1, <1>4, FreeFields
<1> HIDE DEF specific
<1>6. Free(fs, allowed)
  BY <1>1, <1>5, FreeFields
<1> HIDE DEF allowed
<1> QED
  BY <1>3, <1>4, <1>6, FreePreflight

(* A writer without them, whose modifiers add none.                        *)
FreeWriter(fs, x) == Free(fs, x.header) /\ FreeOps(fs, x.modifiers)

LEMMA FreeWithHeader ==
    ASSUME NEW fs, NEW x, IsWriter(x), FreeWriter(fs, x), NEW h, Free(fs, h)
    PROVE  FreeWriter(fs, WithHeader(x, h)) /\ WithHeader(x, h).hijacked = x.hijacked
<1>1. CASE x.status # 0
  BY <1>1 DEF WithHeader
<1>2. CASE x.status = 0
  <2> DEFINE y == [x EXCEPT !.header = h]
  <2>1. y.header = h /\ y.modifiers = x.modifiers /\ y.hijacked = x.hijacked
    BY DEF IsWriter, WriterFields
  <2>2. WithHeader(x, h) = y
    BY <1>2 DEF WithHeader
  <2> HIDE DEF y
  <2> QED
    BY <2>1, <2>2 DEF FreeWriter
<1> QED
  BY <1>1, <1>2

LEMMA FreeSetHeader ==
    ASSUME NEW fs, NEW x, IsWriter(x), FreeWriter(fs, x), NEW f, f \notin fs, NEW v
    PROVE  FreeWriter(fs, SetHeader(x, f, v)) /\ SetHeader(x, f, v).hijacked = x.hijacked
<1>1. Free(fs, Set(x.header, f, v))
  BY FreeFields DEF FreeWriter
<1> QED
  BY <1>1, FreeWithHeader DEF SetHeader

LEMMA FreeAddModifiers ==
    ASSUME NEW fs, NEW x, IsWriter(x), FreeWriter(fs, x), NEW ops, IsList(ops), FreeOps(fs, ops)
    PROVE  FreeWriter(fs, AddModifiers(x, ops)) /\ AddModifiers(x, ops).hijacked = x.hijacked
<1> DEFINE y == [x EXCEPT !.modifiers = @ \o ops]
<1>1. y.header = x.header /\ y.modifiers = x.modifiers \o ops /\ y.hijacked = x.hijacked
  BY DEF IsWriter, WriterFields
<1>2. FreeOps(fs, x.modifiers \o ops)
  BY ListConcat DEF IsWriter, AreOps, FreeWriter, FreeOps
<1>3. AddModifiers(x, ops) = y
  BY DEF AddModifiers
<1> HIDE DEF y
<1> QED
  BY <1>1, <1>2, <1>3 DEF FreeWriter

LEMMA FreeAdds ==
    ASSUME NEW fs, NEW x, IsWriter(x), FreeWriter(fs, x), NEW cors, NEW methods,
           NEW y, y \in {AddPrivateCC(x), AddCORS(x, cors, methods)}
    PROVE  FreeWriter(fs, y) /\ y.hijacked = x.hijacked
<1> DEFINE new == <<[options |-> cors, methods |-> methods]>>
           a   == [x EXCEPT !.private = TRUE]
           b   == [x EXCEPT !.cors = new]
<1>1. /\ a.header = x.header /\ a.modifiers = x.modifiers /\ a.hijacked = x.hijacked
      /\ b.header = x.header /\ b.modifiers = x.modifiers /\ b.hijacked = x.hijacked
  <2> HIDE DEF new
  <2> QED
    BY DEF IsWriter, WriterFields
<1>2. y \in {a, b}
  BY DEF AddPrivateCC, AddCORS
<1> HIDE DEF a, b
<1> QED
  BY <1>1, <1>2 DEF FreeWriter

LEMMA FreeWriteHeader ==
    ASSUME NEW fs, fs \cap OwnFields = {}, NEW x, IsWriter(x), FreeWriter(fs, x), NEW r, NEW status
    PROVE  FreeWriter(fs, WriteHeader(x, r, status)) /\ WriteHeader(x, r, status).hijacked = x.hijacked
<1>1. CASE x.status # 0
  BY <1>1 DEF WriteHeader
<1>2. CASE x.status = 0
  <2> DEFINE named   == Set(x.header, "Server", "couper.io")
             own     == configureHeader(x)
             decided == applyHeaderModifiers(x, r, own)
             changed == applyModifiers(x, decided)
             header  == IF x.private THEN Add(changed, "Cache-Control", "private") ELSE changed
             code    == IF status = 0 THEN 500 ELSE status
             y       == [x EXCEPT !.header = header, !.status = code]
  <2>1. "Server" \notin fs /\ "Cache-Control" \notin fs
    BY DEF OwnFields
  <2>2. Free(fs, named)
    BY <2>1, FreeFields DEF FreeWriter
  <2>3. own \in {named, stripSecureCookies(named)}
    BY DEF configureHeader
  <2> HIDE DEF named, own
  <2>4. Free(fs, own)
    BY <2>2, <2>3 DEF Free, stripSecureCookies
  <2>5. Free(fs, decided)
    BY <2>4, FreeCors DEF applyHeaderModifiers
  <2> HIDE DEF decided
  <2>6. Free(fs, changed)
    BY <2>5, FreeModifiers DEF FreeWriter, IsWriter, AreOps
  <2> HIDE DEF changed
  <2>7. Free(fs, header)
    BY <2>1, <2>6, FreeFields
  <2> HIDE DEF header, code
  <2>8. y.header = header /\ y.modifiers = x.modifiers /\ y.hijacked = x.hijacked
    BY DEF IsWriter, WriterFields
  <2>9. WriteHeader(x, r, status) = y
    BY <1>2 DEF WriteHeader, header, changed, decided, own, code
  <2> HIDE DEF y
  <2> QED
    BY <2>7, <2>8, <2>9 DEF FreeWriter
<1> QED
  BY <1>1, <1>2

LEMMA FreeWebsockets ==
    ASSUME NEW fs, NEW x, IsWriter(x), FreeWriter(fs, x), NEW p, IsProducer(p), NEW r,
           fs \cap Adds(getWebsocketsBody(p).response) = {}, fs \cap Adds(Context(p).response) = {}
    PROVE  LET y == registerWebsocketsResponse(p, r, x) IN FreeWriter(fs, y) /\ y.hijacked = x.hijacked
<1> DEFINE a == getWebsocketsBody(p).response
           b == Context(p).response
<1>1. fs \cap Adds(a) = {} /\ fs \cap Adds(b) = {} /\ AreOps(<<a, b>>)
  BY OpsPair DEF IsProducer, IsContext
<1>2. registerWebsocketsResponse(p, r, x) \in {x, AddModifiers(x, <<a, b>>)}
  BY DEF registerWebsocketsResponse
<1> HIDE DEF a, b
<1>3. FreeOps(fs, <<a, b>>)
  <2>1. <<a, b>> \in Seq({a, b})
    OBVIOUS
  <2>2. ToSet(<<a, b>>) \subseteq {a, b}
    BY <2>1, SeqValues
  <2> QED
    BY <1>1, <2>2 DEF FreeOps
<1> QED
  BY <1>1, <1>2, <1>3, FreeAddModifiers DEF AreOps

LEMMA FreeSent ==
    ASSUME NEW fs, fs \cap OwnFields = {}, NEW x, FreeWriter(fs, x), NEW length, NEW gzips
    PROVE  Free(fs, Sent(x, length, gzips).header)
<1> DEFINE varied == IF length >= minCompressBodyLength THEN Add(x.header, "Vary", "Accept-Encoding") ELSE x.header
           short  == Del(varied, {"Content-Length"})
           packed == Set(short, "Content-Encoding", "gzip")
<1>1. "Vary" \notin fs /\ "Content-Encoding" \notin fs
  BY DEF OwnFields
<1>2. Free(fs, varied)
  BY <1>1, FreeFields DEF FreeWriter
<1>3. Sent(x, length, gzips).header \in {varied, packed}
  BY DEF Sent, Response
<1> HIDE DEF varied
<1>4. Free(fs, short)
  BY <1>2, FreeFields
<1> HIDE DEF short
<1>5. Free(fs, packed)
  BY <1>1, <1>4, FreeFields
<1> HIDE DEF packed
<1> QED
  BY <1>2, <1>3, <1>5

LEMMA FreeWritten ==
    ASSUME NEW fs, fs \cap OwnFields = {}, NEW x, IsWriter(x), FreeWriter(fs, x), NEW r, NEW status, NEW length, NEW gzips
    PROVE  Free(fs, Sent(WriteHeader(x, r, status), length, gzips).header)
  BY FreeWriteHeader, FreeSent

(* Of these fields the header has none but those of its own hop, which     *)
(* RemoveAllHopHeaders finds.                                              *)
Recognised(fs, h) ==
    \A f \in fs \cap DOMAIN h :
        \/ f \in ToSet(Values(h, "Connection"))
        \/ f \in HopHeaders /\ Get(h, f) # "" /\ ~(f = "Te" /\ Get(h, f) = "trailers")

LEMMA HopsRemoved ==
    ASSUME NEW fs, NEW h, Recognised(fs, h)
    PROVE  Free(fs, RemoveAllHopHeaders(h))
<1> DEFINE named == ToSet(Values(h, "Connection"))
           g     == Del(h, named)
           hops  == {f \in HopHeaders : Get(g, f) # "" /\ ~(f = "Te" /\ Get(g, f) = "trailers")}
<1>1. RemoveAllHopHeaders(h) = Del(g, hops)
  BY DEF RemoveAllHopHeaders, RemoveHopHeaders, RemoveConnectionHeaders
<1>2. ASSUME NEW f \in fs, f \in DOMAIN h, f \notin named PROVE f \in hops
  <2>1. Values(g, f) = Values(h, f)
    BY <1>2, ValuesDel
  <2>2. Get(g, f) = Get(h, f)
    BY <2>1 DEF Get
  <2> HIDE DEF g
  <2> QED
    BY <1>2, <2>2 DEF Recognised
<1> HIDE DEF hops
<1>3. DOMAIN Del(g, hops) = (DOMAIN h \ named) \ hops
  BY DEF Del
<1> HIDE DEF named, g
<1> QED
  BY <1>1, <1>2, <1>3 DEF Free

LEMMA RecognisedDel ==
    ASSUME NEW fs, NEW h, Recognised(fs, h), NEW gs, "Connection" \notin gs
    PROVE  Recognised(fs, Del(h, gs))
<1>1. Values(Del(h, gs), "Connection") = Values(h, "Connection") /\ DOMAIN Del(h, gs) = DOMAIN h \ gs
  BY ValuesDel DEF Del
<1>2. \A f \in DOMAIN h \ gs : Get(Del(h, gs), f) = Get(h, f)
  BY ValuesDel DEF Get
<1> QED
  BY <1>1, <1>2 DEF Recognised

LEMMA RecognisedOps ==
    ASSUME NEW fs, "Connection" \in fs, NEW ops, fs \cap Adds(ops) = {}, "Connection" \notin ops.del,
           NEW h, \A f : Typed(h, f), Recognised(fs, h)
    PROVE  Recognised(fs, applyHeaderOps(ops, h))
<1> DEFINE g == applyHeaderOps(ops, h)
<1>1. DOMAIN g \subseteq (DOMAIN h \ ops.del) \cup Adds(ops)
  BY OpsDomain
<1>2. \A f \in fs : f \notin ops.del => Values(g, f) = Values(h, f)
  BY OpsLeave DEF Touched, Adds
<1> HIDE DEF g
<1>3. \A f \in fs \cap DOMAIN g : f \in DOMAIN h /\ Values(g, f) = Values(h, f)
  BY <1>1, <1>2
<1>4. Values(g, "Connection") = Values(h, "Connection")
  BY <1>2
<1>5. \A f \in fs \cap DOMAIN g : Get(g, f) = Get(h, f)
  BY <1>3 DEF Get
<1>6. Recognised(fs, g)
  BY <1>3, <1>4, <1>5 DEF Recognised
<1> QED
  BY <1>6 DEF g

(* What a body of attributes makes of the header of an answer.             *)
LEMMA ContextChanges ==
    ASSUME NEW body, NEW r, NEW x, IsAnswer(x)
    PROVE  LET h == applyHeaderOps(body.response, x.header)
           IN  ApplyResponseContext(body, r, x).header \in {h, Del(h, {"Content-Length"})}
<1> DEFINE h == applyHeaderOps(body.response, x.header)
           y == [x EXCEPT !.header = applyHeaderOps(body.response, @)]
           z == [y EXCEPT !.status = 204, !.length = 0, !.gzips = 0, !.header = Del(@, {"Content-Length"})]
           u == [y EXCEPT !.status = body.status]
<1>1. DOMAIN y = DOMAIN x /\ y.header = h
  BY DEF IsAnswer
<1>2. ApplyResponseContext(body, r, x) \in {y, z, u}
  BY DEF ApplyResponseContext, ApplyResponseStatus
<1> HIDE DEF h, y
<1>3. z.header = Del(h, {"Content-Length"}) /\ u.header = h
  BY <1>1 DEF IsAnswer
<1> HIDE DEF z, u
<1>4. ApplyResponseContext(body, r, x).header \in {h, Del(h, {"Content-Length"})}
  BY <1>1, <1>2, <1>3
<1> QED
  BY <1>4 DEF h

LEMMA FreeContext ==
    ASSUME NEW fs, NEW body, fs \cap Adds(body.response) = {}, NEW r, NEW x, IsAnswer(x), Free(fs, x.header)
    PROVE  Free(fs, ApplyResponseContext(body, r, x).header)
<1> DEFINE h == applyHeaderOps(body.response, x.header)
<1>1. Free(fs, h)
  BY FreeApplied
<1>2. ApplyResponseContext(body, r, x).header \in {h, Del(h, {"Content-Length"})}
  BY ContextChanges
<1> HIDE DEF h
<1> QED
  BY <1>1, <1>2, FreeFields

LEMMA RecognisedContext ==
    ASSUME NEW fs, "Connection" \in fs, NEW body, fs \cap Adds(body.response) = {}, "Connection" \notin body.response.del,
           NEW r, NEW x, IsAnswer(x), Recognised(fs, x.header)
    PROVE  Recognised(fs, ApplyResponseContext(body, r, x).header)
<1> DEFINE h == applyHeaderOps(body.response, x.header)
<1>1. Recognised(fs, h)
  BY RecognisedOps DEF IsAnswer
<1>2. ApplyResponseContext(body, r, x).header \in {h, Del(h, {"Content-Length"})}
  BY ContextChanges
<1> HIDE DEF h
<1> QED
  BY <1>1, <1>2, RecognisedDel

(* The producer, its backend and its websockets add none of these fields   *)
(* to an answer, and the backend leaves the list of those for one hop.     *)
AnswersHops(fs, p) ==
    /\ \A ops \in {Context(p).response, Context(BackendOf(p)).response, getWebsocketsBody(p).response} :
          fs \cap Adds(ops) = {}
    /\ "Connection" \notin Context(BackendOf(p)).response.del

(* Only the answer of a proxy that upgrades keeps them.                    *)
LEMMA FreeAnswered ==
    ASSUME NEW fs, "Connection" \in fs, NEW p, IsProducer(p), AnswersHops(fs, p), NEW bufs, NEW out,
           NEW res, IsAnswer(res), Recognised(fs, res.header), ~IsProxy(p) \/ Answered(p, bufs, out, res).status # 101
    PROVE  Free(fs, Answered(p, bufs, out, res).header)
<1> DEFINE backend  == BackendOf(p)
           unpacked == IF IsUpgradeResponse(out, res) THEN res ELSE setGzipReader(bufs, res)
           stripped == [unpacked EXCEPT !.header = RemoveAllHopHeaders(@)]
           x        == IF IsProxy(p) THEN unpacked ELSE stripped
           reply    == BackendResponse(backend, IsProxy(p), bufs, out, res)
<1>1. IsAnswer(unpacked) /\ Recognised(fs, unpacked.header)
  <2> DEFINE y == [res EXCEPT !.gzips = @ - 1, !.header = Del(@, {"Content-Encoding", "Content-Length"})]
  <2>1. y.header = Del(res.header, {"Content-Encoding", "Content-Length"})
    BY DEF IsAnswer
  <2>2. setGzipReader(bufs, res) \in {res, y}
    BY DEF setGzipReader
  <2> HIDE DEF y
  <2> QED
    BY <2>1, <2>2, GzipAnswer, RecognisedDel
<1> HIDE DEF unpacked
<1>2. ASSUME NEW y, IsAnswer(y), Recognised(fs, y.header)
      PROVE  LET z == [y EXCEPT !.header = RemoveAllHopHeaders(@)] IN IsAnswer(z) /\ Free(fs, z.header)
  <2> DEFINE z == [y EXCEPT !.header = RemoveAllHopHeaders(@)]
  <2>1. IsAnswer(z) /\ z.header = RemoveAllHopHeaders(y.header)
    BY <1>2, HopsAnswer DEF IsAnswer
  <2> QED
    BY <1>2, <2>1, HopsRemoved
<1>3. IsAnswer(stripped) /\ Free(fs, stripped.header)
  BY <1>1, <1>2
<1> HIDE DEF stripped
<1>4. reply = ApplyResponseContext(Context(backend), out, x)
  BY DEF BackendResponse, x, unpacked, stripped
<1>5. /\ fs \cap Adds(Context(backend).response) = {} /\ fs \cap Adds(Context(p).response) = {}
      /\ "Connection" \notin Context(backend).response.del /\ IsContext(Context(backend)) /\ IsContext(Context(p))
  BY DEF AnswersHops, IsProducer
<1>6. CASE ~IsProxy(p)
  <2>1. Answered(p, bufs, out, res) = ApplyResponseContext(Context(backend), out, stripped)
    BY <1>4, <1>6 DEF Answered
  <2> QED
    BY <1>3, <1>5, <2>1, FreeContext
<1>7. CASE IsProxy(p)
  <2>1. x = unpacked
    BY <1>7
  <2> HIDE DEF x
  <2>2. IsAnswer(reply) /\ Recognised(fs, reply.header)
    BY <1>1, <1>4, <1>5, <2>1, ContextAnswer, RecognisedContext
  <2>3. Answered(p, bufs, out, res) = ProxyResponse(p, out, reply)
    BY <1>7 DEF Answered
  <2> HIDE DEF reply
  <2> DEFINE z == [reply EXCEPT !.header = RemoveAllHopHeaders(@)]
  <2>4. IsAnswer(z) /\ Free(fs, z.header)
    BY <1>2, <2>2
  <2>5. ProxyResponse(p, out, reply) = ApplyResponseContext(Context(p), out, z)
    BY DEF ProxyResponse
  <2> HIDE DEF z
  <2> QED
    BY <1>5, <2>3, <2>4, <2>5, FreeContext
<1> QED
  BY <1>6, <1>7

(* What Couper says in a request of its own accord.                        *)
SentFields ==
    {"Content-Type", "Content-Length", "Accept-Encoding", "X-Forwarded-For", "Authorization", "User-Agent"}

(* A proxy leaves the list of the fields for one hop, a request and every  *)
(* backend add none of them.                                               *)
SendsHops(fs, p) ==
    /\ IF IsProxy(p) THEN "Connection" \notin Touched(Context(p).request) ELSE fs \cap Adds(Context(p).request) = {}
    /\ fs \cap Adds(Context(BackendOf(p)).request) = {}

LEMMA FreeRequested ==
    ASSUME NEW fs, "Content-Length" \notin fs, NEW body, fs \cap Adds(body.request) = {},
           NEW r, DOMAIN r = RequestFields, Free(fs, r.header)
    PROVE  LET s == ApplyRequestContext(body, r)
           IN  DOMAIN s = RequestFields /\ Free(fs, s.header) /\ s.websockets = r.websockets
<1> DEFINE s == ApplyRequestContext(body, r)
           h == applyHeaderOps(body.request, r.header)
<1>1. DOMAIN s = RequestFields /\ s.header \in {h, Set(h, "Content-Length", "encoded")} /\ s.websockets = r.websockets
  BY ContextHeader
<1>2. Free(fs, h)
  BY FreeApplied
<1> HIDE DEF s, h
<1>3. DOMAIN s = RequestFields /\ Free(fs, s.header) /\ s.websockets = r.websockets
  BY <1>1, <1>2, FreeFields
<1> QED
  BY <1>3 DEF s

LEMMA ContextConnection ==
    ASSUME NEW body, "Connection" \notin Touched(body.request),
           NEW r, DOMAIN r = RequestFields, Typed(r.header, "Connection")
    PROVE  LET s == ApplyRequestContext(body, r)
           IN  /\ DOMAIN s = RequestFields /\ Values(s.header, "Connection") = Values(r.header, "Connection")
               /\ s.websockets = r.websockets
<1> DEFINE s == ApplyRequestContext(body, r)
           h == applyHeaderOps(body.request, r.header)
<1>1. DOMAIN s = RequestFields /\ s.header \in {h, Set(h, "Content-Length", "encoded")} /\ s.websockets = r.websockets
  BY ContextHeader
<1>2. Values(h, "Connection") = Values(r.header, "Connection")
  BY OpsLeave
<1> HIDE DEF s, h
<1>3. /\ DOMAIN s = RequestFields /\ Values(s.header, "Connection") = Values(r.header, "Connection")
      /\ s.websockets = r.websockets
  BY <1>1, <1>2, SetLeaves
<1> QED
  BY <1>3 DEF s

(* Without websockets a proxy leaves at most what an upgrade is asked with, *)
(* which the backend takes away.                                           *)
LEMMA FreeProxied ==
    ASSUME NEW fs, NEW p, "Connection" \notin Touched(Context(p).request),
           NEW r, DOMAIN r = RequestFields, Typed(r.header, "Connection"),
           fs \subseteq HopHeaders \cup ToSet(Values(r.header, "Connection"))
    PROVE  LET s == ProxyRequest(p, r)
           IN  /\ DOMAIN s = RequestFields
               /\ ~s.websockets => Free(fs \ {"Connection", "Upgrade"}, s.header)
<1> DEFINE path    == NewURL(p, r)
           outreq0 == [r EXCEPT !.path = path, !.header = Del(@, headerBlacklist)]
           first   == ApplyRequestContext(Context(p), outreq0)
           allows  == AllowsWebsockets(p)
           allowed == [first EXCEPT !.websockets = allows]
           ws      == getWebsocketsBody(p)
           second  == ApplyRequestContext(ws, allowed)
           applied == applyWebsocketsRequest(p, first)
           named   == Values(r.header, "Connection")
<1>1. DOMAIN outreq0 = RequestFields /\ Values(outreq0.header, "Connection") = named
  <2>1. DOMAIN outreq0 = RequestFields /\ outreq0.header = Del(r.header, headerBlacklist)
    BY DEF RequestFields
  <2> QED
    BY <2>1, ValuesDel DEF headerBlacklist
<1> HIDE DEF outreq0
<1>2. DOMAIN first = RequestFields /\ Values(first.header, "Connection") = named
  BY <1>1, ContextConnection DEF Typed
<1> HIDE DEF first, allows
<1>3. DOMAIN allowed = RequestFields /\ allowed.websockets = allows /\ allowed.header = first.header
  BY <1>2 DEF RequestFields
<1>4. applied = second \/ applied = allowed
  BY DEF applyWebsocketsRequest, allows
<1>5. ~allows => applied = allowed
  BY <1>3 DEF applyWebsocketsRequest, allows, IsUpgradeRequest
<1> HIDE DEF allowed, ws
<1>6. DOMAIN second = RequestFields /\ second.websockets = allows
  BY <1>3, ContextHeader
<1> HIDE DEF second, applied
<1>7. DOMAIN applied = RequestFields /\ applied.websockets = allows
  BY <1>3, <1>4, <1>6
<1>8. ~allows => Values(applied.header, "Connection") = named
  BY <1>2, <1>3, <1>5
<1> DEFINE upgrade == ProxyUpgradeType(applied.header)
           end2end == Del(RemoveConnectionHeaders(applied.header), HopHeaders)
           asks    == Set(Set(end2end, "Connection", "Upgrade"), "Upgrade", upgrade)
           left    == fs \ {"Connection", "Upgrade"}
<1>9. ProxyRequest(p, r) \in {[applied EXCEPT !.header = end2end], [applied EXCEPT !.header = asks]}
  BY DEF ProxyRequest, applied, first, outreq0
<1>10. ~allows => Free(left, end2end)
  <2>1. DOMAIN end2end = (DOMAIN applied.header \ ToSet(Values(applied.header, "Connection"))) \ HopHeaders
    BY DEF RemoveConnectionHeaders, Del
  <2> HIDE DEF end2end
  <2> QED
    BY <1>8, <2>1 DEF Free
<1> HIDE DEF end2end, upgrade
<1>11. ~allows => Free(left, asks)
  <2>1. ~allows => Free(left, Set(end2end, "Connection", "Upgrade"))
    BY <1>10, FreeFields
  <2> QED
    BY <2>1, FreeFields
<1> HIDE DEF asks, left
<1>12. ASSUME NEW h PROVE LET y == [applied EXCEPT !.header = h]
                          IN  DOMAIN y = RequestFields /\ y.header = h /\ y.websockets = allows
  BY <1>7 DEF RequestFields
<1>13. \E h \in {end2end, asks} : ProxyRequest(p, r) = [applied EXCEPT !.header = h]
  BY <1>9
<1>14. PICK h \in {end2end, asks} : ProxyRequest(p, r) = [applied EXCEPT !.header = h]
  BY <1>13
<1>15. /\ DOMAIN ProxyRequest(p, r) = RequestFields /\ ProxyRequest(p, r).header = h
       /\ ProxyRequest(p, r).websockets = allows
  BY <1>12, <1>14
<1>16. ~allows => Free(left, h)
  BY <1>10, <1>11, <1>14
<1> QED
  BY <1>15, <1>16 DEF left

LEMMA FreeRequest ==
    ASSUME NEW fs, {"Content-Type", "Content-Length"} \cap fs = {}, NEW p, fs \cap Adds(Context(p).request) = {},
           NEW r, DOMAIN r = RequestFields
    PROVE  LET s == NewRequest(p, r) IN DOMAIN s = RequestFields /\ Free(fs, s.header)
<1> DEFINE length == Attr(p, "body", 0)
           method == Attr(p, "method", IF length > 0 THEN "POST" ELSE "GET")
           path   == NewURL(p, r)
           h      == IF length > 0 THEN Set(<< >>, "Content-Type", "text/plain") ELSE << >>
           x      == [r EXCEPT !.method = method, !.path = path, !.query = << >>, !.form = << >>, !.length = length,
                               !.header = h]
<1>1. Free(fs, h)
  <2>1. DOMAIN << >> = {}
    OBVIOUS
  <2>2. Free(fs, << >>)
    BY <2>1 DEF Free
  <2>3. Free(fs, Set(<< >>, "Content-Type", "text/plain"))
    BY <2>2, FreeFields
  <2> QED
    BY <2>2, <2>3
<1>2. NewRequest(p, r) = ApplyRequestContext(Context(p), x)
  BY DEF NewRequest
<1> HIDE DEF method, path, h, length
<1>3. DOMAIN x = RequestFields /\ x.header = h
  BY DEF RequestFields
<1> HIDE DEF x
<1> QED
  BY <1>1, <1>2, <1>3, FreeRequested

LEMMA FreeBackend ==
    ASSUME NEW fs, fs \cap SentFields = {}, NEW backend, fs \cap Adds(Context(backend).request) = {}, NEW proxied, NEW xff,
           NEW r, DOMAIN r = RequestFields
    PROVE  LET s == BackendRequest(backend, proxied, xff, r)
           IN  /\ s.websockets = r.websockets
               /\ ~r.websockets /\ Free(fs \ {"Connection", "Upgrade"}, r.header) => Free(fs, s.header)
<1> DEFINE first   == ApplyRequestContext(Context(backend), r)
           path    == JoinPath(backend.attrs["path_prefix"], first.path)
           put     == [first EXCEPT !.path = path]
           applied == withPathPrefix(backend, first)
           left    == fs \ {"Connection", "Upgrade"}
           end2end == IF proxied THEN applied.header ELSE RemoveAllHopHeaders(applied.header)
           encoded == ModifyAcceptEncoding(end2end)
           known   == withXFF(xff, encoded)
           basic   == withBasicAuth(backend, known)
           header  == setUserAgent(basic)
           final   == IF r.websockets THEN header ELSE Del(header, {"Connection", "Upgrade"})
<1>1. DOMAIN first = RequestFields /\ first.websockets = r.websockets
  BY ContextHeader
<1>2. left \cap Adds(Context(backend).request) = {} /\ left \cap SentFields = {} /\ "Content-Length" \notin left
  BY DEF SentFields
<1>3. Free(left, r.header) => Free(left, first.header)
  <2> HIDE DEF left
  <2> QED
    BY <1>2, FreeRequested
<1> HIDE DEF first, left
<1>4. applied \in {first, put}
  BY DEF withPathPrefix
<1> HIDE DEF path
<1>5. DOMAIN put = RequestFields /\ put.websockets = r.websockets /\ put.header = first.header
  BY <1>1 DEF RequestFields
<1> HIDE DEF put, applied
<1>6. DOMAIN applied = RequestFields /\ applied.websockets = r.websockets /\ applied.header = first.header
  BY <1>1, <1>4, <1>5
<1>7. BackendRequest(backend, proxied, xff, r) = [applied EXCEPT !.header = final]
  BY DEF BackendRequest, applied, first
<1>8. ASSUME Free(left, first.header) PROVE Free(left, header)
  <2>1. Free(left, end2end)
    BY <1>6, <1>8, FreeFields DEF RemoveAllHopHeaders, RemoveHopHeaders, RemoveConnectionHeaders
  <2> HIDE DEF end2end
  <2>2. {"Accept-Encoding", "X-Forwarded-For", "Authorization", "User-Agent"} \cap left = {}
    BY <1>2 DEF SentFields
  <2>3. Free(left, encoded)
    BY <2>1, <2>2, FreeFields DEF ModifyAcceptEncoding
  <2> HIDE DEF encoded
  <2>4. Free(left, known)
    BY <2>2, <2>3, FreeFields DEF withXFF
  <2> HIDE DEF known
  <2>5. Free(left, basic)
    <3> DEFINE v == backend.attrs["basic_auth"]
    <3>1. basic \in {known, Set(known, "Authorization", v)}
      BY DEF withBasicAuth
    <3> HIDE DEF basic, v
    <3> QED
      BY <2>2, <2>4, <3>1, FreeFields
  <2> HIDE DEF basic
  <2> QED
    BY <2>2, <2>5, FreeFields DEF setUserAgent
<1> HIDE DEF header
<1>9. Free(left, header) /\ ~r.websockets => Free(fs, final)
  BY DEF Free, Del, left
<1> HIDE DEF final
<1>10. LET s == [applied EXCEPT !.header = final] IN s.websockets = r.websockets /\ s.header = final
  BY <1>6 DEF RequestFields
<1> QED
  BY <1>3, <1>7, <1>8, <1>9, <1>10 DEF left

(* No field of the client's hop gets to the origin.                        *)
LEMMA FreeOutgoing ==
    ASSUME NEW fs, fs \cap SentFields = {}, NEW p, SendsHops(fs, p), NEW xff,
           NEW r, DOMAIN r = RequestFields, Typed(r.header, "Connection"),
           fs \subseteq HopHeaders \cup ToSet(Values(r.header, "Connection"))
    PROVE  ~Outgoing(p, xff, r).websockets => Free(fs, Outgoing(p, xff, r).header)
<1> DEFINE s == Produced(p, r)
           backend == BackendOf(p)
<1>1. DOMAIN s = RequestFields /\ (~s.websockets => Free(fs \ {"Connection", "Upgrade"}, s.header))
  <2>1. CASE IsProxy(p)
    BY <2>1, FreeProxied DEF Produced, SendsHops
  <2>2. CASE ~IsProxy(p)
    <3>1. {"Content-Type", "Content-Length"} \cap fs = {}
      BY DEF SentFields
    <3>2. DOMAIN s = RequestFields /\ Free(fs, s.header)
      BY <2>2, <3>1, FreeRequest DEF Produced, SendsHops
    <3> QED
      BY <3>2 DEF Free
  <2> QED
    BY <2>1, <2>2
<1>2. Outgoing(p, xff, r) = BackendRequest(backend, IsProxy(p), xff, s)
  BY DEF Outgoing
<1>3. fs \cap Adds(Context(backend).request) = {}
  BY DEF SendsHops
<1> HIDE DEF s, backend
<1> QED
  BY <1>1, <1>2, <1>3, FreeBackend

-------------------------------------------------------------------------------
(* Access controls and the permissions they grant                          *)

(* What an access control refuses with is an error.                        *)
LEMMA RefusalStatus ==
    /\ ConfigurationError # NoError /\ \A k : JWTError(k) # NoError
    /\ BasicAuthError # NoError /\ CredentialsMissing # NoError
    /\ Oauth2Error # NoError /\ SamlError # NoError
    /\ \A e : With(Oauth2Error, e) # NoError
<1>1. NoError.status = 0 /\ ConfigurationError.status = 500
  BY DEF NoError, ConfigurationError, Err
<1>2. /\ \A k : JWTError(k).status = 401
      /\ BasicAuthError.status = 401 /\ CredentialsMissing.status = 401
      /\ Oauth2Error.status = 403 /\ SamlError.status = 403
      /\ \A e : With(Oauth2Error, e).status = 403
  BY Zenon DEF JWTError, BasicAuthError, CredentialsMissing, Oauth2Error, With, SamlError, Err, Kind, Status, AccessControlError
<1>3. \A e : e.status # 0 => e # NoError
  BY <1>1
<1>4. ConfigurationError # NoError
  BY <1>1, <1>3
<1>5. \A k : JWTError(k) # NoError
  BY <1>2, <1>3
<1>6. BasicAuthError # NoError /\ CredentialsMissing # NoError /\ Oauth2Error # NoError /\ SamlError # NoError
  BY <1>2, <1>3
<1>7. \A e : With(Oauth2Error, e) # NoError
  BY <1>2, <1>3
<1> QED
  BY <1>4, <1>5, <1>6, <1>7

LEMMA RefusalIsError == \A e : Denied(e).err = e
  BY DEF Denied

(* GetKey returns nothing but keys of the set. *)
LEMMA GetKeyIsKey ==
    ASSUME NEW jwks, NEW token
    PROVE  GetKey(jwks, token) \subseteq {k.key : k \in ToSet(jwks)}
  BY DEF GetKey, ToSet

(* A token without a problem has been signed with one of the keys, is not  *)
(* too old, and is for this audience, from this issuer.                    *)
LEMMA Parsed ==
    ASSUME NEW text, NEW keys, NEW parser, ParseProblems(text, keys, parser) = {}
    PROVE  /\ text \in DOMAIN Tokens /\ Tokens[text].key \in keys /\ ~Tokens[text].expired
           /\ parser.audience = "" \/ parser.audience \in ToSet(Values(Tokens[text].claims, "aud"))
           /\ parser.issuer = "" \/ parser.issuer = Get(Tokens[text].claims, "iss")
  BY DEF ParseProblems, When

(* The rounds of addMappedPermissions. *)
More(jwt, granted) == granted \cup Mapped(jwt, granted)
Rounds(jwt, granted, N, target) == target = [n \in 0 .. N |-> IF n = 0 THEN granted ELSE More(jwt, target[n - 1])]

(* There is such a sequence of sets for every number of rounds.            *)
LEMMA RoundsExist ==
    ASSUME NEW jwt, NEW granted, NEW N \in Nat
    PROVE  \E target : Rounds(jwt, granted, N, target)
<1> DEFINE S == {m \in Nat : \E g : Rounds(jwt, granted, m, g)}
<1>1. 0 \in S
  <2>1. Rounds(jwt, granted, 0, [n \in 0 .. 0 |-> granted])
    BY DEF Rounds
  <2> QED
    BY <2>1
<1>2. ASSUME NEW m \in Nat, m \in S PROVE m + 1 \in S
  <2>1. PICK g : Rounds(jwt, granted, m, g)
    BY <1>2
  <2> DEFINE g2 == [n \in 0 .. m + 1 |-> IF n = m + 1 THEN More(jwt, g[m]) ELSE g[n]]
  <2>2. Rounds(jwt, granted, m + 1, g2)
    <3>1. g = [n \in 0 .. m |-> IF n = 0 THEN granted ELSE More(jwt, g[n - 1])]
      BY <2>1 DEF Rounds
    <3>2. \A n \in 0 .. m + 1 : g2[n] = IF n = 0 THEN granted ELSE More(jwt, g2[n - 1])
      BY <3>1
    <3> QED
      BY <3>2, Zenon DEF Rounds
  <2>3. \E f : Rounds(jwt, granted, m + 1, f)
    <3> HIDE DEF g2
    <3> QED
      BY <2>2
  <2> QED
    BY <2>3
<1>3. Nat \subseteq S
  <2> HIDE DEF S
  <2> QED
    BY <1>1, <1>2, SetInduction
<1> QED
  BY <1>3

LEMMA MappedIsSome ==
    ASSUME NEW jwt, NEW source
    PROVE  Mapped(jwt, source) \subseteq AllMapped(jwt)
  BY DEF Mapped, AllMapped

(* What addMappedPermissions returns is closed under the permissions map:  *)
(* as many rounds as there are mapped permissions are enough, since a      *)
(* round that adds nothing is the last one that could.                     *)
THEOREM PermissionsClosed ==
    ASSUME NEW jwt, NEW granted, IsFiniteSet(AllMapped(jwt))
    PROVE  Mapped(jwt, addMappedPermissions(jwt, granted)) \subseteq addMappedPermissions(jwt, granted)
<1> DEFINE A == AllMapped(jwt)
           N == Cardinality(A)
<1>1. N \in Nat
  BY FS_CardinalityType
<1> DEFINE target == CHOOSE g : Rounds(jwt, granted, N, g)
<1>2. Rounds(jwt, granted, N, target)
  BY <1>1, RoundsExist
<1>3. addMappedPermissions(jwt, granted) = target[N]
  BY DEF addMappedPermissions, Rounds, More
<1> HIDE DEF target
<1>4. \A n \in 0 .. N : target[n] = IF n = 0 THEN granted ELSE More(jwt, target[n - 1])
  <2>1. target = [n \in 0 .. N |-> IF n = 0 THEN granted ELSE More(jwt, target[n - 1])]
    BY <1>2 DEF Rounds
  <2> QED
    BY <2>1
<1> DEFINE Complete(n) == Mapped(jwt, target[n]) \subseteq target[n]
           S == {n \in Nat : n <= N => Complete(n) \/ Cardinality(target[n] \cap A) >= n}
<1>5. 0 \in S
  <2>1. Cardinality(target[0] \cap A) \in Nat
    BY FS_CardinalityType, FS_Subset
  <2> QED
    BY <2>1
<1>6. ASSUME NEW n \in Nat, n \in S PROVE n + 1 \in S
  <2> SUFFICES ASSUME n + 1 <= N, ~Complete(n + 1) PROVE Cardinality(target[n + 1] \cap A) >= n + 1
    OBVIOUS
  <2>1. n <= N /\ n \in 0 .. N /\ n + 1 \in 0 .. N
    BY <1>1
  <2>2. target[n + 1] = target[n] \cup Mapped(jwt, target[n])
    <3>1. n + 1 # 0 /\ (n + 1) - 1 = n
      OBVIOUS
    <3>2. target[n + 1] = More(jwt, target[n])
      BY <1>4, <2>1, <3>1
    <3> QED
      BY <3>2 DEF More
  <2>3. ~Complete(n)
    BY <2>2
  <2>4. PICK x : x \in Mapped(jwt, target[n]) /\ x \notin target[n]
    BY <2>3
  <2>5. x \in A /\ x \notin target[n] \cap A
    BY <2>4, MappedIsSome
  <2>6. IsFiniteSet(target[n] \cap A) /\ IsFiniteSet(target[n + 1] \cap A)
    BY FS_Subset
  <2>7. Cardinality((target[n] \cap A) \cup {x}) = Cardinality(target[n] \cap A) + 1
    BY <2>5, <2>6, FS_AddElement
  <2>8. (target[n] \cap A) \cup {x} \subseteq target[n + 1] \cap A
    BY <2>2, <2>4, <2>5
  <2>9. Cardinality((target[n] \cap A) \cup {x}) <= Cardinality(target[n + 1] \cap A)
    BY <2>6, <2>8, FS_Subset
  <2>10. Cardinality(target[n] \cap A) >= n
    BY <1>6, <2>1, <2>3
  <2>11. Cardinality(target[n] \cap A) \in Nat /\ Cardinality(target[n + 1] \cap A) \in Nat
    BY <2>6, FS_CardinalityType
  <2> QED
    BY <2>7, <2>9, <2>10, <2>11
<1>7. Nat \subseteq S
  <2> HIDE DEF S
  <2> QED
    BY <1>5, <1>6, SetInduction
<1>8. Complete(N) \/ Cardinality(target[N] \cap A) >= N
  BY <1>1, <1>7
<1>9. CASE Cardinality(target[N] \cap A) >= N
  <2>1. Cardinality(target[N] \cap A) <= N /\ (N = Cardinality(target[N] \cap A) => A = target[N] \cap A)
    BY FS_Subset
  <2>2. Cardinality(target[N] \cap A) \in Nat
    BY FS_Subset, FS_CardinalityType
  <2>3. A = target[N] \cap A
    BY <1>1, <1>9, <2>1, <2>2
  <2> QED
    BY <1>3, <2>3, MappedIsSome
<1> QED
  BY <1>3, <1>8, <1>9

LEMMA OnlyJWTGrants ==
    ASSUME NEW ac, ac.type # "jwt", NEW r, NEW kept, NEW token, NEW userinfo
    PROVE  ValidateControl(ac, r, kept, token, userinfo).granted = {}
<1>1. /\ \A e : Denied(e).granted = {}
      /\ \A data : Allowed(data, {}).granted = {}
  BY DEF Denied, Allowed
<1>2. ValidateBasicAuth(ac, r).granted = {}
  BY <1>1 DEF ValidateBasicAuth
<1>3. ValidateSAML(ac, r, kept).granted = {}
  BY <1>1 DEF ValidateSAML
<1>4. ValidateCallback(ac, r, token, userinfo).granted = {}
  BY <1>1 DEF ValidateCallback
<1>5. CASE ac.type = "basic_auth"
  BY <1>2, <1>5, Zenon DEF ValidateControl
<1>6. CASE ac.type = "saml"
  BY <1>3, <1>6, Zenon DEF ValidateControl
<1>7. CASE ac.type \notin {"jwt", "basic_auth", "saml"}
  BY <1>4, <1>7, Zenon DEF ValidateControl
<1> QED
  BY <1>5, <1>6, <1>7

(* What a token grants has gone through addMappedPermissions.              *)
LEMMA JWTGrants ==
    ASSUME NEW ac, ac.type = "jwt", NEW r, NEW kept, NEW token, NEW userinfo,
           ValidateControl(ac, r, kept, token, userinfo).err = NoError
    PROVE  \E granted : ValidateControl(ac, r, kept, token, userinfo).granted = addMappedPermissions(ac, granted)
<1>1. ValidateControl(ac, r, kept, token, userinfo) = ValidateJWT(ac, r, kept)
  BY Zenon DEF ValidateControl
<1>2. \A data, granted : Allowed(data, granted).granted = granted
  BY DEF Allowed
<1>3. \E claims : ValidateJWT(ac, r, kept) = Allowed(claims, getGrantedPermissions(ac, claims))
  BY <1>1, RefusalStatus, RefusalIsError, ZenonT(40) DEF ValidateJWT
<1> QED
  BY <1>1, <1>2, <1>3 DEF getGrantedPermissions

LEMMA GrantedIsClosed ==
    ASSUME NEW ac, NEW granted,
           Mapped(ac, granted) \subseteq granted
    PROVE  LET map == Attr(ac, "permissions_map", << >>)
           IN  \A p \in granted \cap DOMAIN map : ToSet(map[p]) \ {""} \subseteq granted
<1> DEFINE map == Attr(ac, "permissions_map", << >>)
<1> SUFFICES ASSUME NEW p \in granted \cap DOMAIN map, NEW q \in ToSet(map[p]) \ {""} PROVE q \in granted
  OBVIOUS
<1>1. q \in Mapped(ac, granted)
  BY Zenon DEF Mapped
<1> QED
  BY <1>1

(* Without an error one of the permissions of the method is granted, or it *)
(* needs none.                                                             *)
LEMMA PermissionNoError ==
    ASSUME NEW required, NEW method, NEW granted, PermissionsError(required, method, granted) = NoError
    PROVE  \E p \in ToSet(PermissionFor(required, method)) : p \in granted \cup {""}
<1>1. MethodNotAllowed # NoError /\ InsufficientPermissions # NoError
  <2>1. NoError.status = 0
    BY DEF NoError, Err
  <2>2. MethodNotAllowed.status = 405 /\ InsufficientPermissions.status = 403
    BY Zenon DEF MethodNotAllowed, InsufficientPermissions, Err, Kind, AccessControlError
  <2> QED
    BY <2>1, <2>2
<1> DEFINE p == PermissionFor(required, method)
<1>2. p # << >> /\ p[1] \in granted \cup {""}
  BY <1>1 DEF PermissionsError
<1>3. p = << >> \/ \E x : p = <<x>>
  BY DEF PermissionFor
<1>4. 1 \in DOMAIN p
  <2>1. PICK x : p = <<x>>
    BY <1>2, <1>3
  <2>2. DOMAIN <<x>> = 1 .. 1
    OBVIOUS
  <2> QED
    BY <2>1, <2>2
<1>5. p[1] \in ToSet(p)
  BY <1>4, Zenon DEF ToSet
<1> QED
  BY <1>2, <1>5

-------------------------------------------------------------------------------
(* The order of the patterns                                               *)

(* Patterns of one length that differ have a first segment in which they do. *)
LEMMA FirstDifference ==
    ASSUME NEW p, NEW q, IsPattern(p), IsPattern(q), Len(p) = Len(q), p # q
    PROVE  \E i \in DOMAIN p : p[i] # q[i] /\ \A j \in DOMAIN p : j < i => p[j] = q[j]
<1> DEFINE D == {i \in DOMAIN p : p[i] # q[i]}
           m == Min(D)
<1>1. D \subseteq Nat /\ D # {}
  BY DEF IsPattern
<1>2. m \in D /\ \A j \in D : m <= j
  BY <1>1, Least
<1> HIDE DEF m
<1>3. \A j \in DOMAIN p : j \in Nat
  BY DEF IsPattern
<1>4. \A j \in DOMAIN p : j < m => p[j] = q[j]
  BY <1>2, <1>3
<1> QED
  BY <1>2, <1>4

(* Before compares the first segments that differ. *)
Ordered(p, q) == \E i \in DOMAIN p : Rank(p[i]) < Rank(q[i]) /\ \A j \in DOMAIN p : j < i => p[j] = q[j]

LEMMA BeforeIsOrdered ==
    ASSUME NEW p, NEW q, IsPattern(p), IsPattern(q), Len(p) = Len(q)
    PROVE  Before(p, q) <=> Ordered(p, q)
<1>0. p \in Seq(Names) /\ q \in Seq(Names) /\ DOMAIN p = 1 .. Len(p) /\ Len(p) \in Nat
  BY DEF IsPattern
<1>1. ASSUME NEW n \in 0 .. Len(p)
      PROVE  SubSeq(p, 1, n) = SubSeq(q, 1, n) <=> \A j \in 1 .. n : p[j] = q[j]
  <2>1. SubSeq(p, 1, n) = [j \in 1 .. n |-> p[j]] /\ SubSeq(q, 1, n) = [j \in 1 .. n |-> q[j]]
    BY <1>0
  <2> QED
    BY <2>1
<1>2. ASSUME Before(p, q) PROVE Ordered(p, q)
  <2>1. PICK n \in 0 .. Len(p) : n < Len(q) /\ SubSeq(p, 1, n) = SubSeq(q, 1, n) /\ Rank(p[n + 1]) < Rank(q[n + 1])
    BY <1>2 DEF Before
  <2>2. n + 1 \in DOMAIN p /\ \A j \in DOMAIN p : j < n + 1 => p[j] = q[j]
    BY <1>0, <1>1, <2>1
  <2> QED
    BY <2>1, <2>2 DEF Ordered
<1>3. ASSUME Ordered(p, q) PROVE Before(p, q)
  <2>1. PICK i \in DOMAIN p : Rank(p[i]) < Rank(q[i]) /\ \A j \in DOMAIN p : j < i => p[j] = q[j]
    BY <1>3 DEF Ordered
  <2>2. i - 1 \in 0 .. Len(p) /\ i - 1 < Len(q) /\ (i - 1) + 1 = i
    BY <1>0
  <2>3. SubSeq(p, 1, i - 1) = SubSeq(q, 1, i - 1)
    <3>1. \A j \in 1 .. i - 1 : p[j] = q[j]
      BY <1>0, <2>1
    <3> QED
      BY <1>1, <2>2, <3>1
  <2>4. \E n \in 0 .. Len(p) : n <= Len(q) /\ SubSeq(p, 1, n) = SubSeq(q, 1, n) /\ n < Len(q)
                               /\ (n < Len(p) => Rank(p[n + 1]) < Rank(q[n + 1]))
    <3> WITNESS i - 1 \in 0 .. Len(p)
    <3> QED
      BY <1>0, <2>1, <2>2, <2>3
  <2> QED
    BY <2>4 DEF Before
<1> QED
  BY <1>2, <1>3

LEMMA OrderedIsTotal ==
    ASSUME NEW p, NEW q, IsPattern(p), IsPattern(q), Len(p) = Len(q), p # q
    PROVE  Ordered(p, q) \/ Ordered(q, p)
<1>1. PICK i \in DOMAIN p : p[i] # q[i] /\ \A j \in DOMAIN p : j < i => p[j] = q[j]
  BY FirstDifference
<1>2. DOMAIN p = DOMAIN q /\ p[i] \in Names /\ q[i] \in Names
  BY DEF IsPattern
<1>3. Rank(p[i]) < Rank(q[i]) \/ Rank(q[i]) < Rank(p[i])
  BY <1>1, <1>2, RankOrders
<1> QED
  BY <1>1, <1>2, <1>3 DEF Ordered

LEMMA OrderedIsTransitive ==
    ASSUME NEW p, NEW q, NEW r, IsPattern(p), IsPattern(q), IsPattern(r), Len(p) = Len(q), Len(q) = Len(r),
           Ordered(p, q), Ordered(q, r)
    PROVE  Ordered(p, r)
<1>1. DOMAIN p = DOMAIN q /\ DOMAIN q = DOMAIN r /\ DOMAIN p \subseteq Nat
  BY DEF IsPattern
<1>2. \A i \in DOMAIN p : Rank(p[i]) \in Nat /\ Rank(q[i]) \in Nat /\ Rank(r[i]) \in Nat
  <2>1. \A i \in DOMAIN p : p[i] \in Names /\ q[i] \in Names /\ r[i] \in Names
    BY DEF IsPattern
  <2> QED
    BY <2>1, RankOrders
<1>3. PICK a \in DOMAIN p : Rank(p[a]) < Rank(q[a]) /\ \A j \in DOMAIN p : j < a => p[j] = q[j]
  BY DEF Ordered
<1>4. PICK b \in DOMAIN p : Rank(q[b]) < Rank(r[b]) /\ \A j \in DOMAIN p : j < b => q[j] = r[j]
  BY <1>1 DEF Ordered
<1>5. CASE a < b
  <2>1. q[a] = r[a] /\ \A j \in DOMAIN p : j < a => p[j] = r[j]
    BY <1>1, <1>3, <1>4, <1>5
  <2> QED
    BY <1>3, <2>1 DEF Ordered
<1>6. CASE b < a
  <2>1. p[b] = q[b] /\ \A j \in DOMAIN p : j < b => p[j] = r[j]
    BY <1>1, <1>3, <1>4, <1>6
  <2> QED
    BY <1>4, <2>1 DEF Ordered
<1>7. CASE a = b
  <2>1. Rank(p[a]) < Rank(r[a])
    BY <1>2, <1>3, <1>4, <1>7
  <2>2. \A j \in DOMAIN p : j < a => p[j] = r[j]
    BY <1>3, <1>4, <1>7
  <2> QED
    BY <2>1, <2>2 DEF Ordered
<1> QED
  BY <1>1, <1>5, <1>6, <1>7

(* The parameters decide first. *)
Differ(p, q) == {i \in DOMAIN p : (p[i] \in Params) # (q[i] \in Params)}

LEMMA DifferLeast ==
    ASSUME NEW p, NEW q, IsPattern(p), Differ(p, q) # {}
    PROVE  /\ Min(Differ(p, q)) \in Differ(p, q)
           /\ \A i \in Differ(p, q) : Min(Differ(p, q)) <= i
<1>1. Differ(p, q) \subseteq Nat
  BY DEF Differ, IsPattern
<1> QED
  BY <1>1, Least

LEMMA Lengths ==
    /\ \A k, l \in Nat : k = l \/ k > l \/ l > k
    /\ \A k, l, m \in Nat : (k = l \/ k > l) /\ (l = m \/ l > m) /\ (k # l \/ l # m) => k # m /\ k > m
  OBVIOUS

LEMMA OtherClass ==
    ASSUME NEW p, NEW q
    PROVE  /\ ~Wildcard(p) /\ Wildcard(q) => Precedes(p, q)
           /\ Wildcard(p) /\ ~Wildcard(q) => ~Precedes(p, q)
           /\ (Wildcard(p) <=> Wildcard(q)) /\ Len(p) # Len(q) => (Precedes(p, q) <=> Len(p) > Len(q))
  BY DEF Precedes, Wildcard

LEMMA PrecedesOfClass ==
    ASSUME NEW p, NEW q, Wildcard(p) <=> Wildcard(q), Len(p) = Len(q)
    PROVE  Precedes(p, q) <=> IF Differ(p, q) # {} THEN q[Min(Differ(p, q))] \in Params ELSE Before(p, q)
  BY DEF Precedes, Differ, Wildcard

LEMMA PrecedesIsTotal ==
    ASSUME NEW p, NEW q, IsPattern(p), IsPattern(q), p # q
    PROVE  Precedes(p, q) \/ Precedes(q, p)
<1>1. /\ Len(p) \in Nat /\ Len(q) \in Nat /\ DOMAIN p = 1 .. Len(p) /\ DOMAIN q = 1 .. Len(q)
  BY DEF IsPattern
<1>2. CASE ~(Wildcard(p) <=> Wildcard(q)) \/ Len(p) # Len(q)
  <2>1. Len(p) = Len(q) \/ Len(p) > Len(q) \/ Len(q) > Len(p)
    BY <1>1, Lengths, Zenon
  <2> QED
    BY <1>2, <2>1, OtherClass, Zenon
<1>3. CASE (Wildcard(p) <=> Wildcard(q)) /\ Len(p) = Len(q)
  <2>1. Differ(p, q) = Differ(q, p)
    BY <1>1, <1>3 DEF Differ
  <2>2. CASE Differ(p, q) # {}
    <3>1. Min(Differ(p, q)) \in Differ(p, q)
      BY <2>2, DifferLeast
    <3>2. p[Min(Differ(p, q))] \in Params \/ q[Min(Differ(p, q))] \in Params
      BY <3>1 DEF Differ
    <3> QED
      BY <1>3, <2>1, <2>2, <3>2, PrecedesOfClass
  <2>3. CASE Differ(p, q) = {}
    <3>1. Before(p, q) \/ Before(q, p)
      BY <1>3, OrderedIsTotal, BeforeIsOrdered
    <3> QED
      BY <1>3, <2>1, <2>3, <3>1, PrecedesOfClass
  <2> QED
    BY <2>2, <2>3
<1> QED
  BY <1>2, <1>3

LEMMA NothingPrecedesItself ==
    ASSUME NEW p, IsPattern(p)
    PROVE  ~Precedes(p, p)
<1>1. Differ(p, p) = {}
  BY DEF Differ
<1>2. ~Ordered(p, p)
  <2>1. \A i \in DOMAIN p : Rank(p[i]) \in Nat
    BY RankOrders DEF IsPattern
  <2> QED
    BY <2>1 DEF Ordered
<1> QED
  BY <1>1, <1>2, PrecedesOfClass, BeforeIsOrdered

LEMMA PrecedesIsTransitive ==
    ASSUME NEW p, NEW q, NEW r, IsPattern(p), IsPattern(q), IsPattern(r), Precedes(p, q), Precedes(q, r)
    PROVE  Precedes(p, r)
<1>1. /\ Len(p) \in Nat /\ Len(q) \in Nat /\ Len(r) \in Nat
      /\ DOMAIN p = 1 .. Len(p) /\ DOMAIN q = 1 .. Len(q) /\ DOMAIN r = 1 .. Len(r)
  BY DEF IsPattern
<1>2. CASE ~(Wildcard(p) <=> Wildcard(q)) \/ ~(Wildcard(q) <=> Wildcard(r)) \/ Len(p) # Len(q) \/ Len(q) # Len(r)
  <2>1. CASE ~(Wildcard(p) <=> Wildcard(r))
    BY <2>1, OtherClass, Zenon
  <2>2. CASE (Wildcard(p) <=> Wildcard(r)) /\ (Wildcard(p) <=> Wildcard(q))
    <3>1. Len(p) = Len(q) \/ Len(p) > Len(q)
      BY <2>2, OtherClass, Zenon
    <3>2. Len(q) = Len(r) \/ Len(q) > Len(r)
      BY <2>2, OtherClass, Zenon
    <3>3. Len(p) # Len(q) \/ Len(q) # Len(r)
      BY <1>2, <2>2, Zenon
    <3>4. Len(p) # Len(r) /\ Len(p) > Len(r)
      BY <1>1, <3>1, <3>2, <3>3, Lengths, Zenon
    <3> QED
      BY <2>2, <3>4, OtherClass, Zenon
  <2> QED
    BY <2>1, <2>2, OtherClass, Zenon
<1>3. CASE (Wildcard(p) <=> Wildcard(q)) /\ (Wildcard(q) <=> Wildcard(r)) /\ Len(p) = Len(q) /\ Len(q) = Len(r)
  <2> DEFINE a == Min(Differ(p, q))
             b == Min(Differ(q, r))
             c == Min(Differ(p, r))
  <2>0. /\ Precedes(p, q) <=> IF Differ(p, q) # {} THEN q[a] \in Params ELSE Before(p, q)
        /\ Precedes(q, r) <=> IF Differ(q, r) # {} THEN r[b] \in Params ELSE Before(q, r)
        /\ Precedes(p, r) <=> IF Differ(p, r) # {} THEN r[c] \in Params ELSE Before(p, r)
    BY <1>3, PrecedesOfClass
  <2>1. /\ Differ(p, q) # {} => a \in Differ(p, q) /\ \A i \in Differ(p, q) : a <= i
        /\ Differ(q, r) # {} => b \in Differ(q, r) /\ \A i \in Differ(q, r) : b <= i
        /\ Differ(p, r) # {} => c \in Differ(p, r) /\ \A i \in Differ(p, r) : c <= i
    BY DifferLeast
  <2> HIDE DEF a, b, c
  <2>2. CASE Differ(p, q) = {} /\ Differ(q, r) = {}
    <3>1. Differ(p, r) = {}
      BY <1>1, <1>3, <2>2 DEF Differ
    <3>2. Before(p, r)
      BY <1>3, <2>0, <2>2, BeforeIsOrdered, OrderedIsTransitive
    <3> QED
      BY <2>0, <3>1, <3>2
  <2>3. CASE Differ(p, q) = {} /\ Differ(q, r) # {}
    <3>1. Differ(p, r) = Differ(q, r)
      BY <1>1, <1>3, <2>3 DEF Differ
    <3> QED
      BY <2>0, <2>3, <3>1 DEF b, c
  <2>4. CASE Differ(p, q) # {} /\ Differ(q, r) = {}
    <3>1. Differ(p, r) = Differ(p, q)
      BY <1>1, <1>3, <2>4 DEF Differ
    <3>2. a \in DOMAIN p /\ q[a] \in Params
      BY <2>0, <2>1, <2>4 DEF Differ
    <3>3. r[a] \in Params
      BY <1>1, <1>3, <2>4, <3>2 DEF Differ
    <3> QED
      BY <2>0, <2>4, <3>1, <3>3 DEF a, c
  <2>5. CASE Differ(p, q) # {} /\ Differ(q, r) # {}
    <3>1. a \in DOMAIN p /\ q[a] \in Params /\ p[a] \notin Params
      BY <2>0, <2>1, <2>5 DEF Differ
    <3>2. b \in DOMAIN p /\ r[b] \in Params /\ q[b] \notin Params
      BY <1>1, <1>3, <2>0, <2>1, <2>5 DEF Differ
    <3>3. \A i \in DOMAIN p : i < a => (p[i] \in Params) = (q[i] \in Params)
      <4>1. \A i \in DOMAIN p : i < a => i \notin Differ(p, q)
        BY <1>1, <2>1, <2>5, <3>1
      <4> QED
        BY <4>1 DEF Differ
    <3>4. \A i \in DOMAIN p : i < b => (q[i] \in Params) = (r[i] \in Params)
      BY <1>1, <1>3, <2>1, <2>5, <3>2 DEF Differ
    <3>5. \E m \in DOMAIN p : /\ p[m] \notin Params /\ r[m] \in Params
                            /\ \A i \in DOMAIN p : i < m => (p[i] \in Params) = (r[i] \in Params)
      <4>1. CASE a < b
        <5>1. r[a] \in Params
          BY <3>1, <3>4, <4>1
        <5>2. \A i \in DOMAIN p : i < a => (p[i] \in Params) = (r[i] \in Params)
          BY <1>1, <3>1, <3>2, <3>3, <3>4, <4>1
        <5> QED
          BY <3>1, <5>1, <5>2
      <4>2. CASE b < a
        <5>1. p[b] \notin Params
          BY <3>2, <3>3, <4>2
        <5>2. \A i \in DOMAIN p : i < b => (p[i] \in Params) = (r[i] \in Params)
          BY <1>1, <3>1, <3>2, <3>3, <3>4, <4>2
        <5> QED
          BY <3>2, <5>1, <5>2
      <4> QED
        BY <1>1, <3>1, <3>2, <4>1, <4>2
    <3>6. PICK m \in DOMAIN p : /\ p[m] \notin Params /\ r[m] \in Params
                            /\ \A i \in DOMAIN p : i < m => (p[i] \in Params) = (r[i] \in Params)
      BY <3>5
    <3>7. m \in Differ(p, r) /\ \A i \in Differ(p, r) : ~(i < m)
      BY <3>6 DEF Differ
    <3>8. c = m
      <4>1. c \in DOMAIN p
        BY <2>1, <3>7 DEF Differ
      <4> QED
        BY <1>1, <2>1, <3>6, <3>7, <4>1
    <3> QED
      BY <2>0, <3>6, <3>7, <3>8
  <2> QED
    BY <2>2, <2>3, <2>4, <2>5
<1> QED
  BY <1>2, <1>3

(* Among finitely many routes there is a first one. *)
LEMMA FirstExists ==
    ASSUME NEW S, IsFiniteSet(S), S # {},
           \A r \in S : IsPattern(r.pattern),
           \A r, s \in S : r # s => r.pattern # s.pattern
    PROVE  First(S) \in S /\ \A s \in S \ {First(S)} : Precedes(First(S).pattern, s.pattern)
<1> DEFINE Earlier(r) == {s \in S : Precedes(s.pattern, r.pattern)}
           Counts == {Cardinality(Earlier(r)) : r \in S}
<1>1. \A r \in S : Cardinality(Earlier(r)) \in Nat
  BY FS_Subset, FS_CardinalityType
<1>2. PICK r \in S : \A s \in S : Cardinality(Earlier(r)) <= Cardinality(Earlier(s))
  <2>1. Counts \subseteq Nat /\ Counts # {}
    BY <1>1
  <2> DEFINE m == Min(Counts)
  <2>2. m \in Counts /\ \A n \in Counts : m <= n
    BY <2>1, Least
  <2>3. PICK r \in S : m = Cardinality(Earlier(r))
    BY <2>2
  <2> HIDE DEF m
  <2>4. \A s \in S : Cardinality(Earlier(s)) \in Counts
    OBVIOUS
  <2> HIDE DEF Counts, Earlier
  <2> QED
    BY <2>2, <2>3, <2>4
<1>3. ASSUME NEW s \in S \ {r} PROVE Precedes(r.pattern, s.pattern)
  <2>1. SUFFICES ASSUME ~Precedes(r.pattern, s.pattern) PROVE FALSE
    OBVIOUS
  <2>2. Precedes(s.pattern, r.pattern)
    BY <2>1, PrecedesIsTotal
  <2>3. Earlier(s) \subseteq Earlier(r)
    BY <2>2, PrecedesIsTransitive
  <2>4. s \in Earlier(r) /\ s \notin Earlier(s)
    BY <2>2, NothingPrecedesItself
  <2>5. IsFiniteSet(Earlier(r)) /\ IsFiniteSet(Earlier(s))
    BY FS_Subset
  <2> DEFINE A == Earlier(s)
             B == Earlier(r)
  <2>6. A \subseteq B /\ A # B /\ IsFiniteSet(B) /\ Cardinality(B) <= Cardinality(A)
    BY <1>2, <2>3, <2>4, <2>5
  <2>7. Cardinality(A) \in Nat /\ Cardinality(B) \in Nat
    BY <1>1
  <2> HIDE DEF A, B
  <2> QED
    BY <2>6, <2>7, FS_Subset
<1>4. \E x \in S : \A s \in S \ {x} : Precedes(x.pattern, s.pattern)
  BY <1>3
<1> QED
  BY <1>4, Zenon DEF First

-------------------------------------------------------------------------------
(* What a pattern matches                                                  *)

LEMMA FrontAndSlash ==
    ASSUME NEW X, NEW p \in Seq(X), p # << >>
    PROVE  /\ Len(p) \in Nat /\ DOMAIN p = 1 .. Len(p) /\ Len(p) >= 1
           /\ Front(p) \in Seq(X) /\ Len(Front(p)) = Len(p) - 1
           /\ \A i \in 1 .. Len(p) - 1 : Front(p)[i] = p[i]
           /\ (Front(p) # << >> <=> Len(p) > 1)
<1>1. Len(p) \in Nat /\ DOMAIN p = 1 .. Len(p) /\ Len(p) >= 1
  OBVIOUS
<1>2. Front(p) = SubSeq(p, 1, Len(p) - 1)
  BY DEF Front
<1>3. Front(p) \in Seq(X) /\ Len(Front(p)) = Len(p) - 1 /\ \A i \in 1 .. Len(p) - 1 : Front(p)[i] = p[i]
  BY <1>1, <1>2
<1> QED
  BY <1>1, <1>3

LEMMA SameElements ==
    ASSUME NEW X, NEW s \in Seq(X), NEW t \in Seq(X), Len(s) = Len(t), \A i \in 1 .. Len(s) : s[i] = t[i]
    PROVE  s = t
  OBVIOUS

LEMMA Wider == ASSUME NEW X, NEW Y, X \subseteq Y, NEW s \in Seq(X) PROVE s \in Seq(Y)
<1>1. s = [i \in 1 .. Len(s) |-> s[i]] /\ Len(s) \in Nat /\ \A i \in 1 .. Len(s) : s[i] \in Y
  OBVIOUS
<1>2. s \in [1 .. Len(s) -> Y]
  BY <1>1
<1> QED
  BY <1>1, <1>2

LEMMA OneAppended ==
    ASSUME NEW X, NEW p \in Seq(X), NEW v \in X
    PROVE  /\ p \o <<v>> \in Seq(X) /\ Len(p \o <<v>>) = Len(p) + 1 /\ (p \o <<v>>)[Len(p) + 1] = v
           /\ \A i \in 1 .. Len(p) : (p \o <<v>>)[i] = p[i]
  OBVIOUS

LEMMA FrontAndLast ==
    ASSUME NEW X, NEW p \in Seq(X), p # << >>, NEW v, Last(p) = v
    PROVE  Front(p) \o <<v>> = p
<1> DEFINE f == Front(p)
           q == f \o <<v>>
           n == Len(p)
<1>1. f \in Seq(X) /\ Len(f) = n - 1 /\ (\A i \in 1 .. n - 1 : f[i] = p[i]) /\ n \in Nat /\ n >= 1
  BY FrontAndSlash
<1>2. v \in X /\ p[n] = v
  BY <1>1 DEF Last
<1> HIDE DEF f
<1>3. /\ q \in Seq(X) /\ Len(q) = Len(f) + 1 /\ q[Len(f) + 1] = v
      /\ \A i \in 1 .. Len(f) : q[i] = f[i]
  BY <1>1, <1>2, OneAppended, SMTT(30)
<1> HIDE DEF q, n
<1>4. Len(q) = n /\ q[n] = v /\ \A i \in 1 .. n - 1 : q[i] = p[i]
  BY <1>1, <1>3
<1>5. \A i \in 1 .. n : q[i] = p[i]
  BY <1>1, <1>2, <1>4
<1>6. q = p
  BY <1>3, <1>4, <1>5, SameElements DEF n
<1> QED
  BY <1>6 DEF q, f

LEMMA SlashAppended ==
    ASSUME NEW X, NEW p \in Seq(X)
    PROVE  Len(p \o Root) = Len(p) + 1
<1> DEFINE Y == X \cup {""}
<1>1. "" \in Y /\ p \in Seq(Y)
  BY Wider
<1> HIDE DEF Y
<1>2. \A v \in Y : Len(p \o <<v>>) = Len(p) + 1
  BY <1>1, OneAppended
<1> QED
  BY <1>1, <1>2, Zenon DEF Root

LEMMA SlashPut ==
    ASSUME NEW X, NEW p \in Seq(X), p # << >>, Last(p) = ""
    PROVE  Front(p) \o Root = p
  BY FrontAndLast DEF Root

LEMMA MatchesUnfolded ==
    ASSUME NEW X, NEW p \in Seq(X), p # << >>, ~Wildcard(p), NEW path
    PROVE  Matches(p, path) <=>
               IF Last(p) = "" THEN (Len(p) > 1 /\ PathMatches(Front(p), path)) \/ PathMatches(p, path)
               ELSE PathMatches(p, path) \/ PathMatches(p \o Root, path)
<1>1. CASE Last(p) = ""
  <2>1. Front(p) \o Root = p /\ (Front(p) # << >> <=> Len(p) > 1)
    BY <1>1, SlashPut, FrontAndSlash
  <2> QED
    BY <1>1, <2>1 DEF Matches
<1>2. CASE Last(p) # ""
  BY <1>2 DEF Matches
<1> QED
  BY <1>1, <1>2

LEMMA MatchesItself ==
    ASSUME NEW X, NEW p \in Seq(X), p # << >>, ~Wildcard(p)
    PROVE  Matches(p, p)
<1>1. PathMatches(p, p)
  BY DEF PathMatches, SegmentMatches
<1> QED
  BY <1>1, MatchesUnfolded

(* A literal path precedes every other pattern that matches it and does    *)
(* not take it without a slash.                                            *)
LEMMA LiteralPrecedes ==
    ASSUME NEW p, NEW q, IsPattern(p), IsPattern(q), Literal(p), p # q, Matches(q, p), ~TakesWithoutSlash(q, p)
    PROVE  Precedes(p, q) /\ ~Precedes(q, p)
<1>0. /\ p \in Seq(Names) /\ q \in Seq(Names) /\ p # << >> /\ q # << >>
      /\ Len(p) \in Nat /\ Len(q) \in Nat /\ DOMAIN p = 1 .. Len(p) /\ DOMAIN q = 1 .. Len(q)
      /\ Len(p) \in DOMAIN p
  BY DEF IsPattern
<1>1. ~Wildcard(p)
  BY <1>0 DEF Literal, Wildcard, Last
<1>2. CASE Wildcard(q)
  BY <1>1, <1>2, OtherClass
<1>3. CASE ~Wildcard(q)
  <2>1. PathMatches(q, p) \/ PathMatches(q \o Root, p)
    BY <1>0, <1>3, MatchesUnfolded DEF TakesWithoutSlash
  <2>2. CASE PathMatches(q, p)
    <3>1. Len(q) = Len(p) /\ \A i \in DOMAIN q : q[i] = p[i] \/ q[i] \in Params
      BY <2>2 DEF PathMatches, SegmentMatches
    <3>2. PICK i \in DOMAIN q : q[i] # p[i]
      BY <1>0, <3>1
    <3>3. \A j \in DOMAIN p : p[j] \notin Params
      BY DEF Literal
    <3>4. i \in Differ(p, q) /\ i \in Differ(q, p)
      BY <1>0, <3>1, <3>2, <3>3 DEF Differ
    <3>5. Min(Differ(p, q)) \in Differ(p, q) /\ Min(Differ(q, p)) \in Differ(q, p)
      BY <3>4, DifferLeast
    <3>6. q[Min(Differ(p, q))] \in Params
      BY <3>3, <3>5 DEF Differ
    <3>7. p[Min(Differ(q, p))] \notin Params
      BY <1>0, <3>1, <3>3, <3>5 DEF Differ
    <3> QED
      BY <1>1, <1>3, <3>1, <3>4, <3>6, <3>7, PrecedesOfClass
  <2>3. CASE PathMatches(q \o Root, p)
    <3>1. Len(q \o Root) = Len(q) + 1
      BY <1>0, SlashAppended
    <3>2. Len(p) = Len(q) + 1
      BY <2>3, <3>1 DEF PathMatches
    <3>3. Len(p) # Len(q) /\ Len(p) > Len(q) /\ ~(Len(q) > Len(p))
      <4>1. \A k, l \in Nat : k = l + 1 => k # l /\ k > l /\ ~(l > k)
        OBVIOUS
      <4> QED
        BY <1>0, <3>2, <4>1, Zenon
    <3> QED
      BY <1>1, <1>3, <3>3, OtherClass
  <2> QED
    BY <2>1, <2>2, <2>3
<1> QED
  BY <1>2, <1>3

LEMMA OneFirst ==
    ASSUME NEW S, NEW r \in S, \A s \in S \ {r} : Precedes(r.pattern, s.pattern) /\ ~Precedes(s.pattern, r.pattern)
    PROVE  First(S) = r
<1>1. ASSUME NEW x \in S, \A s \in S \ {x} : Precedes(x.pattern, s.pattern)
      PROVE  x = r
  BY <1>1
<1> QED
  BY <1>1, Zenon DEF First

-------------------------------------------------------------------------------
(* The routes of a server                                                  *)

(* Routes of one kind are finitely many, and no two have one pattern. *)
LEMMA ServedRoutes ==
    ASSUME NEW server, IsServed(server),
           NEW routes \in {EndpointRoutes(server), FileRoutes(server), SPARoutes(server)}
    PROVE  /\ IsFiniteSet(routes) /\ \A r \in routes : IsPattern(r.pattern)
           /\ \A r, s \in routes : r # s => r.pattern # s.pattern
<1> DEFINE R == {EndpointRoutes(server), FileRoutes(server), SPARoutes(server)}
<1>1. \A rs \in R : IsFiniteSet(rs) /\ \A r \in rs : IsPattern(r.pattern)
  BY DEF IsServed
<1>2. \A rs \in R : \A r, s \in rs : ~(r # s /\ r.pattern = s.pattern)
  <2> SUFFICES ASSUME NEW rs \in R, NEW r \in rs, NEW s \in rs, r # s, r.pattern = s.pattern PROVE FALSE
    BY Zenon
  <2> HIDE DEF R
  <2>1. \E a \in R : \E x, y \in a : x # y /\ x.pattern = y.pattern
    BY Zenon
  <2>2. RouteProblems(server) # {}
    BY <2>1 DEF RouteProblems, When, R
  <2> QED
    BY <2>2 DEF IsServed
<1>3. routes \in R
  OBVIOUS
<1> HIDE DEF R
<1> QED
  BY <1>1, <1>2, <1>3, Zenon

(* Of those that match the mux finds the first. *)
LEMMA FirstServed ==
    ASSUME NEW server, IsServed(server),
           NEW routes \in {EndpointRoutes(server), FileRoutes(server), SPARoutes(server)},
           NEW M \in SUBSET routes, M # {}
    PROVE  First(M) \in M
<1>1. /\ IsFiniteSet(routes) /\ \A r \in routes : IsPattern(r.pattern)
      /\ \A r, s \in routes : r # s => r.pattern # s.pattern
  BY ServedRoutes
<1>2. IsFiniteSet(M)
  BY <1>1, FS_Subset
<1> QED
  BY <1>1, <1>2, FirstExists

LEMMA EndpointKinds ==
    ASSUME NEW server, NEW r \in EndpointRoutes(server)
    PROVE  r.kind \in {"endpoint", "api"} /\ Pattern(r) = r.pattern
<1>0. \A k, p, b, c : Route(k, p, b, c).kind = k
  BY DEF Route
<1>1. ASSUME NEW c \in CatchAllRoutes(server) PROVE c.kind = "api"
  <2>1. PICK base \in CaughtBasePaths(server) : c = CatchAllRoute(server, base)
    BY DEF CatchAllRoutes
  <2> QED
    BY <1>0, <2>1 DEF CatchAllRoute
<1>2. CASE \E e \in Endpoints(server) :
               r = Route("endpoint", JoinOpenAPIPath(SrvBasePath(server), e.labels[1]), e, AccessControls(<<server, e>>))
  BY <1>0, <1>2 DEF Pattern
<1>3. CASE r \in CatchAllRoutes(server)
  BY <1>1, <1>3 DEF Pattern
<1>4. CASE \E a \in ToSet(APIs(server)) : \E e \in Endpoints(a) :
               r = Route("api", JoinOpenAPIPath(APIBasePath(server, a), e.labels[1]), e, AccessControls(<<server, a, e>>))
  BY <1>0, <1>4 DEF Pattern
<1> QED
  BY <1>2, <1>3, <1>4, Zenon DEF EndpointRoutes

LEMMA EndpointFound ==
    ASSUME NEW server, NEW path, Matching(EndpointRoutes(server), path) # {}
    PROVE  FindHandler(server, path) = ByRoute(First(Matching(EndpointRoutes(server), path)))
  BY Zenon DEF FindHandler

(* The literal route of a path is the handler found for it. *)
LEMMA LiteralIsFound ==
    ASSUME NEW server, IsServed(server), NEW r \in EndpointRoutes(server), Literal(r.pattern),
           \A s \in EndpointRoutes(server) : ~TakesWithoutSlash(s.pattern, r.pattern)
    PROVE  FindHandler(server, r.pattern).route = r
<1> DEFINE p == r.pattern
           M == Matching(EndpointRoutes(server), p)
<1>1. \A s \in EndpointRoutes(server) : IsPattern(s.pattern) /\ Pattern(s) = s.pattern
  BY EndpointKinds DEF IsServed
<1>2. ~Wildcard(p) /\ p \in Seq(Names) /\ p # << >>
  <2>1. p \in Seq(Names) /\ p # << >>
    BY <1>1 DEF IsPattern
  <2>2. Len(p) \in DOMAIN p
    BY <2>1
  <2> QED
    BY <2>1, <2>2 DEF Wildcard, Last, Literal
<1>3. r \in M
  BY <1>1, <1>2, MatchesItself DEF Matching
<1>4. ASSUME NEW s \in M \ {r} PROVE Precedes(p, s.pattern) /\ ~Precedes(s.pattern, p)
  <2>1. s \in EndpointRoutes(server) /\ Matches(s.pattern, p)
    BY <1>1, <1>4 DEF Matching
  <2>2. s.pattern # p
    BY <1>4, <2>1, ServedRoutes
  <2> QED
    BY <1>1, <2>1, <2>2, LiteralPrecedes
<1> HIDE DEF M
<1>5. First(M) = r
  BY <1>3, <1>4, OneFirst
<1>6. FindHandler(server, p) = ByRoute(r)
  BY <1>3, <1>5, EndpointFound DEF M
<1> QED
  BY <1>6 DEF ByRoute, Answer

-------------------------------------------------------------------------------
(* Base paths                                                              *)

(* The segments that are not empty, of each beginning of the path. *)
NamedSteps(path, N, named) ==
    named = [i \in 0 .. N |-> IF i = 0 THEN << >> ELSE Taken(named[i - 1], path[i])]

LEMMA NamedStepsExist ==
    ASSUME NEW path, NEW N \in Nat
    PROVE  \E named : NamedSteps(path, N, named)
<1> DEFINE S == {m \in Nat : \E g : NamedSteps(path, m, g)}
<1>1. 0 \in S
  <2>1. NamedSteps(path, 0, [i \in 0 .. 0 |-> << >>])
    BY DEF NamedSteps
  <2> QED
    BY <2>1
<1>2. ASSUME NEW m \in Nat, m \in S PROVE m + 1 \in S
  <2>1. PICK g : NamedSteps(path, m, g)
    BY <1>2
  <2> DEFINE after == Taken(g[m], path[m + 1])
             g2 == [i \in 0 .. m + 1 |-> IF i = m + 1 THEN after ELSE g[i]]
  <2>2. NamedSteps(path, m + 1, g2)
    <3>1. g = [i \in 0 .. m |-> IF i = 0 THEN << >> ELSE Taken(g[i - 1], path[i])]
      BY <2>1 DEF NamedSteps
    <3>2. \A i \in 0 .. m + 1 : g2[i] = IF i = 0 THEN << >> ELSE Taken(g2[i - 1], path[i])
      BY <3>1
    <3> QED
      BY <3>2, Zenon DEF NamedSteps
  <2>3. \E f : NamedSteps(path, m + 1, f)
    <3> HIDE DEF g2
    <3> QED
      BY <2>2
  <2> QED
    BY <2>3
<1>3. Nat \subseteq S
  <2> HIDE DEF S
  <2> QED
    BY <1>1, <1>2, SetInduction
<1> QED
  BY <1>3

LEMMA NamedUnfolded ==
    ASSUME NEW path, Len(path) \in Nat
    PROVE  \E named : /\ named[0] = << >> /\ Named(path) = named[Len(path)]
                     /\ \A i \in 0 .. Len(path) - 1 :
                           named[i + 1] = Taken(named[i], path[i + 1])
<1> DEFINE N == Len(path)
           named == CHOOSE g : NamedSteps(path, N, g)
<1>1. NamedSteps(path, N, named)
  BY NamedStepsExist
<1>2. Named(path) = named[N]
  BY DEF Named, NamedSteps
<1> HIDE DEF named
<1>3. named = [i \in 0 .. N |-> IF i = 0 THEN << >> ELSE Taken(named[i - 1], path[i])]
  BY <1>1 DEF NamedSteps
<1>4. named[0] = << >>
  BY <1>3
<1>5. ASSUME NEW i \in 0 .. N - 1
      PROVE  named[i + 1] = Taken(named[i], path[i + 1])
  <2>1. i + 1 \in 0 .. N /\ i + 1 # 0 /\ (i + 1) - 1 = i
    OBVIOUS
  <2> QED
    BY <1>3, <2>1
<1> QED
  BY <1>2, <1>4, <1>5

LEMMA UpTo ==
    ASSUME NEW N \in Nat, NEW S, 0 \in S, \A n \in 0 .. N - 1 : n \in S => n + 1 \in S
    PROVE  N \in S
<1> DEFINE R == {n \in Nat : n <= N => n \in S}
<1>1. 0 \in R
  OBVIOUS
<1>2. ASSUME NEW n \in Nat, n \in R PROVE n + 1 \in R
  <2>1. n + 1 <= N => n \in 0 .. N - 1 /\ n <= N
    OBVIOUS
  <2> QED
    BY <1>2, <2>1
<1>3. Nat \subseteq R
  <2> HIDE DEF R
  <2> QED
    BY <1>1, <1>2, SetInduction
<1> QED
  BY <1>3

(* The same for any segment e that is left out. *)
WithoutOne(e, path, N, named) ==
    /\ named[0] = << >>
    /\ \A i \in 0 .. N - 1 :
          /\ path[i + 1] = e => named[i + 1] = named[i]
          /\ path[i + 1] # e => named[i + 1] = Append(named[i], path[i + 1])

LEMMA WithoutOneLeft ==
    ASSUME NEW e, NEW X, NEW path \in Seq(X), NEW named, WithoutOne(e, path, Len(path), named)
    PROVE  named[Len(path)] \in Seq(X \ {e})
<1> DEFINE N == Len(path)
           Y == X \ {e}
           S == {n \in 0 .. N : named[n] \in Seq(Y)}
<1>1. N \in Nat /\ \A i \in 1 .. N : path[i] \in X
  OBVIOUS
<1>2. \A i \in 1 .. N : path[i] # e => path[i] \in Y
  BY <1>1
<1> HIDE DEF Y, N
<1>3. 0 \in S
  <2>1. << >> \in Seq(Y)
    OBVIOUS
  <2>2. 0 \in 0 .. N
    BY <1>1
  <2>3. named[0] = << >>
    BY DEF WithoutOne
  <2> QED
    BY <2>1, <2>2, <2>3
<1>4. ASSUME NEW n \in 0 .. N - 1, n \in S PROVE n + 1 \in S
  <2>1. n + 1 \in 1 .. N /\ n + 1 \in 0 .. N
    BY <1>1
  <2>2. named[n] \in Seq(Y)
    BY <1>4
  <2>3. CASE path[n + 1] = e
    BY <2>1, <2>2, <2>3 DEF WithoutOne, N
  <2>4. CASE path[n + 1] # e
    <3>1. path[n + 1] \in Y /\ named[n + 1] = Append(named[n], path[n + 1])
      BY <1>2, <2>1, <2>4 DEF WithoutOne, N
    <3>2. named[n + 1] \in Seq(Y)
      BY <2>2, <3>1, AppendedTo
    <3> QED
      BY <2>1, <3>2
  <2> QED
    BY <2>3, <2>4
<1> HIDE DEF S
<1>5. N \in S
  BY <1>1, <1>3, <1>4, UpTo
<1> QED
  BY <1>5 DEF S, N, Y

LEMMA WithoutNone ==
    ASSUME NEW e, NEW X, e \notin X, NEW path \in Seq(X), NEW named, WithoutOne(e, path, Len(path), named)
    PROVE  named[Len(path)] = path
<1> DEFINE N == Len(path)
           S == {n \in 0 .. N : named[n] = SubSeq(path, 1, n)}
<1>1. N \in Nat /\ \A i \in 1 .. N : path[i] \in X /\ path[i] # e
  OBVIOUS
<1>3. 0 \in S
  <2>1. SubSeq(path, 1, 0) = << >>
    OBVIOUS
  <2>2. 0 \in 0 .. N
    <3> HIDE DEF N
    <3> QED
      BY <1>1
  <2>3. named[0] = << >>
    BY DEF WithoutOne
  <2> QED
    BY <2>1, <2>2, <2>3
<1>4. ASSUME NEW n \in 0 .. N - 1, n \in S PROVE n + 1 \in S
  <2>1. n + 1 \in 1 .. N /\ n + 1 \in 0 .. N
    <3> HIDE DEF N
    <3> QED
      BY <1>1
  <2>2. named[n] = SubSeq(path, 1, n) /\ named[n + 1] = Append(named[n], path[n + 1])
    <3> HIDE DEF N
    <3> QED
      BY <1>1, <1>4, <2>1 DEF WithoutOne, N
  <2>3. Append(SubSeq(path, 1, n), path[n + 1]) = SubSeq(path, 1, n + 1)
    BY <1>1, <2>1
  <2> HIDE DEF N
  <2> QED
    BY <2>1, <2>2, <2>3
<1>5. N \in S
  <2> HIDE DEF N, S
  <2> QED
    BY <1>1, <1>3, <1>4, UpTo
<1>6. SubSeq(path, 1, N) = path
  OBVIOUS
<1> QED
  BY <1>5, <1>6

LEMMA NamedWithout ==
    ASSUME NEW path, Len(path) \in Nat
    PROVE  \E named : WithoutOne("", path, Len(path), named) /\ Named(path) = named[Len(path)]
<1>1. PICK named : /\ named[0] = << >> /\ Named(path) = named[Len(path)]
                   /\ \A i \in 0 .. Len(path) - 1 : named[i + 1] = Taken(named[i], path[i + 1])
  BY NamedUnfolded
<1>2. WithoutOne("", path, Len(path), named)
  BY <1>1, Zenon DEF WithoutOne, Taken
<1> QED
  BY <1>1, <1>2

LEMMA SeqLen == \A X : \A s \in Seq(X) : Len(s) \in Nat
  OBVIOUS

LEMMA NamedIsNamed ==
    ASSUME NEW X, NEW path \in Seq(X)
    PROVE  Named(path) \in Seq(X \ {""})
<1>1. Len(path) \in Nat
  OBVIOUS
<1>2. PICK named : WithoutOne("", path, Len(path), named) /\ Named(path) = named[Len(path)]
  BY <1>1, NamedWithout
<1> QED
  BY <1>2, WithoutOneLeft, ZenonT(40)

LEMMA NamedOfNamed ==
    ASSUME NEW X, "" \notin X, NEW path \in Seq(X)
    PROVE  Named(path) = path
<1>1. Len(path) \in Nat
  BY SeqLen, Zenon
<1>2. PICK named : WithoutOne("", path, Len(path), named) /\ Named(path) = named[Len(path)]
  BY <1>1, NamedWithout
<1> QED
  BY <1>2, WithoutNone, Zenon

(* A base path is the root, or has no empty segments.                      *)
IsBase(base) == base = Root \/ (base # << >> /\ "" \notin ToSet(base) /\ IsList(base))

LEMMA JoinIsBase ==
    ASSUME NEW p, NEW q, IsList(p), IsList(q)
    PROVE  IsBase(Join(p, q)) /\ IsList(Join(p, q))
<1>1. IsList(p \o q)
  BY ListConcat
<1> DEFINE X == ToSet(p \o q) \ {""}
           n == Named(p \o q)
<1>2. n \in Seq(X)
  BY <1>1, NamedIsNamed DEF IsList
<1>3. "" \notin X
  OBVIOUS
<1> HIDE DEF n, X
<1>4. ToSet(n) \subseteq X /\ IsList(n)
  BY <1>2, SeqValues
<1>5. IsList(Root)
  BY ListOne DEF Root
<1>6. Join(p, q) = IF n = << >> THEN Root ELSE n
  BY DEF Join, n
<1> QED
  BY <1>3, <1>4, <1>5, <1>6 DEF IsBase

LEMMA MatchesBelow ==
    ASSUME NEW p, Wildcard(p), Front(p) # << >>, Last(Front(p)) # "", NEW path
    PROVE  Matches(p, path) <=> PathMatches(Front(p), path) \/ PrefixMatches(Front(p) \o Root, path)
  BY DEF Matches

(* The pattern of a catch-all endpoint matches every path at or below the  *)
(* base path.                                                              *)
LEMMA CatchAllMatches ==
    ASSUME NEW base, IsBase(base), NEW X, NEW path \in Seq(X), path # << >>, Below(base, path)
    PROVE  Matches(JoinOpenAPIPath(base, CatchAllPattern), path)
<1>0. Len(path) \in Nat /\ DOMAIN path = 1 .. Len(path) /\ Len(path) >= 1
  OBVIOUS
<1>1. CatchAllPattern # Root /\ CatchAllPattern # << >>
  BY DEF CatchAllPattern, Root
<1>2. CASE base = Root
  <2>1. JoinOpenAPIPath(base, CatchAllPattern) = CatchAllPattern
    BY <1>1, <1>2, Zenon DEF JoinOpenAPIPath
  <2>2. Wildcard(CatchAllPattern) /\ Front(CatchAllPattern) = << >>
    BY DEF CatchAllPattern, Wildcard, Last, Front
  <2>3. << >> \o Root = Root /\ Len(Root) = 1
    BY DEF Root
  <2>4. PrefixMatches(<< >> \o Root, path)
    <3>1. \A m : Len(m) = 1 => PrefixMatches(m, path)
      BY <1>0 DEF PrefixMatches
    <3> QED
      BY <2>3, <3>1, Zenon
  <2> QED
    BY <2>1, <2>2, <2>4 DEF Matches
<1>3. CASE base # Root
  <2>1. base # << >> /\ "" \notin ToSet(base) /\ base \in Seq(ToSet(base))
    BY <1>3 DEF IsBase, IsList
  <2> DEFINE n == Len(base)
             p == base \o CatchAllPattern
  <2>2. n \in Nat /\ n >= 1 /\ DOMAIN base = 1 .. n /\ \A i \in 1 .. n : base[i] \in ToSet(base)
    BY <2>1, FrontAndSlash, EveryModifier, Zenon DEF IsList
  <2>3. JoinOpenAPIPath(base, CatchAllPattern) = p
    BY <1>1, <1>3, Zenon DEF JoinOpenAPIPath
  <2>4. Named(base) = base
    BY <2>1, NamedOfNamed
  <2>5. Len(path) >= n /\ \A i \in 1 .. n : path[i] = base[i]
    <3>1. Len(path) >= n /\ SubSeq(path, 1, n) = base
      BY <2>4 DEF Below
    <3>2. SubSeq(path, 1, n) = [i \in 1 .. n |-> path[i]]
      BY <1>0, <2>2, <3>1
    <3> QED
      BY <3>1, <3>2
  <2>6. Wildcard(p) /\ Front(p) = base
    <3> DEFINE Y == ToSet(base) \cup {"**"}
    <3>1. base \in Seq(Y) /\ "**" \in Y
      BY <2>1, Wider
    <3> HIDE DEF Y
    <3>2. \A v \in Y : /\ base \o <<v>> \in Seq(Y) /\ Len(base \o <<v>>) = n + 1 /\ (base \o <<v>>)[n + 1] = v
                       /\ \A i \in 1 .. n : (base \o <<v>>)[i] = base[i]
      BY <3>1, OneAppended
    <3>3. p \in Seq(Y) /\ Len(p) = n + 1 /\ p[n + 1] = "**" /\ \A i \in 1 .. n : p[i] = base[i]
      BY <3>1, <3>2, Zenon DEF CatchAllPattern
    <3> HIDE DEF p
    <3>4. p # << >> /\ (n + 1) - 1 = n
      BY <2>2, <3>3
    <3>5. Front(p) \in Seq(Y) /\ Len(Front(p)) = n /\ \A i \in 1 .. n : Front(p)[i] = p[i]
      BY <3>3, <3>4, FrontAndSlash, ZenonT(40)
    <3>6. Front(p) = base
      BY <3>1, <3>3, <3>5, SameElements
    <3> QED
      BY <3>3, <3>6 DEF Wildcard, Last
  <2>7. Last(base) # ""
    <3>1. n \in 1 .. n
      <4> HIDE DEF n
      <4> QED
        BY <2>2
    <3> QED
      BY <2>1, <2>2, <3>1, Zenon DEF Last
  <2>8. PathMatches(base, path) \/ PrefixMatches(base \o Root, path)
    <3>1. Len(base \o Root) = n + 1 /\ \A i \in 1 .. n : (base \o Root)[i] = base[i]
      <4> DEFINE Y == ToSet(base) \cup {""}
      <4>1. base \in Seq(Y)
        BY <2>1, Wider
      <4>2. "" \in Y
        OBVIOUS
      <4> HIDE DEF Y, n
      <4>3. \A v \in Y : /\ Len(base \o <<v>>) = Len(base) + 1
                         /\ \A i \in 1 .. Len(base) : (base \o <<v>>)[i] = base[i]
        BY <4>1, OneAppended
      <4> QED
        BY <4>2, <4>3, Zenon DEF Root, n
    <3>2. CASE Len(path) = n
      BY <2>2, <2>5, <3>2 DEF PathMatches, SegmentMatches
    <3>3. CASE Len(path) # n
      <4>1. Len(path) >= n + 1 /\ (n + 1) - 1 = n
        <5>1. \A k, m \in Nat : m >= k /\ m # k => m >= k + 1 /\ (k + 1) - 1 = k
          OBVIOUS
        <5> QED
          BY <1>0, <2>2, <2>5, <3>3, <5>1, Zenon
      <4> QED
        BY <2>5, <3>1, <4>1 DEF PrefixMatches, SegmentMatches
    <3> QED
      BY <3>2, <3>3
  <2> HIDE DEF p
  <2> QED
    BY <2>1, <2>3, <2>6, <2>7, <2>8, MatchesBelow
<1> QED
  BY <1>2, <1>3

(* The endpoints of the apis have their routes. *)
LEMMA APIEndpointsAreRouted ==
    ASSUME NEW server, NEW a \in ToSet(APIs(server)), NEW e \in Endpoints(a)
    PROVE  Route("api", JoinOpenAPIPath(APIBasePath(server, a), e.labels[1]), e, AccessControls(<<server, a, e>>))
               \in EndpointRoutes(server)
<1> DEFINE R(b) == {Route("api", JoinOpenAPIPath(APIBasePath(server, b), f.labels[1]), f,
                          AccessControls(<<server, b, f>>)) : f \in Endpoints(b)}
           U == UNION {R(b) : b \in ToSet(APIs(server))}
<1>1. U \subseteq EndpointRoutes(server)
  BY DEF EndpointRoutes
<1>2. Route("api", JoinOpenAPIPath(APIBasePath(server, a), e.labels[1]), e, AccessControls(<<server, a, e>>)) \in R(a)
  OBVIOUS
<1> HIDE DEF R
<1>3. R(a) \subseteq U
  OBVIOUS
<1> HIDE DEF U
<1> QED
  BY <1>1, <1>2, <1>3

(* An api with access control whose base path is its own has a route that  *)
(* catches every path.                                                     *)
LEMMA CaughtOrCatchAll ==
    ASSUME NEW server, NEW a \in ToSet(APIs(server)), AccessControls(<<server, a>>) # << >>,
           \A b \in ToSet(Sites(server)) : SiteBasePath(server, b) # APIBasePath(server, a)
    PROVE  \E r \in EndpointRoutes(server) : r.pattern = JoinOpenAPIPath(APIBasePath(server, a), CatchAllPattern)
<1> DEFINE base == APIBasePath(server, a)
<1>0. \A k, p, b, c : Route(k, p, b, c).pattern = p
  BY DEF Route
<1>1. CASE HasCatchAll(server, base)
  <2>1. PICK d \in ToSet(APIs(server)) : APIBasePath(server, d) = base /\ \E e \in Endpoints(d) : e.labels[1] = CatchAllPattern
    BY <1>1 DEF HasCatchAll
  <2>2. PICK e \in Endpoints(d) : e.labels[1] = CatchAllPattern
    BY <2>1
  <2> DEFINE r == Route("api", JoinOpenAPIPath(APIBasePath(server, d), e.labels[1]), e, AccessControls(<<server, d, e>>))
  <2>3. r \in EndpointRoutes(server)
    BY <2>1, <2>2, APIEndpointsAreRouted
  <2>4. r.pattern = JoinOpenAPIPath(base, CatchAllPattern)
    BY <1>0, <2>1, <2>2
  <2> QED
    BY <2>3, <2>4
<1>2. CASE ~HasCatchAll(server, base)
  <2>1. base \in CaughtBasePaths(server)
    BY <1>2, Zenon DEF CaughtBasePaths, UniqueToSites
  <2>2. CatchAllRoute(server, base) \in EndpointRoutes(server)
    BY <2>1, Zenon DEF EndpointRoutes, CatchAllRoutes
  <2>3. CatchAllRoute(server, base).pattern = JoinOpenAPIPath(base, CatchAllPattern)
    BY <1>0 DEF CatchAllRoute
  <2> QED
    BY <2>2, <2>3
<1> QED
  BY <1>1, <1>2

(* Such a route keeps the access control of the api. *)
LEMMA CatchAllIsGuarded ==
    ASSUME NEW server, IsList(APIs(server)), NEW r \in EndpointRoutes(server), r.block = CatchAll
    PROVE  r.controls # << >>
<1>0. \A k, p, b, c : Route(k, p, b, c).block = b /\ Route(k, p, b, c).controls = c
  BY DEF Route
<1>1. CatchAll.type = "catch-all"
  BY DEF CatchAll, Block, BlockAt
<1>2. \A x : CatchAll \notin Endpoints(x)
  BY <1>1 DEF Endpoints
<1>3. r \in CatchAllRoutes(server)
  <2>1. CASE \E e \in Endpoints(server) :
                 r = Route("endpoint", JoinOpenAPIPath(SrvBasePath(server), e.labels[1]), e, AccessControls(<<server, e>>))
    <3>1. PICK e \in Endpoints(server) :
                 r = Route("endpoint", JoinOpenAPIPath(SrvBasePath(server), e.labels[1]), e, AccessControls(<<server, e>>))
      BY <2>1
    <3>2. r.block = e
      BY <1>0, <3>1
    <3> QED
      BY <1>2, <3>2
  <2>2. CASE \E a \in ToSet(APIs(server)) : \E e \in Endpoints(a) :
                 r = Route("api", JoinOpenAPIPath(APIBasePath(server, a), e.labels[1]), e, AccessControls(<<server, a, e>>))
    <3>1. PICK a \in ToSet(APIs(server)) : \E e \in Endpoints(a) :
                 r = Route("api", JoinOpenAPIPath(APIBasePath(server, a), e.labels[1]), e, AccessControls(<<server, a, e>>))
      BY <2>2
    <3>2. PICK e \in Endpoints(a) :
                 r = Route("api", JoinOpenAPIPath(APIBasePath(server, a), e.labels[1]), e, AccessControls(<<server, a, e>>))
      BY <3>1
    <3>3. r.block = e
      BY <1>0, <3>2
    <3> QED
      BY <1>2, <3>3
  <2> QED
    BY <2>1, <2>2, Zenon DEF EndpointRoutes
<1>4. PICK base \in CaughtBasePaths(server) : r = CatchAllRoute(server, base)
  BY <1>3 DEF CatchAllRoutes
<1>5. PICK a \in ToSet(APIs(server)) : APIBasePath(server, a) = base /\ AccessControls(<<server, a>>) # << >>
  BY <1>4, Zenon DEF CaughtBasePaths
<1> DEFINE apis == APIs(server)
           n == FirstGuarded(server, base)
           I == {i \in 1 .. Len(apis) : APIBasePath(server, apis[i]) = base /\ AccessControls(<<server, apis[i]>>) # << >>}
<1>6. Len(apis) \in Nat /\ DOMAIN apis = 1 .. Len(apis)
  BY DEF IsList
<1>7. I # {}
  <2>1. PICK i \in DOMAIN apis : apis[i] = a
    BY Zenon DEF ToSet
  <2> QED
    BY <1>5, <1>6, <2>1
<1>8. n \in I
  <2>1. n = Min(I)
    BY <1>7 DEF FirstGuarded, SelectInSeq
  <2>2. I \subseteq Nat
    BY <1>6
  <2> HIDE DEF I, n
  <2> QED
    BY <1>7, <2>1, <2>2, Least
<1>9. AccessControls(<<server, apis[n]>>) # << >>
  BY <1>8
<1> QED
  BY <1>0, <1>4, <1>9 DEF CatchAllRoute

LEMMA BasePathsAreBases ==
    ASSUME NEW server, IsServed(server), NEW a \in ToSet(APIs(server))
    PROVE  IsBase(APIBasePath(server, a))
<1>1. IsList(SrvBasePath(server))
  BY JoinIsBase, ListEmpty DEF IsServed, SrvBasePath
<1> QED
  BY <1>1, JoinIsBase DEF IsServed, APIBasePath

LEMMA GuardedIsFound ==
    ASSUME NEW server, IsServed(server), NEW path, IsList(path), path # << >>,
           NEW a \in ToSet(APIs(server)), AccessControls(<<server, a>>) # << >>,
           \A b \in ToSet(Sites(server)) : SiteBasePath(server, b) # APIBasePath(server, a),
           Below(APIBasePath(server, a), path)
    PROVE  /\ FindHandler(server, path).by \in {"api", "endpoint"}
           /\ FindHandler(server, path).route.block = CatchAll => FindHandler(server, path).controls # << >>
<1> DEFINE M == Matching(EndpointRoutes(server), path)
           first == First(M)
<1>1. PICK r \in EndpointRoutes(server) : r.pattern = JoinOpenAPIPath(APIBasePath(server, a), CatchAllPattern)
  BY CaughtOrCatchAll
<1>2. Matches(r.pattern, path)
  <2>1. path \in Seq(ToSet(path))
    BY DEF IsList
  <2> QED
    BY <1>1, <2>1, BasePathsAreBases, CatchAllMatches
<1>3. r \in M
  BY <1>2, EndpointKinds DEF Matching
<1>4. M \subseteq EndpointRoutes(server)
  BY DEF Matching
<1>5. first \in M
  BY <1>3, <1>4, FirstServed
<1>6. FindHandler(server, path) = ByRoute(first)
  BY <1>3, EndpointFound
<1>7. /\ FindHandler(server, path).by = first.kind /\ FindHandler(server, path).route = first
      /\ FindHandler(server, path).controls = first.controls
  BY <1>6 DEF ByRoute, Answer
<1>8. first \in EndpointRoutes(server)
  BY <1>4, <1>5
<1> HIDE DEF first, M
<1>9. first.kind \in {"endpoint", "api"}
  BY <1>8, EndpointKinds
<1>10. first.block = CatchAll => first.controls # << >>
  BY <1>8, CatchAllIsGuarded DEF IsServed
<1> QED
  BY <1>7, <1>9, <1>10

(* What is answered is what the mux finds. *)
FoundInv(served) ==
    answer.by # "nobody" =>
        /\ request.server \in served /\ request.path \in RequestPaths
        /\ answer = FindHandler(request.server, request.path)

LEMMA FoundAlways == ASSUME NEW served PROVE MuxSpec(served) => []FoundInv(served)
<1>1. NobodyAsked => FoundInv(served)
  BY DEF NobodyAsked, FoundInv, Answer
<1>2. FoundInv(served) /\ [Ask(served)]_<<request, answer>> => FoundInv(served)'
  <2> SUFFICES ASSUME FoundInv(served), [Ask(served)]_<<request, answer>> PROVE FoundInv(served)'
    OBVIOUS
  <2>1. CASE Ask(served)
    BY <2>1 DEF Ask, FoundInv
  <2>2. CASE UNCHANGED <<request, answer>>
    BY <2>2 DEF FoundInv
  <2> QED
    BY <2>1, <2>2
<1> QED
  BY <1>1, <1>2, PTL DEF MuxSpec

(* server/mux.go: a request for the very path of an endpoint reaches it,   *)
(* whatever other patterns the server has registered.                      *)
THEOREM LiteralRoutes ==
    ASSUME NEW served, \A s \in served : IsServed(s)
    PROVE  MuxSpec(served) => []LiteralRouteAnswers
<1>1. FoundInv(served) => LiteralRouteAnswers
  BY LiteralIsFound DEF FoundInv, LiteralRouteAnswers
<1> QED
  BY <1>1, FoundAlways, PTL

(* newEndpointMap and FindHandler: an endpoint answers every path below a   *)
(* guarded api, and the one for the unknown paths is guarded as well.      *)
THEOREM GuardedPaths ==
    ASSUME NEW served, \A s \in served : IsServed(s)
    PROVE  MuxSpec(served) => []UnknownPathsAreGuarded
<1>1. FoundInv(served) => UnknownPathsAreGuarded
  <2> SUFFICES ASSUME FoundInv(served), answer.by # "nobody",
                      NEW a \in ToSet(APIs(request.server)), AccessControls(<<request.server, a>>) # << >>,
                      APIBasePath(request.server, a) \notin {SiteBasePath(request.server, b) : b \in ToSet(Sites(request.server))},
                      Below(APIBasePath(request.server, a), request.path)
               PROVE  /\ answer.by \in {"api", "endpoint"}
                      /\ answer.route.block = CatchAll => answer.controls # << >>
    BY Zenon DEF UnknownPathsAreGuarded
  <2>1. IsServed(request.server) /\ IsList(request.path) /\ request.path # << >>
    BY PathsAssumption DEF FoundInv, IsList
  <2>2. answer = FindHandler(request.server, request.path)
    BY DEF FoundInv
  <2>3. \A b \in ToSet(Sites(request.server)) : SiteBasePath(request.server, b) # APIBasePath(request.server, a)
    OBVIOUS
  <2> QED
    BY <2>1, <2>2, <2>3, GuardedIsFound
<1> QED
  BY <1>1, FoundAlways, PTL

-------------------------------------------------------------------------------
(* The handler of an error                                                 *)

(* The last of the places where something holds. *)
LEMMA LastPlace ==
    ASSUME NEW s, IsList(s), NEW S \in SUBSET DOMAIN s, S # {}
    PROVE  Max(S) \in S /\ \A i \in S : i <= Max(S)
<1>1. DOMAIN s = 1 .. Len(s) /\ Len(s) \in Nat
  BY DEF IsList
<1> QED
  BY <1>1, Greatest

(* Each kind has the last handler that names it. *)
LEMMA PerKindIs ==
    ASSUME NEW h, IsList(h), NEW k
    PROVE  /\ k \in DOMAIN PerKind(h) <=> \E i \in DOMAIN h : k \in ToSet(h[i].kinds)
           /\ k \in DOMAIN PerKind(h) =>
                 \E i \in DOMAIN h : /\ k \in ToSet(h[i].kinds) /\ PerKind(h)[k] = h[i]
                                     /\ \A j \in DOMAIN h : k \in ToSet(h[j].kinds) => j <= i
<1> DEFINE S == {i \in DOMAIN h : k \in ToSet(h[i].kinds)}
<1>1. k \in DOMAIN PerKind(h) <=> S # {}
  BY DEF PerKind
<1>2. k \in DOMAIN PerKind(h) => PerKind(h)[k] = h[Max(S)]
  BY DEF PerKind
<1>3. S # {} => Max(S) \in S /\ \A i \in S : i <= Max(S)
  BY LastPlace
<1> QED
  BY <1>1, <1>2, <1>3

SuperKinds == {"endpoint", "backend", "access_control", "*"}

(* A kind has one super kind besides "*", and super kinds have none. *)
LEMMA SubKindsAreApart ==
    ASSUME NEW ref \in {"api", "endpoint"}
    PROVE  /\ "*" \in DOMAIN SubKinds(ref) /\ DOMAIN SubKinds(ref) \subseteq SuperKinds
           /\ \A s \in DOMAIN SubKinds(ref) : SubKinds(ref)[s] \cap SuperKinds = {}
           /\ \A s, t \in DOMAIN SubKinds(ref) \ {"*"} : s # t => SubKinds(ref)[s] \cap SubKinds(ref)[t] = {}
<1>1. /\ "*" \in SuperKindsOf(ref) /\ SuperKindsOf(ref) \subseteq SuperKinds
  BY Zenon DEF SuperKindsOf, SuperKinds
<1>2. DOMAIN SubKinds(ref) = SuperKindsOf(ref)
  BY Zenon DEF SubKinds
<1> DEFINE ofAccess   == {"insufficient_permissions"}
           ofEndpoint == IF ref = "endpoint" THEN {"sequence", "unexpected_status"} ELSE {}
<1>3. \A s \in SuperKindsOf(ref) :
          SubKinds(ref)[s] = IF s = "backend" THEN BackendKinds
                             ELSE IF s = "access_control" THEN ofAccess
                             ELSE IF s = "endpoint" THEN ofEndpoint
                             ELSE BackendKinds \cup ofAccess \cup ofEndpoint
  BY DEF SubKinds
<1>4. /\ BackendKinds \cap SuperKinds = {} /\ ofAccess \cap SuperKinds = {} /\ ofEndpoint \cap SuperKinds = {}
      /\ BackendKinds \cap ofAccess = {} /\ BackendKinds \cap ofEndpoint = {} /\ ofAccess \cap ofEndpoint = {}
  BY DEF BackendKinds, SuperKinds
<1> HIDE DEF ofAccess, ofEndpoint
<1>5. ASSUME NEW s \in SuperKindsOf(ref) PROVE SubKinds(ref)[s] \cap SuperKinds = {}
  BY <1>3, <1>4
<1>6. ASSUME NEW s \in SuperKindsOf(ref) \ {"*"}, NEW t \in SuperKindsOf(ref) \ {"*"}, s # t
      PROVE  SubKinds(ref)[s] \cap SubKinds(ref)[t] = {}
  <2>1. s \in {"endpoint", "backend", "access_control"} /\ t \in {"endpoint", "backend", "access_control"}
    BY <1>1 DEF SuperKinds
  <2> QED
    BY <1>3, <1>4, <1>6, <2>1
<1> QED
  BY <1>1, <1>2, <1>5, <1>6

(* A super kind adds its handler where there is none. *)
LEMMA ExpandAdds ==
    ASSUME NEW subs, NEW m, NEW super, super # "*"
    PROVE  /\ \A k : k \in DOMAIN Expand(subs, m, super) <=>
                        k \in DOMAIN m \/ (super \in DOMAIN subs \cap DOMAIN m /\ k \in subs[super])
           /\ \A k \in DOMAIN Expand(subs, m, super) :
                 Expand(subs, m, super)[k] = IF k \in DOMAIN m THEN m[k] ELSE m[super]
<1>1. CASE super \notin DOMAIN subs \cap DOMAIN m
  BY <1>1 DEF Expand
<1>2. CASE super \in DOMAIN subs \cap DOMAIN m
  <2>1. Expand(subs, m, super) = [k \in DOMAIN m \cup subs[super] |-> IF k \in DOMAIN m THEN m[k] ELSE m[super]]
    BY <1>2 DEF Expand, Handle
  <2> QED
    BY <1>2, <2>1
<1> QED
  BY <1>1, <1>2

LEMMA ExpandEverything ==
    ASSUME NEW subs, NEW m, "*" \in DOMAIN subs
    PROVE  /\ \A k : k \in DOMAIN Expand(subs, m, "*") <=>
                        k # "*" /\ (k \in DOMAIN m \/ ("*" \in DOMAIN m /\ k \in subs["*"]))
           /\ \A k \in DOMAIN Expand(subs, m, "*") :
                 Expand(subs, m, "*")[k] = IF k \in DOMAIN m THEN m[k] ELSE m["*"]
<1>1. CASE "*" \notin DOMAIN m
  BY <1>1 DEF Expand
<1>2. CASE "*" \in DOMAIN m
  <2> DEFINE all == [k \in DOMAIN m \cup subs["*"] |-> IF k \in DOMAIN m THEN m[k] ELSE m["*"]]
  <2>1. Expand(subs, m, "*") = [k \in DOMAIN all \ {"*"} |-> all[k]]
    BY <1>2 DEF Expand, Handle
  <2> QED
    BY <1>2, <2>1
<1> QED
  BY <1>1, <1>2

(* Each kind has its own handler, else that of its super kind, else the    *)
(* one for everything.                                                     *)
LEMMA ExpandedIs ==
    ASSUME NEW ref \in {"api", "endpoint"}, NEW m, NEW k
    PROVE  LET subs   == SubKinds(ref)
               supers == {s \in DOMAIN subs \ {"*"} : k \in subs[s]} \cap DOMAIN m
               any    == "*" \in DOMAIN m /\ k \in subs["*"]
               all    == Expanded(ref, m)
           IN  /\ k \in DOMAIN all <=> k # "*" /\ (k \in DOMAIN m \/ supers # {} \/ any)
               /\ k \in DOMAIN all =>
                     \/ k \in DOMAIN m /\ all[k] = m[k]
                     \/ k \notin DOMAIN m /\ \E s \in supers : all[k] = m[s]
                     \/ k \notin DOMAIN m /\ supers = {} /\ any /\ all[k] = m["*"]
<1> DEFINE subs == SubKinds(ref)
           m1   == Expand(subs, m, "endpoint")
           m2   == Expand(subs, m1, "backend")
           m3   == Expand(subs, m2, "access_control")
           all  == Expand(subs, m3, "*")
           supers == {s \in DOMAIN subs \ {"*"} : k \in subs[s]} \cap DOMAIN m
           any    == "*" \in DOMAIN m /\ k \in subs["*"]
<1>0. Expanded(ref, m) = all
  BY DEF Expanded
<1>1. /\ "*" \in DOMAIN subs /\ DOMAIN subs \subseteq SuperKinds
      /\ \A s \in DOMAIN subs : subs[s] \cap SuperKinds = {}
      /\ \A s, t \in DOMAIN subs \ {"*"} : s # t => subs[s] \cap subs[t] = {}
  BY SubKindsAreApart
<1> HIDE DEF subs
<1>2. /\ \A x : x \in DOMAIN m1 <=> x \in DOMAIN m \/ ("endpoint" \in DOMAIN subs \cap DOMAIN m /\ x \in subs["endpoint"])
      /\ \A x \in DOMAIN m1 : m1[x] = IF x \in DOMAIN m THEN m[x] ELSE m["endpoint"]
  BY ExpandAdds
<1> HIDE DEF m1
<1>3. /\ \A x : x \in DOMAIN m2 <=> x \in DOMAIN m1 \/ ("backend" \in DOMAIN subs \cap DOMAIN m1 /\ x \in subs["backend"])
      /\ \A x \in DOMAIN m2 : m2[x] = IF x \in DOMAIN m1 THEN m1[x] ELSE m1["backend"]
  BY ExpandAdds
<1> HIDE DEF m2
<1>4. /\ \A x : x \in DOMAIN m3 <=> x \in DOMAIN m2 \/ ("access_control" \in DOMAIN subs \cap DOMAIN m2 /\ x \in subs["access_control"])
      /\ \A x \in DOMAIN m3 : m3[x] = IF x \in DOMAIN m2 THEN m2[x] ELSE m2["access_control"]
  BY ExpandAdds
<1> HIDE DEF m3
<1>5. /\ \A x : x \in DOMAIN all <=> x # "*" /\ (x \in DOMAIN m3 \/ ("*" \in DOMAIN m3 /\ x \in subs["*"]))
      /\ \A x \in DOMAIN all : all[x] = IF x \in DOMAIN m3 THEN m3[x] ELSE m3["*"]
  BY <1>1, ExpandEverything
<1> HIDE DEF all
<1>6. ASSUME NEW s \in SuperKinds
      PROVE  /\ s \in DOMAIN m1 <=> s \in DOMAIN m
             /\ s \in DOMAIN m2 <=> s \in DOMAIN m
             /\ s \in DOMAIN m3 <=> s \in DOMAIN m
             /\ s \in DOMAIN m => m1[s] = m[s] /\ m2[s] = m[s] /\ m3[s] = m[s]
  <2>1. \A t \in DOMAIN subs : s \notin subs[t]
    BY <1>1
  <2>2. s \in DOMAIN m1 <=> s \in DOMAIN m
    BY <1>2, <2>1
  <2>3. s \in DOMAIN m2 <=> s \in DOMAIN m
    BY <1>3, <2>1, <2>2
  <2>4. s \in DOMAIN m3 <=> s \in DOMAIN m
    BY <1>4, <2>1, <2>3
  <2> QED
    BY <1>2, <1>3, <1>4, <2>2, <2>3, <2>4
<1>7. {"endpoint", "backend", "access_control", "*"} \subseteq SuperKinds
  BY DEF SuperKinds
<1>8. k \in DOMAIN m3 <=> k \in DOMAIN m \/ supers # {}
  <2>1. supers # {} <=> \/ "endpoint" \in DOMAIN subs \cap DOMAIN m /\ k \in subs["endpoint"]
                        \/ "backend" \in DOMAIN subs \cap DOMAIN m /\ k \in subs["backend"]
                        \/ "access_control" \in DOMAIN subs \cap DOMAIN m /\ k \in subs["access_control"]
    BY <1>1 DEF SuperKinds
  <2> HIDE DEF supers
  <2> QED
    BY <1>2, <1>3, <1>4, <1>6, <1>7, <2>1
<1>9. k \in DOMAIN m => m3[k] = m[k]
  BY <1>2, <1>3, <1>4
<1>10. k \in DOMAIN m3 /\ k \notin DOMAIN m => \E s \in supers : m3[k] = m[s]
  <2> SUFFICES ASSUME k \in DOMAIN m3, k \notin DOMAIN m PROVE \E s \in supers : m3[k] = m[s]
    OBVIOUS
  <2>1. CASE k \in DOMAIN m1
    <3>1. "endpoint" \in supers /\ m3[k] = m["endpoint"]
      BY <1>2, <1>3, <1>4, <2>1
    <3> QED
      BY <3>1
  <2>2. CASE k \in DOMAIN m2 /\ k \notin DOMAIN m1
    <3>1. "backend" \in supers /\ m3[k] = m["backend"]
      BY <1>3, <1>4, <1>6, <1>7, <2>2
    <3> QED
      BY <3>1
  <2>3. CASE k \notin DOMAIN m2
    <3>1. k \notin DOMAIN m1
      BY <1>3, <2>3
    <3>2. "access_control" \in supers /\ m3[k] = m["access_control"]
      BY <1>4, <1>6, <1>7, <2>3
    <3> QED
      BY <3>2
  <2> QED
    BY <1>3, <2>1, <2>2, <2>3
<1>11. "*" \in DOMAIN m3 <=> "*" \in DOMAIN m
  BY <1>6, <1>7
<1>12. "*" \in DOMAIN m => m3["*"] = m["*"]
  BY <1>6, <1>7
<1> HIDE DEF supers
<1>13. k \in DOMAIN all <=> k # "*" /\ (k \in DOMAIN m \/ supers # {} \/ any)
  BY <1>5, <1>8, <1>11
<1>14. k \in DOMAIN all => \/ k \in DOMAIN m /\ all[k] = m[k]
                           \/ k \notin DOMAIN m /\ \E s \in supers : all[k] = m[s]
                           \/ k \notin DOMAIN m /\ supers = {} /\ any /\ all[k] = m["*"]
  BY <1>5, <1>8, <1>9, <1>10, <1>11, <1>12
<1> QED
  BY <1>0, <1>13, <1>14, Zenon DEF subs, supers

(* The later reference overrides the earlier. *)
LEMMA LaterOverrides ==
    ASSUME NEW references, IsList(references), NEW k
    PROVE  LET of(i) == Expanded(references[i].name, PerKind(references[i].handlers))
           IN  /\ k \in DOMAIN newErrorHandler(references) <=> \E i \in DOMAIN references : k \in DOMAIN of(i)
               /\ k \in DOMAIN newErrorHandler(references) =>
                     \E i \in DOMAIN references :
                         /\ k \in DOMAIN of(i) /\ newErrorHandler(references)[k] = of(i)[k]
                         /\ \A j \in DOMAIN references : k \in DOMAIN of(j) => j <= i
<1> DEFINE of(i) == Expanded(references[i].name, PerKind(references[i].handlers))
           S == {i \in DOMAIN references : k \in DOMAIN of(i)}
<1>1. k \in DOMAIN newErrorHandler(references) <=> S # {}
  BY SMTT(30) DEF newErrorHandler
<1>2. k \in DOMAIN newErrorHandler(references) => newErrorHandler(references)[k] = of(Max(S))[k]
  BY DEF newErrorHandler
<1> HIDE DEF of
<1>3. S # {} => Max(S) \in S /\ \A i \in S : i <= Max(S)
  BY LastPlace
<1>4. /\ k \in DOMAIN newErrorHandler(references) <=> \E i \in DOMAIN references : k \in DOMAIN of(i)
      /\ k \in DOMAIN newErrorHandler(references) =>
            \E i \in DOMAIN references :
                /\ k \in DOMAIN of(i) /\ newErrorHandler(references)[k] = of(i)[k]
                /\ \A j \in DOMAIN references : k \in DOMAIN of(j) => j <= i
  BY <1>1, <1>2, <1>3
<1> QED
  BY <1>4 DEF of

(* The first kind that has a handler decides. *)
LEMMA FirstKindDecides ==
    ASSUME NEW handlers, "*" \notin DOMAIN handlers, NEW e, IsList(e.kinds), HandlerFor(handlers, e) # NoHandler
    PROVE  \E i \in DOMAIN e.kinds :
               /\ e.kinds[i] \in DOMAIN handlers /\ HandlerFor(handlers, e) = handlers[e.kinds[i]]
               /\ \A j \in DOMAIN e.kinds : e.kinds[j] \in DOMAIN handlers => i <= j
<1> DEFINE K == e.kinds
           kinds == K \o <<"*">>
           S == {i \in DOMAIN kinds : /\ kinds[i] \in DOMAIN handlers
                                      /\ \A j \in 1 .. i - 1 : kinds[j] \notin DOMAIN handlers}
<1>1. DOMAIN K = 1 .. Len(K) /\ Len(K) \in Nat
  BY DEF IsList
<1>2. DOMAIN kinds = 1 .. Len(K) + 1 /\ kinds[Len(K) + 1] = "*" /\ \A i \in DOMAIN K : kinds[i] = K[i]
  BY <1>1, SMTT(30) DEF IsList
<1>3. HandlerFor(handlers, e) = IF S = {} THEN NoHandler ELSE handlers[kinds[CHOOSE i \in S : TRUE]]
  BY Zenon DEF HandlerFor
<1>4. PICK i \in S : HandlerFor(handlers, e) = handlers[kinds[i]]
  BY <1>3, Zenon
<1>5. i \in 1 .. Len(K) + 1 /\ kinds[i] \in DOMAIN handlers /\ \A j \in 1 .. i - 1 : kinds[j] \notin DOMAIN handlers
  BY <1>2
<1> HIDE DEF S, kinds
<1>6. i \in DOMAIN K
  BY <1>1, <1>2, <1>5
<1>7. ASSUME NEW j \in DOMAIN K, K[j] \in DOMAIN handlers PROVE i <= j
  BY <1>1, <1>2, <1>5, <1>6, <1>7
<1> QED
  BY <1>2, <1>4, <1>5, <1>6, <1>7

-------------------------------------------------------------------------------
(* Timeouts: the round trip by itself, and in the gateway                  *)

(* While the request is open, and until its error has been looked at, a    *)
(* guard that has canceled, or is about to, has left the reason behind.    *)
ReasonIsKept ==
    call \in {"open", "header", "failed"} /\ (guard = "sent" \/ canceled = "guard")
        => errCh # ""

(* Nothing happens before the request starts. *)
NothingBefore == call = "idle" => guard = "none" /\ canceled = "no" /\ cause = ""

(* The transport fails for the guard only if the guard has canceled. *)
CauseIsReal == cause = "guard" => canceled = "guard"

(* Only one who fails has an outcome to look at. *)
Undecided == call \in {"idle", "open", "header", "failed"} => result = ""

(* The channel holds nothing but timeouts. *)
OnlyTimeouts == errCh \in {"", "deadline", "ttfb"}

TripInv == OnlyTimeouts /\ ReasonIsKept /\ NothingBefore /\ CauseIsReal /\ Undecided /\ TimeoutsAreReported

LEMMA IdleInv == ASSUME NEW t, Idle(t) PROVE TripInv
  BY DEF Idle, TripInv, ReasonIsKept, NothingBefore, CauseIsReal, Undecided, OnlyTimeouts, TimeoutsAreReported

LEMMA RenewInv == ASSUME NEW t, Renew(t) PROVE TripInv'
  BY DEF Renew, TripInv, ReasonIsKept, NothingBefore, CauseIsReal, Undecided, OnlyTimeouts, TimeoutsAreReported

(* What only measures time neither cancels nor takes the reason away.      *)
LEMMA MeasureInv ==
    ASSUME TripInv, WroteRequest \/ TimerFires \/ ResetTimer \/ ResetterTicks \/ ResetterStops
                      \/ DeadlineExpires
    PROVE  TripInv'
  BY DEF TripInv, ReasonIsKept, NothingBefore, CauseIsReal, Undecided, OnlyTimeouts, TimeoutsAreReported,
         WroteRequest, TimerFires, ResetTimer, ResetterTicks, ResetterStops, DeadlineExpires

LEMMA GuardInv ==
    ASSUME TripInv, GuardSends \/ GuardCancels \/ GuardEnds
    PROVE  TripInv'
<1> USE DEF TripInv, ReasonIsKept, NothingBefore, CauseIsReal, Undecided, OnlyTimeouts, TimeoutsAreReported
<1>1. CASE GuardSends
  <2>1. errCh' # "" /\ call # "idle"
    BY <1>1 DEF GuardSends
  <2> QED
    BY <1>1, <2>1 DEF GuardSends
<1>2. CASE GuardCancels
  <2>1. call # "idle" /\ (call \in {"open", "header", "failed"} => errCh # "")
    BY <1>2 DEF GuardCancels
  <2> QED
    BY <1>2, <2>1 DEF GuardCancels
<1>3. CASE GuardEnds
  BY <1>3 DEF GuardEnds
<1> QED
  BY <1>1, <1>2, <1>3

LEMMA AnswerInv ==
    ASSUME TripInv, FirstByte \/ HeaderRead \/ OriginFails \/ TransportCanceled \/ BodyEnds \/ BodyCut
    PROVE  TripInv'
<1> USE DEF TripInv, ReasonIsKept, NothingBefore, CauseIsReal, Undecided, OnlyTimeouts, TimeoutsAreReported, time
<1>1. CASE FirstByte
  BY <1>1 DEF FirstByte
<1>2. CASE HeaderRead
  BY <1>2 DEF HeaderRead
<1>3. CASE OriginFails
  BY <1>3 DEF OriginFails
<1>4. CASE TransportCanceled
  BY <1>4 DEF TransportCanceled
<1>5. CASE BodyEnds
  BY <1>5 DEF BodyEnds
<1>6. CASE BodyCut
  BY <1>6 DEF BodyCut
<1> QED
  BY <1>1, <1>2, <1>3, <1>4, <1>5, <1>6

LEMMA CallerInv ==
    ASSUME TripInv, Start \/ ReturnError \/ CallerCancels
    PROVE  TripInv'
<1> USE DEF TripInv, ReasonIsKept, NothingBefore, CauseIsReal, Undecided, OnlyTimeouts, TimeoutsAreReported, time
<1>1. CASE Start
  BY <1>1 DEF Start
<1>2. CASE ReturnError
  <2>1. errCh = "" => cause # "guard"
    BY <1>2 DEF ReturnError
  <2> QED
    BY <1>2, <2>1 DEF ReturnError
<1>3. CASE CallerCancels
  BY <1>3 DEF CallerCancels
<1> QED
  BY <1>1, <1>2, <1>3

LEMMA StutterInv == ASSUME TripInv, UNCHANGED trip PROVE TripInv'
  BY DEF TripInv, ReasonIsKept, NothingBefore, CauseIsReal, Undecided, OnlyTimeouts,
         TimeoutsAreReported, trip

LEMMA TripStep == ASSUME TripInv, TripNext PROVE TripInv'
<1>1. CASE Start \/ ReturnError \/ CallerCancels
  BY <1>1, CallerInv
<1>2. CASE FirstByte \/ HeaderRead \/ OriginFails \/ TransportCanceled \/ BodyEnds \/ BodyCut
  BY <1>2, AnswerInv
<1>3. CASE WroteRequest \/ TimerFires \/ ResetTimer \/ ResetterTicks \/ ResetterStops
             \/ DeadlineExpires
  BY <1>3, MeasureInv
<1>4. CASE GuardSends \/ GuardCancels \/ GuardEnds
  BY <1>4, GuardInv
<1> QED
  BY <1>1, <1>2, <1>3, <1>4, Zenon DEF TripNext, Transport, Timers

(* As in the gateway, one request follows another, with timings of its own. *)
Again     == \E t \in [ttfb : BOOLEAN, timeout : BOOLEAN] : Renew(t)
TripsSpec == TripInit /\ [][TripNext \/ Again]_trip

(* What happens to one request, or to the ones that follow, keeps the       *)
(* invariant.                                                               *)
THEOREM TripInvariance == TripsSpec => []TripInv
<1>1. TripInit => TripInv
  BY IdleInv DEF TripInit
<1>2. TripInv /\ [TripNext \/ Again]_trip => TripInv'
  <2> SUFFICES ASSUME TripInv, [TripNext \/ Again]_trip PROVE TripInv'
    OBVIOUS
  <2>1. CASE TripNext
    BY <2>1, TripStep
  <2>2. CASE Again
    BY <2>2, RenewInv DEF Again
  <2>3. CASE UNCHANGED trip
    BY <2>3, StutterInv
  <2> QED
    BY <2>1, <2>2, <2>3
<1> QED
  BY <1>1, <1>2, PTL DEF TripsSpec

(* However guard, timers, transport and caller interleave, a request that   *)
(* the guard of withTimeout has canceled is reported as the timeout it was, *)
(* and never as an error of the backend.                                    *)
THEOREM ReportedAsTimeout == TripSpec => []TimeoutsAreReported
<1>1. [TripNext]_trip => [TripNext \/ Again]_trip
  OBVIOUS
<1>2. TripInv => TimeoutsAreReported
  BY DEF TripInv
<1> QED
  BY TripInvariance, <1>1, <1>2, PTL DEF TripSpec, TripsSpec

(* The same of the requests that follow on one another in the gateway.      *)
THEOREM ReportedAcrossRequests == TripsSpec => []TimeoutsAreReported
<1>1. TripInv => TimeoutsAreReported
  BY DEF TripInv
<1> QED
  BY TripInvariance, <1>1, PTL

LEMMA GateLeavesTrip == Gate => UNCHANGED trip
<1>1. Configure \/ Receive \/ AnswerCORS \/ CheckControl => UNCHANGED trip
  BY DEF Configure, Receive, AnswerCORS, CheckControl
<1>2. CheckMethod \/ CheckPermission \/ Site => UNCHANGED trip
  BY DEF CheckMethod, CheckPermission, Site, ServeSPA, ServeFile, CatchPath
<1> QED
  BY <1>1, <1>2 DEF Gate

LEMMA ServeRenewsTrip == Serve => UNCHANGED trip \/ \E t : Renew(t)
<1>1. Produce => UNCHANGED trip \/ \E t : Renew(t)
  BY DEF Produce
<1>2. Return \/ HandleError \/ SelectHandler \/ Respond \/ CopyBody => UNCHANGED trip
  BY DEF Return, HandleError, SelectHandler, Respond, CopyBody
<1> QED
  BY <1>1, <1>2 DEF Serve

(* Whatever order the guard, the timers, the transport and the caller act  *)
(* in, a request that the guard has canceled for a timeout is reported to  *)
(* the endpoint as a timeout: the theorem of the round trip, for all the   *)
(* requests that the gateway sends one after another.                      *)
THEOREM GatewayReportsTimeouts == Spec => []TimeoutsAreReported
<1>1. Init => TripInv
  BY IdleInv DEF Init
<1>2. TripInv /\ [Next]_vars => TripInv'
  <2> SUFFICES ASSUME TripInv, [Next]_vars PROVE TripInv'
    OBVIOUS
  <2>1. CASE Gate
    BY <2>1, GateLeavesTrip, StutterInv
  <2>2. CASE Serve
    BY <2>2, ServeRenewsTrip, StutterInv, RenewInv
  <2>3. CASE Trip
    BY <2>3, TripStep DEF Trip
  <2>4. CASE UNCHANGED vars
    BY <2>4, StutterInv DEF vars
  <2> QED
    BY <2>1, <2>2, <2>3, <2>4 DEF Next
<1>3. TripInv => TimeoutsAreReported
  BY DEF TripInv
<1> QED
  BY <1>1, <1>2, <1>3, PTL DEF Spec

-------------------------------------------------------------------------------
(* The stages of a request                                                 *)

(* Before a handler runs, and while one does.                              *)
Early == {"start", "accepted", "refused", "cors", "control", "none", "catch-all", "endpoint", "files", "spa"}
Late  == {"produce", "trip", "produced", "respond", "body"}

(* Who has handed an error over, and whether a handler runs. *)
StageInv ==
    /\ scenario \in DOMAIN Scenarios
    /\ stage \in Early \cup Late \cup {"error", "end"}
    /\ failed \in {"", "control", "permission", "endpoint"}
    /\ stage \in Early => failed = "" /\ handler = NoHandler
    /\ stage = "error" => failed # ""
    /\ stage \in Late /\ handler = NoHandler => failed = ""
    /\ stage \notin {"start", "refused"} =>
          runtime = Compiled(scene) /\ ConfigurationProblems(scene.definitions, scene.servers) = {}

(* The chain that the runtime configuration builds ends in a handler of    *)
(* these kinds.                                                            *)
LEMMA CompiledKind == ASSUME NEW c PROVE Compiled(c).chain.kind \in {"none", "catch-all", "endpoint", "files", "spa"}
<1>1. NoChain.kind = "none"
  BY DEF NoChain
<1>2. ASSUME NEW d, NEW s, NEW a PROVE EndpointChain(d, s, a).kind \in {"catch-all", "endpoint"}
  BY DEF EndpointChain
<1>3. ASSUME NEW s, NEW a, a.by \in {"files", "spa"} PROVE SiteChain(s, a).kind \in {"files", "spa"}
  BY <1>3 DEF SiteChain, NoChain
<1>4. ASSUME NEW d, NEW s, NEW p PROVE HandlerChain(d, s, p).kind \in {"none", "catch-all", "endpoint", "files", "spa"}
  <2> DEFINE a == FindHandler(s, p)
  <2>1. CASE a.by \in {"endpoint", "api"}
    BY <2>1, <1>2 DEF HandlerChain
  <2>2. CASE a.by \in {"files", "spa"}
    <3>1. HandlerChain(d, s, p) = SiteChain(s, a)
      BY <2>2 DEF HandlerChain
    <3>2. SiteChain(s, a).kind \in {"files", "spa"}
      BY <2>2, <1>3
    <3> QED
      BY <3>1, <3>2
  <2>3. CASE a.by \notin {"endpoint", "api", "files", "spa"}
    BY <2>3 DEF HandlerChain, NoChain
  <2> QED
    BY <2>1, <2>2, <2>3
<1> QED
  BY <1>1, <1>4 DEF Compiled

LEMMA StageInit == Init => StageInv
  BY DEF Init, StageInv, Early, Late

LEMMA StageNext == StageInv /\ [Next]_vars => StageInv'
<1> SUFFICES ASSUME StageInv, [Next]_vars PROVE StageInv'
  OBVIOUS
<1> USE DEF StageInv, Early, Late
<1>1. CASE Configure
  BY <1>1 DEF Configure, local, scene
<1>2. CASE Receive
  BY <1>2 DEF Receive, Ends, scene
<1>3. CASE AnswerCORS
  BY <1>3 DEF AnswerCORS, Ends, scene
<1>4. CASE CheckControl
  BY <1>4 DEF CheckControl, Failed, scene
<1>5. CASE CheckMethod
  BY <1>5, CompiledKind DEF CheckMethod, Ends, scene, chain
<1>6. CASE CheckPermission
  BY <1>6 DEF CheckPermission, Failed, scene
<1>7. CASE Site
  BY <1>7 DEF Site, ServeSPA, ServeFile, CatchPath, Ends, scene
<1>8. CASE Produce
  BY <1>8 DEF Produce, Fails, Recovers, Ends, scene
<1>9. CASE Return
  BY <1>9 DEF Return, scene
<1>10. CASE HandleError
  BY <1>10 DEF HandleError, Failed, scene, Main
<1>11. CASE SelectHandler
  BY <1>11 DEF SelectHandler, Ends, scene
<1>12. CASE Respond
  BY <1>12 DEF Respond, FailsAgain, Fails, Recovers, Ends, scene
<1>13. CASE CopyBody
  BY <1>13 DEF CopyBody, Ends, scene
<1>14. CASE Trip
  BY <1>14 DEF Trip, scene
<1>15. CASE UNCHANGED vars
  BY <1>15 DEF vars, gvars, scene
<1> QED
  BY <1>1, <1>2, <1>3, <1>4, <1>5, <1>6, <1>7, <1>8, <1>9, <1>10, <1>11, <1>12, <1>13, <1>14, <1>15, Zenon DEF Next, Gate, Serve

(* What a scenario configures is what the code can be given.               *)
LEMMA RouteIsTyped ==
    ASSUME ScenarioAssumption, StageInv, stage \notin {"start", "refused"}
    PROVE  IsScenario(scene) /\ IsChain(scene.definitions, chain)
  BY DEF ScenarioAssumption, StageInv, scene, chain, IsScenario

-------------------------------------------------------------------------------
(* Access controls                                                         *)

(* Only who is past the access controls gets there.                        *)
Past == {"none", "catch-all", "endpoint", "files", "spa", "error"} \cup Late

(* The control has looked at this request, and had nothing to say.         *)
Vouched(n) ==
    LET ac == Definition(scene.definitions, n)
    IN  \E kept \in Kept(scene.definitions, Origins(scene), ac),
           token \in scene.tokenAnswers, userinfo \in scene.userinfoAnswers :
           LET verdict == ValidateControl(ac, Routed(scene.request), kept, token, userinfo)
           IN  verdict.err = NoError /\ context[n] = verdict

(* The controls before the current one have accepted the request, and what *)
(* stands in the context is what they have found.                          *)
ControlInv ==
    /\ control \in Nat \ {0}
    /\ stage \in {"start", "accepted", "refused"} => control = 1
    /\ stage \in {"start", "accepted"} => req = scene.request
    /\ stage \in Early \ {"start", "accepted", "refused"} => req = Routed(scene.request)
    /\ control > 1 => control - 1 <= Len(chain.controls)
    /\ DOMAIN context = {chain.controls[i] : i \in 1 .. control - 1}
    /\ \A n \in DOMAIN context : Vouched(n)
    /\ stage \in Past /\ failed # "control" => control > Len(chain.controls)

LEMMA ControlInit == Init => ControlInv
<1> SUFFICES ASSUME Init PROVE ControlInv
  OBVIOUS
<1>1. control = 1 /\ context = << >> /\ stage = "start" /\ req = scene.request
  BY DEF Init
<1>2. DOMAIN context = {} /\ 1 .. control - 1 = {}
  BY <1>1
<1> QED
  BY <1>1, <1>2 DEF ControlInv, Past, Early, Late

(* The controls have their say once. *)
LEMMA ControlKept ==
    ASSUME ControlInv, UNCHANGED <<scenario, runtime, control, context>>,
           stage' \in {"start", "accepted"} => stage = stage' /\ req' = req,
           stage' = "refused" => stage = "refused",
           stage' \in Early \ {"start", "accepted", "refused"} => req' = Routed(scene.request),
           stage' \in Past /\ failed' # "control" => control > Len(chain.controls)
    PROVE  ControlInv'
<1>1. scene' = scene /\ chain' = chain /\ Routed(scene.request)' = Routed(scene.request)
  BY DEF scene, chain, Routed
<1>2. \A n : Vouched(n)' <=> Vouched(n)
  BY <1>1 DEF Vouched
<1> QED
  BY <1>1, <1>2 DEF ControlInv

LEMMA ControlNext == StageInv /\ ControlInv /\ [Next]_vars => ControlInv'
<1> SUFFICES ASSUME StageInv, ControlInv, [Next]_vars PROVE ControlInv'
  OBVIOUS
<1>1. CASE Configure
  BY <1>1 DEF Configure, local, scene, ControlInv, Past, Early, Late, chain
<1>2. CASE Receive
  BY <1>2, ControlKept DEF Receive, Ends, scene, ControlInv, Past, Early, Late
<1>3. CASE AnswerCORS
  BY <1>3, ControlKept DEF AnswerCORS, Ends, scene, ControlInv, Past, Early, Late
<1>4. CASE CheckControl
  <2> DEFINE n == chain.controls[control]
             ac == Definition(scene.definitions, n)
  <2>1. UNCHANGED <<scenario, runtime, req>> /\ scene' = scene /\ chain' = chain /\ stage = "control"
    BY <1>4 DEF CheckControl, scene, chain
  <2>2. Routed(scene.request)' = Routed(scene.request) /\ req = Routed(scene.request)
    BY <2>1 DEF Routed, ControlInv, Early
  <2>3. PICK kept \in Kept(scene.definitions, Origins(scene), ac),
             token \in scene.tokenAnswers, userinfo \in scene.userinfoAnswers :
           LET verdict == ValidateControl(ac, req, kept, token, userinfo)
           IN  IF verdict.err = NoError
               THEN /\ context' = Put(context, n, verdict)
                    /\ control' = control + 1
                    /\ UNCHANGED <<stage, ctxErr, failed>>
               ELSE Failed("control", verdict.err) /\ UNCHANGED <<context, control>>
    BY <1>4 DEF CheckControl
  <2> DEFINE verdict == ValidateControl(ac, req, kept, token, userinfo)
  <2>4. CASE verdict.err = NoError
    <3>1. context' = Put(context, n, verdict) /\ control' = control + 1 /\ UNCHANGED <<stage, failed>>
      BY <2>3, <2>4
    <3>2. DOMAIN context' = {chain.controls[i] : i \in 1 .. control' - 1}
      <4>1. DOMAIN context' = DOMAIN context \cup {n}
        BY <3>1 DEF Put
      <4>2. 1 .. control' - 1 = (1 .. control - 1) \cup {control}
        BY <3>1 DEF ControlInv
      <4>3. DOMAIN context = {chain.controls[i] : i \in 1 .. control - 1}
        BY DEF ControlInv
      <4> QED
        BY <4>1, <4>2, <4>3
    <3>3. ASSUME NEW m \in DOMAIN context' PROVE Vouched(m)'
      <4>1. CASE m = n
        <5>1. context'[m] = verdict
          BY <3>1, <4>1 DEF Put
        <5> QED
          BY <5>1, <4>1, <2>1, <2>2, <2>4 DEF Vouched
      <4>2. CASE m # n
        <5>1. m \in DOMAIN context /\ context'[m] = context[m]
          BY <3>1, <4>2 DEF Put
        <5>2. Vouched(m)
          BY <5>1 DEF ControlInv
        <5> QED
          BY <5>1, <5>2, <2>1, <2>2 DEF Vouched
      <4> QED
        BY <4>1, <4>2
    <3>4. control' \in Nat \ {0} /\ control' - 1 <= Len(chain.controls)
      BY <1>4, <3>1 DEF ControlInv, CheckControl
    <3> QED
      BY <2>1, <2>2, <3>1, <3>2, <3>3, <3>4 DEF ControlInv, Past, Early, Late
  <2>5. CASE verdict.err # NoError
    <3>1. stage' = "error" /\ failed' = "control" /\ UNCHANGED <<context, control>>
      BY <2>3, <2>5 DEF Failed
    <3> QED
      BY <2>1, <2>2, <3>1, ControlKept DEF Early
  <2> QED
    BY <2>4, <2>5
<1>5. CASE CheckMethod
  <2>1. stage' \in {"none", "catch-all", "endpoint", "files", "spa", "end"}
    BY <1>5, CompiledKind DEF CheckMethod, Ends, chain, StageInv
  <2>2. req = Routed(scene.request) /\ UNCHANGED <<scenario, runtime, control, context, req, failed>> /\ control > Len(chain.controls)
    BY <1>5 DEF CheckMethod, ControlInv, Early
  <2> QED
    BY <2>1, <2>2, ControlKept DEF Early
<1>6. CASE CheckPermission
  <2>1. control > Len(chain.controls) /\ stage' \in {"produce", "error"}
    BY <1>6 DEF CheckPermission, Failed, ControlInv, StageInv, Past, Early
  <2> QED
    BY <1>6, <2>1, ControlKept DEF CheckPermission, Early
<1>7. CASE Site
  BY <1>7, ControlKept DEF Site, ServeSPA, ServeFile, CatchPath, Ends, scene, ControlInv, Past, Early, Late
<1>8. CASE Produce
  BY <1>8, ControlKept DEF Produce, Fails, Recovers, Ends, scene, ControlInv, Past, Early, Late
<1>9. CASE Return
  BY <1>9, ControlKept DEF Return, scene, ControlInv, Past, Early, Late
<1>10. CASE HandleError
  BY <1>10, ControlKept DEF HandleError, Failed, scene, Main, ControlInv, Past, Early, Late, StageInv
<1>11. CASE SelectHandler
  BY <1>11, ControlKept DEF SelectHandler, Ends, scene, ControlInv, Past, Early, Late
<1>12. CASE Respond
  BY <1>12, ControlKept DEF Respond, FailsAgain, Fails, Recovers, Ends, scene, ControlInv, Past, Early, Late
<1>13. CASE CopyBody
  BY <1>13, ControlKept DEF CopyBody, Ends, scene, ControlInv, Past, Early, Late
<1>14. CASE Trip
  BY <1>14, ControlKept DEF Trip, scene, ControlInv, Past, Early, Late
<1>15. CASE UNCHANGED vars
  BY <1>15, ControlKept DEF vars, gvars, scene, ControlInv, Past, Early, Late
<1> QED
  BY <1>1, <1>2, <1>3, <1>4, <1>5, <1>6, <1>7, <1>8, <1>9, <1>10, <1>11, <1>12, <1>13, <1>14, <1>15, Zenon DEF Next, Gate, Serve

(* The ** of the route is all that Routed adds. *)
LEMMA RoutedMessage ==
    ASSUME NEW r, DOMAIN r = RequestFields
    PROVE  /\ Routed(r).header = r.header /\ Routed(r).query = r.query
           /\ Routed(r).form = r.form /\ Routed(r).method = r.method
  BY DEF Routed, RequestFields

LEMMA SameMessage ==
    ASSUME NEW r, DOMAIN r = RequestFields, NEW ac
    PROVE  /\ TokenValue(ac, Routed(r)) = TokenValue(ac, r)
           /\ Verifier(ac, Routed(r)) = Verifier(ac, r)
  BY RoutedMessage DEF TokenValue, Verifier, TextOf

(* Whichever block has left its parser there: unless another one reads the *)
(* same, it asks for the audience and the issuer of this one.              *)
LEMMA KeptParserIsOwn ==
    ASSUME NEW ac, NEW kept \in KeptParsers(scene.definitions, ac), Unambiguous(ac)
    PROVE  kept.audience = Parser(ac).audience /\ kept.issuer = Parser(ac).issuer
<1>1. PICK d \in ToSet(scene.definitions) : d.type = "jwt" /\ kept = Parser(d) /\ Key(Parser(d)) = Key(Parser(ac))
  BY DEF KeptParsers
<1>2. Parts(Parser(d).audience) \o Parts(Parser(d).issuer) = Parts(Parser(ac).audience) \o Parts(Parser(ac).issuer)
  BY <1>1 DEF Key
<1> QED
  BY <1>1, <1>2 DEF Unambiguous

(* A token that the JWT control accepts has a valid signature and the      *)
(* claims that the block names.                                            *)
LEMMA JWTAuthorizes ==
    ASSUME ScenarioAssumption, DOMAIN scene.request = RequestFields,
           NEW ac, ac.type = "jwt", NEW kept \in KeptParsers(scene.definitions, ac),
           ValidateJWT(ac, Routed(scene.request), kept).err = NoError, NEW left
    PROVE  Authorized(ac, left)
<1> DEFINE text == TokenValue(ac, Routed(scene.request))
           claims == Tokens[text].claims
           expected == ExpectedClaims(ac)
<1>1. /\ ParseProblems(text, getValidationKey(ac, Tokens[text]), kept) = {}
      /\ validateClaims(ac, claims)
  BY RefusalStatus, RefusalIsError DEF ValidateJWT
<1>2. text = TokenValue(ac, scene.request)
  BY SameMessage
<1>3. text \in DOMAIN Tokens /\ ~Tokens[text].expired /\ Tokens[text].key \in getValidationKey(ac, Tokens[text])
  BY <1>1, Parsed
<1>8. /\ kept.audience = "" \/ kept.audience \in ToSet(Values(claims, "aud"))
      /\ kept.issuer = "" \/ kept.issuer = Get(claims, "iss")
  BY <1>1, Parsed
<1>4. Tokens[text].key \in IF Has(ac, "jwks") THEN {k.key : k \in ToSet(ac.attrs["jwks"])} ELSE {ac.attrs["key"]}
  BY <1>3, GetKeyIsKey DEF getValidationKey
<1>5. ToSet(Attr(ac, "required_claims", << >>)) \subseteq DOMAIN claims
  BY <1>1 DEF validateClaims
<1>6. DOMAIN expected \subseteq DOMAIN claims
  BY <1>1 DEF validateClaims
<1>7. ASSUME NEW c \in DOMAIN expected \ (IF Unambiguous(ac) THEN {} ELSE {"aud", "iss"})
      PROVE  Expected(ac, c) \subseteq ToSet(claims[c])
  <2>1. c \in DOMAIN claims /\ c \in DOMAIN expected
    BY <1>6, <1>7
  <2>9. c \in {"aud", "iss"} => kept.audience = Get(expected, "aud") /\ kept.issuer = Get(expected, "iss")
    <3>1. Parser(ac).audience = Get(expected, "aud") /\ Parser(ac).issuer = Get(expected, "iss")
      BY DEF Parser, ParserConfig
    <3> QED
      BY <1>7, <3>1, KeptParserIsOwn
  <2>2. CASE c \notin {"aud", "iss"}
    BY <2>1, <2>2, <1>1 DEF validateClaims, Expected
  <2>3. CASE c = "aud"
    <3>1. Get(expected, "aud") # "" => Get(expected, "aud") \in ToSet(Values(claims, "aud"))
      BY <1>8, <2>3, <2>9
    <3> QED
      BY <2>1, <2>3, <3>1 DEF Expected, Values
  <2>4. CASE c = "iss"
    <3>1. IsHeader(claims)
      BY <1>3 DEF ScenarioAssumption
    <3> QED
      BY <2>1, <2>4, <2>9, <3>1, <1>8, FirstValue DEF Expected
  <2> QED
    BY <2>1, <2>2, <2>3, <2>4
<1> QED
  BY <1>2, <1>3, <1>4, <1>5, <1>6, <1>7 DEF Authorized

LEMMA BasicAuthorizes ==
    ASSUME DOMAIN scene.request = RequestFields,
           NEW ac, ac.type = "basic_auth", ValidateBasicAuth(ac, Routed(scene.request)).err = NoError, NEW left
    PROVE  Authorized(ac, left)
<1> DEFINE given == Credentials[Get(scene.request.header, "Authorization")]
           lines == Attr(ac, "htpasswd_file", << >>)
<1>1. IF Attr(ac, "user", "") = given.user /\ Has(ac, "password") THEN ac.attrs["password"] = given.password
      ELSE \E l \in ToSet(lines) : l.user = given.user /\ l.password = given.password
  BY RefusalStatus, RefusalIsError, RoutedMessage DEF ValidateBasicAuth
<1> QED
  BY <1>1 DEF Authorized

(* A response that the SAML control accepts is one to this service, at the *)
(* URL that is kept: the mixture of two is no URL.                         *)
LEMMA SAMLAuthorizes ==
    ASSUME ScenarioAssumption, DOMAIN scene.request = RequestFields,
           NEW ac, ac.type = "saml", NEW kept \in KeptOrigins(ac, Origins(scene)),
           ValidateSAML(ac, Routed(scene.request), kept).err = NoError, NEW left
    PROVE  Authorized(ac, left)
<1> DEFINE text == Get(scene.request.form, "SAMLResponse")
           assertion == Assertions[text]
<1>1. text \in DOMAIN Assertions /\ AssertionProblems(ac, assertion, kept) = {}
  BY RefusalStatus, RefusalIsError, RoutedMessage DEF ValidateSAML
<1>2. /\ assertion.key \in ToSet(ac.attrs["certificates"])
      /\ assertion.to = {kept}
      /\ Attr(ac, "issuer", "") \in {"", assertion.issuer}
      /\ ~assertion.expired
      /\ \A r \in assertion.restrictions : ac.attrs["sp_entity_id"] \in r
  BY <1>1 DEF AssertionProblems, When
<1>3. kept # "mixture"
  BY <1>1, <1>2 DEF ScenarioAssumption
<1>4. kept \in IF ac.attrs["sp_acs_url"] = "" THEN Origins(scene) ELSE {ac.attrs["sp_acs_url"]}
  BY <1>3 DEF KeptOrigins, When
<1>5. assertion.to \subseteq IF ac.attrs["sp_acs_url"] = "" THEN Origins(scene) ELSE {ac.attrs["sp_acs_url"]}
  BY <1>2, <1>4
<1> QED
  BY <1>2, <1>5 DEF Authorized

(* A login that the callback accepts has the state or the nonce of this    *)
(* client, and for oidc an id_token for it.                                *)
LEMMA CallbackAuthorizes ==
    ASSUME DOMAIN scene.request = RequestFields,
           NEW ac, ac.type \notin {"jwt", "basic_auth", "saml"}, ControlProblems(ac) = {},
           NEW token, NEW userinfo,
           ValidateCallback(ac, Routed(scene.request), token, userinfo).err = NoError
    PROVE  Authorized(ac, ValidateCallback(ac, Routed(scene.request), token, userinfo).data)
<1> DEFINE r == Routed(scene.request)
           outcome == ValidateCallback(ac, r, token, userinfo)
           claims == Tokens[token.idToken].claims
<1>1. MayExchange(ac, r)
  <2> SUFFICES ASSUME ~MayExchange(ac, r) PROVE FALSE
    OBVIOUS
  <2>1. outcome = Denied(Oauth2Error)
    BY DEF ValidateCallback
  <2> QED
    BY <2>1, RefusalStatus, RefusalIsError
<1>2. ac.attrs["verifier_method"] = "state" => Get(scene.request.query, "state") = Sha256[Verifier(ac, scene.request)]
  BY <1>1, SameMessage, RoutedMessage DEF MayExchange, Hashed
<1>3. CASE ac.type # "oidc"
  BY <1>2, <1>3 DEF Authorized
<1>4. CASE ac.type = "oidc"
  <2>1. /\ IDTokenProblems(ac, token.idToken) = {}
        /\ validateIDTokenClaims(ac, claims, Hashed(ac, Verifier(ac, r)))
        /\ outcome.data = claims
    BY <1>4, RefusalStatus, RefusalIsError, ZenonT(40) DEF ValidateCallback, Allowed
  <2>2. ac.attrs["client_id"] # ""
    <3>1. ClientProblems(ac) = {}
      BY <1>4 DEF ControlProblems, AuthCodeProblems
    <3>2. Attr(ac, "client_id", "") # ""
      BY <3>1 DEF ClientProblems, When
    <3> QED
      BY <3>2 DEF Attr
  <2>3. ac.attrs["client_id"] \in ToSet(claims["aud"])
    <3>1. ac.attrs["client_id"] \in ToSet(Values(claims, "aud"))
      <4> DEFINE parser == ParserConfig(RSAAndECDSA, ac.attrs["client_id"], ac.attrs["issuer"])
      <4>1. ParseProblems(token.idToken, GetKey(ac.attrs["jwks"], Tokens[token.idToken]), parser) = {}
        BY <2>1 DEF IDTokenProblems
      <4>2. parser.audience = ac.attrs["client_id"]
        BY DEF ParserConfig
      <4> HIDE DEF parser
      <4> QED
        BY <4>1, <4>2, <2>2, Parsed
    <3>2. ToSet(<< >>) = {}
      BY DEF ToSet
    <3> QED
      BY <3>1, <3>2 DEF Values
  <2>4. ac.attrs["verifier_method"] = "nonce" => claims["nonce"] = <<Sha256[Verifier(ac, scene.request)]>>
    BY <2>1, SameMessage DEF validateIDTokenClaims, Hashed, Values
  <2> QED
    BY <1>4, <2>1, <2>3, <2>4 DEF Authorized
<1> QED
  BY <1>3, <1>4

LEMMA ControlAuthorizes ==
    ASSUME ScenarioAssumption, DOMAIN scene.request = RequestFields,
           NEW ac, ControlProblems(ac) = {},
           NEW kept \in Kept(scene.definitions, Origins(scene), ac), NEW token, NEW userinfo,
           ValidateControl(ac, Routed(scene.request), kept, token, userinfo).err = NoError
    PROVE  Authorized(ac, ValidateControl(ac, Routed(scene.request), kept, token, userinfo).data)
<1> DEFINE outcome == ValidateControl(ac, Routed(scene.request), kept, token, userinfo)
<1>1. CASE ac.type = "jwt"
  <2>1. outcome = ValidateJWT(ac, Routed(scene.request), kept) /\ kept \in KeptParsers(scene.definitions, ac)
    BY <1>1, Zenon DEF ValidateControl, Kept
  <2> QED
    BY <1>1, <2>1, JWTAuthorizes
<1>2. CASE ac.type = "basic_auth"
  <2>1. outcome = ValidateBasicAuth(ac, Routed(scene.request))
    BY <1>2, Zenon DEF ValidateControl
  <2> QED
    BY <1>2, <2>1, BasicAuthorizes
<1>3. CASE ac.type = "saml"
  <2>1. outcome = ValidateSAML(ac, Routed(scene.request), kept) /\ kept \in KeptOrigins(ac, Origins(scene))
    BY <1>3, Zenon DEF ValidateControl, Kept
  <2> QED
    BY <1>3, <2>1, SAMLAuthorizes
<1>4. CASE ac.type \notin {"jwt", "basic_auth", "saml"}
  <2>1. outcome = ValidateCallback(ac, Routed(scene.request), token, userinfo)
    BY <1>4, Zenon DEF ValidateControl
  <2> QED
    BY <1>4, <2>1, CallbackAuthorizes
<1> QED
  BY <1>1, <1>2, <1>3, <1>4

(* What a route names has a definition, and one without a problem. *)
LEMMA NamedControls ==
    ASSUME ScenarioAssumption, StageInv, stage \notin {"start", "refused"}
    PROVE  /\ DOMAIN scene.request = RequestFields
           /\ chain.controls \in Seq({d.labels[1] : d \in ToSet(scene.definitions)})
           /\ \A n \in ToSet(chain.controls) :
                 /\ Definition(scene.definitions, n) \in ToSet(scene.definitions)
                 /\ Definition(scene.definitions, n).labels[1] = n
                 /\ ControlProblems(Definition(scene.definitions, n)) = {}
<1>1. IsScenario(scene)
  BY DEF ScenarioAssumption, StageInv, scene
<1>2. chain = Compiled(scene).chain /\ ConfigurationProblems(scene.definitions, scene.servers) = {}
  BY DEF StageInv, chain
<1>3. chain.controls \in Seq({d.labels[1] : d \in ToSet(scene.definitions)})
  BY <1>1, <1>2 DEF IsScenario, IsChain
<1>4. ASSUME NEW n \in ToSet(chain.controls) PROVE \E d \in ToSet(scene.definitions) : d.labels[1] = n
  BY <1>3, <1>4 DEF ToSet
<1>5. ASSUME NEW d \in ToSet(scene.definitions) PROVE ControlProblems(d) = {}
  BY <1>2, <1>5 DEF ConfigurationProblems
<1> QED
  BY <1>1, <1>3, <1>4, <1>5 DEF IsScenario, Definition

(* Whoever is past all controls has been accepted by each.                 *)
LEMMA InvAuthorized == ScenarioAssumption /\ StageInv /\ ControlInv => OnlyAuthorized
<1> SUFFICES ASSUME ScenarioAssumption, StageInv, ControlInv, stage \in Behind, failed # "control",
                    NEW n \in ToSet(chain.controls)
             PROVE  Authorized(Definition(scene.definitions, n), context[n].data)
  BY DEF OnlyAuthorized
<1>1. stage \in Past /\ stage \notin {"start", "refused"}
  BY DEF Behind, Past, Late
<1>2. /\ DOMAIN scene.request = RequestFields
      /\ chain.controls \in Seq({d.labels[1] : d \in ToSet(scene.definitions)})
      /\ ControlProblems(Definition(scene.definitions, n)) = {}
  BY <1>1, NamedControls
<1>3. n \in DOMAIN context
  <2>1. PICK i \in 1 .. Len(chain.controls) : n = chain.controls[i]
    BY <1>2 DEF ToSet
  <2>2. Len(chain.controls) \in Nat /\ control > Len(chain.controls) /\ control \in Nat
    BY <1>1, <1>2 DEF ControlInv
  <2>3. i \in 1 .. control - 1
    BY <2>1, <2>2
  <2> QED
    BY <2>1, <2>3 DEF ControlInv
<1> DEFINE ac == Definition(scene.definitions, n)
<1>4. PICK kept \in Kept(scene.definitions, Origins(scene), ac),
           token \in scene.tokenAnswers, userinfo \in scene.userinfoAnswers :
        LET verdict == ValidateControl(ac, Routed(scene.request), kept, token, userinfo)
        IN  verdict.err = NoError /\ context[n] = verdict
  BY <1>3 DEF ControlInv, Vouched
<1> QED
  BY <1>2, <1>4, ControlAuthorizes

(* No request gets past the access controls of its route (to a handler, an *)
(* endpoint, an answer that is not a refusal) unless each of them,         *)
(* evaluated against its own configuration, has accepted it: the loop of   *)
(* AccessControl.ServeHTTP neither skips one nor goes on after a refusal,  *)
(* and what a control accepts meets what its block asks for. Whatever      *)
(* parser jwt.getParser finds in the memory store, of this block or of one *)
(* under the same key, and whatever URL an earlier request has left in     *)
(* Saml2.Validate: for a jwt block that reads the same as another one      *)
(* (see OnlyAuthorized) that is its claims but for audience and issuer.    *)
THEOREM Authorization == Spec => []OnlyAuthorized
<1>1. Init => StageInv /\ ControlInv
  BY StageInit, ControlInit
<1>2. StageInv /\ ControlInv /\ [Next]_vars => StageInv' /\ ControlInv'
  BY StageNext, ControlNext
<1>3. StageInv /\ ControlInv => OnlyAuthorized
  BY InvAuthorized, ScenarioAssumption
<1> QED
  BY <1>1, <1>2, <1>3, PTL DEF Spec

-------------------------------------------------------------------------------
(* Permissions                                                             *)

(* The permissions that a control grants are closed under its map.         *)
ControlsGrant ==
    \A n \in DOMAIN context :
       LET map == Attr(Definition(scene.definitions, n), "permissions_map", << >>)
       IN  \A p \in context[n].granted \cap DOMAIN map : ToSet(map[p]) \ {""} \subseteq context[n].granted

(* A request that is served has one of the permissions of its method.      *)
Permitted ==
    stage = "produce" /\ failed = "" /\ chain.permission # << >> =>
        \E p \in ToSet(PermissionFor(chain.permission[1], req.method)) : p \in Granted \cup {""}

LEMMA InvControlsGrant == ScenarioAssumption /\ StageInv /\ ControlInv => ControlsGrant
<1> SUFFICES ASSUME ScenarioAssumption, StageInv, ControlInv, NEW n \in DOMAIN context
             PROVE  Mapped(Definition(scene.definitions, n), context[n].granted) \subseteq context[n].granted
  BY GrantedIsClosed DEF ControlsGrant
<1> DEFINE ac == Definition(scene.definitions, n)
<1>1. PICK i \in 1 .. control - 1 : n = chain.controls[i]
  BY DEF ControlInv
<1>2. stage \notin {"start", "refused"}
  BY <1>1 DEF ControlInv
<1>3. PICK kept \in Kept(scene.definitions, Origins(scene), ac),
           token \in scene.tokenAnswers, userinfo \in scene.userinfoAnswers :
        LET verdict == ValidateControl(ac, Routed(scene.request), kept, token, userinfo)
        IN  verdict.err = NoError /\ context[n] = verdict
  BY DEF ControlInv, Vouched
<1>4. CASE ac.type # "jwt"
  <2>1. context[n].granted = {}
    BY <1>3, <1>4, OnlyJWTGrants
  <2> QED
    BY <2>1 DEF Mapped
<1>5. CASE ac.type = "jwt"
  <2>1. PICK granted : context[n].granted = addMappedPermissions(ac, granted)
    BY <1>3, <1>5, JWTGrants
  <2>2. IsFiniteSet(AllMapped(ac))
    <3>1. chain.controls \in Seq({d.labels[1] : d \in ToSet(scene.definitions)})
      BY <1>2, NamedControls
    <3>2. i \in 1 .. Len(chain.controls)
      BY <1>1, <3>1 DEF ControlInv
    <3>3. n \in ToSet(chain.controls)
      BY <1>1, <3>1, <3>2 DEF ToSet
    <3>4. ac \in ToSet(scene.definitions)
      BY <1>2, <3>3, NamedControls
    <3> QED
      BY <3>4 DEF ScenarioAssumption, IsScenario, StageInv, scene
  <2> QED
    BY <2>1, <2>2, PermissionsClosed
<1> QED
  BY <1>4, <1>5

LEMMA PermittedNext == StageInv /\ Permitted /\ [Next]_vars => Permitted'
<1> SUFFICES ASSUME StageInv, Permitted, [Next]_vars, stage' = "produce", failed' = "", chain'.permission # << >>
             PROVE  Permitted'
  BY DEF Permitted
<1>1. CASE CheckPermission
  <2>1. UNCHANGED <<chain, req, Granted>> /\ PermissionsError(chain.permission[1], req.method, Granted) = NoError
    BY <1>1 DEF CheckPermission, Failed, chain, Granted
  <2> QED
    BY <2>1, PermissionNoError DEF Permitted
<1>2. CASE SelectHandler
  BY <1>2 DEF SelectHandler, Ends, StageInv
<1>3. CASE UNCHANGED <<stage, failed, runtime, req, context>>
  BY <1>3 DEF Permitted, chain, Granted
<1>4. CASE Trip \/ UNCHANGED vars
  BY <1>3, <1>4 DEF Trip, vars, gvars
<1>5. ~Configure /\ ~Receive /\ ~AnswerCORS /\ ~CheckMethod /\ ~Site
  BY CompiledKind DEF Configure, Receive, AnswerCORS, CheckMethod, Site, ServeSPA, ServeFile, CatchPath, Ends, StageInv, chain
<1>6. ~CheckControl
  BY DEF CheckControl, Failed
<1>7. ~Produce /\ ~Return /\ ~HandleError /\ ~Respond /\ ~CopyBody
  BY DEF Produce, Fails, Recovers, Return, HandleError, Failed, Respond, FailsAgain, CopyBody, Ends
<1> QED
  BY <1>1, <1>2, <1>4, <1>5, <1>6, <1>7, Zenon DEF Next, Gate, Serve

(* An endpoint serves a request only with a permission of its method       *)
(* granted by one of the controls, and what the controls grant is closed   *)
(* under their permissions maps: addMappedPermissions stops for none of    *)
(* the permissions it still has to add.                                    *)
THEOREM PermissionsGranted == Spec => []PermissionsAreGranted
<1>1. Init => StageInv /\ ControlInv /\ Permitted
  BY StageInit, ControlInit DEF Init, Permitted
<1>2. StageInv /\ ControlInv /\ Permitted /\ [Next]_vars => StageInv' /\ ControlInv' /\ Permitted'
  BY StageNext, ControlNext, PermittedNext
<1>3. StageInv /\ ControlInv /\ Permitted => PermissionsAreGranted
  BY InvControlsGrant, ScenarioAssumption DEF PermissionsAreGranted, ControlsGrant, Permitted
<1> QED
  BY <1>1, <1>2, <1>3, PTL DEF Spec

-------------------------------------------------------------------------------
(* Where an error is handled                                               *)

(* The place of an error: which control refused, and which block runs for  *)
(* it.                                                                     *)
PlaceInv ==
    /\ failed = "control" => control <= Len(chain.controls)
    /\ handler # NoHandler => handler.block \in RouteBlocks(scene.definitions, chain)
    /\ stage = "trip" => ProducersOf(block) # << >>

(* The block that runs is one of the route.                                *)
LEMMA BlockIsEndpoint ==
    ASSUME ScenarioAssumption, StageInv, PlaceInv, stage \notin {"start", "refused"}
    PROVE  block \in RouteBlocks(scene.definitions, chain) /\ IsEndpoint(block)
<1>1. block \in RouteBlocks(scene.definitions, chain)
  BY DEF RouteBlocks, PlaceInv, block, Main
<1> QED
  BY <1>1, RouteIsTyped DEF IsChain

(* The error handler that is found is one of the route.                    *)
LEMMA FoundIsEndpoint ==
    ASSUME ScenarioAssumption, StageInv, ControlInv, PlaceInv, stage = "error",
           HandlerFor(kindsHandler, ctxErr) # NoHandler
    PROVE  HandlerFor(kindsHandler, ctxErr).block \in RouteBlocks(scene.definitions, chain)
<1>1. IsChain(scene.definitions, chain)
  BY RouteIsTyped
<1>2. \A k \in DOMAIN kindsHandler : kindsHandler[k].block \in RouteBlocks(scene.definitions, chain)
  <2>1. CASE failed = "control"
    <3> DEFINE n == chain.controls[control]
               handlers == ControlHandlers(scene.definitions, n, chain.template)
    <3>1. control \in 1 .. Len(chain.controls) /\ DOMAIN chain.controls = 1 .. Len(chain.controls)
      BY <1>1, <2>1 DEF IsChain, PlaceInv, ControlInv
    <3>2. n \in ToSet(chain.controls)
      BY <3>1, Zenon DEF ToSet
    <3>3. kindsHandler = handlers
      BY <2>1 DEF kindsHandler
    <3> QED
      BY <3>2, <3>3 DEF RouteBlocks
  <2>2. CASE failed # "control"
    BY <2>2 DEF RouteBlocks, kindsHandler
  <2> QED
    BY <2>1, <2>2
<1>3. \E k \in DOMAIN kindsHandler : HandlerFor(kindsHandler, ctxErr) = kindsHandler[k]
  <2> DEFINE kinds == ctxErr.kinds \o <<"*">>
             first == {i \in DOMAIN kinds : /\ kinds[i] \in DOMAIN kindsHandler
                                            /\ \A j \in 1 .. i - 1 : kinds[j] \notin DOMAIN kindsHandler}
  <2>1. HandlerFor(kindsHandler, ctxErr) = IF first = {} THEN NoHandler ELSE kindsHandler[kinds[CHOOSE i \in first : TRUE]]
    BY Zenon DEF HandlerFor
  <2>2. \A i \in first : kinds[i] \in DOMAIN kindsHandler
    OBVIOUS
  <2> HIDE DEF first, kinds
  <2> QED
    BY <2>1, <2>2, Zenon
<1> QED
  BY <1>2, <1>3

LEMMA PlaceInit == Init => PlaceInv
  BY DEF Init, PlaceInv, chain

(* Only who looks for an error handler changes its place.                  *)
LEMMA PlaceKept ==
    ASSUME PlaceInv, UNCHANGED <<scenario, runtime, control, handler>>, failed' = "control" => failed = "control",
           stage' = "trip" => stage = "trip"
    PROVE  PlaceInv'
  BY DEF PlaceInv, chain, block, Main, scene

LEMMA PlaceNext == ScenarioAssumption /\ StageInv /\ ControlInv /\ PlaceInv /\ [Next]_vars => PlaceInv'
<1> SUFFICES ASSUME ScenarioAssumption, StageInv, ControlInv, PlaceInv, [Next]_vars PROVE PlaceInv'
  OBVIOUS
<1>1. CASE Configure
  BY <1>1 DEF Configure, local, StageInv, Early, PlaceInv
<1>2. CASE Receive
  BY <1>2, PlaceKept DEF Receive, Ends
<1>3. CASE AnswerCORS
  BY <1>3, PlaceKept DEF AnswerCORS, Ends
<1>4. CASE CheckControl
  BY <1>4 DEF CheckControl, Failed, PlaceInv, StageInv, Early, chain, scene
<1>5. CASE CheckMethod
  <2>1. stage' # "trip"
    BY <1>5, CompiledKind DEF CheckMethod, Ends, StageInv, chain
  <2> QED
    BY <1>5, <2>1, PlaceKept DEF CheckMethod
<1>6. CASE CheckPermission
  BY <1>6, PlaceKept DEF CheckPermission, Failed
<1>7. CASE Site
  BY <1>7, PlaceKept DEF Site, ServeSPA, ServeFile, CatchPath, Ends
<1>8. CASE Produce
  <2>1. UNCHANGED <<scenario, runtime, control, handler, failed>> /\ (stage' = "trip" => ProducersOf(block) # << >>)
    BY <1>8 DEF Produce, Fails, Recovers, Ends
  <2> QED
    BY <2>1 DEF PlaceInv, chain, block, Main, scene
<1>9. CASE Return
  BY <1>9, PlaceKept DEF Return
<1>10. CASE HandleError
  BY <1>10, PlaceKept DEF HandleError, Failed
<1>11. CASE SelectHandler
  BY <1>11, FoundIsEndpoint DEF SelectHandler, Ends, PlaceInv, chain, scene
<1>12. CASE Respond
  BY <1>12, PlaceKept DEF Respond, FailsAgain, Fails, Recovers, Ends
<1>13. CASE CopyBody
  BY <1>13, PlaceKept DEF CopyBody, Ends
<1>14. CASE Trip
  BY <1>14, PlaceKept DEF Trip
<1>15. CASE UNCHANGED vars
  BY <1>15, PlaceKept DEF vars, gvars
<1> QED
  BY <1>1, <1>2, <1>3, <1>4, <1>5, <1>6, <1>7, <1>8, <1>9, <1>10, <1>11, <1>12, <1>13, <1>14, <1>15, Zenon DEF Next, Gate, Serve

-------------------------------------------------------------------------------
(* Private answers                                                         *)

(* The controls that have had their say, the refusing one too.             *)
Looked == {i \in DOMAIN chain.controls : i < control \/ (i = control /\ failed = "control")}

(* The writer is private since the first control that asks for it, and so  *)
(* is what has been sent, if somebody has written its header.              *)
WriterInv ==
    /\ IsWriter(w) /\ IsAnswer(beresp)
    /\ stage \in Early => w.status = 0
    /\ stage = "body" => w.status # 0
    /\ \A i \in Looked : ~DisablePrivateCaching(Definition(scene.definitions, chain.controls[i])) => w.private
    /\ sent # << >> => stage = "end" /\ (w.private /\ Got.status # 0 => HasPrivate(Got.header))

(* What is left to show of a step that changes the writer.                 *)
LEMMA WriterKept ==
    ASSUME WriterInv, UNCHANGED <<scenario, runtime, control>>, failed' = "control" => failed = "control",
           Keeps(w, w'), IsAnswer(beresp'),
           stage' \in Early => stage \in Early /\ w'.status = w.status,
           stage' = "body" => w'.status # 0,
           sent' # << >> => stage' = "end" /\ (w.private /\ sent'[1].status # 0 => HasPrivate(sent'[1].header))
    PROVE  WriterInv'
<1>1. scene' = scene /\ chain' = chain /\ Looked' \subseteq Looked
  BY DEF scene, chain, Looked
<1>2. IsWriter(w') /\ w'.private = w.private
  BY DEF Keeps
<1> QED
  BY <1>1, <1>2 DEF WriterInv, Got

(* An error template leaves the fields alone that it does not set.         *)
LEMMA ErrorHeaderLeaves ==
    ASSUME NEW h, Typed(h, "Cache-Control"), NEW name, NEW e, NEW ops, IsOps(ops)
    PROVE  /\ Typed(ErrorHeader(h, name, e, ops), "Cache-Control")
           /\ \A f : f \notin {"Content-Type", "Couper-Error"} \cup Touched(ops) /\ Typed(h, f)
                    => Values(ErrorHeader(h, name, e, ops), f) = Values(h, f)
<1> DEFINE type  == IF name \in {"html", "json"} THEN name ELSE "text"
           code  == IF e.kinds = << >> THEN "error" ELSE e.kinds[1]
           named == Set(Set(h, "Content-Type", type), "Couper-Error", code)
<1>1. ErrorHeader(h, name, e, ops) = applyHeaderOps(ops, named)
  BY DEF ErrorHeader
<1>2. ASSUME NEW f, f \notin {"Content-Type", "Couper-Error"} PROVE Values(named, f) = Values(h, f)
  <2> HIDE DEF type, code
  <2> QED
    BY <1>2, SetLeaves
<1> HIDE DEF named
<1>3. Typed(applyHeaderOps(ops, named), "Cache-Control")
  BY <1>2, OpsTyped DEF Typed
<1>4. ASSUME NEW f, f \notin {"Content-Type", "Couper-Error"} \cup Touched(ops), Typed(h, f)
      PROVE  Values(applyHeaderOps(ops, named), f) = Values(h, f)
  BY <1>2, <1>4, OpsLeave DEF Typed
<1> QED
  BY <1>1, <1>3, <1>4

(* What the handler that panics has put into the header, and what the      *)
(* template adds when it is called again.                                  *)
Once(e)  == ErrorHeader(w.header, template, e, Context(block).response)
Twice(e) == ErrorHeader(Once(e), template, ServerError, Context(block).response)

(* Who answers when a handler gives up: nobody, its template, net/http     *)
(* with what is there, or the template of the endpoint.                    *)
LEMMA FailsAnswers ==
    ASSUME NEW e, NEW responds, Fails(e, responds)
    PROVE  /\ stage' = "end"
           /\ \/ sent' = << >>
              \/ sent' = <<Templated(w, template, e, req, IF Main THEN NoOps ELSE Context(block).response)>>
              \/ sent' = <<Sent(WithHeader(w, Once(e)), 0, 0)>>
              \/ sent' = <<Templated(WithHeader(w, Twice(e)), chain.template, ServerError, req, NoOps)>>
  BY DEF Fails, Recovers, Once, Twice, Ends

LEMMA OnceTyped ==
    ASSUME IsWriter(w), IsOps(Context(block).response), NEW e
    PROVE  Typed(Once(e), "Cache-Control") /\ Typed(Twice(e), "Cache-Control")
  BY ErrorHeaderLeaves DEF Once, Twice, IsWriter

LEMMA SentStatus == ASSUME NEW x, NEW length, NEW gzips PROVE Sent(x, length, gzips).status = x.status
  BY DEF Sent, Response

(* The answer of an error template is private.                             *)
LEMMA TemplatedHeader ==
    ASSUME NEW x, IsWriter(x), NEW name, NEW e, NEW r, NEW ops, IsOps(ops)
    PROVE  x.private => HasPrivate(Templated(x, name, e, r, ops).header)
<1> DEFINE header == ErrorHeader(x.header, name, e, ops)
           y      == WithHeader(x, header)
           z      == WriteHeader(y, r, e.status)
           length == IF r.method = "HEAD" THEN 0 ELSE templateLength
<1>2. Typed(header, "Cache-Control")
  BY ErrorHeaderLeaves DEF IsWriter
<1> HIDE DEF header
<1>3. Keeps(x, y)
  BY <1>2, KeepsWithHeader
<1> HIDE DEF y
<1>4. Keeps(y, z) /\ z.status # 0
  BY <1>3, KeepsWriteHeader DEF Keeps
<1> HIDE DEF z, length
<1>5. x.private => HasPrivate(Sent(z, length, 0).header)
  BY <1>3, <1>4, SentPrivately DEF Keeps
<1>6. Templated(x, name, e, r, ops) = Sent(z, length, 0)
  BY Zenon DEF Templated, z, y, header, length
<1> QED
  BY <1>5, <1>6

LEMMA ContentHeader ==
    ASSUME NEW x, IsWriter(x), NEW length
    PROVE  x.private => HasPrivate(Content(x, length)[1].header)
<1> DEFINE y    == SetHeader(x, "Content-Length", "own")
           size == IF req.method = "HEAD" THEN 0 ELSE length
<1>1. Keeps(x, y)
  BY KeepsSetHeader
<1>2. Content(x, length) = <<Sent(WriteHeader(y, req, 200), size, 0)>>
  BY DEF Content
<1> HIDE DEF y, size
<1>3. y.private => HasPrivate(Sent(WriteHeader(y, req, 200), size, 0).header)
  BY <1>1, WrittenHeader DEF Keeps
<1> QED
  BY <1>1, <1>2, <1>3 DEF Keeps

LEMMA HealthyHeader ==
    ASSUME NEW x, IsWriter(x)
    PROVE  x.private => HasPrivate(Healthy(x).header)
<1> DEFINE y == SetHeader(x, "Cache-Control", "no-store")
<1>1. Keeps(x, y)
  BY KeepsSetHeader
<1> HIDE DEF y
<1> DEFINE z      == SetHeader(y, "Content-Type", "text/plain")
           status == IF scene.settings.shuttingDown THEN 500 ELSE 200
<1>2. Keeps(y, z)
  BY <1>1, KeepsSetHeader DEF Keeps
<1>3. Healthy(x) = Sent(WriteHeader(z, req, status), 7, 0)
  BY DEF Healthy, y
<1> HIDE DEF z, status
<1>4. z.private => HasPrivate(Sent(WriteHeader(z, req, status), 7, 0).header)
  BY <1>2, WrittenHeader DEF Keeps
<1> QED
  BY <1>1, <1>2, <1>3, <1>4 DEF Keeps

LEMMA RefusedHeader ==
    ASSUME IsWriter(w), NEW r, Refusal(r) # << >>
    PROVE  w.private => HasPrivate(Refusal(r)[1].header)
<1>1. ASSUME NEW name, NEW e PROVE w.private => HasPrivate(<<Templated(w, name, e, r, NoOps)>>[1].header)
  BY TemplatedHeader, NoOpsIsOps
<1>2. w.private => HasPrivate(<<Healthy(w)>>[1].header)
  BY HealthyHeader
<1>3. \/ \E name, e : Refusal(r) = <<Templated(w, name, e, r, NoOps)>>
      \/ Refusal(r) = <<Healthy(w)>>
  BY DEF Refusal
<1> QED
  BY <1>1, <1>2, <1>3

(* So is what is sent when a handler gives up.                             *)
LEMMA FailsHeader ==
    ASSUME ScenarioAssumption, StageInv, PlaceInv, stage \notin {"start", "refused"}, IsWriter(w),
           NEW e, NEW responds, Fails(e, responds)
    PROVE  /\ stage' = "end"
           /\ sent' # << >> => (w.private /\ sent'[1].status # 0 => HasPrivate(sent'[1].header))
<1> DEFINE ops == IF Main THEN NoOps ELSE Context(block).response
           x   == WithHeader(w, Once(e))
           y   == WithHeader(w, Twice(e))
<1>1. IsOps(ops) /\ IsOps(Context(block).response)
  BY BlockIsEndpoint, NoOpsIsOps DEF IsEndpoint, IsContext
<1>2. /\ stage' = "end"
      /\ \/ sent' = << >>
         \/ sent' = <<Templated(w, template, e, req, ops)>>
         \/ sent' = <<Sent(x, 0, 0)>>
         \/ sent' = <<Templated(y, chain.template, ServerError, req, NoOps)>>
  BY FailsAnswers
<1>3. Keeps(w, x) /\ Keeps(w, y)
  BY <1>1, OnceTyped, KeepsWithHeader
<1> HIDE DEF ops, x, y
<1>4. w.private => HasPrivate(Templated(w, template, e, req, ops).header)
  BY <1>1, TemplatedHeader
<1>5. w.private => HasPrivate(Templated(y, chain.template, ServerError, req, NoOps).header)
  BY <1>3, NoOpsIsOps, TemplatedHeader DEF Keeps
<1>6. w.private /\ Sent(x, 0, 0).status # 0 => HasPrivate(Sent(x, 0, 0).header)
  BY <1>3, SentStatus, SentPrivately DEF Keeps
<1> QED
  BY <1>2, <1>4, <1>5, <1>6

(* The steps before a handler runs.                                        *)
LEMMA WriterGate ==
    ASSUME ScenarioAssumption, StageInv, ControlInv, PlaceInv, WriterInv, Gate
    PROVE  WriterInv'
<1>1. IsWriter(w) /\ IsAnswer(beresp) /\ Keeps(w, w)
  BY KeepsItself DEF WriterInv
<1>2. CASE Configure
  <2>1. UNCHANGED <<scenario, w, control, beresp, failed, sent>> /\ failed = "" /\ control = 1 /\ scene' = scene /\ stage = "start"
    BY <1>2 DEF Configure, local, StageInv, Early, ControlInv, scene
  <2>2. CASE UNCHANGED runtime
    BY <2>1, <2>2, <1>1, <1>2, WriterKept DEF Configure, Early, WriterInv
  <2>3. CASE runtime' = Compiled(scene) /\ ConfigurationProblems(scene.definitions, scene.servers) = {} /\ stage' = "accepted"
    <3>1. IsChain(scene.definitions, chain')
      BY <2>3 DEF ScenarioAssumption, StageInv, scene, IsScenario, chain
    <3>2. Looked' = {}
      <4>1. \A i \in DOMAIN chain'.controls : i \in Nat /\ i >= 1
        BY <3>1 DEF IsChain
      <4>2. control' = 1 /\ failed' # "control"
        BY <2>1
      <4> QED
        BY <4>1, <4>2 DEF Looked
    <3>3. w.status = 0 /\ sent = << >>
      BY <2>1 DEF WriterInv, Early
    <3> QED
      BY <1>1, <2>1, <2>3, <3>2, <3>3 DEF WriterInv, Got
  <2> QED
    BY <1>2, <2>2, <2>3 DEF Configure
<1>3. CASE Receive
  <2>1. Refusal(req) # << >> /\ w.private => HasPrivate(Refusal(req)[1].header)
    BY <1>1, RefusedHeader
  <2> QED
    BY <1>1, <1>3, <2>1, WriterKept DEF Receive, Ends, Early, WriterInv
<1>4. CASE AnswerCORS
  <2> DEFINE cors == chain.cors
             with == IF cors = << >> THEN w ELSE AddCORS(w, cors[1], chain.methods)
  <2>1. Keeps(w, with) /\ with.status = w.status
    BY <1>1, KeepsAddCORS
  <2>2. w.private => HasPrivate(Sent(WriteHeader(with, req, 204), 0, 0).header)
    <3> HIDE DEF with
    <3> QED
      BY <2>1, WrittenHeader, ZenonT(40) DEF Keeps
  <2>3. \/ sent' = <<Sent(WriteHeader(with, req, 204), 0, 0)>> /\ stage' = "end" /\ w' = w
        \/ w' = with /\ UNCHANGED sent /\ stage' = "control"
    BY <1>4 DEF AnswerCORS, Ends
  <2>4. UNCHANGED <<scenario, runtime, control, failed, beresp>> /\ stage = "cors"
    BY <1>4 DEF AnswerCORS
  <2> HIDE DEF with
  <2> QED
    BY <1>1, <2>1, <2>2, <2>3, <2>4, WriterKept DEF Early, WriterInv
<1>5. CASE CheckControl
  <2> DEFINE ac == Definition(scene.definitions, chain.controls[control])
  <2>1. /\ UNCHANGED <<scenario, runtime, beresp, sent>> /\ scene' = scene /\ chain' = chain /\ stage = "control"
        /\ w' = IF DisablePrivateCaching(ac) THEN w ELSE AddPrivateCC(w)
        /\ control' = control \/ (control' = control + 1 /\ failed' = failed)
        /\ stage' \in {"control", "error"}
    BY <1>5 DEF CheckControl, Failed, scene, chain
  <2>2. w.status = 0 /\ sent = << >> /\ failed = ""
    BY <2>1 DEF WriterInv, Early, StageInv
  <2>3. IsWriter(w') /\ w'.status = 0 /\ (w.private => w'.private) /\ (~DisablePrivateCaching(ac) => w'.private)
    BY <1>1, <2>1, <2>2, PrivateFromNowOn
  <2>4. \A i \in Looked' : i = control \/ i \in Looked
    <3>1. chain.controls \in Seq({d.labels[1] : d \in ToSet(scene.definitions)})
      BY <2>1, NamedControls
    <3> QED
      <4>1. \A i \in DOMAIN chain.controls : i \in Nat
        BY <3>1
      <4>2. control \in Nat /\ \A i \in Nat : i < control + 1 => i < control \/ i = control
        BY DEF ControlInv
      <4>3. ASSUME NEW i \in Looked' PROVE i = control \/ i < control
        <5>1. i \in Nat /\ (i < control' \/ i = control')
          BY <2>1, <4>1 DEF Looked
        <5>2. CASE control' = control
          BY <5>1, <5>2
        <5>3. CASE control' = control + 1 /\ failed' = failed
          <6>1. i < control'
            BY <2>2, <5>3 DEF Looked
          <6> QED
            BY <4>2, <5>1, <5>3, <6>1
        <5> QED
          BY <2>1, <5>2, <5>3
      <4> QED
        BY <2>1, <4>3 DEF Looked
  <2>5. \A i \in Looked' : ~DisablePrivateCaching(Definition(scene.definitions, chain.controls[i])) => w'.private
    BY <2>3, <2>4 DEF WriterInv
  <2> QED
    BY <1>1, <2>1, <2>2, <2>3, <2>5 DEF WriterInv, Early, Got
<1>6. CASE CheckMethod
  <2>1. w.private => HasPrivate(Templated(w, chain.template, MethodNotAllowed, req, NoOps).header)
    BY <1>1, TemplatedHeader, NoOpsIsOps
  <2>2. /\ UNCHANGED <<scenario, runtime, w, control, failed, beresp>> /\ stage = "control"
        /\ \/ UNCHANGED sent /\ stage' = chain.kind
           \/ stage' = "end" /\ sent' = <<Templated(w, chain.template, MethodNotAllowed, req, NoOps)>>
    BY <1>6 DEF CheckMethod, Ends
  <2>3. chain.kind # "body"
    BY <2>2, CompiledKind DEF StageInv, chain
  <2> QED
    BY <1>1, <2>1, <2>2, <2>3, WriterKept DEF Early, WriterInv
<1>7. CASE CheckPermission
  BY <1>1, <1>7, WriterKept DEF CheckPermission, Failed, Early, WriterInv
<1>8. CASE Site
  <2> DEFINE with == AddModifiers(w, chain.modifiers)
  <2>1. stage \in {"spa", "files", "catch-all"} /\ UNCHANGED <<scenario, runtime, w, control, failed, beresp>> /\ stage' = "end"
    BY <1>8 DEF Site, ServeSPA, ServeFile, CatchPath, Ends
  <2>2. Keeps(w, with)
    BY <1>1, <2>1, RouteIsTyped, KeepsAddModifiers DEF IsChain, AreOps, IsList
  <2>3. /\ IsWriter(with)
        /\ with.private <=> w.private
    BY <2>2 DEF Keeps
  <2>4. \E x \in {w, with} :
           \/ \E length : sent' = Content(x, length)
           \/ \E name, e : sent' = <<Templated(x, name, e, req, NoOps)>>
           \/ sent' = <<Sent(WriteHeader(SetHeader(x, "Location", "slash"), req, 302), 0, 0)>>
    <3>1. CASE ServeSPA
      BY <3>1 DEF ServeSPA, Ends
    <3>2. CASE ServeFile
      BY <3>2 DEF ServeFile, Ends, NotFound
    <3>3. CASE CatchPath
      BY <3>3 DEF CatchPath, Ends, NotFound
    <3> QED
      BY <1>8, <3>1, <3>2, <3>3 DEF Site
  <2> HIDE DEF with
  <2>5. w.private => HasPrivate(sent'[1].header)
    <3>1. PICK x \in {w, with} :
           \/ \E length : sent' = Content(x, length)
           \/ \E name, e : sent' = <<Templated(x, name, e, req, NoOps)>>
           \/ sent' = <<Sent(WriteHeader(SetHeader(x, "Location", "slash"), req, 302), 0, 0)>>
      BY <2>4
    <3>2. IsWriter(x) /\ (w.private => x.private)
      BY <1>1, <2>3
    <3>3. x.private => HasPrivate(Sent(WriteHeader(SetHeader(x, "Location", "slash"), req, 302), 0, 0).header)
      <4> DEFINE y == SetHeader(x, "Location", "slash")
      <4>1. Keeps(x, y)
        BY <3>2, KeepsSetHeader
      <4> HIDE DEF y
      <4>2. y.private => HasPrivate(Sent(WriteHeader(y, req, 302), 0, 0).header)
        BY <4>1, WrittenHeader DEF Keeps
      <4> QED
        BY <4>1, <4>2 DEF Keeps, y
    <3> QED
      BY <3>1, <3>2, <3>3, ContentHeader, TemplatedHeader, NoOpsIsOps
  <2> QED
    BY <1>1, <2>1, <2>5, WriterKept DEF Early
<1> QED
  BY <1>2, <1>3, <1>4, <1>5, <1>6, <1>7, <1>8 DEF Gate

LEMMA ProducerIsTyped ==
    ASSUME IsEndpoint(block), ProducersOf(block) # << >>
    PROVE  IsProducer(producer)
  BY DEF IsEndpoint, producer

LEMMA WriterProduce ==
    ASSUME ScenarioAssumption, StageInv, ControlInv, PlaceInv, WriterInv, Produce
    PROVE  WriterInv'
<1>1. IsWriter(w) /\ IsAnswer(beresp) /\ Keeps(w, w) /\ stage = "produce"
  BY KeepsItself DEF WriterInv, Produce
<1>2. UNCHANGED <<scenario, runtime, control, failed, beresp>> /\ stage' \in {"produced", "trip", "end"}
  BY DEF Produce, Fails, Recovers, Ends
<1>3. CASE Fails(ConfigurationError, FALSE) /\ UNCHANGED w
  BY <1>1, <1>2, <1>3, FailsHeader, WriterKept DEF Early, WriterInv
<1>4. CASE UNCHANGED <<w, sent>>
  <2>1. sent = << >>
    BY <1>1 DEF WriterInv
  <2> QED
    BY <1>1, <1>2, <1>4, <2>1, WriterKept DEF Early, WriterInv
<1>5. CASE ProducersOf(block) # << >> /\ UNCHANGED sent
           /\ w' \in {w, registerWebsocketsResponse(producer, Produced(producer, req'), w)}
  <2>1. IsProducer(producer)
    BY <1>1, <1>5, BlockIsEndpoint, ProducerIsTyped
  <2>2. Keeps(w, w')
    BY <1>1, <1>5, <2>1, KeepsWebsockets
  <2>3. sent = << >>
    BY <1>1 DEF WriterInv
  <2> QED
    BY <1>1, <1>2, <1>5, <2>2, <2>3, WriterKept DEF Early
<1> QED
  BY <1>3, <1>4, <1>5 DEF Produce

LEMMA WriterReturn ==
    ASSUME ScenarioAssumption, StageInv, ControlInv, PlaceInv, WriterInv, Return
    PROVE  WriterInv'
<1>1. IsWriter(w) /\ IsAnswer(beresp) /\ Keeps(w, w) /\ stage = "trip" /\ sent = << >>
  BY KeepsItself DEF WriterInv, Return
<1>2. UNCHANGED <<scenario, runtime, control, failed, sent>> /\ stage' \in {"produced", "end"}
  BY DEF Return
<1> DEFINE raw      == IF result = "cut" THEN [beresp EXCEPT !.length = 0] ELSE beresp
           answered == Answered(producer, buffers, outreq, raw)
<1>3. IsAnswer(answered)
  <2>1. IsAnswer([beresp EXCEPT !.length = 0])
    <3> DEFINE y == [beresp EXCEPT !.length = 0]
    <3>1. DOMAIN y = DOMAIN beresp /\ y.header = beresp.header
      BY <1>1 DEF IsAnswer
    <3> HIDE DEF y
    <3>2. IsAnswer(y)
      BY <1>1, <3>1 DEF IsAnswer
    <3> QED
      BY <3>2 DEF y
  <2>2. IsAnswer(raw)
    BY <1>1, <2>1
  <2> HIDE DEF raw
  <2>3. IsProducer(producer)
    BY <1>1, BlockIsEndpoint, ProducerIsTyped DEF PlaceInv
  <2> QED
    BY <2>2, <2>3, AnsweredAnswer
<1>4. \/ UNCHANGED <<w, beresp>>
      \/ beresp' = answered /\ w' \in {w, SwitchProtocols(w, req, answered)}
  BY <1>1 DEF Return
<1> HIDE DEF answered
<1>5. Keeps(w, w') /\ IsAnswer(beresp')
  BY <1>1, <1>3, <1>4, KeepsSwitchProtocols DEF IsAnswer
<1> QED
  BY <1>1, <1>2, <1>5, WriterKept DEF Early

LEMMA WriterRespond ==
    ASSUME ScenarioAssumption, StageInv, ControlInv, PlaceInv, WriterInv, Respond
    PROVE  WriterInv'
<1>1. IsWriter(w) /\ IsAnswer(beresp) /\ Keeps(w, w) /\ stage = "respond" /\ sent = << >>
  BY KeepsItself DEF WriterInv, Respond
<1>2. UNCHANGED <<scenario, runtime, control, failed>>
  BY DEF Respond
<1>3. IsEndpoint(block) /\ IsContext(Context(block)) /\ IsOps(Context(block).response)
  BY <1>1, BlockIsEndpoint DEF IsEndpoint, IsContext
<1> DEFINE own     == BlocksOfType(block, "response")
           res     == IF own # << >> THEN NewResponse(own[1]) ELSE beresp
           with    == AddModifiers(w, IF Main THEN chain.modifiers ELSE << >>)
           of      == IF own # << >> THEN req ELSE outreq
           applied == ApplyResponseContext(Context(block), of, res)
           written == WithHeader(with, copyHeader(with.header, applied.header))
           ops     == IF Main THEN NoOps ELSE Context(block).response
<1>4. IsAnswer(res)
  <2>1. own # << >> => IsHeader(Attr(own[1], "headers", << >>))
    BY <1>3 DEF IsEndpoint
  <2>2. own # << >> => IsAnswer(NewResponse(own[1]))
    BY <2>1, HeaderTyped DEF IsAnswer, NewResponse, Response
  <2> QED
    BY <1>1, <2>2
<1> HIDE DEF res
<1>5. IsAnswer(applied)
  BY <1>3, <1>4, ContextAnswer
<1> HIDE DEF applied
<1>6. Keeps(w, with)
  <2>1. AreOps(IF Main THEN chain.modifiers ELSE << >>)
    BY <1>1, RouteIsTyped, ListEmpty DEF IsChain, AreOps, IsList
  <2> QED
    BY <1>1, <2>1, KeepsAddModifiers
<1> HIDE DEF with
<1>7. Keeps(w, written)
  <2> DEFINE header == copyHeader(with.header, applied.header)
  <2>1. Values(header, "Cache-Control") = Values(with.header, "Cache-Control") \o Values(applied.header, "Cache-Control")
    BY ValuesCopy
  <2>2. Typed(with.header, "Cache-Control") /\ Typed(applied.header, "Cache-Control")
    BY <1>5, <1>6 DEF Keeps, IsWriter, IsAnswer
  <2>3. Typed(header, "Cache-Control")
    BY <2>1, <2>2, ListConcat DEF Typed
  <2> HIDE DEF header
  <2>4. Keeps(with, WithHeader(with, header))
    BY <1>6, <2>3, KeepsWithHeader DEF Keeps
  <2> QED
    BY <1>6, <2>4, KeepsOn DEF header
<1> HIDE DEF written
<1>8. CASE own = << >> /\ ProducersOf(block) = << >>
  <2>1. FailsAgain /\ UNCHANGED <<w, beresp>>
    BY <1>8 DEF Respond
  <2>2. PICK e : Fails(e, FALSE)
    BY <2>1 DEF FailsAgain
  <2>3. stage' = "end" /\ (sent' # << >> => (w.private /\ sent'[1].status # 0 => HasPrivate(sent'[1].header)))
    BY <1>1, <2>2, FailsHeader
  <2> QED
    BY <1>1, <1>2, <2>1, <2>3, WriterKept DEF Early
<1>9. CASE Fails(err, Responds) /\ UNCHANGED <<w, beresp>>
  <2>1. stage' = "end" /\ (sent' # << >> => (w.private /\ sent'[1].status # 0 => HasPrivate(sent'[1].header)))
    BY <1>1, <1>9, FailsHeader
  <2> QED
    BY <1>1, <1>2, <1>9, <2>1, WriterKept DEF Early
<1>10. CASE w.hijacked /\ Ends(<<Sent(w, 0, 0)>>) /\ UNCHANGED <<w, beresp>>
  <2>1. w.private => HasPrivate(Sent(w, 0, 0).header)
    BY <1>1, <1>10, SentPrivately DEF IsWriter
  <2> QED
    BY <1>1, <1>2, <1>10, <2>1, WriterKept DEF Early, Ends
<1>11. CASE Ends(<<Templated(with, template, ConfigurationError, req, ops)>>) /\ UNCHANGED <<w, beresp>>
  <2>1. IsOps(ops)
    BY <1>3, NoOpsIsOps
  <2> HIDE DEF ops
  <2>2. w.private => HasPrivate(Templated(with, template, ConfigurationError, req, ops).header)
    BY <1>6, <2>1, TemplatedHeader DEF Keeps
  <2> QED
    BY <1>1, <1>2, <1>11, <2>2, WriterKept DEF Early, Ends
<1>12. CASE stage' = "body" /\ w' = WriteHeader(written, req, applied.status) /\ beresp' = applied /\ UNCHANGED sent
  <2>1. Keeps(written, w') /\ w'.status # 0
    BY <1>7, <1>12, KeepsWriteHeader DEF Keeps
  <2>2. Keeps(w, w')
    BY <1>7, <2>1, KeepsOn
  <2> QED
    BY <1>1, <1>2, <1>5, <1>12, <2>1, <2>2, WriterKept DEF Early
<1>13. \/ own = << >> /\ ProducersOf(block) = << >>
       \/ Fails(err, Responds) /\ UNCHANGED <<w, beresp>>
       \/ w.hijacked /\ Ends(<<Sent(w, 0, 0)>>) /\ UNCHANGED <<w, beresp>>
       \/ Ends(<<Templated(with, template, ConfigurationError, req, ops)>>) /\ UNCHANGED <<w, beresp>>
       \/ stage' = "body" /\ w' = WriteHeader(written, req, applied.status) /\ beresp' = applied /\ UNCHANGED sent
  BY DEF Respond, written, with, applied, res
<1> QED
  BY <1>8, <1>9, <1>10, <1>11, <1>12, <1>13

LEMMA WriterServe ==
    ASSUME ScenarioAssumption, StageInv, ControlInv, PlaceInv, WriterInv, Serve
    PROVE  WriterInv'
<1>1. IsWriter(w) /\ IsAnswer(beresp) /\ Keeps(w, w)
  BY KeepsItself DEF WriterInv
<1>2. CASE HandleError
  BY <1>1, <1>2, WriterKept DEF HandleError, Failed, Early, WriterInv
<1>3. CASE SelectHandler
  <2>1. w.private => HasPrivate(Templated(w, template, ctxErr, req, NoOps).header)
    BY <1>1, TemplatedHeader, NoOpsIsOps
  <2> QED
    BY <1>1, <1>3, <2>1, WriterKept DEF SelectHandler, Ends, Early, WriterInv
<1>4. CASE CopyBody
  <2>1. \E length, gzips : sent' = <<Sent(w, length, gzips)>>
    BY <1>4 DEF CopyBody, Ends
  <2>2. w.status # 0
    BY <1>4 DEF CopyBody, WriterInv
  <2>3. w.private => HasPrivate(sent'[1].header)
    BY <1>1, <2>1, <2>2, SentPrivately
  <2> QED
    BY <1>1, <1>4, <2>3, WriterKept DEF CopyBody, Ends, Early
<1> QED
  BY <1>2, <1>3, <1>4, WriterProduce, WriterReturn, WriterRespond DEF Serve

LEMMA WriterTrip ==
    ASSUME ScenarioAssumption, StageInv, WriterInv, Trip
    PROVE  WriterInv'
<1>1. IsWriter(w) /\ IsAnswer(beresp) /\ Keeps(w, w)
  BY KeepsItself DEF WriterInv
<1>2. UNCHANGED <<scenario, stage, runtime, w, control, failed, sent>> /\ (beresp' = beresp \/ beresp' \in scene.answers)
  BY DEF Trip
<1>3. IsScenario(scene)
  BY DEF ScenarioAssumption, StageInv, scene
<1>4. IsAnswer(beresp')
  BY <1>1, <1>2, <1>3, HeaderTyped DEF IsScenario, IsAnswer
<1> QED
  BY <1>1, <1>2, <1>4, WriterKept DEF WriterInv, Got

LEMMA WriterInit == Init => WriterInv
<1> SUFFICES ASSUME Init PROVE WriterInv
  OBVIOUS
<1>1. IsWriter(w) /\ w.status = 0
  BY NewWriterIsWriter DEF Init
<1>2. IsAnswer(beresp)
  <2>1. beresp = NoResponse
    BY DEF Init
  <2>2. \A f : Typed(<< >>, f)
    BY ListEmpty DEF Typed, Values
  <2> QED
    BY <2>1, <2>2 DEF NoResponse, Response, IsAnswer
<1>3. Looked = {}
  <2>1. chain.controls = << >>
    BY DEF Init, chain, NoChain
  <2>2. DOMAIN << >> = {}
    OBVIOUS
  <2> QED
    BY <2>1, <2>2 DEF Looked
<1> QED
  BY <1>1, <1>2, <1>3 DEF Init, WriterInv

LEMMA WriterNext == ScenarioAssumption /\ StageInv /\ ControlInv /\ PlaceInv /\ WriterInv /\ [Next]_vars => WriterInv'
<1> SUFFICES ASSUME ScenarioAssumption, StageInv, ControlInv, PlaceInv, WriterInv, [Next]_vars PROVE WriterInv'
  OBVIOUS
<1>1. CASE UNCHANGED vars
  <2>1. UNCHANGED <<scenario, stage, runtime, w, control, failed, beresp, sent>>
    BY <1>1 DEF vars, gvars
  <2> QED
    BY <2>1, KeepsItself, WriterKept DEF WriterInv, Got
<1>2. CASE Next
  BY <1>2, WriterGate, WriterServe, WriterTrip DEF Next
<1> QED
  BY <1>1, <1>2

(* When a control of the route has been asked, and does not disable        *)
(* private caching, the answer that the client gets has Cache-Control:     *)
(* private, whoever writes it: an endpoint, an error handler, an error     *)
(* template, a file, an upgraded connection; no modifier takes it away,    *)
(* since the writer adds it last. An error handler that panics and whose   *)
(* producer has left a response is the one case in which nobody does.      *)
THEOREM PrivateAnswers == Spec => []PrivateStaysPrivate
<1> DEFINE IInv == StageInv /\ ControlInv /\ PlaceInv /\ WriterInv
<1>1. Init => IInv
  BY StageInit, ControlInit, PlaceInit, WriterInit
<1>2. IInv /\ [Next]_vars => IInv'
  BY StageNext, ControlNext, PlaceNext, WriterNext, ScenarioAssumption
<1>3. IInv => PrivateStaysPrivate
  <2>1. ASSUME WriterInv, sent # << >>, Got.status # 0, NEW i \in Looked,
               ~DisablePrivateCaching(Definition(scene.definitions, chain.controls[i]))
        PROVE  HasPrivate(Got.header)
    BY <2>1 DEF WriterInv
  <2> QED
    BY <2>1 DEF PrivateStaysPrivate, Looked, HasPrivate
<1> QED
  BY <1>1, <1>2, <1>3, PTL DEF Spec

-------------------------------------------------------------------------------
(* The CORS decision                                                       *)

(* Nothing on the route names the fields of CORS: the modifiers of the     *)
(* answer not those that CORS sets, the modifiers of the request not the   *)
(* one it looks at.                                                        *)
Undisturbed(c) ==
    LET route == Compiled(c).chain
    IN  /\ \A ops \in ToSet(route.modifiers) : LeavesCors(ops)
        /\ \A b \in RouteBlocks(c.definitions, route) :
              /\ "Origin" \notin DOMAIN Context(b).request.set \cup DOMAIN Context(b).request.add
              /\ ProducersOf(b) # << >> /\ IsProxy(ProducersOf(b)[1]) /\ AllowsWebsockets(ProducersOf(b)[1]) =>
                    /\ LeavesCors(getWebsocketsBody(ProducersOf(b)[1]).response)
                    /\ LeavesCors(Context(ProducersOf(b)[1]).response)

Asks == Get(scene.request.header, "Origin")

(* On a route with these options, for a client that asks so. *)
Ours(cors, asks) ==
    /\ CorsWriter(cors, asks, w)
    /\ stage \notin {"accepted", "cors", "end"} => w.cors # << >>
    /\ stage \notin {"body", "end"} /\ ~w.hijacked => w.status = 0
    /\ DOMAIN req = RequestFields /\ ComesFrom(req, asks)
    /\ sent # << >> => stage = "end" /\ (Got.status # 0 => Fits(cors, asks, Got.header))

(* The writer of a route with CORS has its options, from the first step    *)
(* on.                                                                     *)
CorsInv ==
    /\ stage \in {"start", "refused"} => w.cors = << >> /\ w.modifiers = << >> /\ w.header = << >>
    /\ stage \notin {"start", "refused"} /\ chain.cors # << >> /\ Undisturbed(scene) => Ours(chain.cors[1], Asks)

(* What is left to show of a step that changes neither writer nor request. *)
LEMMA OursStays ==
    ASSUME NEW cors, NEW asks, Ours(cors, asks), UNCHANGED <<w, req>>,
           stage' # "end" => UNCHANGED sent /\ (stage' = stage \/ {stage, stage'} \cap {"accepted", "cors", "body", "end"} = {}),
           stage' = "end" /\ sent' # << >> => UNCHANGED <<stage, sent>> \/ (sent'[1].status # 0 => Fits(cors, asks, sent'[1].header))
    PROVE  Ours(cors, asks)'
<1>1. CASE stage' # "end"
  <2>1. sent' = sent
    BY <1>1
  <2>2. stage' = stage \/ {stage, stage'} \cap {"accepted", "cors", "body", "end"} = {}
    BY <1>1
  <2> QED
    BY <1>1, <2>1, <2>2 DEF Ours, Got
<1>2. CASE stage' = "end"
  BY <1>2 DEF Ours, Got
<1> QED
  BY <1>1, <1>2

LEMMA FitsTemplated ==
    ASSUME NEW cors, NEW asks, NEW x, IsWriter(x), CorsWriter(cors, asks, x), NEW name, NEW e,
           NEW r, ComesFrom(r, asks), NEW ops, IsOps(ops), x.cors = << >> => ops = NoOps
    PROVE  Fits(cors, asks, Templated(x, name, e, r, ops).header)
<1> DEFINE header == ErrorHeader(x.header, name, e, ops)
           y      == WithHeader(x, header)
           z      == WriteHeader(y, r, e.status)
           length == IF r.method = "HEAD" THEN 0 ELSE templateLength
<1>2. x.cors = << >> => Blank(header)
  <2> SUFFICES ASSUME x.cors = << >> PROVE Blank(ErrorHeader(x.header, name, e, NoOps))
    OBVIOUS
  <2>1. Blank(x.header) /\ Typed(x.header, AllowOrigin) /\ Typed(x.header, AllowCredentials)
    BY ListEmpty DEF CorsWriter, Blank, Typed
  <2> QED
    BY <2>1, NoOpsIsOps, NoOpsTouchNothing, ErrorHeaderLeaves DEF Blank, AllowOrigin, AllowCredentials, IsWriter
<1>3. Typed(header, "Cache-Control")
  BY ErrorHeaderLeaves DEF IsWriter
<1> HIDE DEF header
<1>4. IsWriter(y) /\ CorsWriter(cors, asks, y)
  BY <1>2, <1>3, KeepsWithHeader, FitsWithHeader DEF Keeps
<1> HIDE DEF y, length
<1>5. Fits(cors, asks, Sent(z, length, 0).header)
  BY <1>4, FitsWritten
<1> HIDE DEF z
<1>6. Templated(x, name, e, r, ops) = Sent(z, length, 0)
  BY Zenon DEF Templated, z, y, header, length
<1> QED
  BY <1>5, <1>6

LEMMA FitsContent ==
    ASSUME NEW cors, NEW asks, NEW x, IsWriter(x), CorsWriter(cors, asks, x), ComesFrom(req, asks), NEW length
    PROVE  Fits(cors, asks, Content(x, length)[1].header)
<1> DEFINE y    == SetHeader(x, "Content-Length", "own")
           size == IF req.method = "HEAD" THEN 0 ELSE length
<1>1. "Content-Length" \notin {AllowOrigin, AllowCredentials}
  BY DEF AllowOrigin, AllowCredentials
<1>2. IsWriter(y) /\ CorsWriter(cors, asks, y)
  BY <1>1, KeepsSetHeader, FitsSetHeader DEF Keeps
<1>3. Content(x, length) = <<Sent(WriteHeader(y, req, 200), size, 0)>>
  BY DEF Content
<1> HIDE DEF y, size
<1>4. Fits(cors, asks, Sent(WriteHeader(y, req, 200), size, 0).header)
  BY <1>2, FitsWritten
<1> QED
  BY <1>3, <1>4

LEMMA FitsHealthy ==
    ASSUME NEW cors, NEW asks, NEW x, IsWriter(x), CorsWriter(cors, asks, x), ComesFrom(req, asks)
    PROVE  Fits(cors, asks, Healthy(x).header)
<1> DEFINE y == SetHeader(x, "Cache-Control", "no-store")
<1>1. {"Cache-Control", "Content-Type"} \cap {AllowOrigin, AllowCredentials} = {}
  BY DEF AllowOrigin, AllowCredentials
<1>2. IsWriter(y) /\ CorsWriter(cors, asks, y)
  BY <1>1, KeepsSetHeader, FitsSetHeader DEF Keeps
<1> HIDE DEF y
<1> DEFINE z      == SetHeader(y, "Content-Type", "text/plain")
           status == IF scene.settings.shuttingDown THEN 500 ELSE 200
<1>3. IsWriter(z) /\ CorsWriter(cors, asks, z)
  BY <1>1, <1>2, KeepsSetHeader, FitsSetHeader DEF Keeps
<1>4. Healthy(x) = Sent(WriteHeader(z, req, status), 7, 0)
  BY DEF Healthy, y
<1> HIDE DEF z, status
<1>5. Fits(cors, asks, Sent(WriteHeader(z, req, status), 7, 0).header)
  BY <1>3, FitsWritten
<1> QED
  BY <1>4, <1>5

LEMMA FitsRefused ==
    ASSUME NEW cors, NEW asks, IsWriter(w), CorsWriter(cors, asks, w), ComesFrom(req, asks), Refusal(req) # << >>
    PROVE  Fits(cors, asks, Refusal(req)[1].header)
<1>1. ASSUME NEW name, NEW e PROVE Fits(cors, asks, <<Templated(w, name, e, req, NoOps)>>[1].header)
  BY FitsTemplated, NoOpsIsOps
<1>2. Fits(cors, asks, <<Healthy(w)>>[1].header)
  BY FitsHealthy
<1>3. \/ \E name, e : Refusal(req) = <<Templated(w, name, e, req, NoOps)>>
      \/ Refusal(req) = <<Healthy(w)>>
  BY DEF Refusal
<1> QED
  BY <1>1, <1>2, <1>3

LEMMA FitsFails ==
    ASSUME ScenarioAssumption, StageInv, PlaceInv, stage \in Late, IsWriter(w), NEW cors, NEW asks, Ours(cors, asks),
           NEW e, NEW responds, Fails(e, responds)
    PROVE  stage' = "end" /\ (sent' # << >> => (sent'[1].status # 0 => Fits(cors, asks, sent'[1].header)))
<1> DEFINE ops == IF Main THEN NoOps ELSE Context(block).response
           x   == WithHeader(w, Once(e))
           y   == WithHeader(w, Twice(e))
<1>1. IsOps(ops) /\ IsOps(Context(block).response)
  BY BlockIsEndpoint, NoOpsIsOps DEF IsEndpoint, IsContext, Late
<1>2. /\ stage' = "end"
      /\ \/ sent' = << >>
         \/ sent' = <<Templated(w, template, e, req, ops)>>
         \/ sent' = <<Sent(x, 0, 0)>>
         \/ sent' = <<Templated(y, chain.template, ServerError, req, NoOps)>>
  BY FailsAnswers
<1>3. CorsWriter(cors, asks, w) /\ ComesFrom(req, asks) /\ w.cors # << >>
  BY DEF Ours, Late
<1>4. IsWriter(y) /\ CorsWriter(cors, asks, x) /\ CorsWriter(cors, asks, y) /\ y.cors # << >>
  BY <1>1, <1>3, OnceTyped, KeepsWithHeader, FitsWithHeader DEF Keeps
<1> HIDE DEF ops, x, y
<1>5. Fits(cors, asks, Templated(w, template, e, req, ops).header)
  BY <1>1, <1>3, FitsTemplated
<1>6. Fits(cors, asks, Templated(y, chain.template, ServerError, req, NoOps).header)
  BY <1>3, <1>4, NoOpsIsOps, FitsTemplated
<1>7. Sent(x, 0, 0).status # 0 => Fits(cors, asks, Sent(x, 0, 0).header)
  BY <1>4, SentStatus, FitsSent
<1> QED
  BY <1>2, <1>5, <1>6, <1>7

(* The route adds its parameters, and leaves the header.                   *)
LEMMA RoutedHeader ==
    ASSUME NEW r, DOMAIN r = RequestFields
    PROVE  DOMAIN Routed(r) = RequestFields /\ Routed(r).header = r.header
  BY DEF Routed, RequestFields

(* The first step puts the options of the route into the writer.           *)
LEMMA OursConfigure ==
    ASSUME ScenarioAssumption, StageInv, ControlInv, WriterInv, CorsInv, Configure, stage' # "refused"
    PROVE  Ours(chain.cors[1], Asks)'
<1>1. stage = "start" /\ stage' = "accepted" /\ UNCHANGED <<scenario, w, req, sent>>
  BY DEF Configure, local
<1>2. w.cors = << >> /\ w.modifiers = << >> /\ w.header = << >> /\ w.status = 0 /\ req = scene.request /\ sent = << >>
  BY <1>1 DEF CorsInv, WriterInv, ControlInv, Early
<1>3. ASSUME NEW cors PROVE CorsWriter(cors, Asks, w)
  BY <1>2, UntouchedWriter
<1>4. IsScenario(scene)
  BY DEF ScenarioAssumption, StageInv, scene
<1>5. DOMAIN req = RequestFields /\ ComesFrom(req, Asks)
  BY <1>2, <1>4, HeaderTyped DEF IsScenario, ComesFrom, Asks
<1>6. Asks' = Asks
  BY <1>1 DEF Asks, scene
<1> QED
  BY <1>1, <1>2, <1>3, <1>5, <1>6 DEF Ours

LEMMA OursGate ==
    ASSUME ScenarioAssumption, StageInv, ControlInv, WriterInv, NEW cors, NEW asks,
           chain.cors # << >>, cors = chain.cors[1], Ours(cors, asks),
           \A ops \in ToSet(chain.modifiers) : LeavesCors(ops),
           stage \notin {"start", "refused"}, Gate
    PROVE  Ours(cors, asks)'
<1>1. IsWriter(w) /\ CorsWriter(cors, asks, w) /\ DOMAIN req = RequestFields /\ ComesFrom(req, asks)
  BY DEF WriterInv, Ours
<1>2. ASSUME NEW name, NEW e, w.cors # << >> \/ stage = "accepted" PROVE Fits(cors, asks, Templated(w, name, e, req, NoOps).header)
  BY <1>1, NoOpsIsOps, FitsTemplated
<1>3. CASE Receive
  <2>1. CASE Refusal(req) # << >>
    BY <1>1, <1>3, <2>1, FitsRefused, OursStays DEF Receive, Ends
  <2>2. CASE Refusal(req) = << >>
    <3>1. req' = Routed(req) /\ UNCHANGED <<w, sent>> /\ stage = "accepted" /\ stage' = "cors"
      BY <1>3, <2>2 DEF Receive
    <3>2. DOMAIN req' = RequestFields /\ ComesFrom(req', asks)
      BY <1>1, <3>1, RoutedHeader DEF ComesFrom
    <3> QED
      BY <1>1, <3>1, <3>2 DEF Ours
  <2> QED
    BY <2>1, <2>2
<1>4. CASE AnswerCORS
  <2> DEFINE with == AddCORS(w, cors, chain.methods)
  <2>1. /\ IsWriter(with) /\ CorsWriter(cors, asks, with) /\ with.cors # << >>
        /\ with.status = w.status /\ with.hijacked = w.hijacked
    <3>1. IsWriter(with) /\ with.status = w.status
      BY <1>1, KeepsAddCORS DEF Keeps
    <3>2. with.hijacked = w.hijacked
      BY <1>1 DEF AddCORS, IsWriter, WriterFields
    <3> HIDE DEF with
    <3> QED
      BY <1>1, <3>1, <3>2, FitsAddCORS DEF with
  <2>2. \/ sent' = <<Sent(WriteHeader(with, req, 204), 0, 0)>> /\ stage' = "end" /\ w' = w
        \/ w' = with /\ UNCHANGED sent /\ stage' = "control"
    BY <1>4 DEF AnswerCORS, Ends
  <2>3. req' = req /\ stage = "cors"
    BY <1>4 DEF AnswerCORS
  <2> HIDE DEF with
  <2>4. Fits(cors, asks, Sent(WriteHeader(with, req, 204), 0, 0).header)
    BY <1>1, <2>1, FitsWritten
  <2>5. CASE w' = with /\ UNCHANGED sent /\ stage' = "control"
    BY <1>1, <2>1, <2>3, <2>5 DEF Ours
  <2> QED
    BY <2>2, <2>3, <2>4, <2>5, OursStays
<1>5. CASE CheckControl
  <2>1. UNCHANGED <<req, sent>> /\ stage = "control" /\ stage' \in {"control", "error"} /\ w' \in {w, AddPrivateCC(w)}
    BY <1>5 DEF CheckControl, Failed
  <2>2. CorsWriter(cors, asks, w') /\ w'.cors = w.cors /\ w'.status = w.status /\ w'.hijacked = w.hijacked
    BY <1>1, <2>1, FitsPrivateCC
  <2> QED
    BY <1>1, <2>1, <2>2 DEF Ours
<1>6. CASE CheckMethod
  <2>1. stage = "control" /\ UNCHANGED <<w, req>> /\ w.cors # << >>
    BY <1>6 DEF CheckMethod, Ours
  <2>2. \/ stage' = chain.kind /\ UNCHANGED sent
        \/ stage' = "end" /\ sent' = <<Templated(w, chain.template, MethodNotAllowed, req, NoOps)>>
    BY <1>6 DEF CheckMethod, Ends
  <2>3. chain.kind \in {"none", "catch-all", "endpoint", "files", "spa"}
    BY <2>1, CompiledKind DEF StageInv, chain
  <2> QED
    BY <1>2, <2>1, <2>2, <2>3, OursStays
<1>7. CASE CheckPermission
  BY <1>7, OursStays DEF CheckPermission, Failed
<1>8. CASE Site
  <2> DEFINE with == AddModifiers(w, chain.modifiers)
  <2>1. stage \in {"spa", "files", "catch-all"} /\ UNCHANGED <<w, req>> /\ stage' = "end"
    BY <1>8 DEF Site, ServeSPA, ServeFile, CatchPath, Ends
  <2>2. w.cors # << >>
    BY <2>1 DEF Ours
  <2>3. AreOps(chain.modifiers)
    BY <2>1, RouteIsTyped DEF IsChain, AreOps, IsList
  <2>4. IsWriter(with) /\ CorsWriter(cors, asks, with) /\ with.cors # << >>
    BY <1>1, <2>2, <2>3, KeepsAddModifiers, FitsAddModifiers DEF Keeps, AreOps
  <2>5. \E x \in {w, with} :
           \/ \E length : sent' = Content(x, length)
           \/ \E name, e : sent' = <<Templated(x, name, e, req, NoOps)>>
           \/ sent' = <<Sent(WriteHeader(SetHeader(x, "Location", "slash"), req, 302), 0, 0)>>
    <3>1. CASE ServeSPA
      BY <3>1 DEF ServeSPA, Ends
    <3>2. CASE ServeFile
      BY <3>2 DEF ServeFile, Ends, NotFound
    <3>3. CASE CatchPath
      BY <3>3 DEF CatchPath, Ends, NotFound
    <3> QED
      BY <1>8, <3>1, <3>2, <3>3 DEF Site
  <2> HIDE DEF with
  <2>6. Fits(cors, asks, sent'[1].header)
    <3>1. PICK x \in {w, with} :
           \/ \E length : sent' = Content(x, length)
           \/ \E name, e : sent' = <<Templated(x, name, e, req, NoOps)>>
           \/ sent' = <<Sent(WriteHeader(SetHeader(x, "Location", "slash"), req, 302), 0, 0)>>
      BY <2>5
    <3>2. IsWriter(x) /\ CorsWriter(cors, asks, x) /\ x.cors # << >>
      BY <1>1, <2>2, <2>4
    <3>3. Fits(cors, asks, Sent(WriteHeader(SetHeader(x, "Location", "slash"), req, 302), 0, 0).header)
      <4> DEFINE y == SetHeader(x, "Location", "slash")
      <4>1. "Location" \notin {AllowOrigin, AllowCredentials}
        BY DEF AllowOrigin, AllowCredentials
      <4>2. IsWriter(y) /\ CorsWriter(cors, asks, y)
        BY <3>2, <4>1, KeepsSetHeader, FitsSetHeader DEF Keeps
      <4> HIDE DEF y
      <4>3. Fits(cors, asks, Sent(WriteHeader(y, req, 302), 0, 0).header)
        BY <1>1, <4>2, FitsWritten
      <4> QED
        BY <4>3 DEF y
    <3> QED
      BY <1>1, <3>1, <3>2, <3>3, FitsContent, FitsTemplated, NoOpsIsOps
  <2> QED
    BY <2>1, <2>6, OursStays
<1>9. ~Configure
  BY DEF Configure
<1> QED
  BY <1>3, <1>4, <1>5, <1>6, <1>7, <1>8, <1>9 DEF Gate

(* What an undisturbed route says of the block that runs. *)
LEMMA BlockLeavesCors ==
    ASSUME ScenarioAssumption, StageInv, PlaceInv, stage \in Late, Undisturbed(scene)
    PROVE  /\ \A ops \in ToSet(chain.modifiers) : LeavesCors(ops)
           /\ "Origin" \notin DOMAIN Context(block).request.set \cup DOMAIN Context(block).request.add
           /\ ProducersOf(block) # << >> /\ IsProxy(producer) /\ AllowsWebsockets(producer) =>
                 LeavesCors(getWebsocketsBody(producer).response) /\ LeavesCors(Context(producer).response)
<1>1. stage \notin {"start", "refused"}
  BY DEF Late
<1>2. block \in RouteBlocks(scene.definitions, chain)
  BY <1>1, BlockIsEndpoint
<1>3. chain = Compiled(scene).chain
  BY <1>1 DEF StageInv, chain
<1> QED
  BY <1>2, <1>3 DEF Undisturbed, producer

LEMMA OursProduce ==
    ASSUME ScenarioAssumption, StageInv, PlaceInv, WriterInv, NEW cors, NEW asks, Ours(cors, asks),
           Undisturbed(scene), Produce
    PROVE  Ours(cors, asks)'
<1>1. /\ IsWriter(w) /\ CorsWriter(cors, asks, w) /\ DOMAIN req = RequestFields /\ ComesFrom(req, asks)
      /\ w.cors # << >> /\ (~w.hijacked => w.status = 0) /\ sent = << >> /\ stage = "produce" /\ stage \in Late
  BY DEF WriterInv, Ours, Produce, Late
<1>2. "Origin" \notin DOMAIN Context(block).request.set \cup DOMAIN Context(block).request.add
  BY <1>1, BlockLeavesCors
<1>3. CASE Fails(ConfigurationError, FALSE) /\ UNCHANGED <<w, req>>
  BY <1>1, <1>3, FitsFails, OursStays
<1>4. CASE req' = ApplyRequestContext(Context(block), req)
  <2>1. DOMAIN req' = RequestFields /\ ComesFrom(req', asks)
    BY <1>1, <1>2, <1>4, ContextAsks
  <2>2. CASE w' = w /\ UNCHANGED sent /\ stage' \in {"produced", "trip"}
    BY <1>1, <2>1, <2>2 DEF Ours
  <2>3. CASE /\ ProducersOf(block) # << >> /\ IsProxy(producer) /\ UNCHANGED sent /\ stage' \in {"produced", "trip"}
             /\ w' = registerWebsocketsResponse(producer, Produced(producer, req'), w)
    <3>1. IsProducer(producer)
      BY <1>1, <2>3, BlockIsEndpoint, ProducerIsTyped
    <3> DEFINE out == Produced(producer, req')
    <3>2. IsUpgradeRequest(out) => LeavesCors(getWebsocketsBody(producer).response) /\ LeavesCors(Context(producer).response)
      BY <1>1, <2>1, <2>3, BlockLeavesCors, UpgradesAllowed DEF Produced
    <3>3. w' = registerWebsocketsResponse(producer, out, w)
      BY <2>3
    <3> HIDE DEF out
    <3>4. CorsWriter(cors, asks, w') /\ w'.cors = w.cors /\ w'.status = w.status /\ w'.hijacked = w.hijacked
      <4>1. CASE IsUpgradeRequest(out)
        BY <1>1, <3>1, <3>2, <3>3, <4>1, FitsWebsockets
      <4>2. CASE ~IsUpgradeRequest(out)
        BY <1>1, <3>3, <4>2 DEF registerWebsocketsResponse
      <4> QED
        BY <4>1, <4>2
    <3> QED
      BY <1>1, <2>1, <2>3, <3>4 DEF Ours
  <2>4. \/ w' = w /\ UNCHANGED sent /\ stage' \in {"produced", "trip"}
        \/ /\ ProducersOf(block) # << >> /\ IsProxy(producer) /\ UNCHANGED sent /\ stage' \in {"produced", "trip"}
           /\ w' = registerWebsocketsResponse(producer, Produced(producer, req'), w)
        \/ Fails(ConfigurationError, FALSE) /\ UNCHANGED <<w, req>>
    BY DEF Produce
  <2> QED
    BY <1>3, <2>2, <2>3, <2>4
<1> QED
  BY <1>3, <1>4 DEF Produce

LEMMA OursReturn ==
    ASSUME WriterInv, NEW cors, NEW asks, Ours(cors, asks), Return
    PROVE  Ours(cors, asks)'
<1>1. /\ IsWriter(w) /\ CorsWriter(cors, asks, w) /\ DOMAIN req = RequestFields /\ ComesFrom(req, asks)
      /\ w.cors # << >> /\ (~w.hijacked => w.status = 0) /\ sent = << >> /\ stage = "trip"
  BY DEF WriterInv, Ours, Return
<1>2. UNCHANGED <<req, sent>> /\ stage' \in {"produced", "end"}
  BY DEF Return
<1>3. w' = w \/ (~w.hijacked /\ \E res : w' = SwitchProtocols(w, req, res))
  BY DEF Return
<1>4. CASE w' = w
  BY <1>1, <1>2, <1>4 DEF Ours
<1>5. ASSUME ~w.hijacked, NEW res, w' = SwitchProtocols(w, req, res) PROVE Ours(cors, asks)'
  <2> DEFINE y == [w EXCEPT !.hijacked = TRUE, !.header = copyHeader(@, res.header)]
             z == SwitchProtocols(w, req, res)
  <2>1. CorsWriter(cors, asks, z)
    BY <1>1, <1>5, FitsSwitchProtocols
  <2>2. z.cors = w.cors /\ z.hijacked = TRUE
    <3>1. DOMAIN y = WriterFields /\ y.cors = w.cors /\ y.hijacked = TRUE
      BY <1>1 DEF IsWriter, WriterFields
    <3>2. z = WriteHeader(y, req, res.status)
      BY DEF SwitchProtocols
    <3> HIDE DEF y, z
    <3> QED
      BY <3>1, <3>2, WrittenFields
  <2> HIDE DEF z
  <2>3. w' = z
    BY <1>5 DEF z
  <2> QED
    BY <1>1, <1>2, <2>1, <2>2, <2>3 DEF Ours
<1> QED
  BY <1>3, <1>4, <1>5

LEMMA OursRespond ==
    ASSUME ScenarioAssumption, StageInv, PlaceInv, WriterInv, NEW cors, NEW asks, Ours(cors, asks),
           Undisturbed(scene), Respond
    PROVE  Ours(cors, asks)'
<1>1. /\ IsWriter(w) /\ CorsWriter(cors, asks, w) /\ DOMAIN req = RequestFields /\ ComesFrom(req, asks)
      /\ w.cors # << >> /\ (~w.hijacked => w.status = 0) /\ sent = << >> /\ stage = "respond" /\ stage \in Late
  BY DEF WriterInv, Ours, Respond, Late
<1>2. req' = req
  BY DEF Respond
<1>3. IsEndpoint(block) /\ IsContext(Context(block)) /\ IsOps(Context(block).response)
  BY <1>1, BlockIsEndpoint DEF IsEndpoint, IsContext
<1> DEFINE own     == BlocksOfType(block, "response")
           res     == IF own # << >> THEN NewResponse(own[1]) ELSE beresp
           mods    == IF Main THEN chain.modifiers ELSE << >>
           with    == AddModifiers(w, mods)
           of      == IF own # << >> THEN req ELSE outreq
           applied == ApplyResponseContext(Context(block), of, res)
           header  == copyHeader(with.header, applied.header)
           written == WithHeader(with, header)
           ops     == IF Main THEN NoOps ELSE Context(block).response
<1>4. IsAnswer(applied)
  <2>1. own # << >> => IsHeader(Attr(own[1], "headers", << >>))
    BY <1>3 DEF IsEndpoint
  <2>2. own # << >> => IsAnswer(NewResponse(own[1]))
    BY <2>1, HeaderTyped DEF IsAnswer, NewResponse, Response
  <2>3. IsAnswer(res)
    BY <2>2 DEF WriterInv
  <2> HIDE DEF res
  <2> QED
    BY <1>3, <2>3, ContextAnswer
<1> HIDE DEF applied
<1>5. IsWriter(with) /\ CorsWriter(cors, asks, with) /\ with.cors # << >>
  <2>1. AreOps(mods) /\ \A o \in ToSet(mods) : LeavesCors(o)
    <3>1. AreOps(chain.modifiers) /\ \A o \in ToSet(chain.modifiers) : LeavesCors(o)
      BY <1>1, RouteIsTyped, BlockLeavesCors DEF IsChain, AreOps, IsList
    <3> QED
      BY <3>1, ListEmpty DEF AreOps
  <2> HIDE DEF mods
  <2> QED
    BY <1>1, <2>1, KeepsAddModifiers, FitsAddModifiers DEF Keeps, AreOps
<1> HIDE DEF with
<1>6. IsWriter(written) /\ CorsWriter(cors, asks, written) /\ written.cors # << >>
  <2>1. Typed(header, "Cache-Control")
    <3>1. Values(header, "Cache-Control") = Values(with.header, "Cache-Control") \o Values(applied.header, "Cache-Control")
      BY ValuesCopy
    <3>2. Typed(with.header, "Cache-Control") /\ Typed(applied.header, "Cache-Control")
      BY <1>4, <1>5 DEF IsWriter, IsAnswer
    <3> QED
      BY <3>1, <3>2, ListConcat DEF Typed
  <2> HIDE DEF header
  <2> QED
    BY <1>5, <2>1, KeepsWithHeader, FitsWithHeader DEF Keeps
<1> HIDE DEF written
<1>7. CASE own = << >> /\ ProducersOf(block) = << >>
  <2>1. FailsAgain /\ UNCHANGED w
    BY <1>7 DEF Respond
  <2>2. PICK e : Fails(e, FALSE)
    BY <2>1 DEF FailsAgain
  <2> QED
    BY <1>1, <1>2, <2>1, <2>2, FitsFails, OursStays
<1>8. CASE Fails(err, Responds) /\ UNCHANGED w
  BY <1>1, <1>2, <1>8, FitsFails, OursStays
<1>9. CASE w.hijacked /\ Ends(<<Sent(w, 0, 0)>>) /\ UNCHANGED w
  <2>1. Fits(cors, asks, Sent(w, 0, 0).header)
    BY <1>1, <1>9, FitsSent DEF IsWriter
  <2> QED
    BY <1>2, <1>9, <2>1, OursStays DEF Ends
<1>10. CASE Ends(<<Templated(with, template, ConfigurationError, req, ops)>>) /\ UNCHANGED w
  <2>1. IsOps(ops)
    BY <1>3, NoOpsIsOps
  <2> HIDE DEF ops
  <2>2. Fits(cors, asks, Templated(with, template, ConfigurationError, req, ops).header)
    BY <1>1, <1>5, <2>1, FitsTemplated
  <2> QED
    BY <1>2, <1>10, <2>2, OursStays DEF Ends
<1>11. CASE stage' = "body" /\ w' = WriteHeader(written, req, applied.status) /\ UNCHANGED sent
  <2> DEFINE z == WriteHeader(written, req, applied.status)
  <2>1. CorsWriter(cors, asks, z) /\ z.cors = written.cors
    BY <1>1, <1>6, FitsWriteHeader, WrittenFields DEF IsWriter
  <2> HIDE DEF z
  <2>2. w' = z
    BY <1>11 DEF z
  <2> QED
    BY <1>1, <1>2, <1>6, <1>11, <2>1, <2>2 DEF Ours
<1>12. \/ own = << >> /\ ProducersOf(block) = << >>
       \/ Fails(err, Responds) /\ UNCHANGED w
       \/ w.hijacked /\ Ends(<<Sent(w, 0, 0)>>) /\ UNCHANGED w
       \/ Ends(<<Templated(with, template, ConfigurationError, req, ops)>>) /\ UNCHANGED w
       \/ stage' = "body" /\ w' = WriteHeader(written, req, applied.status) /\ UNCHANGED sent
  BY DEF Respond, written, with, applied, res
<1> QED
  BY <1>7, <1>8, <1>9, <1>10, <1>11, <1>12

LEMMA OursServe ==
    ASSUME ScenarioAssumption, StageInv, PlaceInv, WriterInv, NEW cors, NEW asks, Ours(cors, asks),
           Undisturbed(scene), Serve
    PROVE  Ours(cors, asks)'
<1>1. IsWriter(w) /\ CorsWriter(cors, asks, w) /\ ComesFrom(req, asks)
  BY DEF WriterInv, Ours
<1>2. CASE HandleError
  BY <1>2, OursStays DEF HandleError, Failed
<1>3. CASE SelectHandler
  <2>1. w.cors # << >>
    BY <1>3 DEF SelectHandler, Ours
  <2>2. Fits(cors, asks, Templated(w, template, ctxErr, req, NoOps).header)
    BY <1>1, <2>1, FitsTemplated, NoOpsIsOps
  <2> QED
    BY <1>3, <2>2, OursStays DEF SelectHandler, Ends
<1>4. CASE CopyBody
  <2>1. \E length, gzips : sent' = <<Sent(w, length, gzips)>>
    BY <1>4 DEF CopyBody, Ends
  <2>2. w.status # 0 /\ stage' = "end"
    BY <1>4 DEF CopyBody, WriterInv, Ends
  <2>3. Fits(cors, asks, sent'[1].header)
    BY <1>1, <2>1, <2>2, FitsSent
  <2> QED
    BY <1>4, <2>2, <2>3, OursStays DEF CopyBody
<1> QED
  BY <1>2, <1>3, <1>4, OursProduce, OursReturn, OursRespond DEF Serve

LEMMA CorsInit == Init => CorsInv
<1> SUFFICES ASSUME Init PROVE CorsInv
  OBVIOUS
<1>1. stage = "start" /\ w = NewWriter(scene.settings.secureCookies, scene.request)
  BY DEF Init
<1>2. w.cors = << >> /\ w.modifiers = << >> /\ w.header = << >>
  BY <1>1 DEF NewWriter
<1> QED
  BY <1>1, <1>2 DEF CorsInv

(* The muxes and the route are those that Configure has made. *)
LEMMA RouteStays ==
    ASSUME StageInv, [Next]_vars, ~Configure
    PROVE  /\ UNCHANGED <<scenario, runtime>>
           /\ stage \in {"start", "refused"} => UNCHANGED <<stage, w>>
           /\ stage' \in {"start", "refused"} => stage' = stage
<1>1. CASE Receive
  BY <1>1 DEF Receive, Ends
<1>2. CASE AnswerCORS
  BY <1>2 DEF AnswerCORS, Ends
<1>3. CASE CheckControl
  BY <1>3 DEF CheckControl, Failed
<1>4. CASE CheckMethod
  <2>1. stage = "control" /\ stage' \in {chain.kind, "end"} /\ UNCHANGED <<scenario, runtime>>
    BY <1>4 DEF CheckMethod, Ends
  <2>2. chain.kind \in {"none", "catch-all", "endpoint", "files", "spa"}
    BY <2>1, CompiledKind DEF StageInv, chain
  <2> QED
    BY <2>1, <2>2
<1>5. CASE CheckPermission
  BY <1>5 DEF CheckPermission, Failed
<1>6. CASE Site
  BY <1>6 DEF Site, ServeSPA, ServeFile, CatchPath, Ends
<1>7. CASE Produce
  BY <1>7 DEF Produce, Fails, Recovers, Ends
<1>8. CASE Return
  BY <1>8 DEF Return
<1>9. CASE HandleError
  BY <1>9 DEF HandleError, Failed
<1>10. CASE SelectHandler
  BY <1>10 DEF SelectHandler, Ends
<1>11. CASE Respond
  BY <1>11 DEF Respond, FailsAgain, Fails, Recovers, Ends
<1>12. CASE CopyBody
  BY <1>12 DEF CopyBody, Ends
<1>13. CASE Trip
  BY <1>13 DEF Trip
<1>14. CASE UNCHANGED vars
  BY <1>14 DEF vars, gvars
<1> QED
  BY <1>1, <1>2, <1>3, <1>4, <1>5, <1>6, <1>7, <1>8, <1>9, <1>10, <1>11, <1>12, <1>13, <1>14, Zenon DEF Next, Gate, Serve

LEMMA OursNext ==
    ASSUME ScenarioAssumption, StageInv, ControlInv, PlaceInv, WriterInv, NEW cors, NEW asks,
           chain.cors # << >>, cors = chain.cors[1], Ours(cors, asks), Undisturbed(scene),
           stage \notin {"start", "refused"}, [Next]_vars
    PROVE  Ours(cors, asks)'
<1>1. CASE Gate
  <2>1. \A ops \in ToSet(chain.modifiers) : LeavesCors(ops)
    BY DEF Undisturbed, StageInv, chain
  <2> QED
    BY <1>1, <2>1, OursGate
<1>2. CASE Serve
  BY <1>2, OursServe
<1>3. CASE Trip \/ UNCHANGED vars
  <2>1. UNCHANGED <<stage, w, req, sent>>
    BY <1>3 DEF Trip, vars, gvars
  <2> QED
    BY <2>1 DEF Ours, Got
<1> QED
  BY <1>1, <1>2, <1>3 DEF Next

LEMMA CorsNext == ScenarioAssumption /\ StageInv /\ ControlInv /\ PlaceInv /\ WriterInv /\ CorsInv /\ [Next]_vars => CorsInv'
<1> SUFFICES ASSUME ScenarioAssumption, StageInv, ControlInv, PlaceInv, WriterInv, CorsInv, [Next]_vars PROVE CorsInv'
  OBVIOUS
<1>1. CASE Configure
  <2>1. stage' \in {"accepted", "refused"} /\ UNCHANGED w /\ stage = "start"
    BY <1>1 DEF Configure, local
  <2>2. CASE stage' = "refused"
    BY <2>1, <2>2 DEF CorsInv
  <2>3. CASE stage' = "accepted"
    BY <1>1, <2>1, <2>3, OursConfigure DEF CorsInv
  <2> QED
    BY <2>1, <2>2, <2>3
<1>2. CASE ~Configure
  <2>1. /\ UNCHANGED <<scenario, runtime>>
        /\ stage \in {"start", "refused"} => UNCHANGED <<stage, w>>
        /\ stage' \in {"start", "refused"} => stage' = stage
    BY <1>2, RouteStays
  <2>2. chain' = chain /\ scene' = scene /\ Asks' = Asks /\ (Undisturbed(scene))' = Undisturbed(scene)
    BY <2>1 DEF chain, scene, Asks, Undisturbed
  <2>3. ASSUME stage' \notin {"start", "refused"}, chain'.cors # << >>, Undisturbed(scene)
        PROVE  Ours(chain.cors[1], Asks)'
    <3>1. stage \notin {"start", "refused"} /\ chain.cors # << >>
      BY <2>1, <2>2, <2>3
    <3>2. Ours(chain.cors[1], Asks)
      BY <2>3, <3>1 DEF CorsInv
    <3>3. \A cors, asks : cors = chain.cors[1] /\ asks = Asks => Ours(cors, asks)'
      BY <2>3, <3>1, <3>2, OursNext
    <3> QED
      BY <2>2, <3>3 DEF Ours
  <2> QED
    BY <2>1, <2>2, <2>3 DEF CorsInv
<1> QED
  BY <1>1, <1>2

(* On a route that names the CORS fields nowhere else, the client gets     *)
(* Access-Control-Allow-Origin at most once, and only if the options of    *)
(* the route allow the origin it asks for, and Access-Control-Allow-       *)
(* Credentials only if they allow these: what a backend, an error handler, *)
(* a file or an upgraded connection says about CORS does not get through   *)
(* in an answer whose header somebody writes.                              *)
THEOREM CorsDecisions == Spec => [](Undisturbed(scene) => CorsIsOurs)
<1> DEFINE IInv == StageInv /\ ControlInv /\ PlaceInv /\ WriterInv /\ CorsInv
<1>1. Init => IInv
  BY StageInit, ControlInit, PlaceInit, WriterInit, CorsInit
<1>2. IInv /\ [Next]_vars => IInv'
  BY StageNext, ControlNext, PlaceNext, WriterNext, CorsNext, ScenarioAssumption
<1>3. IInv => (Undisturbed(scene) => CorsIsOurs)
  <2> SUFFICES ASSUME IInv, Undisturbed(scene), sent # << >>, Got.status # 0, chain.cors # << >>
               PROVE  Fits(chain.cors[1], Asks, Got.header)
    BY DEF CorsIsOurs, Fits, AllowOrigin, AllowCredentials, Asks
  <2>1. stage = "end"
    BY DEF WriterInv
  <2> QED
    BY <2>1 DEF CorsInv, Ours
<1> QED
  BY <1>1, <1>2, <1>3, PTL DEF Spec

-------------------------------------------------------------------------------
(* Packed bodies                                                           *)

(* The origins say how their bodies are packed, and nothing that is        *)
(* configured for the route says something else.                           *)
EncodesHonestly(c) ==
    LET route == Compiled(c).chain
    IN  /\ \A a \in c.answers : Honest(a)
        /\ LeavesPacking(route.modifiers)
        /\ \A b \in RouteBlocks(c.definitions, route) :
              /\ Encoding \notin Touched(Context(b).response)
              /\ BlocksOfType(b, "response") # << >> =>
                    Get(Attr(BlocksOfType(b, "response")[1], "headers", << >>), Encoding) # "gzip"
              /\ ProducersOf(b) # << >> => PassesEncoding(ProducersOf(b)[1])

(* The round trip is waited for, or reads the body.                        *)
CallInv == stage # "trip" => call \notin {"open", "header", "failed"}

(* What the writer says is what the answer is, and so is what is sent.     *)
Unpacked ==
    /\ stage \notin {"body", "end"} => PlainWriter(w) /\ (~w.hijacked => w.status = 0) /\ Honest(beresp)
    /\ stage = "body" => (beresp.length # 0 => beresp.gzips = IF Get(w.header, Encoding) = "gzip" THEN 1 ELSE 0)
    /\ sent # << >> => SaysPacked(Got)

EncodingInv == CallInv /\ (EncodesHonestly(scene) => Unpacked)

LEMMA CallNext == StageInv /\ CallInv /\ [Next]_vars => CallInv'
<1> SUFFICES ASSUME StageInv, CallInv, [Next]_vars PROVE CallInv'
  OBVIOUS
<1>1. CASE Gate
  <2>1. UNCHANGED trip /\ stage # "trip"
    BY <1>1, GateLeavesTrip DEF Gate, Configure, Receive, AnswerCORS, CheckControl, CheckMethod, CheckPermission,
                                Site, ServeSPA, ServeFile, CatchPath
  <2> QED
    BY <2>1 DEF trip, CallInv
<1>2. CASE Trip
  BY <1>2 DEF Trip, CallInv, TripNext, Start, ReturnError, CallerCancels, Transport, Timers, WroteRequest, FirstByte,
              HeaderRead, OriginFails, TransportCanceled, BodyEnds, BodyCut, TimerFires, ResetTimer, ResetterTicks,
              ResetterStops, DeadlineExpires, GuardSends, GuardCancels, GuardEnds
<1>3. CASE Return
  BY <1>3 DEF Return, Answers, trip, CallInv
<1>4. CASE Produce
  <2>1. UNCHANGED trip \/ \E t : Renew(t)
    BY <1>4, ServeRenewsTrip DEF Serve
  <2>2. stage = "produce"
    BY <1>4 DEF Produce
  <2> QED
    BY <2>1, <2>2 DEF Renew, trip, CallInv
<1>5. CASE HandleError \/ SelectHandler \/ Respond \/ CopyBody
  <2>1. UNCHANGED trip /\ stage # "trip"
    BY <1>5 DEF HandleError, SelectHandler, Respond, CopyBody
  <2> QED
    BY <2>1 DEF trip, CallInv
<1>6. CASE UNCHANGED vars
  BY <1>6 DEF vars, gvars, trip, CallInv
<1> QED
  BY <1>1, <1>2, <1>3, <1>4, <1>5, <1>6 DEF Next, Serve

(* An error template packs nothing by itself.                              *)
LEMMA ErrorHeaderPlain ==
    ASSUME NEW h, Typed(h, "Cache-Control"), Values(h, Encoding) = << >>, NEW name, NEW e,
           NEW ops, IsOps(ops), Encoding \notin Touched(ops)
    PROVE  Values(ErrorHeader(h, name, e, ops), Encoding) = << >> /\ Typed(ErrorHeader(h, name, e, ops), "Cache-Control")
<1>1. Typed(h, Encoding) /\ Encoding \notin {"Content-Type", "Couper-Error"}
  BY ListEmpty DEF Typed, Encoding
<1> QED
  BY <1>1, ErrorHeaderLeaves

LEMMA PlainTemplated ==
    ASSUME NEW x, IsWriter(x), PlainWriter(x), NEW name, NEW e, NEW r, NEW ops, IsOps(ops), Encoding \notin Touched(ops)
    PROVE  SaysPacked(Templated(x, name, e, r, ops))
<1> DEFINE header == ErrorHeader(x.header, name, e, ops)
           y      == WithHeader(x, header)
           z      == WriteHeader(y, r, e.status)
           length == IF r.method = "HEAD" THEN 0 ELSE templateLength
<1>2. Values(header, Encoding) = << >> /\ Typed(header, "Cache-Control")
  BY ErrorHeaderPlain DEF IsWriter, PlainWriter
<1> HIDE DEF header
<1>3. IsWriter(y) /\ PlainWriter(y)
  BY <1>2, KeepsWithHeader, PlainWithHeader DEF Keeps
<1> HIDE DEF y, length
<1>4. SaysPacked(Sent(z, length, 0))
  BY <1>3, PlainWritten
<1> HIDE DEF z
<1>5. Templated(x, name, e, r, ops) = Sent(z, length, 0)
  BY Zenon DEF Templated, z, y, header, length
<1> QED
  BY <1>4, <1>5

LEMMA PlainUntouched ==
    ASSUME NEW x, IsWriter(x), PlainWriter(x), NEW name, NEW e, NEW r
    PROVE  SaysPacked(Templated(x, name, e, r, NoOps))
  BY PlainTemplated, NoOpsIsOps, NoOpsTouchNothing

LEMMA PlainContent ==
    ASSUME NEW x, IsWriter(x), PlainWriter(x), NEW length
    PROVE  SaysPacked(Content(x, length)[1])
<1> DEFINE y    == SetHeader(x, "Content-Length", "own")
           size == IF req.method = "HEAD" THEN 0 ELSE length
<1>1. IsWriter(y) /\ PlainWriter(y)
  BY KeepsSetHeader, PlainSetHeader DEF Keeps, Encoding
<1>2. Content(x, length) = <<Sent(WriteHeader(y, req, 200), size, 0)>>
  BY DEF Content
<1> HIDE DEF y, size
<1> QED
  BY <1>1, <1>2, PlainWritten

LEMMA PlainRefused ==
    ASSUME IsWriter(w), PlainWriter(w), Refusal(req) # << >>
    PROVE  SaysPacked(Refusal(req)[1])
<1> DEFINE y == SetHeader(w, "Cache-Control", "no-store")
           z == SetHeader(y, "Content-Type", "text/plain")
           status == IF scene.settings.shuttingDown THEN 500 ELSE 200
<1>1. IsWriter(y) /\ PlainWriter(y)
  BY KeepsSetHeader, PlainSetHeader DEF Keeps, Encoding
<1> HIDE DEF y
<1>2. IsWriter(z) /\ PlainWriter(z)
  BY <1>1, KeepsSetHeader, PlainSetHeader DEF Keeps, Encoding
<1>3. Healthy(w) = Sent(WriteHeader(z, req, status), 7, 0)
  BY DEF Healthy, y
<1> HIDE DEF z, status
<1>4. SaysPacked(Healthy(w))
  BY <1>2, <1>3, PlainWritten
<1>5. \/ \E name, e : Refusal(req) = <<Templated(w, name, e, req, NoOps)>>
      \/ Refusal(req) = <<Healthy(w)>>
  BY DEF Refusal
<1> QED
  BY <1>4, <1>5, PlainUntouched

(* What the scenario says of the block that runs.                          *)
LEMMA BlockEncodesHonestly ==
    ASSUME ScenarioAssumption, StageInv, PlaceInv, EncodesHonestly(scene), stage \notin {"start", "refused"}
    PROVE  /\ Encoding \notin Touched(Context(block).response)
           /\ BlocksOfType(block, "response") # << >> =>
                 Get(Attr(BlocksOfType(block, "response")[1], "headers", << >>), Encoding) # "gzip"
           /\ ProducersOf(block) # << >> => PassesEncoding(producer)
           /\ LeavesPacking(chain.modifiers)
<1>1. block \in RouteBlocks(scene.definitions, chain)
  BY BlockIsEndpoint
<1>2. chain = Compiled(scene).chain
  BY DEF StageInv, chain
<1> QED
  BY <1>1, <1>2 DEF EncodesHonestly, producer

LEMMA PlainFails ==
    ASSUME ScenarioAssumption, StageInv, PlaceInv, EncodesHonestly(scene), stage \notin {"start", "refused"},
           IsWriter(w), PlainWriter(w), NEW e, NEW responds, Fails(e, responds)
    PROVE  stage' = "end" /\ (sent' # << >> => SaysPacked(sent'[1]))
<1> DEFINE own == Context(block).response
           ops == IF Main THEN NoOps ELSE own
           x   == WithHeader(w, Once(e))
           y   == WithHeader(w, Twice(e))
<1>1. IsOps(ops) /\ Encoding \notin Touched(ops) /\ IsOps(own) /\ Encoding \notin Touched(own)
  BY BlockIsEndpoint, BlockEncodesHonestly, NoOpsIsOps, NoOpsTouchNothing DEF IsEndpoint, IsContext
<1>2. /\ stage' = "end"
      /\ \/ sent' = << >>
         \/ sent' = <<Templated(w, template, e, req, ops)>>
         \/ sent' = <<Sent(x, 0, 0)>>
         \/ sent' = <<Templated(y, chain.template, ServerError, req, NoOps)>>
  BY FailsAnswers
<1>3. Values(Once(e), Encoding) = << >> /\ Typed(Once(e), "Cache-Control")
  BY <1>1, ErrorHeaderPlain DEF Once, IsWriter, PlainWriter
<1>4. Values(Twice(e), Encoding) = << >> /\ Typed(Twice(e), "Cache-Control")
  BY <1>1, <1>3, ErrorHeaderPlain DEF Twice
<1>5. PlainWriter(x) /\ IsWriter(y) /\ PlainWriter(y)
  BY <1>3, <1>4, KeepsWithHeader, PlainWithHeader DEF Keeps
<1> HIDE DEF ops, x, y
<1> QED
  BY <1>1, <1>2, <1>5, PlainTemplated, PlainUntouched, PlainSent

LEMMA UnpackedGate ==
    ASSUME ScenarioAssumption, StageInv, WriterInv, EncodesHonestly(scene), Unpacked, Gate
    PROVE  Unpacked'
<1>1. /\ stage \notin {"body", "end", "trip"} /\ stage' # "body" /\ UNCHANGED beresp
      /\ IsWriter(w) /\ PlainWriter(w) /\ (~w.hijacked => w.status = 0) /\ Honest(beresp) /\ sent = << >>
  <2>1. stage \notin {"body", "end", "trip"} /\ UNCHANGED beresp
    BY DEF Gate, Configure, local, Receive, AnswerCORS, CheckControl, CheckMethod, CheckPermission, Site, ServeSPA,
           ServeFile, CatchPath
  <2>2. stage' # "body"
    <3>1. stage = "control" => chain.kind \in {"none", "catch-all", "endpoint", "files", "spa"}
      BY CompiledKind DEF StageInv, chain
    <3> QED
      BY <3>1 DEF Gate, Configure, Receive, AnswerCORS, CheckControl, CheckMethod, CheckPermission, Site, ServeSPA,
           ServeFile, CatchPath, Failed, Ends
  <2> QED
    BY <2>1, <2>2 DEF Unpacked, WriterInv
<1>2. ASSUME UNCHANGED <<w, sent>> PROVE Unpacked'
  BY <1>1, <1>2 DEF Unpacked
<1>3. ASSUME UNCHANGED w, sent' # << >> => stage' = "end" /\ SaysPacked(sent'[1]) PROVE Unpacked'
  BY <1>1, <1>3 DEF Unpacked, Got
<1>4. CASE Configure \/ CheckPermission
  BY <1>2, <1>4 DEF Configure, local, CheckPermission
<1>5. CASE Receive
  <2>1. Refusal(req) # << >> => SaysPacked(Refusal(req)[1])
    BY <1>1, PlainRefused
  <2>2. \/ UNCHANGED <<w, sent>>
        \/ Refusal(req) # << >> /\ sent' = Refusal(req) /\ stage' = "end" /\ UNCHANGED w
    BY <1>5 DEF Receive, Ends
  <2> QED
    BY <1>2, <1>3, <2>1, <2>2
<1>6. CASE AnswerCORS
  <2> DEFINE with == AddCORS(w, chain.cors[1], chain.methods)
  <2>1. IsWriter(with) /\ PlainWriter(with) /\ with.status = w.status /\ with.hijacked = w.hijacked
    BY <1>1, KeepsAddCORS, PlainAdds DEF Keeps
  <2>2. \/ sent' = <<Sent(WriteHeader(with, req, 204), 0, 0)>> /\ stage' = "end" /\ w' = w
        \/ w' \in {w, with} /\ UNCHANGED sent /\ stage' = "control"
    BY <1>6 DEF AnswerCORS, Ends
  <2> HIDE DEF with
  <2>3. SaysPacked(Sent(WriteHeader(with, req, 204), 0, 0))
    BY <2>1, PlainWritten
  <2>4. CASE w' \in {w, with} /\ UNCHANGED sent /\ stage' = "control"
    BY <1>1, <2>1, <2>4 DEF Unpacked
  <2>5. CASE sent' = <<Sent(WriteHeader(with, req, 204), 0, 0)>> /\ stage' = "end" /\ w' = w
    BY <1>3, <2>3, <2>5
  <2> QED
    BY <2>2, <2>4, <2>5
<1>7. CASE CheckControl
  <2>1. UNCHANGED sent /\ w' \in {w, AddPrivateCC(w)}
    BY <1>7 DEF CheckControl
  <2>2. PlainWriter(w') /\ w'.status = w.status /\ w'.hijacked = w.hijacked
    BY <1>1, <2>1, PlainAdds
  <2> QED
    BY <1>1, <2>1, <2>2 DEF Unpacked
<1>8. CASE CheckMethod
  <2>1. SaysPacked(Templated(w, chain.template, MethodNotAllowed, req, NoOps))
    BY <1>1, PlainUntouched
  <2>2. \/ UNCHANGED <<w, sent>>
        \/ UNCHANGED w /\ stage' = "end" /\ sent' = <<Templated(w, chain.template, MethodNotAllowed, req, NoOps)>>
    BY <1>8 DEF CheckMethod, Ends
  <2> QED
    BY <1>2, <1>3, <2>1, <2>2
<1>9. CASE Site
  <2> DEFINE with == AddModifiers(w, chain.modifiers)
  <2>1. UNCHANGED w /\ stage' = "end" /\ stage \in {"spa", "files", "catch-all"}
    BY <1>9 DEF Site, ServeSPA, ServeFile, CatchPath, Ends
  <2>2. AreOps(chain.modifiers) /\ LeavesPacking(chain.modifiers)
    BY <2>1, RouteIsTyped DEF IsChain, AreOps, IsList, EncodesHonestly, StageInv, chain
  <2>3. IsWriter(with) /\ PlainWriter(with)
    BY <1>1, <2>2, KeepsAddModifiers, PlainAddModifiers DEF Keeps, AreOps
  <2>4. \E x \in {w, with} :
           \/ \E length : sent' = Content(x, length)
           \/ \E name, e : sent' = <<Templated(x, name, e, req, NoOps)>>
           \/ sent' = <<Sent(WriteHeader(SetHeader(x, "Location", "slash"), req, 302), 0, 0)>>
    <3>1. CASE ServeSPA
      BY <3>1 DEF ServeSPA, Ends
    <3>2. CASE ServeFile
      BY <3>2 DEF ServeFile, Ends, NotFound
    <3>3. CASE CatchPath
      BY <3>3 DEF CatchPath, Ends, NotFound
    <3> QED
      BY <1>9, <3>1, <3>2, <3>3 DEF Site
  <2> HIDE DEF with
  <2>5. SaysPacked(sent'[1])
    <3>1. PICK x \in {w, with} :
           \/ \E length : sent' = Content(x, length)
           \/ \E name, e : sent' = <<Templated(x, name, e, req, NoOps)>>
           \/ sent' = <<Sent(WriteHeader(SetHeader(x, "Location", "slash"), req, 302), 0, 0)>>
      BY <2>4
    <3>2. IsWriter(x) /\ PlainWriter(x)
      BY <1>1, <2>3
    <3>3. SaysPacked(Sent(WriteHeader(SetHeader(x, "Location", "slash"), req, 302), 0, 0))
      BY <3>2, KeepsSetHeader, PlainSetHeader, PlainWritten DEF Keeps, Encoding
    <3> QED
      BY <3>1, <3>2, <3>3, PlainContent, PlainUntouched
  <2> QED
    BY <1>3, <2>1, <2>5
<1> QED
  BY <1>4, <1>5, <1>6, <1>7, <1>8, <1>9 DEF Gate

LEMMA UnpackedProduce ==
    ASSUME ScenarioAssumption, StageInv, PlaceInv, WriterInv, EncodesHonestly(scene), Unpacked, Produce
    PROVE  Unpacked'
<1>1. /\ stage = "produce" /\ UNCHANGED beresp /\ stage' \in {"produced", "trip", "end"}
      /\ IsWriter(w) /\ PlainWriter(w) /\ (~w.hijacked => w.status = 0) /\ Honest(beresp) /\ sent = << >>
  BY DEF Unpacked, WriterInv, Produce, Fails, Recovers, Ends
<1>2. CASE Fails(ConfigurationError, FALSE) /\ UNCHANGED w
  <2>1. stage' = "end" /\ (sent' # << >> => SaysPacked(sent'[1]))
    BY <1>1, <1>2, PlainFails
  <2> QED
    BY <1>1, <2>1 DEF Unpacked, Got
<1>3. CASE UNCHANGED <<w, sent>>
  BY <1>1, <1>3 DEF Unpacked
<1>4. CASE ProducersOf(block) # << >> /\ UNCHANGED sent
           /\ w' = registerWebsocketsResponse(producer, Produced(producer, req'), w)
  <2>1. IsProducer(producer) /\ PassesEncoding(producer)
    BY <1>1, <1>4, BlockIsEndpoint, ProducerIsTyped, BlockEncodesHonestly
  <2>2. PlainWriter(w') /\ w'.status = w.status /\ w'.hijacked = w.hijacked
    BY <1>1, <1>4, <2>1, PlainWebsockets
  <2> QED
    BY <1>1, <1>4, <2>2 DEF Unpacked
<1>5. \/ Fails(ConfigurationError, FALSE) /\ UNCHANGED w
      \/ UNCHANGED <<w, sent>>
      \/ ProducersOf(block) # << >> /\ UNCHANGED sent
           /\ w' = registerWebsocketsResponse(producer, Produced(producer, req'), w)
  BY DEF Produce
<1> QED
  BY <1>2, <1>3, <1>4, <1>5

LEMMA UnpackedReturn ==
    ASSUME ScenarioAssumption, StageInv, PlaceInv, WriterInv, EncodesHonestly(scene), Unpacked, Return
    PROVE  Unpacked'
<1>1. /\ stage = "trip" /\ stage' \in {"produced", "end"} /\ UNCHANGED sent
      /\ IsWriter(w) /\ IsAnswer(beresp) /\ PlainWriter(w) /\ (~w.hijacked => w.status = 0) /\ Honest(beresp) /\ sent = << >>
  BY DEF Unpacked, WriterInv, Return
<1> DEFINE raw      == IF result = "cut" THEN [beresp EXCEPT !.length = 0] ELSE beresp
           answered == Answered(producer, buffers, outreq, raw)
<1>2. Honest(answered) /\ IsAnswer(answered)
  <2>1. IsAnswer(raw) /\ Honest(raw)
    <3> DEFINE y == [beresp EXCEPT !.length = 0]
    <3>1. DOMAIN y = DOMAIN beresp /\ y.header = beresp.header /\ y.length = 0 /\ y.status = beresp.status
      BY <1>1 DEF IsAnswer
    <3> HIDE DEF y
    <3>2. IsAnswer(y) /\ Honest(y)
      BY <1>1, <3>1 DEF IsAnswer, Honest, SaysPacked
    <3> QED
      BY <1>1, <3>2 DEF y
  <2> HIDE DEF raw
  <2>2. IsProducer(producer) /\ PassesEncoding(producer)
    BY <1>1, BlockIsEndpoint, ProducerIsTyped, BlockEncodesHonestly DEF PlaceInv
  <2> QED
    BY <2>1, <2>2, HonestAnswered, AnsweredAnswer
<1>3. \/ UNCHANGED <<w, beresp>>
      \/ beresp' = answered /\ (w' = w \/ (answered.status = 101 /\ w' = SwitchProtocols(w, req, answered)))
  BY <1>1 DEF Return
<1> HIDE DEF answered
<1>4. answered.status = 101 => PlainWriter(SwitchProtocols(w, req, answered)) /\ SwitchProtocols(w, req, answered).hijacked = TRUE
  BY <1>1, <1>2, PlainSwitchProtocols DEF Honest
<1> QED
  BY <1>1, <1>2, <1>3, <1>4 DEF Unpacked

LEMMA UnpackedRespond ==
    ASSUME ScenarioAssumption, StageInv, PlaceInv, WriterInv, EncodesHonestly(scene), Unpacked, Respond
    PROVE  Unpacked'
<1>1. /\ stage = "respond" /\ stage \notin {"start", "refused"} /\ sent = << >>
      /\ IsWriter(w) /\ IsAnswer(beresp) /\ PlainWriter(w) /\ (~w.hijacked => w.status = 0) /\ Honest(beresp)
  BY DEF Unpacked, WriterInv, Respond
<1>2. IsEndpoint(block) /\ IsContext(Context(block)) /\ IsOps(Context(block).response)
  BY <1>1, BlockIsEndpoint DEF IsEndpoint, IsContext
<1>3. Encoding \notin Touched(Context(block).response) /\ LeavesPacking(chain.modifiers)
  BY <1>1, BlockEncodesHonestly
<1> DEFINE own     == BlocksOfType(block, "response")
           res     == IF own # << >> THEN NewResponse(own[1]) ELSE beresp
           mods    == IF Main THEN chain.modifiers ELSE << >>
           with    == AddModifiers(w, mods)
           of      == IF own # << >> THEN req ELSE outreq
           applied == ApplyResponseContext(Context(block), of, res)
           header  == copyHeader(with.header, applied.header)
           written == WithHeader(with, header)
           ops     == IF Main THEN NoOps ELSE Context(block).response
<1>4. IsAnswer(res) /\ SaysPacked(res)
  <2>1. own # << >> => IsHeader(Attr(own[1], "headers", << >>)) /\ Get(Attr(own[1], "headers", << >>), Encoding) # "gzip"
    BY <1>1, <1>2, BlockEncodesHonestly DEF IsEndpoint
  <2>2. own # << >> => IsAnswer(NewResponse(own[1])) /\ SaysPacked(NewResponse(own[1]))
    BY <2>1, HeaderTyped DEF IsAnswer, NewResponse, Response, SaysPacked
  <2> QED
    BY <1>1, <2>2 DEF Honest
<1> HIDE DEF res
<1>5. IsAnswer(applied) /\ SaysPacked(applied)
  BY <1>2, <1>3, <1>4, ContextAnswer, PackedContext
<1> HIDE DEF applied
<1>6. IsWriter(with) /\ PlainWriter(with) /\ with.status = w.status /\ with.hijacked = w.hijacked
  <2>1. AreOps(mods) /\ LeavesPacking(mods)
    <3>1. AreOps(chain.modifiers) /\ LeavesPacking(chain.modifiers)
      BY <1>1, <1>3, RouteIsTyped DEF IsChain, AreOps, IsList
    <3> QED
      BY <3>1, ListEmpty DEF AreOps, LeavesPacking
  <2> HIDE DEF mods
  <2> QED
    BY <1>1, <2>1, KeepsAddModifiers, PlainAddModifiers DEF Keeps, AreOps
<1> HIDE DEF with
<1>7. CASE own = << >> /\ ProducersOf(block) = << >>
  <2>1. FailsAgain /\ UNCHANGED w
    BY <1>7 DEF Respond
  <2>2. PICK e : Fails(e, FALSE)
    BY <2>1 DEF FailsAgain
  <2>3. stage' = "end" /\ (sent' # << >> => SaysPacked(sent'[1]))
    BY <1>1, <2>2, PlainFails
  <2> QED
    BY <2>3 DEF Unpacked, Got
<1>8. CASE Fails(err, Responds) /\ UNCHANGED w
  <2>1. stage' = "end" /\ (sent' # << >> => SaysPacked(sent'[1]))
    BY <1>1, <1>8, PlainFails
  <2> QED
    BY <2>1 DEF Unpacked, Got
<1>9. CASE w.hijacked /\ Ends(<<Sent(w, 0, 0)>>) /\ UNCHANGED w
  BY <1>1, <1>9, PlainSent DEF Ends, Unpacked, Got
<1>10. CASE Ends(<<Templated(with, template, ConfigurationError, req, ops)>>) /\ UNCHANGED w
  <2>1. IsOps(ops) /\ Encoding \notin Touched(ops)
    BY <1>2, <1>3, NoOpsIsOps, NoOpsTouchNothing
  <2> HIDE DEF ops
  <2>2. SaysPacked(Templated(with, template, ConfigurationError, req, ops))
    BY <1>6, <2>1, PlainTemplated
  <2> QED
    BY <1>10, <2>2 DEF Ends, Unpacked, Got
<1>11. CASE /\ ~w.hijacked /\ stage' = "body" /\ w' = WriteHeader(written, req, applied.status)
            /\ beresp' = applied /\ UNCHANGED sent
  <2>1. Values(header, Encoding) = Values(applied.header, Encoding) /\ Typed(header, Encoding) /\ Typed(header, "Cache-Control")
    <3>1. \A f : Values(header, f) = Values(with.header, f) \o Values(applied.header, f)
      BY ValuesCopy
    <3>2. \A s : IsList(s) => << >> \o s = s
      BY DEF IsList
    <3>3. /\ Typed(with.header, "Cache-Control") /\ Typed(applied.header, "Cache-Control") /\ Typed(applied.header, Encoding)
          /\ Values(with.header, Encoding) = << >>
      BY <1>5, <1>6 DEF IsWriter, IsAnswer, PlainWriter
    <3> QED
      BY <3>1, <3>2, <3>3, ListConcat, ZenonT(40) DEF Typed
  <2> HIDE DEF header
  <2>2. DOMAIN written = WriterFields /\ AreOps(written.modifiers) /\ LeavesPacking(written.modifiers) /\ written.header = header
    <3>1. with.status = 0
      BY <1>1, <1>6, <1>11
    <3> DEFINE y == [with EXCEPT !.header = header]
    <3>2. DOMAIN y = DOMAIN with /\ y.header = header /\ y.modifiers = with.modifiers
      BY <1>6 DEF IsWriter, WriterFields
    <3>3. written = y
      BY <3>1 DEF WithHeader
    <3> HIDE DEF y, written
    <3> QED
      BY <1>6, <3>2, <3>3 DEF IsWriter, PlainWriter
  <2> HIDE DEF written
  <2>3. Values(w'.header, Encoding) = Values(applied.header, Encoding)
    BY <1>11, <2>1, <2>2, EncodingWritten
  <2>4. Get(w'.header, Encoding) = Get(applied.header, Encoding)
    BY <2>3 DEF Get
  <2> QED
    BY <1>1, <1>5, <1>11, <2>4 DEF Unpacked, SaysPacked
<1>12. \/ own = << >> /\ ProducersOf(block) = << >>
       \/ Fails(err, Responds) /\ UNCHANGED w
       \/ w.hijacked /\ Ends(<<Sent(w, 0, 0)>>) /\ UNCHANGED w
       \/ Ends(<<Templated(with, template, ConfigurationError, req, ops)>>) /\ UNCHANGED w
       \/ /\ ~w.hijacked /\ stage' = "body" /\ w' = WriteHeader(written, req, applied.status)
          /\ beresp' = applied /\ UNCHANGED sent
  BY DEF Respond, written, with, applied, res
<1> QED
  BY <1>7, <1>8, <1>9, <1>10, <1>11, <1>12

LEMMA UnpackedServe ==
    ASSUME ScenarioAssumption, StageInv, PlaceInv, WriterInv, EncodesHonestly(scene), Unpacked, Serve
    PROVE  Unpacked'
<1>1. CASE HandleError
  BY <1>1 DEF HandleError, Failed, Unpacked, Got, WriterInv
<1>2. CASE SelectHandler
  <2>1. /\ stage = "error" /\ UNCHANGED <<w, beresp>> /\ IsWriter(w) /\ PlainWriter(w) /\ sent = << >>
        /\ (~w.hijacked => w.status = 0) /\ Honest(beresp)
    BY <1>2 DEF SelectHandler, Unpacked, WriterInv
  <2>2. SaysPacked(Templated(w, template, ctxErr, req, NoOps))
    BY <2>1, PlainUntouched
  <2>3. \/ stage' = "produce" /\ UNCHANGED sent
        \/ stage' = "end" /\ sent' = <<Templated(w, template, ctxErr, req, NoOps)>>
    BY <1>2 DEF SelectHandler, Ends
  <2> QED
    BY <2>1, <2>2, <2>3 DEF Unpacked, Got
<1>3. CASE CopyBody
  <2>1. stage = "body" /\ stage' = "end"
    BY <1>3 DEF CopyBody, Ends
  <2>2. \E length \in {beresp.length, beresp.length \div 2} : sent' = <<Sent(w, length, beresp.gzips)>>
    BY <1>3 DEF CopyBody, Ends
  <2>3. beresp.length = 0 => beresp.length \div 2 = 0
    OBVIOUS
  <2>4. beresp.length # 0 => beresp.gzips = IF Get(w.header, Encoding) = "gzip" THEN 1 ELSE 0
    BY <2>1 DEF Unpacked
  <2>5. SaysPacked(sent'[1])
    BY <2>2, <2>3, <2>4, MatchesSent
  <2> QED
    BY <2>1, <2>5 DEF Unpacked, Got
<1> QED
  BY <1>1, <1>2, <1>3, UnpackedProduce, UnpackedReturn, UnpackedRespond DEF Serve

LEMMA UnpackedTrip ==
    ASSUME StageInv, CallInv, EncodesHonestly(scene), Unpacked, Trip
    PROVE  Unpacked'
<1>1. UNCHANGED <<stage, w, sent>>
  BY DEF Trip
<1>2. beresp' = beresp \/ (stage = "trip" /\ beresp' \in scene.answers)
  BY DEF Trip, CallInv
<1>3. \A a \in scene.answers : Honest(a)
  BY DEF EncodesHonestly
<1> QED
  BY <1>1, <1>2, <1>3 DEF Unpacked, Got

LEMMA EncodingInit == Init => EncodingInv
<1> SUFFICES ASSUME Init PROVE EncodingInv
  OBVIOUS
<1>1. w.header = << >> /\ w.modifiers = << >> /\ w.status = 0
  BY DEF Init, NewWriter
<1>2. \A f : Values(<< >>, f) = << >>
  BY DEF Values
<1>3. PlainWriter(w)
  BY <1>1, <1>2, ListEmpty DEF PlainWriter, LeavesPacking
<1>4. Honest(beresp)
  BY <1>2, ListEmpty DEF Init, NoResponse, Response, Honest, SaysPacked
<1> QED
  BY <1>1, <1>3, <1>4 DEF Init, Idle, EncodingInv, CallInv, Unpacked

LEMMA EncodingNext ==
    ScenarioAssumption /\ StageInv /\ PlaceInv /\ WriterInv /\ EncodingInv /\ [Next]_vars => EncodingInv'
<1> SUFFICES ASSUME ScenarioAssumption, StageInv, PlaceInv, WriterInv, EncodingInv, [Next]_vars PROVE EncodingInv'
  OBVIOUS
<1>1. CallInv'
  BY CallNext DEF EncodingInv
<1>2. scene' = scene
  <2>1. CASE Configure
    BY <2>1 DEF Configure, local, scene
  <2>2. CASE ~Configure
    BY <2>2, RouteStays DEF scene
  <2> QED
    BY <2>1, <2>2
<1>3. ASSUME EncodesHonestly(scene), Unpacked PROVE Unpacked'
  <2>1. CASE UNCHANGED vars
    BY <1>3, <2>1 DEF vars, gvars, Unpacked, Got
  <2> QED
    BY <1>3, <2>1, UnpackedGate, UnpackedServe, UnpackedTrip DEF Next, EncodingInv
<1>4. EncodesHonestly(scene)' = EncodesHonestly(scene)
  BY <1>2 DEF EncodesHonestly
<1> QED
  BY <1>1, <1>3, <1>4 DEF EncodingInv

(* For origins that are honest about their bodies and a route whose        *)
(* modifiers leave Content-Encoding and Connection alone, the client gets  *)
(* a body that is packed once if the header says gzip and else not at all, *)
(* whoever packs and unpacks it: the backend for who reads it, the writer  *)
(* for a client that accepts gzip, and neither for a body that breaks off, *)
(* an error template or an upgraded connection.                            *)
THEOREM PackedOnce == Spec => [](EncodesHonestly(scene) => EncodingMatchesBody)
<1> DEFINE IInv == StageInv /\ ControlInv /\ PlaceInv /\ WriterInv /\ EncodingInv
<1>1. Init => IInv
  BY StageInit, ControlInit, PlaceInit, WriterInit, EncodingInit
<1>2. IInv /\ [Next]_vars => IInv'
  BY StageNext, ControlNext, PlaceNext, WriterNext, EncodingNext, ScenarioAssumption
<1>3. IInv => (EncodesHonestly(scene) => EncodingMatchesBody)
  <2> SUFFICES ASSUME IInv, EncodesHonestly(scene), sent # << >>, Got.length > 0
               PROVE  Got.gzips = IF Get(Got.header, "Content-Encoding") = "gzip" THEN 1 ELSE 0
    BY DEF EncodingMatchesBody
  <2>1. Got.length # 0
    OBVIOUS
  <2>2. SaysPacked(Got)
    BY DEF EncodingInv, Unpacked
  <2> QED
    BY <2>1, <2>2 DEF SaysPacked, Encoding
<1> QED
  BY <1>1, <1>2, <1>3, PTL DEF Spec

-------------------------------------------------------------------------------
(* Fields for one hop                                                      *)

AnswerHops(c) == UNION {Hops(a.header) : a \in c.answers}

(* What the client and the origins use for one hop is used for nothing     *)
(* else: not by Couper, not by another origin, not by what is configured   *)
(* for the route, which leaves the lists of these fields alone as well     *)
(* until they have been read.                                              *)
KeepsToHops(c) ==
    LET route == Compiled(c).chain
        asks  == Hops(c.request.header)
    IN  /\ asks \cap SentFields = {} /\ AnswerHops(c) \cap OwnFields = {}
        /\ \A a \in c.answers : Recognised(AnswerHops(c), a.header)
        /\ FreeOps(AnswerHops(c), route.modifiers)
        /\ \A b \in RouteBlocks(c.definitions, route) :
              /\ "Connection" \notin Touched(Context(b).request)
              /\ AnswerHops(c) \cap Adds(Context(b).response) = {}
              /\ BlocksOfType(b, "response") # << >> =>
                    Free(AnswerHops(c), Attr(BlocksOfType(b, "response")[1], "headers", << >>))
              /\ ProducersOf(b) # << >> =>
                    SendsHops(asks, ProducersOf(b)[1]) /\ AnswersHops(AnswerHops(c), ProducersOf(b)[1])

(* The result of a round trip, step by step. *)
ResultInv ==
    /\ errCh \in {"", "deadline", "ttfb"}
    /\ \/ call \in {"idle", "open", "header", "failed"} /\ result = ""
       \/ call = "body" /\ result = "response"
       \/ call = "done" /\ result \in {"response", "cut", "backend", "deadline", "ttfb"}

(* An answer that is waited for is one of the origin's.                    *)
OriginInv == ResultInv /\ (stage = "trip" /\ result \in {"response", "cut"} => beresp \in scene.answers)

(* For a client with these fields for its hop and this list of them, and   *)
(* origins with these hops.                                                *)
Between(asks, listed, hops) ==
    /\ DOMAIN req = RequestFields /\ Values(req.header, "Connection") = listed
    /\ stage = "trip" /\ ~outreq.websockets => Free(asks, outreq.header)
    /\ ~w.hijacked => FreeWriter(hops, w)
    /\ stage \in {"produced", "respond"} /\ err = NoError /\ ProducersOf(block) # << >> /\ ~w.hijacked =>
          Free(hops, beresp.header)
    /\ sent # << >> /\ ~w.hijacked => Free(hops, Got.header)

HopInv ==
    /\ OriginInv
    /\ KeepsToHops(scene) =>
          Between(Hops(scene.request.header), Values(scene.request.header, "Connection"), AnswerHops(scene))

LEMMA ResultStep == ResultInv /\ TripNext => ResultInv'
  BY DEF ResultInv, TripNext, Start, ReturnError, CallerCancels, Transport, Timers, WroteRequest, FirstByte,
         HeaderRead, OriginFails, TransportCanceled, BodyEnds, BodyCut, TimerFires, ResetTimer, ResetterTicks,
         ResetterStops, DeadlineExpires, GuardSends, GuardCancels, GuardEnds

LEMMA OriginNext == StageInv /\ OriginInv /\ [Next]_vars /\ scene' = scene => OriginInv'
<1> SUFFICES ASSUME StageInv, OriginInv, [Next]_vars, scene' = scene PROVE OriginInv'
  OBVIOUS
<1>1. CASE Gate
  <2>1. UNCHANGED trip /\ stage' # "trip"
    <3>1. stage = "control" => chain.kind \in {"none", "catch-all", "endpoint", "files", "spa"}
      BY CompiledKind DEF StageInv, chain
    <3> QED
      BY <1>1, <3>1, GateLeavesTrip DEF Gate, Configure, Receive, AnswerCORS, CheckControl, CheckMethod,
                      CheckPermission, Site, ServeSPA, ServeFile, CatchPath, Failed, Ends
  <2> QED
    BY <2>1 DEF trip, OriginInv, ResultInv
<1>2. CASE Trip
  <2>1. ResultInv' /\ UNCHANGED stage
    BY <1>2, ResultStep DEF Trip, OriginInv
  <2>2. ASSUME stage = "trip", result' \in {"response", "cut"} PROVE beresp' \in scene.answers
    <3>1. (call = "header" /\ call' = "body") \/ (call \in {"body", "done"} /\ UNCHANGED beresp /\ result \in {"response", "cut"})
      BY <1>2, <2>2 DEF Trip, OriginInv, ResultInv, TripNext, Start, ReturnError, CallerCancels, Transport, Timers,
              WroteRequest, FirstByte, HeaderRead, OriginFails, TransportCanceled, BodyEnds, BodyCut, TimerFires,
              ResetTimer, ResetterTicks, ResetterStops, DeadlineExpires, GuardSends, GuardCancels, GuardEnds
    <3> QED
      BY <1>2, <2>2, <3>1 DEF Trip, OriginInv
  <2> QED
    BY <2>1, <2>2 DEF OriginInv
<1>3. CASE Return \/ HandleError \/ SelectHandler \/ Respond \/ CopyBody
  <2>1. UNCHANGED trip /\ stage' # "trip"
    BY <1>3 DEF Return, HandleError, SelectHandler, Respond, CopyBody, Ends, Fails, Recovers, FailsAgain, Failed
  <2> QED
    BY <2>1 DEF trip, OriginInv, ResultInv
<1>4. CASE Produce
  <2>1. (\E t : Renew(t)) \/ (UNCHANGED trip /\ stage' # "trip")
    BY <1>4 DEF Produce, Fails, Recovers, Ends
  <2> QED
    BY <2>1 DEF Renew, trip, OriginInv, ResultInv
<1>5. CASE UNCHANGED vars
  BY <1>5 DEF vars, gvars, trip, OriginInv, ResultInv
<1> QED
  BY <1>1, <1>2, <1>3, <1>4, <1>5 DEF Next, Serve

LEMMA NoOpsAddNothing == Adds(NoOps) = {}
<1>1. DOMAIN << >> = {}
  OBVIOUS
<1> QED
  BY <1>1 DEF Adds, NoOps

(* Neither an error template nor a file nor a refusal adds any.            *)
LEMMA ErrorHeaderFree ==
    ASSUME NEW hops, hops \cap OwnFields = {}, NEW h, Free(hops, h), NEW name, NEW e, NEW ops, hops \cap Adds(ops) = {}
    PROVE  Free(hops, ErrorHeader(h, name, e, ops))
<1> DEFINE type  == IF name \in {"html", "json"} THEN name ELSE "text"
           code  == IF e.kinds = << >> THEN "error" ELSE e.kinds[1]
           typed == Set(h, "Content-Type", type)
           named == Set(typed, "Couper-Error", code)
<1>1. "Content-Type" \notin hops /\ "Couper-Error" \notin hops
  BY DEF OwnFields
<1>2. Free(hops, typed)
  <2> HIDE DEF type
  <2> QED
    BY <1>1, FreeFields
<1> HIDE DEF typed
<1>3. Free(hops, named)
  <2> HIDE DEF code
  <2> QED
    BY <1>1, <1>2, FreeFields
<1>4. ErrorHeader(h, name, e, ops) = applyHeaderOps(ops, named)
  BY DEF ErrorHeader, named, typed
<1> HIDE DEF named
<1> QED
  BY <1>3, <1>4, FreeApplied

LEMMA FreeTemplated ==
    ASSUME NEW hops, hops \cap OwnFields = {}, NEW x, IsWriter(x), FreeWriter(hops, x), NEW name, NEW e, NEW r,
           NEW ops, IsOps(ops), hops \cap Adds(ops) = {}
    PROVE  Free(hops, Templated(x, name, e, r, ops).header)
<1> DEFINE header == ErrorHeader(x.header, name, e, ops)
           y      == WithHeader(x, header)
           length == IF r.method = "HEAD" THEN 0 ELSE templateLength
<1>4. Free(hops, header) /\ Typed(header, "Cache-Control")
  BY ErrorHeaderFree, ErrorHeaderLeaves DEF FreeWriter, IsWriter
<1> HIDE DEF header
<1>5. IsWriter(y) /\ FreeWriter(hops, y)
  BY <1>4, KeepsWithHeader, FreeWithHeader DEF Keeps
<1> HIDE DEF y, length
<1>6. Free(hops, Sent(WriteHeader(y, r, e.status), length, 0).header)
  BY <1>5, FreeWritten
<1>7. Templated(x, name, e, r, ops) = Sent(WriteHeader(y, r, e.status), length, 0)
  BY Zenon DEF Templated, y, header, length
<1> QED
  BY <1>6, <1>7

LEMMA FreeUntouched ==
    ASSUME NEW hops, hops \cap OwnFields = {}, NEW x, IsWriter(x), FreeWriter(hops, x), NEW name, NEW e, NEW r
    PROVE  Free(hops, Templated(x, name, e, r, NoOps).header)
<1>1. IsOps(NoOps) /\ hops \cap Adds(NoOps) = {}
  BY NoOpsIsOps, NoOpsAddNothing
<1> QED
  BY <1>1, FreeTemplated

LEMMA FreeContent ==
    ASSUME NEW hops, hops \cap OwnFields = {}, NEW x, IsWriter(x), FreeWriter(hops, x), NEW length
    PROVE  Free(hops, Content(x, length)[1].header)
<1> DEFINE y    == SetHeader(x, "Content-Length", "own")
           size == IF req.method = "HEAD" THEN 0 ELSE length
<1>1. "Content-Length" \notin hops
  BY DEF OwnFields
<1>2. IsWriter(y) /\ FreeWriter(hops, y)
  BY <1>1, KeepsSetHeader, FreeSetHeader DEF Keeps
<1>3. Content(x, length) = <<Sent(WriteHeader(y, req, 200), size, 0)>>
  BY DEF Content
<1> HIDE DEF y, size
<1> QED
  BY <1>2, <1>3, FreeWritten

LEMMA FreeRefused ==
    ASSUME NEW hops, hops \cap OwnFields = {}, IsWriter(w), FreeWriter(hops, w), Refusal(req) # << >>
    PROVE  Free(hops, Refusal(req)[1].header)
<1> DEFINE y == SetHeader(w, "Cache-Control", "no-store")
           z == SetHeader(y, "Content-Type", "text/plain")
           status == IF scene.settings.shuttingDown THEN 500 ELSE 200
<1>1. "Content-Type" \notin hops /\ "Cache-Control" \notin hops
  BY DEF OwnFields
<1>2. IsWriter(y) /\ FreeWriter(hops, y)
  BY <1>1, KeepsSetHeader, FreeSetHeader DEF Keeps
<1> HIDE DEF y
<1>3. IsWriter(z) /\ FreeWriter(hops, z)
  BY <1>1, <1>2, KeepsSetHeader, FreeSetHeader DEF Keeps
<1>4. Healthy(w) = Sent(WriteHeader(z, req, status), 7, 0)
  BY DEF Healthy, y
<1> HIDE DEF z, status
<1>5. Free(hops, Healthy(w).header)
  BY <1>3, <1>4, FreeWritten
<1>6. \/ \E name, e : Refusal(req) = <<Templated(w, name, e, req, NoOps)>>
      \/ Refusal(req) = <<Healthy(w)>>
  BY DEF Refusal
<1> QED
  BY <1>5, <1>6, FreeUntouched

(* What the scenario says of the block that runs.                          *)
LEMMA BlockKeepsToHops ==
    ASSUME ScenarioAssumption, StageInv, PlaceInv, KeepsToHops(scene), stage \notin {"start", "refused"}
    PROVE  /\ "Connection" \notin Touched(Context(block).request)
           /\ AnswerHops(scene) \cap Adds(Context(block).response) = {}
           /\ BlocksOfType(block, "response") # << >> =>
                 Free(AnswerHops(scene), Attr(BlocksOfType(block, "response")[1], "headers", << >>))
           /\ ProducersOf(block) # << >> =>
                 SendsHops(Hops(scene.request.header), producer) /\ AnswersHops(AnswerHops(scene), producer)
           /\ FreeOps(AnswerHops(scene), chain.modifiers)
<1>1. block \in RouteBlocks(scene.definitions, chain)
  BY BlockIsEndpoint
<1>2. chain = Compiled(scene).chain
  BY DEF StageInv, chain
<1> QED
  BY <1>1, <1>2 DEF KeepsToHops, producer

LEMMA FreeFails ==
    ASSUME ScenarioAssumption, StageInv, PlaceInv, KeepsToHops(scene), stage \notin {"start", "refused"},
           NEW hops, hops = AnswerHops(scene), IsWriter(w), FreeWriter(hops, w), NEW e, NEW responds, Fails(e, responds)
    PROVE  sent' # << >> => Free(hops, sent'[1].header)
<1> DEFINE own == Context(block).response
           ops == IF Main THEN NoOps ELSE own
           x   == WithHeader(w, Once(e))
           y   == WithHeader(w, Twice(e))
<1>1. /\ IsOps(ops) /\ hops \cap Adds(ops) = {} /\ hops \cap OwnFields = {}
      /\ IsOps(own) /\ hops \cap Adds(own) = {}
  BY BlockIsEndpoint, BlockKeepsToHops, NoOpsIsOps, NoOpsAddNothing DEF IsEndpoint, IsContext, KeepsToHops
<1>2. \/ sent' = << >>
      \/ sent' = <<Templated(w, template, e, req, ops)>>
      \/ sent' = <<Sent(x, 0, 0)>>
      \/ sent' = <<Templated(y, chain.template, ServerError, req, NoOps)>>
  BY FailsAnswers
<1>3. Free(hops, Once(e))
  BY <1>1, ErrorHeaderFree DEF Once, FreeWriter
<1>4. Free(hops, Twice(e))
  BY <1>1, <1>3, ErrorHeaderFree DEF Twice
<1>5. FreeWriter(hops, x) /\ IsWriter(y) /\ FreeWriter(hops, y)
  BY <1>1, <1>3, <1>4, OnceTyped, KeepsWithHeader, FreeWithHeader DEF Keeps
<1> HIDE DEF ops, x, y
<1>6. Free(hops, Sent(x, 0, 0).header)
  BY <1>1, <1>5, FreeSent
<1>7. Free(hops, Templated(y, chain.template, ServerError, req, NoOps).header)
  BY <1>1, <1>5, FreeUntouched
<1>8. Free(hops, Templated(w, template, e, req, ops).header)
  BY <1>1, FreeTemplated
<1> QED
  BY <1>2, <1>6, <1>7, <1>8

(* What is left to show of a step that is no part of a round trip.         *)
LEMMA BetweenKept ==
    ASSUME NEW asks, NEW listed, NEW hops, Between(asks, listed, hops),
           req'.header = req.header, DOMAIN req' = RequestFields, stage' \notin {"trip", "produced", "respond"},
           w'.hijacked = w.hijacked, ~w.hijacked => FreeWriter(hops, w'),
           sent' # << >> /\ ~w.hijacked => Free(hops, sent'[1].header)
    PROVE  Between(asks, listed, hops)'
  BY DEF Between, Got

LEMMA BetweenGate ==
    ASSUME ScenarioAssumption, StageInv, WriterInv, KeepsToHops(scene), NEW asks, NEW listed, NEW hops,
           hops = AnswerHops(scene), Between(asks, listed, hops), Gate
    PROVE  Between(asks, listed, hops)'
<1>1. /\ stage' \notin {"trip", "produced", "respond"} /\ IsWriter(w) /\ hops \cap OwnFields = {}
      /\ DOMAIN req = RequestFields /\ (~w.hijacked => FreeWriter(hops, w)) /\ sent = << >>
  <2>1. stage = "control" => chain.kind \in {"none", "catch-all", "endpoint", "files", "spa"}
    BY CompiledKind DEF StageInv, chain
  <2>2. stage' \notin {"trip", "produced", "respond"} /\ stage # "end"
    BY <2>1 DEF Gate, Configure, Receive, AnswerCORS, CheckControl, CheckMethod, CheckPermission, Site, ServeSPA,
                ServeFile, CatchPath, Failed, Ends
  <2> QED
    BY <2>2 DEF WriterInv, KeepsToHops, Between
<1>2. ASSUME UNCHANGED <<w, req, sent>> PROVE Between(asks, listed, hops)'
  BY <1>1, <1>2, BetweenKept
<1>3. ASSUME UNCHANGED <<w, req>>, sent' # << >> /\ ~w.hijacked => Free(hops, sent'[1].header)
      PROVE  Between(asks, listed, hops)'
  BY <1>1, <1>3, BetweenKept
<1>4. CASE Configure \/ CheckPermission
  BY <1>2, <1>4 DEF Configure, local, CheckPermission
<1>5. CASE Receive
  <2>1. Refusal(req) # << >> /\ ~w.hijacked => Free(hops, Refusal(req)[1].header)
    BY <1>1, FreeRefused
  <2>2. CASE Refusal(req) # << >>
    BY <1>3, <1>5, <2>1, <2>2 DEF Receive, Ends
  <2>3. CASE Refusal(req) = << >>
    <3>1. req' = Routed(req) /\ UNCHANGED <<w, sent>>
      BY <1>5, <2>3 DEF Receive
    <3>2. DOMAIN req' = RequestFields /\ req'.header = req.header
      BY <1>1, <3>1, RoutedHeader
    <3> QED
      BY <1>1, <3>1, <3>2, BetweenKept
  <2> QED
    BY <2>2, <2>3
<1>6. CASE AnswerCORS
  <2> DEFINE with == AddCORS(w, chain.cors[1], chain.methods)
  <2>1. /\ IsWriter(with) /\ with.hijacked = w.hijacked
        /\ ~w.hijacked => FreeWriter(hops, with)
    <3>1. IsWriter(with)
      BY <1>1, KeepsAddCORS DEF Keeps
    <3>2. with.hijacked = w.hijacked
      BY <1>1 DEF AddCORS, IsWriter, WriterFields
    <3>3. ~w.hijacked => FreeWriter(hops, with)
      BY <1>1, FreeAdds
    <3> QED
      BY <3>1, <3>2, <3>3
  <2>2. /\ UNCHANGED req
        /\ \/ sent' = <<Sent(WriteHeader(with, req, 204), 0, 0)>> /\ w' = w
           \/ w' \in {w, with} /\ UNCHANGED sent
    BY <1>6 DEF AnswerCORS, Ends
  <2> HIDE DEF with
  <2>3. ~w.hijacked => Free(hops, Sent(WriteHeader(with, req, 204), 0, 0).header)
    BY <1>1, <2>1, FreeWritten
  <2>4. CASE w' \in {w, with} /\ UNCHANGED sent
    <3>1. w'.hijacked = w.hijacked /\ (~w.hijacked => FreeWriter(hops, w'))
      BY <1>1, <2>1, <2>4
    <3> QED
      BY <1>1, <2>2, <2>4, <3>1, BetweenKept
  <2>5. CASE sent' = <<Sent(WriteHeader(with, req, 204), 0, 0)>> /\ w' = w
    BY <1>3, <2>2, <2>3, <2>5
  <2> QED
    BY <2>2, <2>4, <2>5
<1>7. CASE CheckControl
  <2>1. UNCHANGED <<req, sent>> /\ w' \in {w, AddPrivateCC(w)}
    BY <1>7 DEF CheckControl
  <2>2. w'.hijacked = w.hijacked
    BY <1>1, <2>1 DEF AddPrivateCC, IsWriter, WriterFields
  <2>3. ~w.hijacked => FreeWriter(hops, w')
    BY <1>1, <2>1, FreeAdds
  <2> QED
    BY <1>1, <2>1, <2>2, <2>3, BetweenKept
<1>8. CASE CheckMethod
  <2>1. ~w.hijacked => Free(hops, Templated(w, chain.template, MethodNotAllowed, req, NoOps).header)
    BY <1>1, FreeUntouched
  <2>2. \/ UNCHANGED <<w, req, sent>>
        \/ UNCHANGED <<w, req>> /\ sent' = <<Templated(w, chain.template, MethodNotAllowed, req, NoOps)>>
    BY <1>8 DEF CheckMethod, Ends
  <2> QED
    BY <1>2, <1>3, <2>1, <2>2
<1>9. CASE Site
  <2> DEFINE with == AddModifiers(w, chain.modifiers)
  <2>1. UNCHANGED <<w, req>> /\ stage \in {"spa", "files", "catch-all"}
    BY <1>9 DEF Site, ServeSPA, ServeFile, CatchPath
  <2>2. AreOps(chain.modifiers) /\ FreeOps(hops, chain.modifiers)
    BY <2>1, RouteIsTyped DEF IsChain, AreOps, IsList, KeepsToHops, StageInv, chain
  <2>3. IsWriter(with) /\ (~w.hijacked => FreeWriter(hops, with))
    BY <1>1, <2>2, KeepsAddModifiers, FreeAddModifiers DEF Keeps, AreOps
  <2>4. \E x \in {w, with} :
           \/ \E length : sent' = Content(x, length)
           \/ \E name, e : sent' = <<Templated(x, name, e, req, NoOps)>>
           \/ sent' = <<Sent(WriteHeader(SetHeader(x, "Location", "slash"), req, 302), 0, 0)>>
    <3>1. CASE ServeSPA
      BY <3>1 DEF ServeSPA, Ends
    <3>2. CASE ServeFile
      BY <3>2 DEF ServeFile, Ends, NotFound
    <3>3. CASE CatchPath
      BY <3>3 DEF CatchPath, Ends, NotFound
    <3> QED
      BY <1>9, <3>1, <3>2, <3>3 DEF Site
  <2> HIDE DEF with
  <2>5. ~w.hijacked => Free(hops, sent'[1].header)
    <3> SUFFICES ASSUME ~w.hijacked PROVE Free(hops, sent'[1].header)
      OBVIOUS
    <3>1. PICK x \in {w, with} :
           \/ \E length : sent' = Content(x, length)
           \/ \E name, e : sent' = <<Templated(x, name, e, req, NoOps)>>
           \/ sent' = <<Sent(WriteHeader(SetHeader(x, "Location", "slash"), req, 302), 0, 0)>>
      BY <2>4
    <3>2. IsWriter(x) /\ FreeWriter(hops, x)
      BY <1>1, <2>3
    <3>3. Free(hops, Sent(WriteHeader(SetHeader(x, "Location", "slash"), req, 302), 0, 0).header)
      <4> DEFINE y == SetHeader(x, "Location", "slash")
      <4>1. "Location" \notin hops
        BY <1>1 DEF OwnFields
      <4>2. IsWriter(y) /\ FreeWriter(hops, y)
        BY <3>2, <4>1, KeepsSetHeader, FreeSetHeader DEF Keeps
      <4> HIDE DEF y
      <4>3. Free(hops, Sent(WriteHeader(y, req, 302), 0, 0).header)
        BY <1>1, <4>2, FreeWritten
      <4> QED
        BY <4>3 DEF y
    <3> QED
      BY <1>1, <3>1, <3>2, <3>3, FreeContent, FreeUntouched
  <2> QED
    BY <1>3, <2>1, <2>5
<1> QED
  BY <1>4, <1>5, <1>6, <1>7, <1>8, <1>9 DEF Gate

(* The request for the origin is made of what the client has sent.         *)
LEMMA BetweenProduce ==
    ASSUME ScenarioAssumption, StageInv, PlaceInv, WriterInv, KeepsToHops(scene), NEW asks, NEW listed, NEW hops,
           asks = Hops(scene.request.header), listed = Values(scene.request.header, "Connection"), hops = AnswerHops(scene),
           Between(asks, listed, hops), Produce
    PROVE  Between(asks, listed, hops)'
<1>1. /\ stage = "produce" /\ stage \notin {"start", "refused"} /\ sent = << >> /\ IsWriter(w)
      /\ DOMAIN req = RequestFields /\ Values(req.header, "Connection") = listed
      /\ (~w.hijacked => FreeWriter(hops, w)) /\ block' = block
  BY DEF Produce, WriterInv, Between, block, Main, chain
<1>2. IsList(listed) /\ asks \cap SentFields = {} /\ asks = HopHeaders \cup ToSet(listed)
  <2>1. IsScenario(scene)
    BY <1>1, RouteIsTyped
  <2> QED
    BY <2>1, HeaderTyped DEF IsScenario, Typed, KeepsToHops, Hops
<1>3. CASE Fails(ConfigurationError, FALSE) /\ UNCHANGED <<w, req>>
  <2>1. sent' # << >> /\ ~w.hijacked => Free(hops, sent'[1].header)
    BY <1>1, <1>3, FreeFails
  <2>2. stage' = "end"
    BY <1>3, FailsAnswers
  <2> QED
    BY <1>1, <1>3, <2>1, <2>2, BetweenKept
<1> DEFINE r == ApplyRequestContext(Context(block), req)
<1>4. DOMAIN r = RequestFields /\ Values(r.header, "Connection") = listed
  BY <1>1, <1>2, BlockKeepsToHops, ContextConnection DEF Typed
<1>5. CASE req' = r /\ ProducersOf(block) = << >> /\ stage' = "produced" /\ UNCHANGED <<w, sent>>
  <2> HIDE DEF r
  <2> QED
    BY <1>1, <1>4, <1>5 DEF Between
<1> DEFINE out == Outgoing(producer, XFF, req')
<1>6. CASE /\ req' = r /\ ProducersOf(block) # << >> /\ outreq' = out /\ UNCHANGED sent
           /\ w' \in {w, registerWebsocketsResponse(producer, Produced(producer, req'), w)}
           /\ stage' = "trip" \/ (stage' = "produced" /\ err' # NoError)
  <2>1. IsProducer(producer) /\ SendsHops(asks, producer) /\ AnswersHops(hops, producer)
    BY <1>1, <1>6, BlockIsEndpoint, ProducerIsTyped, BlockKeepsToHops
  <2>2. ~out.websockets => Free(asks, out.header)
    <3>1. DOMAIN req' = RequestFields /\ Typed(req'.header, "Connection") /\ asks \subseteq HopHeaders \cup ToSet(Values(req'.header, "Connection"))
      BY <1>2, <1>4, <1>6 DEF Typed
    <3> QED
      BY <1>2, <2>1, <3>1, FreeOutgoing
  <2>3. w'.hijacked = w.hijacked /\ (~w.hijacked => FreeWriter(hops, w'))
    <3> DEFINE a == getWebsocketsBody(producer).response
               b == Context(producer).response
               x == registerWebsocketsResponse(producer, Produced(producer, req'), w)
    <3>1. hops \cap Adds(a) = {} /\ hops \cap Adds(b) = {}
      BY <2>1 DEF AnswersHops
    <3>2. ~w.hijacked => FreeWriter(hops, x) /\ x.hijacked = w.hijacked
      BY <1>1, <2>1, <3>1, FreeWebsockets
    <3>3. x.hijacked = w.hijacked
      BY <1>1 DEF registerWebsocketsResponse, AddModifiers, IsWriter, WriterFields
    <3> HIDE DEF x
    <3> QED
      BY <1>1, <1>6, <3>2, <3>3 DEF x
  <2> HIDE DEF r, out
  <2> QED
    BY <1>1, <1>4, <1>6, <2>2, <2>3 DEF Between
<1>7. \/ Fails(ConfigurationError, FALSE) /\ UNCHANGED <<w, req>>
      \/ req' = r /\ ProducersOf(block) = << >> /\ stage' = "produced" /\ UNCHANGED <<w, sent>>
      \/ /\ req' = r /\ ProducersOf(block) # << >> /\ outreq' = out /\ UNCHANGED sent
         /\ w' \in {w, registerWebsocketsResponse(producer, Produced(producer, req'), w)}
         /\ stage' = "trip" \/ (stage' = "produced" /\ err' # NoError)
  BY DEF Produce
<1> QED
  BY <1>3, <1>5, <1>6, <1>7

LEMMA UpstreamErrors ==
    \A e \in {BackendTimeout, BackendError, ServerError, ConfigurationError, UnexpectedStatus} : e # NoError
<1>1. /\ NoError.status = 0 /\ BackendError.status = 502 /\ ServerError.status = 500
      /\ ConfigurationError.status = 500 /\ UnexpectedStatus.status = 502
  BY DEF NoError, BackendError, ServerError, ConfigurationError, UnexpectedStatus, Err
<1>2. BackendTimeout.status = 504
  BY Zenon DEF BackendTimeout, BackendError, Status, Kind, Err
<1> QED
  BY <1>1, <1>2

(* What a producer hands over without an error has lost the hops of its    *)
(* origin, unless the connection is the client's now.                      *)
LEMMA BetweenReturn ==
    ASSUME ScenarioAssumption, StageInv, PlaceInv, WriterInv, OriginInv, KeepsToHops(scene), NEW asks, NEW listed, NEW hops,
           hops = AnswerHops(scene), Between(asks, listed, hops), Return
    PROVE  Between(asks, listed, hops)'
<1> DEFINE raw      == IF result = "cut" THEN [beresp EXCEPT !.length = 0] ELSE beresp
           answered == Answered(producer, buffers, outreq, raw)
           switches == SwitchesTo(outreq, answered) /\ ~w.hijacked
           e        == AnswerError(producer, outreq, raw, answered, switches)
           other    == SwitchProtocols(w, req, answered)
<1>1. /\ stage = "trip" /\ stage' \in {"produced", "end"} /\ UNCHANGED <<req, sent>> /\ sent = << >>
      /\ IsWriter(w) /\ IsAnswer(beresp) /\ block' = block
      /\ DOMAIN req = RequestFields /\ Values(req.header, "Connection") = listed /\ (~w.hijacked => FreeWriter(hops, w))
  BY DEF Return, WriterInv, Between, block, Main, chain
<1>2. CASE UNCHANGED w /\ (stage' = "end" \/ err' # NoError)
  BY <1>1, <1>2 DEF Between
<1>3. CASE /\ TripError = NoError /\ beresp' = answered /\ err' = e
           /\ w' = IF answered.status = 101 /\ IsProxy(producer) /\ switches /\ e \in {NoError, UnexpectedStatus}
                   THEN other ELSE w
  <2>1. result \in {"response", "cut"}
    <3>1. result \in {"response", "cut", "backend", "deadline", "ttfb"}
      BY DEF Return, Answers, OriginInv, ResultInv
    <3>2. result \in {"deadline", "ttfb"} => TripError = BackendTimeout
      BY Zenon DEF TripError
    <3>3. "backend" \notin {"deadline", "ttfb"} /\ "backend" # "cut"
      OBVIOUS
    <3>4. result = "backend" => TripError = BackendError
      BY <3>3, Zenon DEF TripError
    <3> QED
      BY <1>3, <3>1, <3>2, <3>4, UpstreamErrors
  <2>2. beresp \in scene.answers /\ Recognised(hops, beresp.header) /\ "Connection" \in hops
    <3>1. beresp \in scene.answers
      BY <1>1, <2>1 DEF OriginInv
    <3> QED
      <4>1. Recognised(hops, beresp.header)
        BY <3>1 DEF KeepsToHops
      <4>2. "Connection" \in Hops(beresp.header)
        BY DEF Hops, HopHeaders
      <4> QED
        BY <3>1, <4>1, <4>2 DEF AnswerHops
  <2>3. IsAnswer(raw) /\ raw.header = beresp.header
    <3> DEFINE y == [beresp EXCEPT !.length = 0]
    <3>1. DOMAIN y = DOMAIN beresp /\ y.header = beresp.header
      BY <1>1 DEF IsAnswer
    <3> HIDE DEF y
    <3>2. IsAnswer(y)
      BY <1>1, <3>1 DEF IsAnswer
    <3> QED
      BY <1>1, <3>1, <3>2 DEF y
  <2> HIDE DEF raw
  <2>4. IsProducer(producer) /\ AnswersHops(hops, producer)
    BY <1>1, BlockIsEndpoint, ProducerIsTyped, BlockKeepsToHops DEF PlaceInv
  <2>5. ~IsProxy(producer) \/ answered.status # 101 => Free(hops, answered.header)
    BY <2>2, <2>3, <2>4, FreeAnswered
  <2>6. IsProxy(producer) /\ answered.status = 101 /\ e = NoError => switches
    <3> HIDE DEF answered, switches
    <3> QED
      BY UpstreamErrors DEF AnswerError
  <2>7. other.hijacked = TRUE
    <3> DEFINE y == [w EXCEPT !.hijacked = TRUE, !.header = copyHeader(@, answered.header)]
    <3> HIDE DEF answered
    <3>1. DOMAIN y = WriterFields /\ y.hijacked = TRUE
      BY <1>1 DEF IsWriter, WriterFields
    <3>2. other = WriteHeader(y, req, answered.status)
      BY DEF SwitchProtocols
    <3> HIDE DEF y
    <3> QED
      BY <3>1, <3>2, WrittenFields
  <2> HIDE DEF answered, switches, e, other
  <2>8. w' = other \/ w' = w
    BY <1>3
  <2>9. err' = NoError /\ ~w'.hijacked => Free(hops, beresp'.header)
    BY <1>3, <2>5, <2>6, <2>7
  <2>10. ~w'.hijacked => FreeWriter(hops, w')
    BY <1>1, <2>7, <2>8
  <2> QED
    BY <1>1, <2>9, <2>10 DEF Between
<1>4. \/ UNCHANGED w /\ (stage' = "end" \/ err' # NoError)
      \/ /\ TripError = NoError /\ beresp' = answered /\ err' = e
         /\ w' = IF answered.status = 101 /\ IsProxy(producer) /\ switches /\ e \in {NoError, UnexpectedStatus}
                 THEN other ELSE w
  BY DEF Return
<1> QED
  BY <1>2, <1>3, <1>4

(* The answer is written over what the modifiers and the block add.        *)
LEMMA BetweenRespond ==
    ASSUME ScenarioAssumption, StageInv, PlaceInv, WriterInv, KeepsToHops(scene), NEW asks, NEW listed, NEW hops,
           hops = AnswerHops(scene), Between(asks, listed, hops), Respond
    PROVE  Between(asks, listed, hops)'
<1>1. /\ stage = "respond" /\ stage \notin {"start", "refused"} /\ sent = << >> /\ UNCHANGED req
      /\ stage' \in {"body", "end"} /\ IsWriter(w) /\ IsAnswer(beresp) /\ hops \cap OwnFields = {}
      /\ DOMAIN req = RequestFields /\ (~w.hijacked => FreeWriter(hops, w))
  BY DEF Respond, WriterInv, Between, KeepsToHops, Ends, Fails, Recovers, FailsAgain
<1>2. /\ IsEndpoint(block) /\ IsContext(Context(block)) /\ IsOps(Context(block).response)
      /\ hops \cap Adds(Context(block).response) = {} /\ FreeOps(hops, chain.modifiers)
  BY <1>1, BlockIsEndpoint, BlockKeepsToHops DEF IsEndpoint, IsContext
<1>3. ASSUME UNCHANGED w, sent' # << >> /\ ~w.hijacked => Free(hops, sent'[1].header)
      PROVE  Between(asks, listed, hops)'
  BY <1>1, <1>3, BetweenKept
<1>4. ASSUME NEW e, NEW responds, Fails(e, responds), UNCHANGED w PROVE Between(asks, listed, hops)'
  BY <1>1, <1>3, <1>4, FreeFails
<1> DEFINE own     == BlocksOfType(block, "response")
           res     == IF own # << >> THEN NewResponse(own[1]) ELSE beresp
           mods    == IF Main THEN chain.modifiers ELSE << >>
           with    == AddModifiers(w, mods)
           of      == IF own # << >> THEN req ELSE outreq
           applied == ApplyResponseContext(Context(block), of, res)
           header  == copyHeader(with.header, applied.header)
           written == WithHeader(with, header)
           ops     == IF Main THEN NoOps ELSE Context(block).response
<1>5. IsWriter(with) /\ with.hijacked = w.hijacked /\ (~w.hijacked => FreeWriter(hops, with))
  <2>1. AreOps(mods) /\ FreeOps(hops, mods)
    <3>1. AreOps(chain.modifiers)
      BY <1>1, RouteIsTyped DEF IsChain, AreOps, IsList
    <3> QED
      BY <1>2, <3>1, ListEmpty DEF AreOps, FreeOps
  <2>2. IsWriter(with) /\ with.hijacked = w.hijacked
    <3> HIDE DEF mods
    <3>1. IsWriter(with)
      BY <1>1, <2>1, KeepsAddModifiers DEF Keeps, AreOps
    <3>2. with.hijacked = w.hijacked
      BY <1>1 DEF AddModifiers, IsWriter, WriterFields
    <3> QED
      BY <3>1, <3>2
  <2> HIDE DEF mods
  <2>3. ~w.hijacked => FreeWriter(hops, with)
    BY <1>1, <2>1, FreeAddModifiers DEF AreOps
  <2> QED
    BY <2>2, <2>3
<1> HIDE DEF with
<1>6. CASE own = << >> /\ ProducersOf(block) = << >>
  <2>1. FailsAgain /\ UNCHANGED w
    BY <1>6 DEF Respond
  <2> QED
    BY <1>4, <2>1 DEF FailsAgain
<1>7. CASE Fails(err, Responds) /\ UNCHANGED w
  BY <1>4, <1>7
<1>8. CASE w.hijacked /\ UNCHANGED w
  BY <1>3, <1>8
<1>9. CASE Ends(<<Templated(with, template, ConfigurationError, req, ops)>>) /\ UNCHANGED w
  <2>1. IsOps(ops) /\ hops \cap Adds(ops) = {}
    BY <1>2, NoOpsIsOps, NoOpsAddNothing
  <2> HIDE DEF ops
  <2>2. ~w.hijacked => Free(hops, Templated(with, template, ConfigurationError, req, ops).header)
    BY <1>1, <1>5, <2>1, FreeTemplated
  <2> QED
    BY <1>3, <1>9, <2>2 DEF Ends
<1>10. CASE /\ own # << >> \/ (err = NoError /\ ProducersOf(block) # << >>)
            /\ ~w.hijacked /\ w' = WriteHeader(written, req, applied.status) /\ UNCHANGED sent
            /\ stage' = "body"
  <2>1. IsAnswer(res) /\ Free(hops, res.header)
    <3>1. CASE own # << >>
      <4>1. IsHeader(Attr(own[1], "headers", << >>)) /\ Free(hops, Attr(own[1], "headers", << >>))
        BY <1>1, <1>2, <3>1, BlockKeepsToHops DEF IsEndpoint
      <4>2. IsAnswer(NewResponse(own[1])) /\ Free(hops, NewResponse(own[1]).header)
        BY <4>1, HeaderTyped DEF IsAnswer, NewResponse, Response
      <4> QED
        BY <3>1, <4>2
    <3>2. CASE own = << >>
      BY <1>1, <1>10, <3>2 DEF Between
    <3> QED
      BY <3>1, <3>2
  <2> HIDE DEF res
  <2>2. IsAnswer(applied) /\ Free(hops, applied.header)
    BY <1>2, <2>1, ContextAnswer, FreeContext
  <2> HIDE DEF applied
  <2>3. FreeWriter(hops, with) /\ IsWriter(with) /\ with.hijacked = FALSE
    BY <1>1, <1>5, <1>10 DEF IsWriter
  <2>4. Free(hops, header) /\ Typed(header, "Cache-Control")
    <3>1. Free(hops, header)
      BY <2>2, <2>3, FreeFields DEF FreeWriter
    <3>2. Values(header, "Cache-Control") = Values(with.header, "Cache-Control") \o Values(applied.header, "Cache-Control")
      BY ValuesCopy
    <3> QED
      BY <2>2, <2>3, <3>1, <3>2, ListConcat DEF IsWriter, IsAnswer, Typed
  <2> HIDE DEF header
  <2>5. IsWriter(written) /\ FreeWriter(hops, written) /\ written.hijacked = FALSE
    BY <2>3, <2>4, KeepsWithHeader, FreeWithHeader DEF Keeps
  <2> HIDE DEF written
  <2>6. FreeWriter(hops, w') /\ w'.hijacked = FALSE
    BY <1>1, <1>10, <2>5, FreeWriteHeader
  <2> QED
    BY <1>1, <1>10, <2>6 DEF Between
<1>11. \/ own = << >> /\ ProducersOf(block) = << >>
       \/ Fails(err, Responds) /\ UNCHANGED w
       \/ w.hijacked /\ UNCHANGED w
       \/ Ends(<<Templated(with, template, ConfigurationError, req, ops)>>) /\ UNCHANGED w
       \/ /\ own # << >> \/ (err = NoError /\ ProducersOf(block) # << >>)
          /\ ~w.hijacked /\ w' = WriteHeader(written, req, applied.status) /\ UNCHANGED sent
          /\ stage' = "body"
  BY DEF Respond, written, header, with, applied, res
<1> QED
  BY <1>6, <1>7, <1>8, <1>9, <1>10, <1>11

LEMMA BetweenServe ==
    ASSUME ScenarioAssumption, StageInv, PlaceInv, WriterInv, OriginInv, KeepsToHops(scene), NEW asks, NEW listed, NEW hops,
           asks = Hops(scene.request.header), listed = Values(scene.request.header, "Connection"), hops = AnswerHops(scene),
           Between(asks, listed, hops), Serve
    PROVE  Between(asks, listed, hops)'
<1>1. CASE HandleError
  <2>1. block' = block /\ UNCHANGED <<w, req, beresp, err, sent>> /\ stage = "produced" /\ stage' \in {"error", "respond"}
    BY <1>1 DEF HandleError, Failed, block, Main, chain
  <2> QED
    BY <2>1 DEF Between, Got
<1>2. CASE SelectHandler
  <2>1. stage = "error" /\ UNCHANGED <<w, req>> /\ IsWriter(w) /\ sent = << >> /\ stage' \in {"produce", "end"}
    BY <1>2 DEF SelectHandler, WriterInv, Ends
  <2>2. ~w.hijacked => Free(hops, Templated(w, template, ctxErr, req, NoOps).header)
    BY <2>1, FreeUntouched DEF Between, KeepsToHops
  <2>3. sent' = sent \/ sent' = <<Templated(w, template, ctxErr, req, NoOps)>>
    BY <1>2 DEF SelectHandler, Ends
  <2>4. DOMAIN req' = RequestFields /\ (~w.hijacked => FreeWriter(hops, w'))
    BY <2>1 DEF Between
  <2> QED
    BY <2>1, <2>2, <2>3, <2>4, BetweenKept
<1>3. CASE CopyBody
  <2>1. UNCHANGED <<w, req>> /\ stage' = "end"
    BY <1>3 DEF CopyBody, Ends
  <2>2. \E length : sent' = <<Sent(w, length, beresp.gzips)>>
    BY <1>3 DEF CopyBody, Ends
  <2>3. ~w.hijacked => Free(hops, sent'[1].header)
    BY <2>2, FreeSent DEF Between, KeepsToHops
  <2>4. DOMAIN req' = RequestFields /\ (~w.hijacked => FreeWriter(hops, w'))
    BY <2>1 DEF Between
  <2> QED
    BY <2>1, <2>3, <2>4, BetweenKept
<1> QED
  BY <1>1, <1>2, <1>3, BetweenProduce, BetweenReturn, BetweenRespond DEF Serve

LEMMA BetweenTrip ==
    ASSUME NEW asks, NEW listed, NEW hops, Between(asks, listed, hops), OriginInv, StageInv, CallInv, Trip
    PROVE  Between(asks, listed, hops)'
<1>1. UNCHANGED <<stage, runtime, handler, w, req, outreq, err, sent>>
  BY DEF Trip
<1>2. block' = block
  BY <1>1 DEF block, Main, chain
<1>3. stage \in {"produced", "respond"} => beresp' = beresp
  BY DEF Trip, CallInv
<1> QED
  BY <1>1, <1>2, <1>3 DEF Between, Got

LEMMA HopInit == ScenarioAssumption /\ Init => HopInv
<1> SUFFICES ASSUME ScenarioAssumption, Init PROVE HopInv
  OBVIOUS
<1>1. stage = "start" /\ w.header = << >> /\ w.modifiers = << >> /\ req = scene.request /\ sent = << >>
  BY DEF Init, NewWriter
<1>2. OriginInv
  BY <1>1 DEF Init, Idle, OriginInv, ResultInv
<1>3. DOMAIN req = RequestFields
  BY <1>1 DEF Init, ScenarioAssumption, IsScenario, scene
<1>4. \A fs : FreeWriter(fs, w)
  <2>1. DOMAIN << >> = {}
    OBVIOUS
  <2> QED
    BY <1>1, <2>1, ListEmpty DEF FreeWriter, Free, FreeOps
<1> QED
  BY <1>1, <1>2, <1>3, <1>4 DEF HopInv, Between

LEMMA HopNext ==
    ScenarioAssumption /\ StageInv /\ PlaceInv /\ WriterInv /\ CallInv /\ HopInv /\ [Next]_vars => HopInv'
<1> SUFFICES ASSUME ScenarioAssumption, StageInv, PlaceInv, WriterInv, CallInv, HopInv, [Next]_vars PROVE HopInv'
  OBVIOUS
<1>1. scene' = scene
  <2>1. CASE Configure
    BY <2>1 DEF Configure, local, scene
  <2>2. CASE ~Configure
    BY <2>2, RouteStays DEF scene
  <2> QED
    BY <2>1, <2>2
<1>2. OriginInv'
  BY <1>1, OriginNext DEF HopInv
<1>3. ASSUME NEW asks, NEW listed, NEW hops, KeepsToHops(scene),
             asks = Hops(scene.request.header), listed = Values(scene.request.header, "Connection"),
             hops = AnswerHops(scene), Between(asks, listed, hops)
      PROVE  Between(asks, listed, hops)'
  <2>1. CASE UNCHANGED vars
    <3>1. UNCHANGED <<stage, runtime, handler, w, req, outreq, beresp, err, sent>>
      BY <2>1 DEF vars, gvars
    <3>2. block' = block
      BY <3>1 DEF block, Main, chain
    <3> QED
      BY <1>3, <3>1, <3>2 DEF Between, Got
  <2>2. CASE Next
    BY <1>3, <2>2, BetweenGate, BetweenServe, BetweenTrip DEF Next, HopInv
  <2> QED
    BY <2>1, <2>2
<1>4. /\ KeepsToHops(scene)' = KeepsToHops(scene) /\ AnswerHops(scene)' = AnswerHops(scene)
      /\ Hops(scene.request.header)' = Hops(scene.request.header)
      /\ Values(scene.request.header, "Connection")' = Values(scene.request.header, "Connection")
  BY <1>1 DEF KeepsToHops, AnswerHops, Hops, Values
<1>5. ASSUME KeepsToHops(scene)
      PROVE  Between(Hops(scene.request.header), Values(scene.request.header, "Connection"), AnswerHops(scene))'
  <2>1. \A asks, listed, hops :
          /\ asks = Hops(scene.request.header) /\ listed = Values(scene.request.header, "Connection")
          /\ hops = AnswerHops(scene)
          => Between(asks, listed, hops)'
    BY <1>3, <1>5 DEF HopInv
  <2> QED
    BY <1>4, <2>1 DEF Between
<1> QED
  BY <1>2, <1>4, <1>5 DEF HopInv

(* Where the fields that the client and the origins use for one hop are    *)
(* used for nothing else, none of them gets past Couper, be they those of  *)
(* the protocol or named by Connection, whatever proxy, request, backend,  *)
(* error handler, modifier or template makes of the message: neither to    *)
(* the origin, unless the proxy allows websockets, nor to the client,      *)
(* unless the connection has been switched to another protocol.            *)
THEOREM HopsStay == Spec => [](KeepsToHops(scene) => HopsStayHops)
<1> DEFINE IInv == StageInv /\ ControlInv /\ PlaceInv /\ WriterInv /\ CallInv /\ HopInv
<1>1. Init => IInv
  BY StageInit, ControlInit, PlaceInit, WriterInit, EncodingInit, HopInit, ScenarioAssumption DEF EncodingInv
<1>2. IInv /\ [Next]_vars => IInv'
  BY StageNext, ControlNext, PlaceNext, WriterNext, CallNext, HopNext, ScenarioAssumption
<1>3. IInv => (KeepsToHops(scene) => HopsStayHops)
  BY DEF HopInv, Between, HopsStayHops, Free, AnswerHops
<1> QED
  BY <1>1, <1>2, <1>3, PTL DEF Spec

-------------------------------------------------------------------------------
(* The closest handler                                                     *)

(* The handlers a reference is expanded to name their blocks. *)
LEMMA HandlersOfBlocks ==
    ASSUME NEW body, NEW name, IsList(BlocksOfType(body, "error_handler"))
    PROVE  LET h == ErrorHandlers(body, name)
               B == BlocksOfType(body, "error_handler")
           IN  /\ IsList(h) /\ DOMAIN h = DOMAIN B
               /\ \A i \in DOMAIN B : h[i].kinds = B[i].labels /\ h[i].block = B[i]
<1> DEFINE B == BlocksOfType(body, "error_handler")
           h == ErrorHandlers(body, name)
<1>1. h = [i \in DOMAIN B |-> ErrorHandler(B[i], name)]
  BY DEF ErrorHandlers
<1>2. DOMAIN B = 1 .. Len(B) /\ Len(B) \in Nat
  BY DEF IsList
<1> HIDE DEF B, h
<1>3. h \in Seq(ToSet(h))
  <2>1. DOMAIN h = 1 .. Len(B)
    BY <1>1, <1>2
  <2>2. \A i \in 1 .. Len(B) : h[i] \in ToSet(h)
    BY <2>1, Zenon DEF ToSet
  <2>3. h = [i \in 1 .. Len(B) |-> h[i]]
    BY <1>1, <1>2
  <2>4. h \in [1 .. Len(B) -> ToSet(h)]
    BY <2>2, <2>3
  <2> QED
    BY <1>2, <2>4
<1> QED
  BY <1>1, <1>3 DEF IsList, ErrorHandler, h, B

(* Which of the names of a kind a block of a reference has. *)
Catches(ref, B, k, by, i) == i \in DOMAIN B /\ ToSet(B[i].labels) \cap Catching(ref, k)[by] # {}

(* Of a reference the closest name and the last place of it are found.     *)
LEMMA ReferenceCatches ==
    ASSUME NEW ref \in {"api", "endpoint"}, NEW body, NEW name, IsList(BlocksOfType(body, "error_handler")),
           NEW k, k # "*"
    PROVE  LET B   == BlocksOfType(body, "error_handler")
               all == Expanded(ref, PerKind(ErrorHandlers(body, name)))
           IN  /\ k \in DOMAIN all <=> \E by \in 1 .. 3 : \E i \in DOMAIN B : Catches(ref, B, k, by, i)
               /\ k \in DOMAIN all =>
                     \E by \in 1 .. 3 : \E i \in DOMAIN B :
                         /\ Catches(ref, B, k, by, i) /\ all[k].block = B[i]
                         /\ \A b \in 1 .. 3 : \A j \in DOMAIN B :
                               Catches(ref, B, k, b, j) => by < b \/ (by = b /\ j <= i)
<1> DEFINE B == BlocksOfType(body, "error_handler")
           h == ErrorHandlers(body, name)
           m == PerKind(h)
           all == Expanded(ref, m)
           subs == SubKinds(ref)
           supers == {s \in DOMAIN subs : k \in subs[s]}
           own    == {s \in DOMAIN subs \ {"*"} : k \in subs[s]} \cap DOMAIN m
           any    == "*" \in DOMAIN m /\ k \in subs["*"]
           Closest == \E by \in 1 .. 3 : \E i \in DOMAIN B :
                          /\ Catches(ref, B, k, by, i) /\ all[k].block = B[i]
                          /\ \A b \in 1 .. 3 : \A j \in DOMAIN B :
                                Catches(ref, B, k, b, j) => by < b \/ (by = b /\ j <= i)
<1>1. IsList(h) /\ DOMAIN h = DOMAIN B /\ \A i \in DOMAIN B : h[i].kinds = B[i].labels /\ h[i].block = B[i]
  BY HandlersOfBlocks
<1>2. Catching(ref, k) = <<{k}, supers \ {"*"}, supers \cap {"*"}>>
  BY DEF Catching
<1>3. /\ "*" \in DOMAIN subs
      /\ \A s, t \in DOMAIN subs \ {"*"} : s # t => subs[s] \cap subs[t] = {}
  BY SubKindsAreApart
<1>4. /\ k \in DOMAIN all <=> k # "*" /\ (k \in DOMAIN m \/ own # {} \/ any)
      /\ k \in DOMAIN all =>
            \/ k \in DOMAIN m /\ all[k] = m[k]
            \/ k \notin DOMAIN m /\ \E s \in own : all[k] = m[s]
            \/ k \notin DOMAIN m /\ own = {} /\ any /\ all[k] = m["*"]
  BY ExpandedIs
<1> HIDE DEF B, h, all, subs
<1>5. ASSUME NEW s
      PROVE  /\ s \in DOMAIN m <=> \E i \in DOMAIN B : s \in ToSet(B[i].labels)
             /\ s \in DOMAIN m => \E i \in DOMAIN B : /\ s \in ToSet(B[i].labels) /\ m[s].block = B[i]
                                                      /\ \A j \in DOMAIN B : s \in ToSet(B[j].labels) => j <= i
  <2>1. /\ s \in DOMAIN m <=> \E i \in DOMAIN h : s \in ToSet(h[i].kinds)
        /\ s \in DOMAIN m => \E i \in DOMAIN h : /\ s \in ToSet(h[i].kinds) /\ m[s] = h[i]
                                                 /\ \A j \in DOMAIN h : s \in ToSet(h[j].kinds) => j <= i
    BY <1>1, PerKindIs
  <2> HIDE DEF m
  <2> QED
    BY <1>1, <2>1
<1> HIDE DEF m
<1>6. \A i \in DOMAIN B :
          /\ Catches(ref, B, k, 1, i) <=> k \in ToSet(B[i].labels)
          /\ Catches(ref, B, k, 2, i) <=> \E s \in supers \ {"*"} : s \in ToSet(B[i].labels)
          /\ Catches(ref, B, k, 3, i) <=> "*" \in supers /\ "*" \in ToSet(B[i].labels)
  BY <1>2 DEF Catches
<1>7. /\ own = (supers \ {"*"}) \cap DOMAIN m
      /\ any <=> "*" \in supers \cap DOMAIN m
  BY <1>3
<1>8. \A s, t \in supers \ {"*"} : s = t
  BY <1>3
<1> HIDE DEF own, any, supers
<1>9. k \in DOMAIN m <=> \E i \in DOMAIN B : Catches(ref, B, k, 1, i)
  BY <1>5, <1>6
<1>10. own # {} <=> \E i \in DOMAIN B : Catches(ref, B, k, 2, i)
  BY <1>5, <1>6, <1>7
<1>11. any <=> \E i \in DOMAIN B : Catches(ref, B, k, 3, i)
  BY <1>5, <1>6, <1>7
<1>12. k \in DOMAIN all <=> \E by \in 1 .. 3 : \E i \in DOMAIN B : Catches(ref, B, k, by, i)
  <2>1. \A by : by \in 1 .. 3 <=> by \in {1, 2, 3}
    OBVIOUS
  <2> QED
    BY <1>4, <1>9, <1>10, <1>11, <2>1
<1>13. ASSUME k \in DOMAIN all
       PROVE  Closest
  <2>0. ASSUME NEW by \in 1 .. 3, NEW i \in DOMAIN B, Catches(ref, B, k, by, i), all[k].block = B[i],
               \A b \in 1 .. 3 : b < by => \A j \in DOMAIN B : ~Catches(ref, B, k, b, j),
               \A j \in DOMAIN B : Catches(ref, B, k, by, j) => j <= i
        PROVE  Closest
    <3>1. ASSUME NEW b \in 1 .. 3, NEW j \in DOMAIN B, Catches(ref, B, k, b, j) PROVE by < b \/ (by = b /\ j <= i)
      BY <2>0, <3>1
    <3> QED
      BY <2>0, <3>1
  <2>1. CASE k \in DOMAIN m /\ all[k] = m[k]
    <3>1. PICK i \in DOMAIN B : /\ k \in ToSet(B[i].labels) /\ m[k].block = B[i]
                                /\ \A j \in DOMAIN B : k \in ToSet(B[j].labels) => j <= i
      BY <1>5, <2>1
    <3> QED
      BY <2>0, <2>1, <3>1, <1>6
  <2>2. CASE k \notin DOMAIN m /\ \E s \in own : all[k] = m[s]
    <3>1. PICK s \in own : all[k] = m[s]
      BY <2>2
    <3>2. s \in supers \ {"*"} /\ s \in DOMAIN m
      BY <1>7
    <3>3. PICK i \in DOMAIN B : /\ s \in ToSet(B[i].labels) /\ m[s].block = B[i]
                                /\ \A j \in DOMAIN B : s \in ToSet(B[j].labels) => j <= i
      BY <1>5, <3>2
    <3>4. \A j \in DOMAIN B : Catches(ref, B, k, 2, j) => j <= i
      BY <1>6, <1>8, <3>2, <3>3
    <3>5. Catches(ref, B, k, 2, i) /\ all[k].block = B[i]
      BY <1>6, <3>1, <3>2, <3>3
    <3>6. \A b \in 1 .. 3 : b < 2 => \A j \in DOMAIN B : ~Catches(ref, B, k, b, j)
      <4>1. \A b \in 1 .. 3 : b < 2 => b = 1
        OBVIOUS
      <4> QED
        BY <1>9, <2>2, <4>1
    <3> QED
      BY <2>0, <3>4, <3>5, <3>6
  <2>3. CASE k \notin DOMAIN m /\ own = {} /\ any /\ all[k] = m["*"]
    <3>1. "*" \in supers /\ "*" \in DOMAIN m
      BY <1>7, <2>3
    <3>2. PICK i \in DOMAIN B : /\ "*" \in ToSet(B[i].labels) /\ m["*"].block = B[i]
                                /\ \A j \in DOMAIN B : "*" \in ToSet(B[j].labels) => j <= i
      BY <1>5, <3>1
    <3>3. \A b \in 1 .. 3 : b < 3 => \A j \in DOMAIN B : ~Catches(ref, B, k, b, j)
      <4>1. \A b \in 1 .. 3 : b < 3 => b = 1 \/ b = 2
        OBVIOUS
      <4> QED
        BY <1>9, <1>10, <2>3, <4>1
    <3> QED
      BY <2>0, <1>6, <2>3, <3>1, <3>2, <3>3
  <2> QED
    BY <1>4, <1>13, <2>1, <2>2, <2>3
<1> QED
  BY <1>12, <1>13 DEF B, all, m, h

(* The error handlers for an endpoint, as the runtime configuration has    *)
(* them and as they stand in the file.                                     *)
Standing(api, endpoint) ==
    [endpoint |-> BlocksOfType(endpoint, "error_handler"),
     api      |-> IF api = << >> THEN << >> ELSE BlocksOfType(api[1], "error_handler")]

(* A kind reaches the closest of the handlers that catch it.               *)
LEMMA EndpointCatches ==
    ASSUME NEW api, NEW endpoint, NEW name, NEW k, k # "*",
           api = << >> \/ \E a : api = <<a>> /\ IsList(BlocksOfType(a, "error_handler")),
           IsList(BlocksOfType(endpoint, "error_handler"))
    PROVE  LET all == EndpointHandlers(api, endpoint, name)
               H   == Standing(api, endpoint)
           IN  /\ k \in DOMAIN all <=> \E of \in {"endpoint", "api"}, by \in 1 .. 3 : \E i \in DOMAIN H[of] :
                                            Catches(of, H[of], k, by, i)
               /\ k \in DOMAIN all =>
                     \E of \in {"endpoint", "api"}, by \in 1 .. 3 : \E i \in DOMAIN H[of] :
                         /\ Catches(of, H[of], k, by, i) /\ all[k].block = H[of][i]
                         /\ \A o \in {"endpoint", "api"}, b \in 1 .. 3 : \A j \in DOMAIN H[o] :
                               Catches(o, H[o], k, b, j) =>
                                   \/ of = "endpoint" /\ o = "api"
                                   \/ of = o /\ (by < b \/ (by = b /\ j <= i))
<1> DEFINE all == EndpointHandlers(api, endpoint, name)
           H   == Standing(api, endpoint)
           ex(of, B) == \E by \in 1 .. 3 : \E i \in DOMAIN B : Catches(of, B, k, by, i)
           best(of, B, found) ==
               \E by \in 1 .. 3 : \E i \in DOMAIN B :
                   /\ Catches(of, B, k, by, i) /\ found.block = B[i]
                   /\ \A b \in 1 .. 3 : \A j \in DOMAIN B : Catches(of, B, k, b, j) => by < b \/ (by = b /\ j <= i)
           mine == Expanded("endpoint", PerKind(ErrorHandlers(endpoint, name)))
<1>1. /\ k \in DOMAIN mine <=> ex("endpoint", H.endpoint)
      /\ k \in DOMAIN mine => best("endpoint", H.endpoint, mine[k])
  <2>1. H.endpoint = BlocksOfType(endpoint, "error_handler")
    BY DEF Standing
  <2> QED
    BY <2>1, ReferenceCatches
<1>2. CASE api = << >>
  <2> DEFINE refs == <<Reference("endpoint", endpoint, name)>>
  <2>1. all = newErrorHandler(refs)
    BY <1>2 DEF EndpointHandlers
  <2>2. IsList(refs) /\ DOMAIN refs = {1}
    BY DEF IsList, ToSet
  <2>3. refs[1].name = "endpoint" /\ refs[1].handlers = ErrorHandlers(endpoint, name)
    BY DEF Reference
  <2> HIDE DEF refs, all
  <2>4. /\ k \in DOMAIN all <=> k \in DOMAIN mine
        /\ k \in DOMAIN all => all[k] = mine[k]
    <3> DEFINE of(i) == Expanded(refs[i].name, PerKind(refs[i].handlers))
    <3>1. /\ k \in DOMAIN all <=> \E i \in DOMAIN refs : k \in DOMAIN of(i)
          /\ k \in DOMAIN all => \E i \in DOMAIN refs : k \in DOMAIN of(i) /\ all[k] = of(i)[k]
      BY <2>1, <2>2, LaterOverrides
    <3>2. of(1) = mine
      BY <2>3
    <3> HIDE DEF of, mine
    <3> QED
      BY <2>2, <3>1, <3>2
  <2>5. H.api = << >>
    BY <1>2 DEF Standing
  <2>6. DOMAIN H["api"] = {}
    BY <2>5, SMTT(30)
  <2> HIDE DEF H, mine
  <2> QED
    BY <1>1, <2>4, <2>6 DEF all, H
<1>3. CASE \E a : api = <<a>> /\ IsList(BlocksOfType(a, "error_handler"))
  <2> PICK a : api = <<a>> /\ IsList(BlocksOfType(a, "error_handler"))
    BY <1>3
  <2> DEFINE refs == <<Reference("api", a, name), Reference("endpoint", endpoint, name)>>
             theirs == Expanded("api", PerKind(ErrorHandlers(a, name)))
  <2>1. all = newErrorHandler(refs)
    BY DEF EndpointHandlers
  <2>2. IsList(refs) /\ DOMAIN refs = {1, 2}
    BY DEF IsList, ToSet
  <2>3. /\ refs[1].name = "api" /\ refs[1].handlers = ErrorHandlers(a, name)
        /\ refs[2].name = "endpoint" /\ refs[2].handlers = ErrorHandlers(endpoint, name)
    BY DEF Reference
  <2>4. /\ k \in DOMAIN theirs <=> ex("api", H.api)
        /\ k \in DOMAIN theirs => best("api", H.api, theirs[k])
    <3>1. H.api = BlocksOfType(a, "error_handler")
      BY DEF Standing
    <3> QED
      BY <3>1, ReferenceCatches
  <2> HIDE DEF refs, all
  <2>5. /\ k \in DOMAIN all <=> k \in DOMAIN mine \/ k \in DOMAIN theirs
        /\ k \in DOMAIN mine => all[k] = mine[k]
        /\ k \in DOMAIN all /\ k \notin DOMAIN mine => all[k] = theirs[k]
    <3> DEFINE of(i) == Expanded(refs[i].name, PerKind(refs[i].handlers))
    <3>1. /\ k \in DOMAIN all <=> \E i \in DOMAIN refs : k \in DOMAIN of(i)
          /\ k \in DOMAIN all => \E i \in DOMAIN refs :
                /\ k \in DOMAIN of(i) /\ all[k] = of(i)[k]
                /\ \A j \in DOMAIN refs : k \in DOMAIN of(j) => j <= i
      BY <2>1, <2>2, LaterOverrides
    <3>2. of(1) = theirs /\ of(2) = mine
      BY <2>3
    <3> HIDE DEF of, mine, theirs
    <3> QED
      BY <2>2, <3>1, <3>2
  <2> HIDE DEF H, mine, theirs
  <2>6. k \in DOMAIN all <=> ex("endpoint", H["endpoint"]) \/ ex("api", H["api"])
    BY <1>1, <2>4, <2>5
  <2>7. CASE k \in DOMAIN mine
    <3>1. best("endpoint", H["endpoint"], all[k])
      BY <1>1, <2>5, <2>7
    <3>2. PICK by \in 1 .. 3 : \E i \in DOMAIN H["endpoint"] :
                   /\ Catches("endpoint", H["endpoint"], k, by, i) /\ all[k].block = H["endpoint"][i]
                   /\ \A b \in 1 .. 3 : \A j \in DOMAIN H["endpoint"] :
                         Catches("endpoint", H["endpoint"], k, b, j) => by < b \/ (by = b /\ j <= i)
      BY <3>1
    <3>3. PICK i \in DOMAIN H["endpoint"] :
                   /\ Catches("endpoint", H["endpoint"], k, by, i) /\ all[k].block = H["endpoint"][i]
                   /\ \A b \in 1 .. 3 : \A j \in DOMAIN H["endpoint"] :
                         Catches("endpoint", H["endpoint"], k, b, j) => by < b \/ (by = b /\ j <= i)
      BY <3>2
    <3>4. \A o \in {"endpoint", "api"}, b \in 1 .. 3 : \A j \in DOMAIN H[o] :
              Catches(o, H[o], k, b, j) =>
                  \/ "endpoint" = "endpoint" /\ o = "api"
                  \/ "endpoint" = o /\ (by < b \/ (by = b /\ j <= i))
      BY <3>3
    <3> QED
      BY <2>6, <3>3, <3>4 DEF all, H
  <2>8. CASE k \in DOMAIN theirs /\ k \notin DOMAIN mine
    <3>1. best("api", H["api"], all[k])
      BY <2>4, <2>5, <2>8
    <3>2. PICK by \in 1 .. 3 : \E i \in DOMAIN H["api"] :
                   /\ Catches("api", H["api"], k, by, i) /\ all[k].block = H["api"][i]
                   /\ \A b \in 1 .. 3 : \A j \in DOMAIN H["api"] :
                         Catches("api", H["api"], k, b, j) => by < b \/ (by = b /\ j <= i)
      BY <3>1
    <3>3. PICK i \in DOMAIN H["api"] :
                   /\ Catches("api", H["api"], k, by, i) /\ all[k].block = H["api"][i]
                   /\ \A b \in 1 .. 3 : \A j \in DOMAIN H["api"] :
                         Catches("api", H["api"], k, b, j) => by < b \/ (by = b /\ j <= i)
      BY <3>2
    <3>4. ~ex("endpoint", H["endpoint"])
      BY <1>1, <2>8
    <3>5. \A o \in {"endpoint", "api"}, b \in 1 .. 3 : \A j \in DOMAIN H[o] :
              Catches(o, H[o], k, b, j) =>
                  \/ "api" = "endpoint" /\ o = "api"
                  \/ "api" = o /\ (by < b \/ (by = b /\ j <= i))
      BY <3>3, <3>4
    <3> QED
      BY <2>6, <3>3, <3>5 DEF all, H
  <2>9. CASE k \notin DOMAIN all
    BY <2>6, <2>9 DEF all, H
  <2> QED
    BY <2>5, <2>7, <2>8, <2>9
<1> QED
  BY <1>2, <1>3

(* There is no handler for "*" itself.                                     *)
LEMMA NotForEverything ==
    ASSUME NEW api, NEW endpoint, NEW name, api = << >> \/ \E a : api = <<a>>
    PROVE  "*" \notin DOMAIN EndpointHandlers(api, endpoint, name)
<1> DEFINE all == EndpointHandlers(api, endpoint, name)
<1>1. ASSUME NEW references, IsList(references), all = newErrorHandler(references),
             \A i \in DOMAIN references : references[i].name \in {"api", "endpoint"}
      PROVE  "*" \notin DOMAIN all
  <2> DEFINE of(i) == Expanded(references[i].name, PerKind(references[i].handlers))
  <2>1. "*" \in DOMAIN all <=> \E i \in DOMAIN references : "*" \in DOMAIN of(i)
    BY <1>1, LaterOverrides
  <2>2. ASSUME NEW i \in DOMAIN references PROVE "*" \notin DOMAIN of(i)
    BY <1>1, ExpandedIs
  <2> QED
    BY <2>1, <2>2
<1>2. CASE api = << >>
  <2> DEFINE refs == <<Reference("endpoint", endpoint, name)>>
  <2>1. IsList(refs) /\ DOMAIN refs = {1} /\ refs[1].name = "endpoint"
    BY DEF IsList, ToSet, Reference
  <2>2. all = newErrorHandler(refs)
    BY <1>2 DEF EndpointHandlers
  <2> HIDE DEF refs, all
  <2> QED
    BY <1>1, <2>1, <2>2 DEF all
<1>3. CASE \E a : api = <<a>>
  <2> PICK a : api = <<a>>
    BY <1>3
  <2> DEFINE refs == <<Reference("api", a, name), Reference("endpoint", endpoint, name)>>
  <2>1. IsList(refs) /\ DOMAIN refs = {1, 2} /\ refs[1].name = "api" /\ refs[2].name = "endpoint"
    BY DEF IsList, ToSet, Reference
  <2>2. all = newErrorHandler(refs)
    BY DEF EndpointHandlers
  <2> HIDE DEF refs, all
  <2> QED
    BY <1>1, <2>1, <2>2 DEF all
<1> QED
  BY <1>2, <1>3

(* The handler found for an error is the closest.                          *)
LEMMA FoundIsClosest ==
    ASSUME NEW api, NEW endpoint, NEW name, NEW e, IsList(e.kinds), "*" \notin ToSet(e.kinds),
           api = << >> \/ \E a : api = <<a>> /\ IsList(BlocksOfType(a, "error_handler")),
           IsList(BlocksOfType(endpoint, "error_handler")),
           HandlerFor(EndpointHandlers(api, endpoint, name), e) # NoHandler
    PROVE  IsClosest(HandlerFor(EndpointHandlers(api, endpoint, name), e).block, Standing(api, endpoint), e.kinds)
<1> DEFINE handlers == EndpointHandlers(api, endpoint, name)
           found    == HandlerFor(handlers, e)
           H        == Standing(api, endpoint)
           K        == e.kinds
           all      == [kind : DOMAIN K, of : {"endpoint", "api"}, by : 1 .. 3,
                        place : DOMAIN H.endpoint \cup DOMAIN H.api]
           catches(c) == /\ c.place \in DOMAIN H[c.of]
                         /\ ToSet(H[c.of][c.place].labels) \cap Catching(c.of, K[c.kind])[c.by] # {}
<1>1. "*" \notin DOMAIN handlers
  BY NotForEverything
<1>0. HandlerFor(handlers, e) # NoHandler
  OBVIOUS
<1>2. PICK n \in DOMAIN K : /\ K[n] \in DOMAIN handlers /\ found = handlers[K[n]]
                            /\ \A j \in DOMAIN K : K[j] \in DOMAIN handlers => n <= j
  <2> HIDE DEF handlers
  <2> QED
    BY <1>0, <1>1, FirstKindDecides
<1>3. \A j \in DOMAIN K : K[j] # "*"
  BY DEF ToSet
<1>4. DOMAIN H["endpoint"] \cup DOMAIN H["api"] = DOMAIN H.endpoint \cup DOMAIN H.api
  OBVIOUS
<1>5. \A j \in DOMAIN K :
          K[j] \in DOMAIN handlers <=> \E of \in {"endpoint", "api"}, by \in 1 .. 3 : \E i \in DOMAIN H[of] :
                                          Catches(of, H[of], K[j], by, i)
  BY <1>3, EndpointCatches
<1>6. \E of \in {"endpoint", "api"}, by \in 1 .. 3 : \E i \in DOMAIN H[of] :
          /\ Catches(of, H[of], K[n], by, i) /\ handlers[K[n]].block = H[of][i]
          /\ \A o \in {"endpoint", "api"}, b \in 1 .. 3 : \A j \in DOMAIN H[o] :
                Catches(o, H[o], K[n], b, j) =>
                    \/ of = "endpoint" /\ o = "api"
                    \/ of = o /\ (by < b \/ (by = b /\ j <= i))
  BY <1>2, <1>3, EndpointCatches
<1> HIDE DEF handlers, found, H, K
<1>7. PICK of \in {"endpoint", "api"}, by \in 1 .. 3 : \E i \in DOMAIN H[of] :
          /\ Catches(of, H[of], K[n], by, i) /\ handlers[K[n]].block = H[of][i]
          /\ \A o \in {"endpoint", "api"}, b \in 1 .. 3 : \A j \in DOMAIN H[o] :
                Catches(o, H[o], K[n], b, j) =>
                    \/ of = "endpoint" /\ o = "api"
                    \/ of = o /\ (by < b \/ (by = b /\ j <= i))
  BY <1>6
<1>8. PICK i \in DOMAIN H[of] :
          /\ Catches(of, H[of], K[n], by, i) /\ handlers[K[n]].block = H[of][i]
          /\ \A o \in {"endpoint", "api"}, b \in 1 .. 3 : \A j \in DOMAIN H[o] :
                Catches(o, H[o], K[n], b, j) =>
                    \/ of = "endpoint" /\ o = "api"
                    \/ of = o /\ (by < b \/ (by = b /\ j <= i))
  BY <1>7
<1> DEFINE c == [kind |-> n, of |-> of, by |-> by, place |-> i]
<1>9. c \in all /\ catches(c) /\ found.block = H[c.of][c.place]
  <2>1. i \in DOMAIN H.endpoint \cup DOMAIN H.api
    BY <1>4
  <2> QED
    BY <1>2, <1>8, <2>1 DEF Catches
<1>10. ASSUME NEW d \in all, catches(d) PROVE ~Closer(d, c)
  <2>1. /\ d.kind \in DOMAIN K /\ d.of \in {"endpoint", "api"} /\ d.by \in 1 .. 3 /\ d.place \in DOMAIN H[d.of]
        /\ Catches(d.of, H[d.of], K[d.kind], d.by, d.place)
    BY <1>10 DEF Catches
  <2>2. n <= d.kind
    BY <1>2, <1>5, <2>1
  <2>3. DOMAIN K \subseteq Int /\ i \in Int /\ d.place \in Int
    <3>1. DOMAIN K \subseteq Int
      BY DEF IsList, K
    <3>2. \A o \in {"endpoint", "api"} : DOMAIN H[o] \subseteq Int
      BY DEF IsList, H, Standing
    <3> QED
      BY <2>1, <3>1, <3>2
  <2>4. CASE d.kind = n
    <3>1. \/ of = "endpoint" /\ d.of = "api"
          \/ of = d.of /\ (by < d.by \/ (by = d.by /\ d.place <= i))
      BY <1>8, <2>1, <2>4
    <3>2. c.kind = n /\ c.of = of /\ c.by = by /\ c.place = i
      OBVIOUS
    <3> HIDE DEF c
    <3> QED
      BY <2>1, <2>3, <2>4, <3>1, <3>2 DEF Closer
  <2>5. CASE d.kind # n
    <3>1. c.kind = n /\ n \in Int /\ d.kind \in Int
      BY <2>1, <2>3
    <3> HIDE DEF c
    <3> QED
      BY <2>2, <2>5, <3>1 DEF Closer
  <2> QED
    BY <2>4, <2>5
<1>11. \E x \in all : /\ catches(x) /\ found.block = H[x.of][x.place]
                       /\ \A d \in all : catches(d) => ~Closer(d, x)
  <2> HIDE DEF c, catches, all
  <2>1. found.block = H[c.of][c.place] /\ \A d \in all : catches(d) => ~Closer(d, c)
    BY <1>9, <1>10
  <2> QED
    BY <1>9, <2>1
<1> QED
  BY <1>11, Zenon DEF IsClosest, handlers, found, H, K

(* The endpoint of a request's route and the api it is part of. *)
LEMMA EndpointOfRoute ==
    ASSUME NEW server, IsServed(server), NEW r \in EndpointRoutes(server), r.block # CatchAll
    PROVE  LET api == ParentAPI(server, r)
           IN  /\ api = << >> \/ \E a : api = <<a>> /\ IsList(BlocksOfType(a, "error_handler"))
               /\ HandlersOf(server, r.block) = Standing(api, r.block)
<1> DEFINE apis == {a \in ToSet(APIs(server)) : r.block \in Endpoints(a)}
           api  == ParentAPI(server, r)
<1>0. \A k, p, b, c : /\ Route(k, p, b, c).kind = k /\ Route(k, p, b, c).block = b
                      /\ Route(k, p, b, c).pattern = p
  BY DEF Route
<1>1. /\ HandlersOf(server, r.block).endpoint = BlocksOfType(r.block, "error_handler")
      /\ HandlersOf(server, r.block) =
            [endpoint |-> BlocksOfType(r.block, "error_handler"),
             api      |-> IF apis = {} THEN << >> ELSE BlocksOfType(CHOOSE a \in apis : TRUE, "error_handler")]
  BY DEF HandlersOf
<1>2. CASE \E e \in Endpoints(server) :
               r = Route("endpoint", JoinOpenAPIPath(SrvBasePath(server), e.labels[1]), e, AccessControls(<<server, e>>))
  <2>1. r.kind = "endpoint" /\ r.block \in Endpoints(server)
    BY <1>0, <1>2
  <2>2. apis = {}
    BY <2>1 DEF IsServed
  <2>3. api = << >>
    BY <2>1 DEF ParentAPI
  <2> QED
    BY <1>1, <2>2, <2>3 DEF Standing
<1>3. CASE r \in CatchAllRoutes(server)
  <2>1. PICK base \in CaughtBasePaths(server) : r = CatchAllRoute(server, base)
    BY <1>3 DEF CatchAllRoutes
  <2> QED
    BY <1>0, <2>1 DEF CatchAllRoute
<1>4. CASE \E a \in ToSet(APIs(server)) : \E e \in Endpoints(a) :
               r = Route("api", JoinOpenAPIPath(APIBasePath(server, a), e.labels[1]), e, AccessControls(<<server, a, e>>))
  <2>1. PICK a \in ToSet(APIs(server)) : \E e \in Endpoints(a) :
               r = Route("api", JoinOpenAPIPath(APIBasePath(server, a), e.labels[1]), e, AccessControls(<<server, a, e>>))
    BY <1>4
  <2>2. /\ r.kind = "api" /\ r.block \in Endpoints(a)
        /\ JoinOpenAPIPath(APIBasePath(server, a), r.block.labels[1]) = r.pattern
    BY <1>0, <2>1
  <2>3. \A b \in ToSet(APIs(server)) : r.block \in Endpoints(b) => a = b
    BY <2>1, <2>2 DEF IsServed
  <2> DEFINE list == APIs(server)
             parent(b) == /\ r.block \in Endpoints(b)
                          /\ JoinOpenAPIPath(APIBasePath(server, b), r.block.labels[1]) = r.pattern
             I == {i \in 1 .. Len(list) : parent(list[i])}
  <2>4. api = <<list[IF I # {} THEN Min(I) ELSE 0]>>
    BY <2>2 DEF ParentAPI, SelectInSeq
  <2>5. I \subseteq Nat /\ I # {}
    <3>1. PICK i \in DOMAIN list : a = list[i]
      BY <2>1 DEF ToSet
    <3>2. DOMAIN list = 1 .. Len(list) /\ Len(list) \in Nat
      BY DEF IsServed, IsList
    <3>3. i \in I
      BY <2>2, <3>1, <3>2
    <3> QED
      BY <3>2, <3>3
  <2>6. Min(I) \in I
    BY <2>5, Least
  <2>7. api = <<a>>
    <3>1. list[Min(I)] \in ToSet(list) /\ r.block \in Endpoints(list[Min(I)])
      <4>1. DOMAIN list = 1 .. Len(list)
        BY DEF IsServed, IsList
      <4> QED
        BY <2>6, <4>1 DEF ToSet
    <3> HIDE DEF I, list
    <3> QED
      BY <2>3, <2>4, <2>5, <3>1 DEF list
  <2>8. apis = {a}
    BY <2>1, <2>2, <2>3
  <2>9. IsList(BlocksOfType(a, "error_handler"))
    BY <2>1 DEF IsServed
  <2> HIDE DEF apis, api
  <2>10. (CHOOSE b \in apis : TRUE) = a
    BY <2>8
  <2> QED
    BY <1>1, <2>7, <2>8, <2>9, <2>10 DEF Standing, api
<1> QED
  BY <1>2, <1>3, <1>4, Zenon DEF EndpointRoutes

(* Whoever is answered by an endpoint has found its route. *)
LEMMA EndpointIsRouted ==
    ASSUME NEW server, IsServed(server), NEW path, FindHandler(server, path).by \in {"endpoint", "api"}
    PROVE  FindHandler(server, path).route \in EndpointRoutes(server)
<1> DEFINE E == Matching(EndpointRoutes(server), path)
           F == Matching(FileRoutes(server), path)
           S == Matching(SPARoutes(server), path)
<1>0. \A r : ByRoute(r).by = r.kind /\ ByRoute(r).route = r
  BY DEF ByRoute, Answer
<1>1. E \subseteq EndpointRoutes(server) /\ F \subseteq FileRoutes(server) /\ S \subseteq SPARoutes(server)
  BY DEF Matching
<1>2. CASE E # {}
  BY <1>0, <1>1, <1>2, FirstServed, EndpointFound
<1>3. CASE E = {}
  <2>0. \A k, p, b, c : Route(k, p, b, c).kind = k
    BY DEF Route
  <2>1. ASSUME NEW r \in FileRoutes(server) PROVE r.kind = "files"
    <3>1. \E f \in ToSet(BlocksOfType(server, "files")) :
              r = Route("files", SiteBasePath(server, f), f, AccessControls(<<server, f>>))
      BY DEF FileRoutes
    <3> QED
      BY <2>0, <3>1
  <2>2. ASSUME NEW r \in SPARoutes(server) PROVE r.kind = "spa"
    <3> DEFINE pattern(s, p) == IF p = CatchAllPattern THEN Named(SrvBasePath(server) \o BasePath(s)) \o p
                                ELSE Join(Join(SrvBasePath(server), BasePath(s)), p)
               R(s) == {Route("spa", pattern(s, p), s, AccessControls(<<server, s>>)) : p \in ToSet(s.attrs["paths"])}
    <3>1. ASSUME NEW s PROVE \A x \in R(s) : x.kind = "spa"
      <4> HIDE DEF pattern
      <4> QED
        BY <2>0
    <3>2. r \in UNION {R(s) : s \in ToSet(BlocksOfType(server, "spa"))}
      BY Zenon DEF SPARoutes
    <3> HIDE DEF R
    <3> QED
      BY <3>1, <3>2
  <2>3. \/ FindHandler(server, path) = Answer("api error", << >>, NoRoute)
        \/ F # {} /\ FindHandler(server, path) = ByRoute(First(F))
        \/ S # {} /\ FindHandler(server, path) = ByRoute(First(S))
        \/ FindHandler(server, path) = Answer("not found", << >>, NoRoute)
    BY <1>3, Zenon DEF FindHandler
  <2>4. (F # {} => First(F) \in FileRoutes(server)) /\ (S # {} => First(S) \in SPARoutes(server))
    BY <1>1, FirstServed
  <2>5. FindHandler(server, path).by \in {"api error", "files", "spa", "not found"}
    <3> HIDE DEF F, S
    <3>1. Answer("api error", << >>, NoRoute).by = "api error" /\ Answer("not found", << >>, NoRoute).by = "not found"
      BY DEF Answer
    <3>2. F # {} => ByRoute(First(F)).by = "files"
      BY <1>0, <2>1, <2>4
    <3>3. S # {} => ByRoute(First(S)).by = "spa"
      BY <1>0, <2>2, <2>4
    <3> QED
      BY <2>3, <3>1, <3>2, <3>3
  <2> QED
    BY <2>5
<1> QED
  BY <1>2, <1>3

-------------------------------------------------------------------------------
(* What an endpoint fails with                                             *)

(* An error has a list of kinds, and "*" is none.                          *)
NamesKinds(e) == IsList(e.kinds) /\ "*" \notin ToSet(e.kinds)

LEMMA SequencesAreLists == ASSUME NEW X, NEW s \in Seq(X) PROVE IsList(s)
<1>1. s = [i \in 1 .. Len(s) |-> s[i]] /\ Len(s) \in Nat /\ DOMAIN s = 1 .. Len(s)
  OBVIOUS
<1>2. \A i \in 1 .. Len(s) : s[i] \in ToSet(s)
  BY <1>1, Zenon DEF ToSet
<1>3. s \in [1 .. Len(s) -> ToSet(s)]
  BY <1>1, <1>2
<1> QED
  BY <1>1, <1>3 DEF IsList

LEMMA StatusOfError == \A kinds, status, s : Status(Err(kinds, status), s) = Err(kinds, s)
<1> SUFFICES ASSUME NEW kinds, NEW status, NEW s PROVE Status(Err(kinds, status), s) = Err(kinds, s)
  OBVIOUS
<1>1. [[kinds |-> kinds, status |-> status] EXCEPT !.status = s] = [kinds |-> kinds, status |-> s]
  OBVIOUS
<1> QED
  BY <1>1, Zenon DEF Err, Status

LEMMA KindedError ==
    ASSUME NEW kinds, IsList(kinds), "*" \notin ToSet(kinds), NEW status, NEW k, k # "*"
    PROVE  /\ NamesKinds(Err(kinds, status))
           /\ \E ks : Kind(Err(kinds, status), k) = Err(ks, status) /\ IsList(ks) /\ "*" \notin ToSet(ks)
<1>1. Err(kinds, status).kinds = kinds
  BY DEF Err
<1>2. Kind(Err(kinds, status), k) = Err(<<k>> \o kinds, status)
  <2> DEFINE ks == <<k>> \o kinds
  <2> HIDE DEF ks
  <2>1. [[kinds |-> kinds, status |-> status] EXCEPT !.kinds = ks] = [kinds |-> ks, status |-> status]
    OBVIOUS
  <2> QED
    BY <2>1, Zenon DEF Err, Kind, ks
<1>3. IsList(<<k>> \o kinds) /\ "*" \notin ToSet(<<k>> \o kinds)
  <2>1. kinds \in Seq(ToSet(kinds)) /\ <<k>> \in Seq({k})
    BY DEF IsList
  <2>2. <<k>> \o kinds \in Seq({k} \cup ToSet(kinds))
    BY <2>1
  <2> DEFINE l == <<k>> \o kinds
  <2>3. ToSet(l) \subseteq {k} \cup ToSet(kinds)
    <3> HIDE DEF l
    <3> QED
      BY <2>2 DEF ToSet, l
  <2>4. IsList(l)
    BY <2>2, SequencesAreLists
  <2> QED
    BY <2>3, <2>4
<1> QED
  BY <1>1, <1>2, <1>3 DEF NamesKinds

(* What the endpoint, its backends and its permission fail with. *)
LEMMA ErrorsNameKinds ==
    \A e \in {NoError, MethodNotAllowed, ConfigurationError, ServerError, UnexpectedStatus, InsufficientPermissions,
              BackendError, BackendTimeout, BackendUnhealthy, OpenapiValidation, Status(OpenapiValidation, 502)} :
        NamesKinds(e)
<1> DEFINE IsError(e) == \E ks, s : e = Err(ks, s) /\ IsList(ks) /\ "*" \notin ToSet(ks)
<1>1. /\ IsList(<< >>) /\ "*" \notin ToSet(<< >>)
      /\ \A k, l : IsList(<<k>>) /\ (k # "*" => "*" \notin ToSet(<<k>>))
                  /\ IsList(<<k, l>>) /\ (k # "*" /\ l # "*" => "*" \notin ToSet(<<k, l>>))
  BY DEF IsList, ToSet
<1>2. ASSUME NEW e, IsError(e) PROVE NamesKinds(e)
  BY <1>2, KindedError
<1>3. ASSUME NEW e, IsError(e), NEW k, k # "*" PROVE IsError(Kind(e, k))
  <2>1. PICK ks, s : e = Err(ks, s) /\ IsList(ks) /\ "*" \notin ToSet(ks)
    BY <1>3
  <2>2. \E l : Kind(Err(ks, s), k) = Err(l, s) /\ IsList(l) /\ "*" \notin ToSet(l)
    BY <1>3, <2>1, KindedError
  <2> QED
    BY <2>1, <2>2
<1>4. ASSUME NEW e, IsError(e), NEW s PROVE IsError(Status(e, s))
  BY <1>4, StatusOfError
<1>5. /\ IsError(NoError) /\ IsError(MethodNotAllowed) /\ IsError(ConfigurationError) /\ IsError(ServerError)
      /\ IsError(UnexpectedStatus) /\ IsError(BackendError) /\ IsError(AccessControlError)
  <2>1. \A s : /\ IsError(Err(<< >>, s))
              /\ \A k : k # "*" => IsError(Err(<<k>>, s))
              /\ \A l, m : l # "*" /\ m # "*" => IsError(Err(<<l, m>>, s))
    <3>1. \A ks, s : IsList(ks) /\ "*" \notin ToSet(ks) => IsError(Err(ks, s))
      OBVIOUS
    <3> HIDE DEF IsError
    <3> QED
      BY <1>1, <3>1
  <2> HIDE DEF IsError
  <2>2. IsError(NoError) /\ IsError(MethodNotAllowed) /\ IsError(ServerError)
    BY <2>1, Zenon DEF NoError, MethodNotAllowed, ServerError
  <2>3. \A s : /\ IsError(Err(<<"configuration">>, s)) /\ IsError(Err(<<"backend">>, s))
              /\ IsError(Err(<<"access_control">>, s))
    <3>1. "configuration" # "*" /\ "backend" # "*" /\ "access_control" # "*"
      OBVIOUS
    <3> QED
      BY <2>1, <3>1
  <2>4. IsError(ConfigurationError) /\ IsError(BackendError) /\ IsError(AccessControlError)
    BY <2>3, ZenonT(40) DEF ConfigurationError, BackendError, AccessControlError
  <2>5. \A s : IsError(Err(<<"unexpected_status", "endpoint">>, s))
    <3>1. "unexpected_status" # "*" /\ "endpoint" # "*"
      OBVIOUS
    <3> QED
      BY <2>1, <3>1
  <2>6. IsError(UnexpectedStatus)
    BY <2>5, Zenon DEF UnexpectedStatus
  <2> QED
    BY <2>2, <2>4, <2>6
<1> HIDE DEF IsError
<1>6. /\ IsError(InsufficientPermissions) /\ IsError(BackendTimeout) /\ IsError(BackendUnhealthy)
      /\ IsError(OpenapiValidation) /\ IsError(Status(OpenapiValidation, 502))
  BY <1>3, <1>4, <1>5 DEF InsufficientPermissions, BackendTimeout, BackendUnhealthy, OpenapiValidation
<1> QED
  BY <1>2, <1>5, <1>6

(* Who fails in front of the error handlers of an endpoint is the endpoint.*)
HandlerInv ==
    /\ stage = "endpoint" \/ (stage \in Late /\ failed = "") \/ failed \in {"permission", "endpoint"}
          => chain.kind = "endpoint"
    /\ NamesKinds(err)
    /\ failed \in {"permission", "endpoint"} => NamesKinds(ctxErr)
    /\ handler # NoHandler => failed # ""
    /\ handler # NoHandler /\ failed # "control" => handler = HandlerFor(chain.handlers, ctxErr)

LEMMA HandlerInit == Init => HandlerInv
  BY ErrorsNameKinds DEF Init, HandlerInv, Late

(* The route is known, and nobody has failed. *)
LEMMA HandlerKept ==
    ASSUME HandlerInv, UNCHANGED <<runtime, ctxErr, failed, handler>>, NamesKinds(err'),
           stage' = "endpoint" => stage = "endpoint" \/ chain.kind = "endpoint",
           stage' \in Late => stage \in Late \/ failed # "" \/ chain.kind = "endpoint"
    PROVE  HandlerInv'
  BY DEF HandlerInv, chain, NamesKinds

LEMMA HandlerNext == StageInv /\ HandlerInv /\ [Next]_vars => HandlerInv'
<1> SUFFICES ASSUME StageInv, HandlerInv, [Next]_vars PROVE HandlerInv'
  OBVIOUS
<1>0. NamesKinds(err)
  BY DEF HandlerInv
<1>1. CASE Configure
  <2>1. stage' \in {"accepted", "refused"} /\ UNCHANGED <<err, ctxErr, failed, handler>> /\ failed = "" /\ handler = NoHandler
    BY <1>1 DEF Configure, local, StageInv, Early
  <2> QED
    BY <1>0, <2>1 DEF HandlerInv, Late, NamesKinds
<1>2. CASE Receive
  BY <1>2, <1>0, HandlerKept DEF Receive, Ends, Late, NamesKinds
<1>3. CASE AnswerCORS
  BY <1>3, <1>0, HandlerKept DEF AnswerCORS, Ends, Late, NamesKinds
<1>4. CASE CheckControl
  <2>1. handler = NoHandler /\ failed = "" /\ UNCHANGED <<runtime, handler, err>>
    BY <1>4 DEF CheckControl, StageInv, Early
  <2>2. \/ stage' = "control" /\ failed' = ""
        \/ stage' = "error" /\ failed' = "control"
    BY <1>4, <2>1 DEF CheckControl, Failed
  <2> QED
    BY <1>0, <2>1, <2>2 DEF HandlerInv, Late, NamesKinds
<1>5. CASE CheckMethod
  <2>1. stage' \in {"none", "catch-all", "files", "spa", "end"} \/ (stage' = "endpoint" /\ chain.kind = "endpoint")
    BY <1>5, CompiledKind DEF CheckMethod, Ends, StageInv, chain
  <2> QED
    BY <1>5, <1>0, <2>1, HandlerKept DEF CheckMethod, Late, NamesKinds
<1>6. CASE CheckPermission
  <2>1. chain.kind = "endpoint" /\ handler = NoHandler /\ failed = "" /\ UNCHANGED <<runtime, handler, err>>
    BY <1>6 DEF CheckPermission, HandlerInv, StageInv, Early
  <2>2. \/ UNCHANGED <<ctxErr, failed>>
        \/ failed' = "permission" /\ ctxErr' \in {MethodNotAllowed, InsufficientPermissions}
    BY <1>6 DEF CheckPermission, Failed, PermissionsError
  <2>3. failed' = "permission" => NamesKinds(ctxErr')
    BY <2>1, <2>2, ErrorsNameKinds, ZenonT(40)
  <2> QED
    BY <1>0, <2>1, <2>2, <2>3 DEF HandlerInv, chain, NamesKinds
<1>7. CASE Site
  BY <1>7, <1>0, HandlerKept DEF Site, ServeSPA, ServeFile, CatchPath, Ends, Late, NamesKinds
<1>8. CASE Produce
  <2>1. NamesKinds(err')
    <3>1. err' \in {err, NoError, ConfigurationError, BackendUnhealthy, OpenapiValidation}
      BY <1>8 DEF Produce, Fails, Recovers, Ends, ProducerError, RequestError
    <3> QED
      BY <1>0, <3>1, ErrorsNameKinds
  <2> QED
    BY <1>8, <2>1, HandlerKept DEF Produce, Fails, Recovers, Ends, Late
<1>9. CASE Return
  <2>1. NamesKinds(err')
    <3>1. TripError \in {BackendTimeout, BackendError, Status(OpenapiValidation, 502), NoError}
      BY ZenonT(40) DEF TripError, CutError
    <3>2. \A p, o, r, b, s : AnswerError(p, o, r, b, s) \in
              {Status(OpenapiValidation, 502), ConfigurationError, UnexpectedStatus, ServerError, NoError}
      BY DEF AnswerError, ResponseError
    <3>3. err' \in {err, TripError} \/ \E p, o, r, b, s : err' = AnswerError(p, o, r, b, s)
      BY <1>9 DEF Return
    <3> QED
      BY <1>0, <3>1, <3>2, <3>3, ErrorsNameKinds
  <2> QED
    BY <1>9, <2>1, HandlerKept DEF Return, Late
<1>10. CASE HandleError
  <2>1. stage \in Late /\ UNCHANGED <<runtime, handler, err>>
    BY <1>10 DEF HandleError, Late
  <2>2. CASE stage' = "respond" /\ UNCHANGED <<ctxErr, failed>>
    BY <1>0, <2>1, <2>2, HandlerKept DEF NamesKinds
  <2>3. CASE handler = NoHandler /\ failed' = "endpoint" /\ ctxErr' = err
    <3>1. chain.kind = "endpoint"
      BY <2>1, <2>3 DEF HandlerInv, StageInv
    <3> QED
      BY <1>0, <2>1, <2>3, <3>1 DEF HandlerInv, chain, NamesKinds
  <2> QED
    BY <1>10, <2>2, <2>3 DEF HandleError, Failed, Main
<1>11. CASE SelectHandler
  <2>1. failed # "" /\ UNCHANGED <<runtime, failed, ctxErr, err>> /\ stage' \in {"end", "produce"}
    BY <1>11 DEF SelectHandler, Ends, StageInv
  <2>2. handler' = handler \/ handler' = HandlerFor(kindsHandler, ctxErr)
    BY <1>11 DEF SelectHandler
  <2>3. failed # "control" => kindsHandler = chain.handlers
    BY DEF kindsHandler
  <2> QED
    BY <1>0, <2>1, <2>2, <2>3 DEF HandlerInv, chain, NamesKinds
<1>12. CASE Respond
  BY <1>12, <1>0, HandlerKept DEF Respond, FailsAgain, Fails, Recovers, Ends, Late, NamesKinds
<1>13. CASE CopyBody
  BY <1>13, <1>0, HandlerKept DEF CopyBody, Ends, Late, NamesKinds
<1>14. CASE Trip
  BY <1>14, <1>0, HandlerKept DEF Trip, NamesKinds
<1>15. CASE UNCHANGED vars
  BY <1>15, <1>0, HandlerKept DEF vars, gvars, NamesKinds
<1> QED
  BY <1>1, <1>2, <1>3, <1>4, <1>5, <1>6, <1>7, <1>8, <1>9, <1>10, <1>11, <1>12, <1>13, <1>14, <1>15, Zenon DEF Next, Gate, Serve

(* The handlers of a route are those of its endpoint and its api.          *)
LEMMA HandlersOfRoute ==
    ASSUME ScenarioAssumption, StageInv, stage \notin {"start", "refused"}, chain.kind = "endpoint"
    PROVE  \E api, name :
               /\ chain.handlers = EndpointHandlers(api, chain.block, name)
               /\ api = << >> \/ \E a : api = <<a>> /\ IsList(BlocksOfType(a, "error_handler"))
               /\ IsList(BlocksOfType(chain.block, "error_handler"))
               /\ HandlersOf(Mux[1], chain.block) = Standing(api, chain.block)
<1> DEFINE server == Mux[1]
           path   == scene.request.path
           found  == FindHandler(server, path)
           api    == ParentAPI(server, found.route)
           name   == EndpointErrTpl(server, api, found.route.block)
<1>1. NoChain.kind = "none"
  BY DEF NoChain
<1>2. Mux = Muxers(scene) /\ chain = IF Mux = << >> THEN NoChain ELSE HandlerChain(scene.definitions, server, path)
  <2> DEFINE muxers == Muxers(scene)
             route  == IF muxers = << >> THEN NoChain ELSE HandlerChain(scene.definitions, muxers[1], path)
  <2>1. runtime = [mux |-> muxers, chain |-> route]
    BY DEF StageInv, Compiled
  <2> HIDE DEF muxers, route
  <2>2. Mux = muxers /\ chain = route
    BY <2>1 DEF Mux, chain
  <2> QED
    BY <2>2 DEF muxers, route
<1>3. Mux # << >> /\ chain = HandlerChain(scene.definitions, server, path)
  BY <1>1, <1>2
<1>4. IsServed(server)
  <2>1. Compiled(scene).mux = Mux
    BY DEF StageInv, Mux
  <2>2. IsScenario(scene) /\ ConfigurationProblems(scene.definitions, scene.servers) = {}
    BY RouteIsTyped DEF StageInv
  <2> QED
    BY <1>3, <2>1, <2>2 DEF IsScenario
<1> HIDE DEF server, path
<1>5. found.by \in {"endpoint", "api"} /\ chain = EndpointChain(scene.definitions, server, found)
  <2>1. CASE found.by \in {"endpoint", "api"}
    BY <1>3, <2>1 DEF HandlerChain
  <2>2. CASE found.by \in {"files", "spa"}
    <3>1. chain = SiteChain(server, found)
      BY <1>3, <2>2 DEF HandlerChain
    <3>2. chain.kind = found.by
      BY <3>1 DEF SiteChain, NoChain
    <3> QED
      BY <2>2, <3>2
  <2>3. CASE found.by \notin {"endpoint", "api", "files", "spa"}
    BY <1>1, <1>3, <2>3 DEF HandlerChain, NoChain
  <2> QED
    BY <2>1, <2>2, <2>3
<1>6. chain.block = found.route.block /\ found.route.block # CatchAll
  BY <1>5 DEF EndpointChain
<1>7. chain.handlers = EndpointHandlers(api, found.route.block, name)
  BY <1>5 DEF EndpointChain
<1>8. found.route \in EndpointRoutes(server)
  BY <1>4, <1>5, EndpointIsRouted
<1>9. IsList(BlocksOfType(found.route.block, "error_handler"))
  BY <1>4, <1>8 DEF IsServed
<1> HIDE DEF found, name, api
<1>10. /\ api = << >> \/ \E a : api = <<a>> /\ IsList(BlocksOfType(a, "error_handler"))
       /\ HandlersOf(server, found.route.block) = Standing(api, found.route.block)
  BY <1>4, <1>6, <1>8, EndpointOfRoute DEF api
<1> QED
  BY <1>6, <1>7, <1>9, <1>10 DEF server

LEMMA InvHandlerIsClosest == ScenarioAssumption /\ StageInv /\ HandlerInv => HandlerIsClosest
<1> SUFFICES ASSUME ScenarioAssumption, StageInv, HandlerInv, stage = "produce", handler # NoHandler, failed # "control"
             PROVE  IsClosest(handler.block, HandlersOf(Mux[1], chain.block), ctxErr.kinds)
  BY DEF HandlerIsClosest, Main
<1>1. /\ failed \in {"permission", "endpoint"} /\ handler = HandlerFor(chain.handlers, ctxErr)
      /\ chain.kind = "endpoint" /\ IsList(ctxErr.kinds) /\ "*" \notin ToSet(ctxErr.kinds)
  BY DEF HandlerInv, StageInv, NamesKinds
<1>2. PICK api, name :
          /\ chain.handlers = EndpointHandlers(api, chain.block, name)
          /\ api = << >> \/ \E a : api = <<a>> /\ IsList(BlocksOfType(a, "error_handler"))
          /\ IsList(BlocksOfType(chain.block, "error_handler"))
          /\ HandlersOf(Mux[1], chain.block) = Standing(api, chain.block)
  BY <1>1, HandlersOfRoute
<1> QED
  BY <1>1, <1>2, FoundIsClosest

(* newErrorHandler and Error.ServeHTTP: whatever super kinds and kinds the *)
(* error_handler blocks of an endpoint and of its api name, an error that  *)
(* the endpoint, its backends or its permission fail with runs the closest *)
(* of them.                                                                *)
THEOREM ClosestHandler == Spec => []HandlerIsClosest
<1>1. Init => StageInv /\ HandlerInv
  BY StageInit, HandlerInit
<1>2. StageInv /\ HandlerInv /\ [Next]_vars => StageInv' /\ HandlerInv'
  BY StageNext, HandlerNext
<1>3. StageInv /\ HandlerInv => HandlerIsClosest
  BY InvHandlerIsClosest, ScenarioAssumption
<1> QED
  BY <1>1, <1>2, <1>3, PTL DEF Spec
===============================================================================
