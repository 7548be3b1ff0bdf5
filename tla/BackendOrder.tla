----------------------------- MODULE BackendOrder ------------------------------
(***************************************************************************)
(* The order in which the backends of the definitions are prepared:        *)
(* configureDefinedBackends and resolveBackendDeps (configload/helper.go), *)
(* with the items of config/sequence. The code ranges over Go maps, so     *)
(* every order of the names is possible wherever it does.                  *)
(***************************************************************************)
EXTENDS Blocks

Authorizers(backend) == BlocksOfType(backend, "oauth2") \o BlocksOfType(backend, "beta_token_request")

(* collectFromBlocks: the backends a backend's authorizers name.           *)
References(backend) ==
    LET names(a) == (IF Has(a, "backend") THEN <<a.attrs["backend"]>> ELSE << >>)
                    \o FlattenSeq([i \in DOMAIN BlocksOfType(a, "backend") |->
                                      BlocksOfType(a, "backend")[i].labels])
    IN  FlattenSeq([i \in DOMAIN Authorizers(backend) |-> names(Authorizers(backend)[i])])

AllReferences(backends) == [n \in DOMAIN backends |-> References(backends[n])]

(* For an authorizer in the backend of an authorizer the collection starts *)
(* again with all definitions, and so never ends.                          *)
CollectsForever(backend) ==
    \E a \in ToSet(Authorizers(backend)) :
        \E b \in ToSet(BlocksOfType(a, "backend")) : Authorizers(b) # << >>

-------------------------------------------------------------------------------
(* sequence.Item: parent, deps, and whether Add has panicked.              *)
NoName  == ""
NoItems == [parent |-> << >>, deps |-> << >>, circular |-> FALSE]

hasAncestor(parent, s, name) ==
    LET up[n \in 0 .. Cardinality(DOMAIN parent)] ==
            IF n = 0 THEN {s} ELSE {parent[i] : i \in up[n - 1] \cap DOMAIN parent}
    IN  \E n \in DOMAIN up : n > 0 /\ name \in up[n]

(* Add: an item has one parent, the last it was added to. What has no name *)
(* is not added.                                                           *)
AddItem(items, s, ref) ==
    LET parent == [n \in DOMAIN items.parent \cup {ref} |-> IF n = ref THEN s ELSE items.parent[n]]
        above  == hasAncestor(parent, s, ref)
        before == IF s \in DOMAIN items.deps THEN items.deps[s] ELSE << >>
        deps   == [n \in DOMAIN items.deps \cup {s} |-> IF n = s THEN Append(before, ref) ELSE items.deps[n]]
    IN  IF ref = NoName THEN items
        ELSE [parent |-> parent, circular |-> above, deps |-> IF above THEN items.deps ELSE deps]

(* The references of one backend, and of all, until Add panics.            *)
Added(items, name, references) ==
    LET added[j \in 0 .. Len(references)] ==
            IF j = 0 THEN items
            ELSE LET before == added[j - 1]
                 IN  IF before.circular THEN before ELSE AddItem(before, name, references[j])
    IN  added[Len(references)]

Linked(refs, order) ==
    LET linked[i \in 0 .. Len(order)] ==
            IF i = 0 THEN NoItems ELSE Added(linked[i - 1], order[i], refs[order[i]])
    IN  linked[Len(order)]

-------------------------------------------------------------------------------
(* resolveSequence: the item is seen, then what it depends on is resolved, *)
(* the last added first, by the same function, and then the item is. An    *)
(* item is seen once, so calls are at most as deep as there are items.     *)
ItemNames(refs) == DOMAIN refs \cup UNION {ToSet(refs[n]) : n \in DOMAIN refs}
Progress(refs)  == [seen : SUBSET ItemNames(refs), resolved : Seq(ItemNames(refs))]

ResolvedItem(deps, resolve, item, state) ==
    LET own == IF item \in DOMAIN deps THEN Reverse(deps[item]) ELSE << >>
        done[i \in 0 .. Len(own)] ==
            IF i = 0 THEN [state EXCEPT !.seen = @ \cup {item}]
            ELSE LET before == done[i - 1]
                 IN  IF own[i] \in before.seen THEN before ELSE resolve[<<own[i], before>>]
    IN  [done[Len(own)] EXCEPT !.resolved = Append(@, item)]

Resolved(refs, deps, name) ==
    LET resolve[depth \in 0 .. Cardinality(ItemNames(refs))] ==
            [call \in ItemNames(refs) \X Progress(refs) |->
                IF depth = 0 THEN call[2] ELSE ResolvedItem(deps, resolve[depth - 1], call[1], call[2])]
    IN  resolve[Cardinality(ItemNames(refs))][<<name, [seen |-> {}, resolved |-> << >>]>>].resolved

(* Of equal names the first.                                               *)
Unique(names) ==
    LET unique[n \in 0 .. Len(names)] ==
            IF n = 0 THEN << >>
            ELSE LET before == unique[n - 1]
                 IN  IF names[n] \in ToSet(before) THEN before ELSE Append(before, names[n])
    IN  unique[Len(names)]

(* Mutant of PrepareOrder: the backends are prepared as the map has them.  *)
InMapOrder(refs, deps, order, standalone) == standalone

(* Dependencies resolves every backend that refers to others; the others   *)
(* come after them.                                                        *)
PrepareOrder(refs, deps, order, standalone) ==
    Unique(FlattenSeq([i \in DOMAIN order |->
               IF refs[order[i]] = << >> THEN << >> ELSE Resolved(refs, deps, order[i])])
           \o standalone)

-------------------------------------------------------------------------------
VARIABLE prepared    \* refs: who refers to whom; circular: Add has panicked;
                     \* order: the names as they are prepared

NothingPrepared == prepared = [refs |-> << >>, circular |-> FALSE, order |-> << >>]

Orders(names) == {f \in [1 .. Cardinality(names) -> names] : ToSet(f) = names}

(* resolveBackendDeps.                                                     *)
Prepare(backends) ==
    \E order, standalone \in Orders(DOMAIN backends) :
        LET refs  == AllReferences(backends)
            items == Linked(refs, order)
        IN  prepared' = [refs     |-> refs,
                         circular |-> items.circular,
                         order    |-> IF items.circular THEN << >>
                                      ELSE PrepareOrder(refs, items.deps, order, standalone)]

PrepareSpec(backends) == NothingPrepared /\ [][Prepare(backends)]_prepared

(* newBackend makes the backends of the authorizers first: where everyone  *)
(* refers to someone there, it never ends.                                 *)
Circle(refs) == \E S \in SUBSET DOMAIN refs : S # {} /\ \A n \in S : ToSet(refs[n]) \cap S # {}

-------------------------------------------------------------------------------
(* Properties.                                                             *)

(* A backend is prepared after the backends its authorizers refer to       *)
(* (resolveBackendDeps: "Referenced ones need to be configured first"),    *)
(* whatever the order of the Go maps, unless they refer to each other in a *)
(* circle.                                                                 *)
ReferencedFirst ==
    LET order == prepared.order
        refs  == prepared.refs
    IN  ~Circle(refs) =>
            \A i \in DOMAIN order : order[i] \in DOMAIN refs =>
                \A r \in ToSet(refs[order[i]]) \ {NoName} : \E j \in 1 .. i - 1 : order[j] = r
===============================================================================
