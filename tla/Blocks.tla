-------------------------------- MODULE Blocks --------------------------------
(***************************************************************************)
(* Configuration blocks as the HCL parser returns them, and the helpers of *)
(* config/body that the loading code is built from. A body is a record     *)
(* with attributes and blocks; a block is a body with a type, labels and   *)
(* the place it was read from: the file, and the position in it.           *)
(***************************************************************************)
EXTENDS Integers, SequencesExt

CONSTANT Lexical    \* the names that are sorted, in lexical order

IsList(s) == s \in Seq(ToSet(s))

ASSUME LexicalAssumption == IsList(Lexical)

NoAttrs == << >>

Body(attrs, blocks) == [attrs |-> attrs, blocks |-> blocks]

BlockAt(file, position, type, labels, attrs, blocks) ==
    [type |-> type, labels |-> labels, attrs |-> attrs, blocks |-> blocks,
     file |-> file, position |-> position]

Block(type, labels, attrs, blocks) == BlockAt("", 0, type, labels, attrs, blocks)

Has(body, name) == name \in DOMAIN body.attrs

Without(attrs, name) == [n \in DOMAIN attrs \ {name} |-> attrs[n]]

(* The elements of a list at some of its indices, in their order.          *)
Picked(s, indices) ==
    LET picked[n \in 0 .. Len(s)] ==
            IF n = 0 THEN << >>
            ELSE IF n \in indices THEN Append(picked[n - 1], s[n]) ELSE picked[n - 1]
    IN  picked[Len(s)]

BlocksOfType(body, type) == Picked(body.blocks, {i \in DOMAIN body.blocks : body.blocks[i].type = type})

(* Keys are sequences of names; getSortedMapKeys orders them lexically.    *)
Names == ToSet(Lexical)

Rank(name) == CHOOSE i \in DOMAIN Lexical : Lexical[i] = name

Before(k, l) ==
    \E n \in 0 .. Len(k) :
        /\ n <= Len(l)
        /\ SubSeq(k, 1, n) = SubSeq(l, 1, n)
        /\ n < Len(l)
        /\ n < Len(k) => Rank(k[n + 1]) < Rank(l[n + 1])

(* The elements of a set in the order Lt; SetToSortSeq would look through  *)
(* the sequences of the set.                                               *)
Sorted(set, Lt(_, _)) ==
    [i \in 1 .. Cardinality(set) |->
        CHOOSE e \in set : Cardinality({f \in set : Lt(f, e)}) = i - 1]

SortedKeys(keys) == Sorted(keys, Before)

(* A map of attributes that every later block overwrites.                  *)
MergedAttrs(blocks) ==
    LET merged[n \in 0 .. Len(blocks)] ==
            IF n = 0 THEN NoAttrs
            ELSE LET attrs == blocks[n].attrs
                 IN  [a \in DOMAIN attrs \cup DOMAIN merged[n - 1] |->
                         IF a \in DOMAIN attrs THEN attrs[a] ELSE merged[n - 1][a]]
    IN  merged[Len(blocks)]

SubBlocks(blocks) == FlattenSeq([i \in DOMAIN blocks |-> blocks[i].blocks])
===============================================================================
