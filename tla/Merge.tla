-------------------------------- MODULE Merge ---------------------------------
(***************************************************************************)
(* Several configuration files become one body (configload/merge.go):      *)
(* blocks of the same label are merged, and what a later file defines      *)
(* replaces what an earlier one defined.                                   *)
(*                                                                         *)
(* The code keeps the apis of a server in a Go map and ranges over it      *)
(* unsorted: the order of the merged apis is arbitrary. Here it is the     *)
(* order of their labels; nothing but the choice among several errors      *)
(* depends on it.                                                          *)
(***************************************************************************)
EXTENDS Blocks

-------------------------------------------------------------------------------
(* The maps from keys to blocks that merging goes through                  *)

Label(b) == IF b.labels = << >> THEN << >> ELSE <<b.labels[1]>>

(* newErrorHandlerKey: a label may hold several kinds, so a label is a     *)
(* sequence of kinds and the key has all kinds of all labels, sorted.      *)
Kinds(b) == FlattenSeq(b.labels)
newErrorHandlerKey(b) == Sorted(DOMAIN Kinds(b), LAMBDA i, j :
                             Before(<<Kinds(b)[i]>>, <<Kinds(b)[j]>>) \/ (Kinds(b)[i] = Kinds(b)[j] /\ i < j))
(* Mutant of ErrorHandlerKey: the kinds are not sorted. *)
KindsAsWritten(b) == Kinds(b)

ErrorHandlerKey(b) == [i \in DOMAIN Kinds(b) |-> Kinds(b)[newErrorHandlerKey(b)[i]]]

(* The pattern of an endpoint is its label: a path, a sequence already.    *)
KeyOf(by, b) ==
    CASE by = "type"           -> <<b.type>>
      [] by = "label"          -> Label(b)
      [] by = "type and label" -> <<b.type, b.labels[1]>>
      [] by = "pattern"        -> b.labels[1]
      [] by = "kinds"          -> ErrorHandlerKey(b)

WithKey(blocks, by, key) == Picked(blocks, {i \in DOMAIN blocks : KeyOf(by, blocks[i]) = key})

(* The blocks of each key, in the order of the keys.                       *)
Grouped(blocks, by) ==
    LET keys == SortedKeys({KeyOf(by, b) : b \in ToSet(blocks)})
    IN  [i \in DOMAIN keys |-> WithKey(blocks, by, keys[i])]

OfType(blocks, type)  == Picked(blocks, {i \in DOMAIN blocks : blocks[i].type = type})
Others(blocks, types) == Picked(blocks, {i \in DOMAIN blocks : blocks[i].type \notin types})

(* A map that every later block of a key overwrites.                       *)
LastOfEach(blocks, by) ==
    LET groups == Grouped(blocks, by)
    IN  [i \in DOMAIN groups |-> Last(groups[i])]

-------------------------------------------------------------------------------
(* definitions, defaults and settings                                      *)

AllOfType(bodies, type) ==
    FlattenSeq([i \in DOMAIN bodies |-> BlocksOfType(bodies[i], type)])

Definitions(bodies) == SubBlocks(AllOfType(bodies, "definitions"))

mergeDefinitions(bodies) ==
    Block("definitions", << >>, NoAttrs,
          LastOfEach(Others(Definitions(bodies), {"proxy"}), "type and label"))

(* Proxies leave the definitions: an endpoint that refers to one gets the  *)
(* block, which is then labelled with its name attribute.                  *)
Proxies(bodies) ==
    LET defined == OfType(Definitions(bodies), "proxy")
        named(b) == [b EXCEPT !.labels = <<IF Has(b, "name") THEN b.attrs["name"] ELSE "default">>,
                              !.attrs  = Without(@, "name")]
    IN  [l \in {b.labels[1] : b \in ToSet(defined)} |->
            named(Last(Picked(defined, {i \in DOMAIN defined : defined[i].labels[1] = l})))]

(* Environment variables are merged one by one.                            *)
Variables(b) == [attrs |-> IF Has(b, "environment_variables") THEN b.attrs["environment_variables"] ELSE NoAttrs]

mergeDefaults(bodies) ==
    LET defaults == AllOfType(bodies, "defaults")
        vars     == MergedAttrs([i \in DOMAIN defaults |-> Variables(defaults[i])])
        attrs    == MergedAttrs(defaults)
    IN  Block("defaults", << >>,
              IF vars = NoAttrs THEN attrs
              ELSE [n \in DOMAIN attrs \cup {"environment_variables"} |->
                       IF n = "environment_variables" THEN vars ELSE attrs[n]], << >>)

mergeSettings(bodies) ==
    Block("settings", << >>, MergedAttrs(AllOfType(bodies, "settings")), << >>)

-------------------------------------------------------------------------------
(* servers                                                                 *)

addProxy(endpoint, proxies) ==
    IF Has(endpoint, "proxy")
    THEN [endpoint EXCEPT !.attrs  = Without(@, "proxy"),
                          !.blocks = Append(@, proxies[endpoint.attrs["proxy"]])]
    ELSE endpoint

(* Blocks of one label become one. In a single file nothing is merged:     *)
(* every block gets a key of its own.                                      *)
Groups(blocks, single) ==
    IF single THEN [i \in DOMAIN blocks |-> <<blocks[i]>>] ELSE Grouped(blocks, "label")

MergedBlock(group, inner) == [group[1] EXCEPT !.attrs = MergedAttrs(group), !.blocks = inner]

MergedAPI(proxies, blocks) ==
    LET endpoints == OfType(blocks, "endpoint")
    IN     LastOfEach(Others(blocks, {"endpoint", "error_handler"}), "type")
        \o LastOfEach([i \in DOMAIN endpoints |-> addProxy(endpoints[i], proxies)], "pattern")
        \o LastOfEach(OfType(blocks, "error_handler"), "kinds")

MergedAPIs(proxies, single, blocks) ==
    LET groups == Groups(blocks, single)
    IN  [i \in DOMAIN groups |-> MergedBlock(groups[i], MergedAPI(proxies, SubBlocks(groups[i])))]

(* spa and files *)
MergedSites(single, blocks) ==
    LET groups == Groups(blocks, single)
    IN  [i \in DOMAIN groups |-> MergedBlock(groups[i], LastOfEach(SubBlocks(groups[i]), "type"))]

(* Certificates without a label: those of the last tls block that has any  *)
(* of the type. Certificates with a label: the last of each label.         *)
Unlabelled(blocks) == Picked(blocks, {i \in DOMAIN blocks : blocks[i].labels = << >>})
Labelled(blocks)   == Picked(blocks, {i \in DOMAIN blocks : blocks[i].labels # << >>})

CertificatesOfLast(blocks, type) ==
    LET of(i) == OfType(Unlabelled(blocks[i].blocks), type)
    IN  of(Max({i \in DOMAIN blocks : of(i) # << >>}))

MergedTLS(blocks) ==
    LET types == SortedKeys({<<c.type>> : c \in ToSet(Unlabelled(SubBlocks(blocks)))})
    IN  IF blocks = << >> THEN << >>
        ELSE <<MergedBlock(blocks,
                   FlattenSeq([i \in DOMAIN types |-> CertificatesOfLast(blocks, types[i][1])])
                   \o LastOfEach(Labelled(SubBlocks(blocks)), "type and label"))>>

MergedServer(proxies, single, blocks) ==
    LET endpoints == OfType(blocks, "endpoint")
    IN     LastOfEach(Others(blocks, {"endpoint", "api", "spa", "files", "tls"}), "type")
        \o LastOfEach([i \in DOMAIN endpoints |-> addProxy(endpoints[i], proxies)], "pattern")
        \o MergedAPIs(proxies, single, OfType(blocks, "api"))
        \o MergedSites(single, OfType(blocks, "spa"))
        \o MergedSites(single, OfType(blocks, "files"))
        \o MergedTLS(OfType(blocks, "tls"))

mergeServers(bodies, proxies) ==
    LET single == Len(bodies) = 1
        groups == Groups(AllOfType(bodies, "server"), single)
    IN  [i \in DOMAIN groups |->
            MergedBlock(groups[i], MergedServer(proxies, single, SubBlocks(groups[i])))]

(* Two servers of one label in one of several files.                       *)
LabelTwice(bodies) ==
    /\ Len(bodies) > 1
    /\ \E f \in DOMAIN bodies :
        LET own == BlocksOfType(bodies[f], "server")
        IN  \E i, j \in DOMAIN own : i # j /\ Label(own[i]) = Label(own[j])

Merged(bodies) ==
    Body(NoAttrs, mergeServers(bodies, Proxies(bodies))
                  \o <<mergeDefinitions(bodies), mergeDefaults(bodies), mergeSettings(bodies)>>)
===============================================================================
