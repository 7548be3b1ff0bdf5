-------------------------------- MODULE Paths ---------------------------------
(***************************************************************************)
(* URL paths as the sequence of their segments: "/" is <<"">>, "/a/b" is   *)
(* <<"a", "b">>, "/a/" is <<"a", "">>; a path that is not set is << >>.    *)
(* The joins of package path and of utils/path.go, and what a pattern of   *)
(* the router matches (server/mux.go, gorilla/mux).                        *)
(***************************************************************************)
EXTENDS Integers, SequencesExt

CONSTANT Params    \* the segments of patterns that are parameters, like "{id}"

Root == <<"">>

(* The segments that are not empty; named[i] are those of the first i.     *)
Taken(named, segment) == IF segment = "" THEN named ELSE Append(named, segment)

Named(path) ==
    LET named[i \in 0 .. Len(path)] == IF i = 0 THEN << >> ELSE Taken(named[i - 1], path[i])
    IN  named[Len(path)]

(* path.Join("/", p, q): no empty segments, no trailing slash.             *)
Join(p, q) == IF Named(p \o q) = << >> THEN Root ELSE Named(p \o q)

(* JoinOpenAPIPath: base has no trailing slash (it comes from Join). The   *)
(* pattern "/" adds nothing, no pattern at all adds a slash.               *)
JoinOpenAPIPath(base, pattern) ==
    CASE pattern = Root  -> base
      [] pattern = << >> -> IF base = Root THEN Root ELSE base \o Root
      [] OTHER           -> IF base = Root THEN pattern ELSE base \o pattern

Wildcard(pattern) == Last(pattern) = "**"

(* registerEndpointPattern: patterns that differ in the names of their      *)
(* parameters only are the same.                                           *)
Cleaned(pattern) == [i \in DOMAIN pattern |-> IF pattern[i] \in Params THEN "{}" ELSE pattern[i]]

(* A route of gorilla/mux: a path, or the prefix of paths (it ends in a    *)
(* slash). A parameter stands for one segment that is not empty.           *)
SegmentMatches(s, t) == s = t \/ (s \in Params /\ t # "")

PathMatches(path, req) ==
    Len(path) = Len(req) /\ \A i \in DOMAIN path : SegmentMatches(path[i], req[i])

PrefixMatches(prefix, req) ==
    /\ Len(req) >= Len(prefix)
    /\ \A i \in 1 .. Len(prefix) - 1 : SegmentMatches(prefix[i], req[i])

(* mustAddRoute: "/p/**" is registered as the path /p and the prefix /p/,  *)
(* every other pattern with and without a slash at its end.                *)
Matches(pattern, req) ==
    LET path    == IF Wildcard(pattern) THEN Front(pattern) ELSE pattern
        noSlash == IF path # << >> /\ Last(path) = "" THEN Front(path) ELSE path
    IN  \/ noSlash # << >> /\ PathMatches(noSlash, req)
        \/ IF Wildcard(pattern)
           THEN PrefixMatches(noSlash \o Root, req)
           ELSE PathMatches(noSlash \o Root, req)

(* matchesPath: the path itself, or below it.                              *)
Below(path, req) ==
    LET clean == Named(path)
    IN  /\ Len(req) >= Len(clean)
        /\ SubSeq(req, 1, Len(clean)) = clean
===============================================================================
