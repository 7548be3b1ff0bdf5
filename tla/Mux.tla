--------------------------------- MODULE Mux ----------------------------------
(***************************************************************************)
(* The mux of a running server (server/mux.go) as the requests meet it:    *)
(* its routes are fixed once the configuration has been accepted, and each *)
(* request is answered by the handler that is found for its path.          *)
(***************************************************************************)
EXTENDS Routing

CONSTANT RequestPaths    \* the paths that are asked for

ASSUME PathsAssumption == \A p \in RequestPaths : IsList(p) /\ p # << >>

VARIABLES
    request,    \* the server and the path that were asked for
    answer      \* the handler found

NoServer == Body(NoAttrs, << >>)

NobodyAsked ==
    /\ request = [server |-> NoServer, path |-> << >>]
    /\ answer = Answer("nobody", << >>, NoRoute)

(* ServeHTTP: a request for one of the servers.                            *)
Ask(served) ==
    \E s \in served, p \in RequestPaths :
        /\ request' = [server |-> s, path |-> p]
        /\ answer' = FindHandler(s, p)

MuxSpec(served) == NobodyAsked /\ [][Ask(served)]_<<request, answer>>

-------------------------------------------------------------------------------
(* Properties.                                                             *)

(* Whatever path is asked for at or below the base path of an api with     *)
(* access control that it does not share with files or an spa: an endpoint *)
(* answers, never an error page, a file or an spa in front of it, and the  *)
(* one that catches the unknown paths is guarded. What guards the others   *)
(* is what their own blocks say, and is not looked at here.                *)
UnknownPathsAreGuarded ==
    answer.by # "nobody" =>
        LET server == request.server
        IN  \A a \in ToSet(APIs(server)) :
                LET base == APIBasePath(server, a)
                IN  /\ AccessControls(<<server, a>>) # << >>
                    /\ base \notin {SiteBasePath(server, b) : b \in ToSet(Sites(server))}
                    /\ Below(base, request.path)
                    => /\ answer.by \in {"api", "endpoint"}
                       /\ answer.route.block = CatchAll => answer.controls # << >>

(* Patterns count their last slash as a segment, but are registered with   *)
(* and without it: "/{x}/" is longer than "/a" and takes it away from it.  *)
TakesWithoutSlash(pattern, path) ==
    Last(pattern) = "" /\ Len(pattern) > 1 /\ PathMatches(Front(pattern), path)

Literal(pattern) == \A i \in DOMAIN pattern : pattern[i] \notin Params \cup {"**"}

(* A request for the very path of an endpoint reaches this endpoint and no *)
(* other, however many patterns with parameters or wildcards match as      *)
(* well, unless one that ends in a slash takes the path without it.        *)
LiteralRouteAnswers ==
    answer.by # "nobody" =>
        LET routes == EndpointRoutes(request.server)
        IN  \A r \in routes :
                /\ r.pattern = request.path
                /\ Literal(r.pattern)
                /\ \A s \in routes : ~TakesWithoutSlash(s.pattern, request.path)
                => answer.route = r
===============================================================================
