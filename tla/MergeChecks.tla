------------------------------ MODULE MergeChecks ------------------------------
(***************************************************************************)
(* Before files are merged: environment blocks are replaced by their       *)
(* contents or dropped (config/configload/environment.go), and what        *)
(* mergeDefinitions and mergeServers refuse (merge.go).                    *)
(***************************************************************************)
EXTENDS Merge, TLC

-------------------------------------------------------------------------------
(* environment.go                                                          *)

Environments(body) == BlocksOfType(body, "environment")

(* The blocks an environment block stands for: its own, once for every     *)
(* label that names the environment.                                       *)
Unwrapped(b, env) ==
    IF b.type # "environment"
    THEN <<b>>
    ELSE FlattenSeq([i \in DOMAIN b.labels |-> IF b.labels[i] = env THEN b.blocks ELSE << >>])

(* A block of the type environment that comes out of another environment   *)
(* block stays: only the blocks in it are looked at.                       *)
RECURSIVE Preprocessed(_, _)
Preprocessed(body, env) ==
    LET chosen == SelectSeq(Environments(body), LAMBDA b : env \in ToSet(b.labels))
        blocks == FlattenSeq([i \in DOMAIN body.blocks |-> Unwrapped(body.blocks[i], env)])
    IN  [body EXCEPT !.attrs  = MergedAttrs(chosen) @@ @,
                     !.blocks = [i \in DOMAIN blocks |-> Preprocessed(blocks[i], env)]]

RECURSIVE HasEnvironment(_, _)
HasEnvironment(body, env) ==
    \/ Environments(body) # << >>
    \/ \E b \in ToSet(body.blocks) : b.type # "environment" /\ HasEnvironment(b, env)

RECURSIVE HasUnlabelledEnvironment(_, _)
HasUnlabelledEnvironment(body, env) ==
    \/ \E b \in ToSet(Environments(body)) : b.labels = << >>
    \/ \E i \in DOMAIN body.blocks :
          \E b \in ToSet(Unwrapped(body.blocks[i], env)) : HasUnlabelledEnvironment(b, env)

-------------------------------------------------------------------------------
(* One definition of a backend per proxy, request and authorizer           *)

BackendDefinitions(b) ==
    Len(BlocksOfType(b, "backend")) + IF Has(b, "backend") THEN 1 ELSE 0

RECURSIVE MultipleBackendsInBackend(_)
MultipleBackendsInBackend(b) ==
    \E a \in ToSet(b.blocks) :
        /\ a.type \in {"oauth2", "beta_token_request"}
        /\ \/ BackendDefinitions(a) > 1
           \/ \E inner \in ToSet(BlocksOfType(a, "backend")) : MultipleBackendsInBackend(inner)

(* The code returns with the result of the first error_handler it meets:   *)
(* the blocks after it are not looked at.                                  *)
UpToErrorHandler(blocks) ==
    LET first == SelectInSeq(blocks, LAMBDA b : b.type = "error_handler")
    IN  IF first = 0 THEN blocks ELSE SubSeq(blocks, 1, first)

RECURSIVE MultipleBackends(_)
MultipleBackends(b) ==
    \E p \in ToSet(UpToErrorHandler(b.blocks)) :
        IF p.type = "error_handler"
        THEN MultipleBackends(p)
        ELSE /\ p.type \in {"proxy", "request"}
             /\ \/ BackendDefinitions(p) > 1
                \/ \E inner \in ToSet(BlocksOfType(p, "backend")) : MultipleBackendsInBackend(inner)

MultipleBackendsInDefinitions(bodies) ==
    \E d \in ToSet(Definitions(bodies)) :
        \/ BackendDefinitions(d) > 1
        \/ d.type = "backend" /\ MultipleBackendsInBackend(d)
        \/ \E i \in ToSet(d.blocks) : \/ i.type = "backend" /\ MultipleBackendsInBackend(i)
                                      \/ i.type = "error_handler" /\ MultipleBackends(i)

-------------------------------------------------------------------------------
(* Why mergeServers refuses the files. Two servers of one label in one of  *)
(* several files are an error; for api, spa and files blocks the set of    *)
(* the labels seen is made anew for every block, so that there the same    *)
(* check never finds one.                                                  *)
ServerProblems(bodies, proxies) ==
    LET servers   == AllOfType(bodies, "server")
        inAPIs    == SubBlocks(OfType(SubBlocks(servers), "api"))
        endpoints == ToSet(OfType(SubBlocks(servers) \o inAPIs, "endpoint"))
        handlers  == ToSet(OfType(inAPIs, "error_handler"))
    IN  {p \in {"unique labels", "multiple backends", "proxy not defined"} :
            CASE p = "unique labels" ->
                    \/ \E e \in endpoints : e.labels = << >>
                    \/ LabelTwice(bodies)
              [] p = "multiple backends" -> \E b \in endpoints \cup handlers : MultipleBackends(b)
              [] p = "proxy not defined" ->
                    \E e \in endpoints : Has(e, "proxy") /\ e.attrs["proxy"] \notin DOMAIN proxies}

MergeProblems(bodies) ==
    ServerProblems(bodies, Proxies(bodies))
    \cup IF MultipleBackendsInDefinitions(bodies) THEN {"multiple backends"} ELSE {}
===============================================================================
