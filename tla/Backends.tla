------------------------------- MODULE Backends -------------------------------
(***************************************************************************)
(* The backends of a configuration: what the place that uses a backend    *)
(* gets (config/configload/backend.go), and which of them become one at    *)
(* runtime (config/runtime/backend.go). The order in which those of the    *)
(* definitions are prepared is module BackendOrder's.                      *)
(***************************************************************************)
EXTENDS BackendOrder

-------------------------------------------------------------------------------
(* PrepareBackend                                                          *)

(* getBackendReference: a backend block wins over the attribute.           *)
HasInline(block) == BlocksOfType(block, "backend") # << >>
Inline(block)    == BlocksOfType(block, "backend")[1]

Reference(block) ==
    IF HasInline(block)
    THEN IF Inline(block).labels = << >> THEN "" ELSE Inline(block).labels[1]
    ELSE IF Has(block, "backend") THEN block.attrs["backend"] ELSE ""

invalidRefinement(backend) ==
    \/ {"disable_certificate_validation", "disable_connection_reuse", "http2", "max_connections"}
         \cap DOMAIN backend.attrs # {}
    \/ backend.blocks # << >>

invalidOriginRefinement(defined, backend) ==
    Has(defined, "origin") /\ Has(backend, "origin") /\ defined.attrs["origin"] # backend.attrs["origin"]

(* defined: the backends of the definitions by name. What is anonymous may *)
(* have authorizers with backends in turn.                                 *)
RECURSIVE PrepareProblems(_, _), AuthorizerProblems(_, _)
PrepareProblems(defined, block) ==
    LET name == Reference(block)
    IN  CASE name = "" ->
                IF HasInline(block) THEN AuthorizerProblems(defined, Inline(block)) ELSE {}
          [] name # "" /\ name \notin DOMAIN defined -> {"backend not defined"}
          [] name # "" /\ name \in DOMAIN defined /\ HasInline(block) ->
                IF invalidRefinement(Inline(block)) \/ invalidOriginRefinement(defined[name], Inline(block))
                THEN {"refinement"} ELSE {}
          [] OTHER -> {}

AuthorizerProblems(defined, backend) ==
    LET names == [i \in DOMAIN BlocksOfType(backend, "beta_token_request") |->
                     LET t == BlocksOfType(backend, "beta_token_request")[i]
                     IN  IF t.labels = << >> THEN "default" ELSE t.labels[1]]
    IN  (IF Cardinality(ToSet(names)) < Len(names) THEN {"token request names"} ELSE {})
        \cup UNION {PrepareProblems(defined, a) : a \in ToSet(Authorizers(backend))}

-------------------------------------------------------------------------------
(* Runtime                                                                 *)

(* The blocks below b that use a backend, b included.                      *)
RECURSIVE Users(_)
Users(b) ==
    (IF b.type \in {"proxy", "request", "oauth2", "beta_token_request", "jwt", "oidc", "beta_oauth2"}
     THEN {b} ELSE {})
    \cup UNION {Users(s) : s \in ToSet(b.blocks)}
===============================================================================
