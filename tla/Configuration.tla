---------------------------- MODULE Configuration -----------------------------
(***************************************************************************)
(* A configuration from its files to the handler of a request: LoadFiles   *)
(* and bodiesToConfig (config/configload/load.go), the steps of loadConfig *)
(* (helper.go) and NewServerConfiguration (config/runtime/server.go). Each *)
(* step refuses the configuration or hands it on.                          *)
(***************************************************************************)
EXTENDS MergeChecks, MergedFiles, Mux, ValidateServers, Backends

CONSTANTS
    Inputs,         \* the configurations: sequences of the bodies of files
    EnvSettings     \* values of COUPER_ENVIRONMENT, "" for none

VARIABLES
    files,    \* the files as they are parsed
    env,      \* the environment they are loaded for
    stage,    \* what has been done, or "refused", "crashed"
    why       \* the reasons for which the configuration may be refused

vars == <<files, env, bodies, conf, stage, why, request, answer, prepared>>

Init ==
    /\ files \in Inputs
    /\ env \in EnvSettings
    /\ NothingMerged
    /\ stage = "parsed"
    /\ why = {}
    /\ NobodyAsked
    /\ NothingPrepared

definitions == BlocksOfType(conf, "definitions")[1]
servers     == BlocksOfType(conf, "server")
settings    == BlocksOfType(conf, "settings")[1]

(* One step of loading: it refuses for some reason or hands on.            *)
Step(from, to, reasons) ==
    /\ stage = from
    /\ stage' = IF reasons = {} THEN to ELSE "refused"
    /\ why' = reasons

-------------------------------------------------------------------------------
(* LoadFiles: without an environment the settings may name one, and        *)
(* everything starts again; an error of the first attempt is forgotten.    *)
PreprocessProblems ==
    UNION {When(HasUnlabelledEnvironment(f, env), "environment label")
           \cup When(HasEnvironment(f, env) /\ env = "", "environment missing") : f \in ToSet(files)}

Preprocess ==
    LET processed == [i \in DOMAIN files |-> Preprocessed(files[i], env)]
        wanted    == Attr(mergeSettings(processed), "environment", "")
    IN  IF env = "" /\ wanted # ""
        THEN /\ stage = "parsed"
             /\ env' = wanted
             /\ UNCHANGED <<files, bodies, conf, stage, why, request, answer, prepared>>
        ELSE /\ Step("parsed", "preprocessed", PreprocessProblems)
             /\ ParsedFiles(processed)
             /\ UNCHANGED <<files, env, request, answer, prepared>>

(* bodiesToConfig.                                                         *)
ValidateFiles ==
    /\ Step("preprocessed", "valid", UNION {validateBody(b, FALSE) : b \in ToSet(bodies)})
    /\ UNCHANGED <<files, env, bodies, conf, request, answer, prepared>>

MergeFiles ==
    /\ Step("valid", "merged", MergeProblems(bodies))
    /\ IF MergeProblems(bodies) = {} THEN MergeBodies ELSE UNCHANGED <<bodies, conf>>
    /\ UNCHANGED <<files, env, request, answer, prepared>>

ValidateMerged ==
    /\ Step("merged", "checked", validateBody(conf, Len(bodies) > 1))
    /\ UNCHANGED <<files, env, bodies, conf, request, answer, prepared>>

-------------------------------------------------------------------------------
(* loadConfig                                                              *)

DefinedBackends ==
    LET backends == BlocksOfType(definitions, "backend")
    IN  [n \in {b.labels[1] : b \in ToSet(backends)} |->
            CHOOSE b \in ToSet(backends) : b.labels[1] = n]

(* configureDefinedBackends: the order of the maps decides whether Add     *)
(* meets a circle, and which missing backend is reported.                  *)
BackendProblems(result) ==
    When(result.circular, "circular reference")
    \cup When(~(ToSet(result.order) \subseteq DOMAIN DefinedBackends), "backend not defined")
    \cup UNION {AuthorizerProblems(DefinedBackends, b) : b \in Range(DefinedBackends)}

ConfigureBackends ==
    /\ stage = "checked"
    /\ IF \E b \in Range(DefinedBackends) : CollectsForever(b)
       THEN stage' = "crashed" /\ UNCHANGED <<why, prepared>>
       ELSE Prepare(DefinedBackends) /\ Step("checked", "backends", BackendProblems(prepared'))
    /\ UNCHANGED <<files, env, bodies, conf, request, answer>>

(* configureBlocks, configureJWTSigningProfile, configureSAML.             *)
DefinitionsProblems ==
    LET of(types) == {b \in ToSet(definitions.blocks) : b.type \in types}
    IN  UNION {PrepareProblems(DefinedBackends, b) : b \in of({"jwt", "oidc", "beta_oauth2"})}
        \cup UNION {configureErrorHandler(b) : b \in of(AccessControlTypes)}
        \cup When(\E p \in of({"jwt_signing_profile"}) : "alg" \in Attr(p, "headers", {}), "alg in headers")
        \cup When(\E s \in of({"saml"}) : ~Attr(s, "idp_metadata_file", FALSE), "saml metadata")

ConfigureDefinitions ==
    /\ Step("backends", "definitions", DefinitionsProblems)
    /\ UNCHANGED <<files, env, bodies, conf, request, answer, prepared>>

(* configureBindAddresses: up to the first "*", which stands for all. For  *)
(* an address that is none loadConfig returns another variable than the    *)
(* one that was set: a nil *Error that is no nil error, and the first call *)
(* of a method of it ends the program.                                     *)
Addresses == Attr(settings, "bind_address", <<"*">>)
Bound     == LET all == SelectInSeq(Addresses, LAMBDA a : a = "*")
             IN  ToSet(IF all = 0 THEN Addresses ELSE SubSeq(Addresses, 1, all))

ConfigureBindAddresses ==
    /\ stage = "definitions"
    /\ stage' = IF "invalid" \in Bound THEN "crashed" ELSE "addresses"
    /\ UNCHANGED <<files, env, bodies, conf, why, request, answer, prepared>>

ConfigureServers ==
    /\ Step("addresses", "servers",
            UNION {configureServer(s, DefinedACs(definitions)) : s \in ToSet(servers)}
            \cup UNION {PrepareProblems(DefinedBackends, u) :
                            u \in UNION {Users(s) : s \in ToSet(servers)}})
    /\ UNCHANGED <<files, env, bodies, conf, request, answer, prepared>>

ConfigureJobs ==
    LET jobs == {b \in ToSet(definitions.blocks) : b.type = "beta_job"}
    IN  /\ Step("servers", "loaded",
                When(\E j \in jobs : Attr(j, "interval", "invalid") = "invalid", "interval")
                \cup UNION {refineEndpoint(j, FALSE, {}) : j \in jobs}
                \cup When(servers = << >>, "missing server"))
        /\ UNCHANGED <<files, env, bodies, conf, request, answer, prepared>>

-------------------------------------------------------------------------------
(* NewServerConfiguration                                                  *)

(* Everything that uses a backend, in the definitions and in the servers.  *)
BackendUsers ==
    UNION {Users(b) : b \in ToSet(definitions.blocks) \cup ToSet(servers)}

RuntimeProblems ==
    When(\E u \in BackendUsers : /\ Reference(u) = "" /\ HasInline(u)
                                 /\ BlocksOfType(Inline(u), "beta_rate_limit") # << >>,
         "rate limit of an anonymous backend")
    \cup When(\E b \in Range(DefinedBackends) :
                BlocksOfType(b, "beta_health") # << >> /\ ~Has(b, "origin"), "missing origin")
    \cup HostProblems(servers)
    \cup UNION {RouteProblems(s) : s \in ToSet(servers)}

NewServerConfiguration ==
    /\ stage = "loaded"
    /\ IF Circle(prepared.refs)
       THEN stage' = "crashed" /\ UNCHANGED why
       ELSE Step("loaded", "running", RuntimeProblems)
    /\ UNCHANGED <<files, env, bodies, conf, request, answer, prepared>>

Request ==
    /\ stage = "running"
    /\ Ask(ToSet(servers))
    /\ stage' = "answered"
    /\ UNCHANGED <<files, env, bodies, conf, why, prepared>>

Next ==
    \/ Preprocess
    \/ ValidateFiles
    \/ MergeFiles
    \/ ValidateMerged
    \/ ConfigureBackends
    \/ ConfigureDefinitions
    \/ ConfigureBindAddresses
    \/ ConfigureServers
    \/ ConfigureJobs
    \/ NewServerConfiguration
    \/ Request

Spec == Init /\ [][Next]_vars

-------------------------------------------------------------------------------
(* Properties.                                                             *)

(* A configuration with an error is refused with the error ("invalid bind  *)
(* address given", helper.go), it does not end the program: in watch mode  *)
(* that would end the gateway that is running.                             *)
ErrorsAreReported == stage # "crashed"
===============================================================================
