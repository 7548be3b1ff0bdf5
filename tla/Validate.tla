------------------------------- MODULE Validate -------------------------------
(***************************************************************************)
(* What the loader refuses (config/configload/validate.go and the checks   *)
(* of helper.go), as the set of reasons a body gives it: the code returns  *)
(* the first it finds. Endpoints are module ValidateServers'.              *)
(***************************************************************************)
EXTENDS Blocks, Paths

CONSTANT Reserved    \* names an access control must not have

AccessControlTypes == {"basic_auth", "beta_oauth2", "jwt", "oidc", "saml"}

Attr(b, name, default) == IF Has(b, name) THEN b.attrs[name] ELSE default

Repeated(seq) == \E i, j \in DOMAIN seq : i # j /\ seq[i] = seq[j]

LabelsOf(blocks) == [i \in DOMAIN blocks |-> blocks[i].labels[1]]

When(condition, reason) == IF condition THEN {reason} ELSE {}

-------------------------------------------------------------------------------
(* validateBody                                                            *)

validateBackendTLS(backend) ==
    LET tls == BlocksOfType(backend, "tls")
    IN  /\ Has(backend, "disable_certificate_validation")
        /\ tls # << >>
        /\ Has(tls[1], "server_ca_certificate") \/ Has(tls[1], "server_ca_certificate_file")

validateDefinitions(definitions, afterMerge) ==
    LET blocks   == definitions.blocks
        backends == BlocksOfType(definitions, "backend")
        acs      == SelectSeq(blocks, LAMBDA b : b.type \in AccessControlTypes)
        profiles == SelectSeq(blocks, LAMBDA b : \/ b.type = "jwt_signing_profile"
                                                 \/ b.type = "jwt" /\ Has(b, "signing_ttl"))
        proxies  == BlocksOfType(definitions, "proxy")
    IN  IF \E b \in ToSet(blocks) : b.labels = << >>
        THEN When(~afterMerge, "missing label")
        ELSE When(~afterMerge /\ Repeated(LabelsOf(backends)), "backend labels")
             \cup When(\E b \in ToSet(backends) : validateBackendTLS(b), "backend tls")
             \cup When(Repeated(LabelsOf(acs)), "access control labels")
             \cup When(~afterMerge /\ \E a \in ToSet(acs) : a.labels[1] \in Reserved, "reserved label")
             \cup When(Repeated(LabelsOf(profiles)), "signing profile labels")
             \cup When(~afterMerge /\ Repeated(LabelsOf(proxies)), "proxy labels")

checkPathSegments(path) == \E i \in DOMAIN path : path[i] \in {".", ".."}

BasePath(b) == Attr(b, "base_path", << >>)

(* The pattern of an endpoint is its label, a path; its place is the base  *)
(* path of the server and of the api it is in.                             *)
Patterns(server) ==
    LET base    == Join(BasePath(server), << >>)
        under(b, path) == LET eps == BlocksOfType(b, "endpoint")
                          IN  [i \in DOMAIN eps |-> Cleaned(JoinOpenAPIPath(path, eps[i].labels[1]))]
        apis    == BlocksOfType(server, "api")
    IN  under(server, base)
        \o FlattenSeq([i \in DOMAIN apis |-> under(apis[i], Join(base, BasePath(apis[i])))])

validateServer(server, afterMerge) ==
    LET apis   == ToSet(BlocksOfType(server, "api"))
        places == {server} \cup apis
        paths  == {BasePath(b) : b \in places}
                  \cup {e.labels[1] : e \in UNION {ToSet(BlocksOfType(b, "endpoint")) : b \in places}}
    IN  When(~afterMerge /\ \E p \in paths : checkPathSegments(p), "path segments")
        \cup When(Repeated(Patterns(server)), "duplicate endpoint")

validateBody(body, afterMerge) ==
    (UNION {validateDefinitions(d, afterMerge) : d \in ToSet(BlocksOfType(body, "definitions"))})
    \cup UNION {validateServer(s, afterMerge) : s \in ToSet(BlocksOfType(body, "server"))}

-------------------------------------------------------------------------------
(* references to access controls, permissions                              *)

DefinedACs(definitions) ==
    {b.labels[1] : b \in {d \in ToSet(definitions.blocks) : d.type \in AccessControlTypes}}

Referenced(b) ==
    ToSet(Attr(b, "access_control", << >>)) \cup ToSet(Attr(b, "disable_access_control", << >>))

checkReferencedAccessControls(b, defined) == When(~(Referenced(b) \subseteq defined), "access control not defined")

(* All endpoints of an api say which permission they require, or none: one *)
(* that disables access control may be silent.                             *)
checkPermissionMixedConfig(api) ==
    LET eps     == BlocksOfType(api, "endpoint")
        require == {e \in ToSet(eps) : Has(e, "required_permission")}
    IN  When(/\ ~Has(api, "required_permission")
             /\ Len(eps) >= 2
             /\ require # {}
             /\ \E e \in ToSet(eps) \ require : ~Has(e, "disable_access_control"),
             "mixed permissions")
===============================================================================
