------------------------------ MODULE ErrorKinds ------------------------------
(***************************************************************************)
(* Errors (package errors) and the error_handler blocks that catch them:   *)
(* newErrorHandler (config/runtime/error_handler.go) makes a map from      *)
(* kinds to handlers, Error.ServeHTTP (handler/error.go) looks a kind up.  *)
(***************************************************************************)
EXTENDS Integers, SequencesExt

(* The kinds of an error, the most specific first, and its status.         *)
Err(kinds, status) == [kinds |-> kinds, status |-> status]
NoError == Err(<< >>, 0)

AccessControlError   == Err(<<"access_control">>, 403)
BackendError         == Err(<<"backend">>, 502)
ClientRequestError   == Err(<< >>, 400)
ConfigurationError   == Err(<<"configuration">>, 500)
MethodNotAllowed     == Err(<< >>, 405)
RouteNotFound        == Err(<< >>, 404)
ServerError          == Err(<< >>, 500)

Kind(err, kind)  == [err EXCEPT !.kinds = <<kind>> \o @]
Status(err, s)   == [err EXCEPT !.status = s]

BasicAuthError       == Status(Kind(AccessControlError, "basic_auth"), 401)
JWTError(kind)       == Kind(Status(Kind(AccessControlError, "jwt"), 401), kind)
Oauth2Error          == Kind(AccessControlError, "oauth2")
SamlError            == Kind(Kind(AccessControlError, "saml2"), "saml")
InsufficientPermissions == Kind(AccessControlError, "insufficient_permissions")
CredentialsMissing   == Kind(BasicAuthError, "basic_auth_credentials_missing")
OpenapiValidation    == Status(Kind(BackendError, "backend_openapi_validation"), 400)
BackendTimeout       == Status(Kind(BackendError, "backend_timeout"), 504)
BackendUnhealthy     == Kind(BackendError, "backend_unhealthy")
UnexpectedStatus     == Err(<<"unexpected_status", "endpoint">>, 502)

(* With: the kinds of the cause come first.                                *)
With(err, cause) == [err EXCEPT !.kinds = cause.kinds \o @]

-------------------------------------------------------------------------------
(* The kinds that a super kind stands for in an api or an endpoint. The    *)
(* super kinds themselves are looked up as well, "*" excepted.             *)

BackendKinds ==
    {"backend_openapi_validation", "beta_backend_rate_limit_exceeded", "backend_timeout",
     "beta_backend_token_request", "backend_unhealthy"}

SuperKindsOf(ref) ==
    CASE ref = "api"      -> {"backend", "access_control", "*"}
      [] ref = "endpoint" -> {"endpoint", "backend", "access_control", "*"}
      [] OTHER            -> {}

SubKinds(ref) ==
    LET ofAccess   == {"insufficient_permissions"}
        ofEndpoint == IF ref = "endpoint" THEN {"sequence", "unexpected_status"} ELSE {}
    IN  [super \in SuperKindsOf(ref) |->
            IF super = "backend" THEN BackendKinds
            ELSE IF super = "access_control" THEN ofAccess
            ELSE IF super = "endpoint" THEN ofEndpoint
            ELSE BackendKinds \cup ofAccess \cup ofEndpoint]

(* Mutant of Handle: a super kind takes its sub-kinds over. *)
TakeOver(m, kinds, h) == [k \in DOMAIN m \cup kinds |-> IF k \in kinds THEN h ELSE m[k]]

(* A super kind handles the sub-kinds that have no handler yet.            *)
Handle(m, kinds, h) == [k \in DOMAIN m \cup kinds |-> IF k \in DOMAIN m THEN m[k] ELSE h]

Expand(subs, m, super) ==
    IF super \notin DOMAIN subs \cap DOMAIN m THEN m
    ELSE LET all == Handle(m, subs[super], m[super])
         IN  IF super = "*" THEN [k \in DOMAIN all \ {"*"} |-> all[k]] ELSE all

(* The super kinds in reverse lexical order.                               *)
Expanded(ref, perKind) ==
    LET after(m, super) == Expand(SubKinds(ref), m, super)
    IN  after(after(after(after(perKind, "endpoint"), "backend"), "access_control"), "*")

(* The handlers of a block by the kinds they name; the last one counts.    *)
PerKind(handlers) ==
    LET naming(k) == {i \in DOMAIN handlers : k \in ToSet(handlers[i].kinds)}
    IN  [k \in UNION {ToSet(handlers[i].kinds) : i \in DOMAIN handlers} |-> handlers[Max(naming(k))]]

(* Every reference is a name and the error_handler blocks there; those of  *)
(* the later references override.                                          *)
newErrorHandler(references) ==
    LET of(i)      == Expanded(references[i].name, PerKind(references[i].handlers))
        setting(k) == {i \in DOMAIN references : k \in DOMAIN of(i)}
    IN  [k \in UNION {DOMAIN of(i) : i \in DOMAIN references} |-> of(Max(setting(k)))[k]]

NoHandler == [kinds |-> << >>]

(* Error.ServeHTTP                                                         *)
HandlerFor(kindsHandler, err) ==
    LET kinds == err.kinds \o <<"*">>
        first == {i \in DOMAIN kinds : /\ kinds[i] \in DOMAIN kindsHandler
                                      /\ \A j \in 1 .. i - 1 : kinds[j] \notin DOMAIN kindsHandler}
    IN  IF first = {} THEN NoHandler ELSE kindsHandler[kinds[CHOOSE i \in first : TRUE]]
===============================================================================
