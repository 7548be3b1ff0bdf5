------------------------------- MODULE Controls -------------------------------
(***************************************************************************)
(* Access controls (package accesscontrol, oauth2): what each of them says *)
(* about a request, the permissions a JWT grants, and the permission and   *)
(* the methods a route asks for.                                           *)
(*                                                                         *)
(* A control is a block of the definitions. Claims have the form of a      *)
(* header: names with sequences of strings, a string being split at its    *)
(* blanks; "#" stands for what is neither a string nor a list of strings.  *)
(***************************************************************************)
EXTENDS Validate, Headers, ErrorKinds

CONSTANTS
    Credentials,   \* what an Authorization or Cookie field says: a scheme with a text, or a user and a password
    Tokens,        \* the JWTs: alg, kid, key (that signed it), expired, claims
    Assertions,    \* the SAML responses: key, issuer, to (the origins it is for), expired (as a proof of who sends
                   \* it), restrictions (sets of audiences, one of each has to be there), attributes
    Colons,        \* the texts that have a colon, with their parts
    Sha256         \* verifier values with their base64url encoded hash

RSAAndECDSA == {"RS256", "ES256"}
HMAC        == {"HS256"}
alg2kty     == [RS256 |-> "RSA", ES256 |-> "EC"]

(* What Validate leaves: an error, or what it adds to the request context. *)
Allowed(data, granted) == [err |-> NoError, data |-> data, granted |-> granted]
Denied(err) == [err |-> err, data |-> << >>, granted |-> {}]

TextOf(req, field, scheme) ==
    LET value == Get(req.header, field)
    IN  IF value \in DOMAIN Credentials /\ Credentials[value].scheme = scheme THEN Credentials[value].text ELSE ""

-------------------------------------------------------------------------------
(* jwt                                                                     *)

TokenSources(jwt) == {s \in {"bearer", "cookie", "header", "token_value"} : Has(jwt, s)}

(* token_value is an expression over the request, here a query parameter.  *)
TokenValue(jwt, req) ==
    IF Has(jwt, "cookie") THEN TextOf(req, "Cookie", jwt.attrs["cookie"])
    ELSE IF Has(jwt, "token_value") THEN Get(req.query, jwt.attrs["token_value"])
    ELSE IF Has(jwt, "header") /\ jwt.attrs["header"] # "Authorization" THEN Get(req.header, jwt.attrs["header"])
    ELSE TextOf(req, "Authorization", "bearer")

JWTProblems(jwt) ==
    When(Cardinality(TokenSources(jwt)) > 1, "token sources")
    \cup When(Has(jwt, "roles_claim") /\ ~Has(jwt, "roles_map"), "missing roles_map")
    \cup When(~Has(jwt, "jwks") /\ Attr(jwt, "signature_algorithm", "") \notin RSAAndECDSA \cup HMAC, "algorithm")

(* GetKey: of the keys with the id of the token the first that is for      *)
(* signatures of its algorithm, or of the kind of key the algorithm needs. *)
Suits(k, token) ==
    /\ k.kid = token.kid /\ k.use = "sig"
    /\ k.alg = token.alg \/ (k.alg = "" /\ token.alg \in DOMAIN alg2kty /\ k.kty = alg2kty[token.alg])

GetKey(jwks, token) ==
    {jwks[i].key : i \in {j \in DOMAIN jwks : Suits(jwks[j], token) /\ \A k \in 1 .. j - 1 : ~Suits(jwks[k], token)}}

getValidationKey(jwt, token) ==
    IF Has(jwt, "jwks") THEN GetKey(jwt.attrs["jwks"], token) ELSE {jwt.attrs["key"]}

Algorithms(jwt) == IF Has(jwt, "jwks") THEN RSAAndECDSA ELSE {jwt.attrs["signature_algorithm"]}

ExpectedClaims(jwt) == Attr(jwt, "claims", << >>)

(* parserConfig: what a parser asks of a token.                            *)
ParserConfig(algorithms, audience, issuer) ==
    [algorithms |-> algorithms, audience |-> audience, issuer |-> issuer]

Parser(jwt) ==
    ParserConfig(Algorithms(jwt), Get(ExpectedClaims(jwt), "aud"), Get(ExpectedClaims(jwt), "iss"))

(* A parser is kept under its texts with colons between them, and found by *)
(* whoever makes the same of his: a text may have colons of its own.       *)
Parts(text) == IF text \in DOMAIN Colons THEN Colons[text] ELSE <<text>>

(* Mutant of Key: the issuer is forgotten. *)
KeyWithoutIssuer(parser) == <<parser.algorithms, Parts(parser.audience)>>

Key(parser) == <<parser.algorithms, Parts(parser.audience) \o Parts(parser.issuer)>>

(* getParser: the memory store is shared by all jwt blocks. Whichever of   *)
(* them has come first has left its parser there, for an hour.             *)
KeptParsers(definitions, jwt) ==
    {Parser(d) : d \in {other \in ToSet(definitions) : other.type = "jwt" /\ Key(Parser(other)) = Key(Parser(jwt))}}

(* ParseWithClaims: signature first, then exp, aud and iss.                *)
ParseProblems(text, keys, parser) ==
    IF text \notin DOMAIN Tokens THEN {"malformed"}
    ELSE LET token == Tokens[text]
         IN  IF token.alg \notin parser.algorithms \/ token.key \notin keys THEN {"signature"}
             ELSE When(token.expired, "expired")
                  \cup When(parser.audience \notin {""} \cup ToSet(Values(token.claims, "aud")), "audience")
                  \cup When(parser.issuer \notin {"", Get(token.claims, "iss")}, "issuer")

validateClaims(jwt, claims) ==
    LET expected == ExpectedClaims(jwt)
    IN  /\ ToSet(Attr(jwt, "required_claims", << >>)) \cup DOMAIN expected \subseteq DOMAIN claims
        /\ \A c \in DOMAIN expected \ {"aud", "iss"} : claims[c] = expected[c]

StringsOf(value) == IF "#" \in ToSet(value) THEN {} ELSE ToSet(value) \ {""}

addPermissionsFromPermissionsClaim(jwt, claims) ==
    IF Has(jwt, "permissions_claim") THEN StringsOf(Values(claims, jwt.attrs["permissions_claim"])) ELSE {}

(* The role "*" of the map stands for every token that has the claim.      *)
addPermissionsFromRoles(jwt, claims) ==
    IF ~Has(jwt, "roles_claim") \/ jwt.attrs["roles_claim"] \notin DOMAIN claims THEN {}
    ELSE LET map   == jwt.attrs["roles_map"]
             roles == (StringsOf(claims[jwt.attrs["roles_claim"]]) \cup {"*"}) \cap DOMAIN map
         IN  (UNION {ToSet(map[r]) : r \in roles}) \ {""}

(* What the permissions_map has for the permissions of source.            *)
Mapped(jwt, source) ==
    LET map == Attr(jwt, "permissions_map", << >>)
    IN  (UNION {ToSet(map[p]) : p \in source \cap DOMAIN map}) \ {""}

AllMapped(jwt) == Mapped(jwt, DOMAIN Attr(jwt, "permissions_map", << >>))

(* Mutant of addMappedPermissions: what is mapped is not mapped again. *)
MappedOnce(jwt, granted) == granted \cup Mapped(jwt, granted)

(* What is added is mapped in turn until there is nothing to add. The code *)
(* goes on with each permission as it adds it, here all of them go on at   *)
(* once: every round but the last adds one, if there is one to add.        *)
addMappedPermissions(jwt, granted) ==
    LET rounds == Cardinality(AllMapped(jwt))
        target[n \in 0 .. rounds] ==
            IF n = 0 THEN granted ELSE target[n - 1] \cup Mapped(jwt, target[n - 1])
    IN  target[rounds]

getGrantedPermissions(jwt, claims) ==
    LET granted == addPermissionsFromPermissionsClaim(jwt, claims) \cup addPermissionsFromRoles(jwt, claims)
    IN  addMappedPermissions(jwt, granted)

ValidateJWT(jwt, req, parser) ==
    LET text     == TokenValue(jwt, req)
        problems == ParseProblems(text, getValidationKey(jwt, Tokens[text]), parser)
        claims   == Tokens[text].claims
    IN  IF text = "" THEN Denied(JWTError("jwt_token_missing"))
        ELSE IF "#" \in {Parser(jwt).audience, Parser(jwt).issuer} THEN Denied(ConfigurationError)
        ELSE IF "expired" \in problems THEN Denied(JWTError("jwt_token_expired"))
        ELSE IF problems # {} \/ ~validateClaims(jwt, claims) THEN Denied(JWTError("jwt_token_invalid"))
        ELSE Allowed(claims, getGrantedPermissions(jwt, claims))

-------------------------------------------------------------------------------
(* basic_auth                                                              *)

(* A line of the file is a user with a password, hashed in a known way.    *)
BasicAuthProblems(ba) ==
    LET lines == Attr(ba, "htpasswd_file", << >>)
    IN  When(\E i, j \in DOMAIN lines : i # j /\ lines[i].user = lines[j].user, "multiple user")
        \cup When(\E l \in ToSet(lines) : l.hash \notin {"apr1", "md5", "bcrypt"}, "algorithm not supported")

ValidateBasicAuth(ba, req) ==
    LET value == Get(req.header, "Authorization")
        given == Credentials[value]
        lines == Attr(ba, "htpasswd_file", << >>)
        own   == Attr(ba, "user", "") = given.user
        right == IF own /\ Has(ba, "password") THEN ba.attrs["password"] = given.password
                 ELSE \E l \in ToSet(lines) : l.user = given.user /\ l.password = given.password
    IN  IF value \notin DOMAIN Credentials \/ given.scheme \notin {"basic", "malformed basic"} THEN Denied(CredentialsMissing)
        ELSE IF given.scheme = "basic" /\ right THEN Allowed(Set(<< >>, "user", given.user), {})
        ELSE Denied(BasicAuthError)

-------------------------------------------------------------------------------
(* beta_oauth2 and oidc: the callback of the authorization code flow       *)

(* NewClient: how the client authenticates at the token endpoint.          *)
ClientProblems(client) ==
    LET method  == Attr(client, "token_endpoint_auth_method", "client_secret_basic")
        secret  == Attr(client, "client_secret", "")
        profile == BlocksOfType(client, "jwt_signing_profile")
        hasKey  == profile # << >> /\ Has(profile[1], "key")
        algo    == IF profile = << >> THEN "" ELSE Attr(profile[1], "signature_algorithm", "")
    IN  When(method \notin {"client_secret_basic", "client_secret_post", "client_secret_jwt", "private_key_jwt"}, "method")
        \cup When(Attr(client, "client_id", "") = "", "client_id")
        \cup When((secret = "") # (method = "private_key_jwt"), "client_secret")
        \cup When((profile # << >>) # (method \in {"client_secret_jwt", "private_key_jwt"}), "jwt_signing_profile")
        \cup When(profile # << >> /\ hasKey # (method = "private_key_jwt"), "key")
        \cup When(profile # << >> /\ (algo \in HMAC) # (method = "client_secret_jwt"), "signature algorithm")
        \cup When(profile # << >> /\ "alg" \in Attr(profile[1], "headers", {}), "alg")

AuthCodeProblems(client) ==
    When(Attr(client, "grant_type", "") # "authorization_code", "grant_type")
    \cup When(client.type = "beta_oauth2" /\ client.attrs["verifier_method"] \notin {"ccm_s256", "state"}, "verifier_method")
    \cup ClientProblems(client)

(* The provider answers: an error of the backend, or a status and, where   *)
(* the body is JSON, what it says.                                         *)
TokenResponseError(res) ==
    IF res.err # NoError THEN res.err
    ELSE IF ~res.json \/ res.status # 200 THEN Err(<< >>, 500) ELSE NoError

Hashed(client, verifier) == IF client.attrs["verifier_method"] = "ccm_s256" THEN "" ELSE Sha256[verifier]

(* ExchangeCodeAndGetTokenResponse up to the answer of the token endpoint. *)
Verifier(client, req) == TextOf(req, "Cookie", Attr(client, "verifier_value", ""))

MayExchange(client, req) ==
    /\ Get(req.query, "code") # ""
    /\ Has(client, "redirect_uri")
    /\ Verifier(client, req) # ""
    /\ client.attrs["verifier_method"] = "state" =>
          Get(req.query, "state") # "" /\ Get(req.query, "state") = Hashed(client, Verifier(client, req))

validateIDTokenClaims(client, claims, hashed) ==
    /\ {"sub", "exp", "iat"} \subseteq DOMAIN claims
    /\ "#" \notin ToSet(claims["sub"]) \cup ToSet(claims["iat"])
    /\ Len(Values(claims, "aud")) > 1 => "azp" \in DOMAIN claims
    /\ "azp" \in DOMAIN claims => claims["azp"] = <<client.attrs["client_id"]>>
    /\ client.attrs["verifier_method"] = "nonce" => Values(claims, "nonce") = <<hashed>>

IDTokenProblems(client, text) ==
    LET keys == GetKey(client.attrs["jwks"], Tokens[text])
    IN  ParseProblems(text, keys, ParserConfig(RSAAndECDSA, client.attrs["client_id"], client.attrs["issuer"]))

(* The userinfo endpoint is asked when there is one; sub has to be the     *)
(* same there.                                                             *)
UserinfoError(client, claims, res) ==
    IF ~Has(client, "userinfo_endpoint") THEN NoError
    ELSE IF res.err # NoError THEN With(Oauth2Error, With(Oauth2Error, res.err))
    ELSE IF ~res.json \/ res.status # 200 \/ res.sub # Get(claims, "sub") THEN With(Oauth2Error, Oauth2Error)
    ELSE NoError

(* OAuth2Callback.Validate; an oidc client checks the ID token as well.    *)
ValidateCallback(client, req, tokenRes, userinfoRes) ==
    LET verifier == Verifier(client, req)
        text     == tokenRes.idToken
        claims   == Tokens[text].claims
        userinfo == UserinfoError(client, claims, userinfoRes)
    IN  IF req.method # "GET" \/ ~MayExchange(client, req) THEN Denied(Oauth2Error)
        ELSE IF TokenResponseError(tokenRes) # NoError THEN Denied(With(Oauth2Error, TokenResponseError(tokenRes)))
        ELSE IF client.type = "beta_oauth2" THEN Allowed(Set(<< >>, "form", "token"), {})
        ELSE IF text = "" THEN Denied(With(Oauth2Error, Oauth2Error))
        ELSE IF IDTokenProblems(client, text) # {} THEN Denied(Oauth2Error)
        ELSE IF ~validateIDTokenClaims(client, claims, Hashed(client, verifier)) THEN Denied(With(Oauth2Error, Oauth2Error))
        ELSE IF userinfo # NoError THEN Denied(userinfo)
        ELSE Allowed(claims, {})

-------------------------------------------------------------------------------
(* saml                                                                    *)

SAMLProblems(saml) == When("" \in ToSet(saml.attrs["certificates"]), "metadata certificate")

(* An attribute of the list is an array, of any other the last value counts. *)
GetAssertionData(saml, attributes) ==
    LET arrays == ToSet(Attr(saml, "array_attributes", << >>))
    IN  [a \in arrays \cup DOMAIN attributes |->
            IF a \in arrays THEN Values(attributes, a) ELSE <<Last(attributes[a])>>]

(* The first request makes sp_acs_url absolute, for all that follow: a     *)
(* relative one ("") gets the origin of this request or of an earlier one. *)
(* Two first requests may write it at once, and leave a mixture of both,   *)
(* which is the URL of nobody.                                             *)
KeptOrigins(saml, origins) ==
    IF saml.attrs["sp_acs_url"] # "" THEN {saml.attrs["sp_acs_url"]}
    ELSE origins \cup When(Cardinality(origins) > 1, "mixture")

(* RetrieveAssertionInfo: who has signed it, for which URL, and until when *)
(* it proves that the sender is who it names. ValidateAssertionInfo looks  *)
(* at the audience; that the conditions of the assertion do not hold yet,  *)
(* or no more, is a warning nobody looks at.                               *)
AssertionProblems(saml, assertion, acs) ==
    When(assertion.key \notin ToSet(saml.attrs["certificates"]), "signature")
    \cup When(assertion.to # {acs}, "destination")
    \cup When(Attr(saml, "issuer", "") \notin {"", assertion.issuer}, "issuer")
    \cup When(assertion.expired, "expired")
    \cup When(\E r \in assertion.restrictions : saml.attrs["sp_entity_id"] \notin r, "audience")

ValidateSAML(saml, req, acs) ==
    LET text == Get(req.form, "SAMLResponse")
    IN  IF text \in DOMAIN Assertions /\ AssertionProblems(saml, Assertions[text], acs) = {}
        THEN Allowed(GetAssertionData(saml, Assertions[text].attributes), {})
        ELSE Denied(SamlError)

-------------------------------------------------------------------------------
(* Any control                                                             *)

ControlProblems(ac) ==
    CASE ac.type = "jwt"        -> JWTProblems(ac)
      [] ac.type = "basic_auth" -> BasicAuthProblems(ac)
      [] ac.type = "saml"       -> SAMLProblems(ac)
      [] OTHER                  -> AuthCodeProblems(ac)

(* What earlier requests have left for this one, where there is something. *)
Kept(definitions, origins, ac) ==
    CASE ac.type = "jwt"  -> KeptParsers(definitions, ac)
      [] ac.type = "saml" -> KeptOrigins(ac, origins)
      [] OTHER            -> {"nothing"}

ValidateControl(ac, req, kept, tokenRes, userinfoRes) ==
    CASE ac.type = "jwt"        -> ValidateJWT(ac, req, kept)
      [] ac.type = "basic_auth" -> ValidateBasicAuth(ac, req)
      [] ac.type = "saml"       -> ValidateSAML(ac, req, kept)
      [] OTHER                  -> ValidateCallback(ac, req, tokenRes, userinfoRes)

(* Only a jwt can ask for a private cache.                                 *)
DisablePrivateCaching(ac) == ac.type # "jwt" \/ Attr(ac, "disable_private_caching", FALSE)

-------------------------------------------------------------------------------
(* What a route asks for                                                   *)

DefaultFileSpaAllowedMethods  == {"GET", "HEAD"}
DefaultEndpointAllowedMethods == {"GET", "HEAD", "POST", "PUT", "PATCH", "DELETE", "OPTIONS"}

(* Nothing configured stands for the default, and so does "*" in the list. *)
AllowedMethods(methods, default) ==
    LET given == IF methods = << >> THEN default ELSE methods[1]
    IN  (given \ {"*"}) \cup (IF "*" \in given THEN default ELSE {})

(* A permission for all methods or one for each; "" asks for none.         *)
PermissionFor(required, method) ==
    IF "permission" \in DOMAIN required THEN <<required.permission>>
    ELSE LET map == required.permissions
         IN  IF method \in DOMAIN map THEN <<map[method]>>
             ELSE IF "*" \in DOMAIN map /\ method \in DefaultEndpointAllowedMethods THEN <<map["*"]>>
             ELSE << >>

PermissionsError(required, method, granted) ==
    LET p == PermissionFor(required, method)
    IN  IF p = << >> THEN MethodNotAllowed
        ELSE IF p[1] \in granted \cup {""} THEN NoError ELSE InsufficientPermissions
===============================================================================
