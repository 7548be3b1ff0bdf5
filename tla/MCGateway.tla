------------------------------- MODULE MCGateway -------------------------------
(* Configurations and requests for TLC: tokens that are right and wrong,   *)
(* modifiers at every level, origins that answer late, packed or not at    *)
(* all, error handlers in endpoint and api, files and spas.                *)
EXTENDS Gateway

LexicalNames ==
    <<"", "**", "a", "api", "b", "form", "in", "index.html", "j", "n", "o", "r", "s", "spa", "u", "w", "x", "y", "z", "{id}">>

A(name, value) == name :> value
H(field, value) == field :> <<value>>

Secrets ==
    ("basic jane" :> [scheme |-> "basic", user |-> "jane", password |-> "pw"])
    @@ ("basic joe" :> [scheme |-> "basic", user |-> "joe", password |-> "pw"])
    @@ ("basic junk" :> [scheme |-> "malformed basic"])
    @@ [t \in {"right", "wrong role", "old", "forged", "plain", "a:b c", "a b:c", "d"} |-> [scheme |-> "bearer", text |-> t]]
    @@ ("login" :> [scheme |-> "pkce", text |-> "v"])

Claims(role) == H("sub", "s") @@ H("aud", "us") @@ H("role", role) @@ H("scope", "p") @@ H("group", "g")
Token(key, old, claims) == [alg |-> "HS256", kid |-> "1", key |-> key, expired |-> old, claims |-> claims]
IDToken(key, claims) == [alg |-> "RS256", kid |-> "1", key |-> key, expired |-> FALSE, claims |-> claims]
IDClaims == H("sub", "s") @@ H("iss", "op") @@ H("exp", "1") @@ H("iat", "1")

AllTokens ==
    ("right" :> Token("k", FALSE, Claims("admin"))) @@ ("wrong role" :> Token("k", FALSE, Claims("guest")))
    @@ ("old" :> Token("k", TRUE, Claims("admin"))) @@ ("forged" :> Token("l", FALSE, Claims("admin")))
    @@ ("id" :> IDToken("op", IDClaims @@ H("aud", "c") @@ H("nonce", "hash")))
    @@ ("other login" :> IDToken("op", IDClaims @@ H("aud", "c") @@ H("nonce", "other")))
    @@ ("no nonce" :> IDToken("op", IDClaims @@ H("aud", "c")))
    @@ ("two" :> IDToken("op", IDClaims @@ ("aud" :> <<"c", "d">>) @@ H("nonce", "hash")))
    @@ [t \in {"a:b c", "a b:c", "d"} |->
           Token("k", FALSE, CASE t = "a:b c" -> H("aud", "a:b") @@ H("iss", "c")
                               [] t = "a b:c" -> H("aud", "a") @@ H("iss", "b:c")
                               [] OTHER       -> H("aud", "d") @@ H("iss", "c"))]

WithColon == ("a:b" :> <<"a", "b">>) @@ ("b:c" :> <<"b", "c">>)

Assertion ==
    [key |-> "idp", issuer |-> "op", to |-> {"h"}, expired |-> FALSE, restrictions |-> {{"sp", "sq"}},
     attributes |-> ("mail" :> <<"m", "n">>)]
AllAssertions ==
    ("ours" :> Assertion) @@ ("to g" :> [Assertion EXCEPT !.to = {"g"}]) @@ ("old" :> [Assertion EXCEPT !.expired = TRUE])
    @@ ("for all" :> [Assertion EXCEPT !.restrictions = {}])
    @@ ("for others" :> [Assertion EXCEPT !.restrictions = {{"sp"}, {"sq"}}])
    @@ ("forged" :> [Assertion EXCEPT !.key = "l"]) @@ ("of others" :> [Assertion EXCEPT !.issuer = "oq"])

-------------------------------------------------------------------------------

Ops(del, set, add)  == [del |-> del, set |-> set, add |-> add]
OnRequest(ops)  == A("context", [NoContext EXCEPT !.request = ops])
OnResponse(ops) == A("context", [NoContext EXCEPT !.response = ops])
StatusTo(n)     == A("context", [NoContext EXCEPT !.status = n])
Public          == OnResponse(Ops({"Cache-Control"}, H("X-Level", "set"), << >>))

Off == A("timings", [ttfb |-> FALSE, timeout |-> FALSE])
TTFB == A("timings", [ttfb |-> TRUE, timeout |-> FALSE])
Deadline == A("timings", [ttfb |-> FALSE, timeout |-> TRUE])
Backend(attrs) == Block("backend", <<"b">>, A("origin", "o") @@ attrs, << >>)
Proxy(attrs, backend)   == Block("proxy", <<"default">>, attrs @@ A("backend", backend), << >>)
Request(attrs, backend) == Block("request", <<"default">>, attrs @@ A("backend", backend), << >>)
ResponseOf(attrs) == Block("response", << >>, attrs, << >>)
Ep(path, attrs, blocks) == Block("endpoint", <<path>>, attrs, blocks)
API(attrs, blocks)      == Block("api", << >>, attrs, blocks)
Server(attrs, blocks)   == Block("server", <<"s">>, A("hosts", <<[name |-> "h", port |-> 0]>>) @@ attrs, blocks)
OnError(kinds, attrs, blocks) == Block("error_handler", kinds, attrs, blocks)
AnswerWith(n) == ResponseOf(A("status", n) @@ A("body", 20))

Req(method, path, header) ==
    [host |-> "h", port |-> 8080, method |-> method, path |-> path, wildcard |-> << >>, isWildcard |-> FALSE,
     header |-> header, query |-> << >>, form |-> << >>, websockets |-> FALSE, length |-> 0]
Get0(path) == Req("GET", path, << >>)
Bearer(t) == H("Authorization", t)

Origin(status, header, length, gzips) ==
    [status |-> status, header |-> header, length |-> length, gzips |-> gzips, valid |-> TRUE]
Plain == Origin(200, << >>, 100, 0)

Settings == [secureCookies |-> "", xForwardedHost |-> FALSE, acceptID |-> "X-ID", healthPath |-> <<"healthz">>, shuttingDown |-> FALSE]
NoAnswer == [err |-> BackendTimeout, json |-> FALSE, status |-> 0, idToken |-> "", sub |-> ""]

Conf(definitions, server, answers) ==
    [definitions |-> definitions, servers |-> <<server>>, settings |-> Settings, answers |-> answers,
     tokenAnswers |-> {NoAnswer}, userinfoAnswers |-> {NoAnswer}]
Each(c, requests) == [i \in DOMAIN requests |-> c @@ [request |-> requests[i]]]

-------------------------------------------------------------------------------
(* An api behind a jwt, with CORS, permissions and modifiers everywhere.   *)
J == Block("jwt", <<"j">>,
        A("bearer", TRUE) @@ A("signature_algorithm", "HS256") @@ A("key", "k") @@ A("required_claims", <<"sub">>)
        @@ A("claims", H("aud", "us") @@ H("role", "admin"))
        @@ A("permissions_claim", "scope") @@ A("roles_claim", "group")
        @@ A("roles_map", ("g" :> <<"q">>) @@ ("*" :> <<"any">>))
        @@ A("permissions_map", ("p" :> <<"u">>) @@ ("u" :> <<"r">>) @@ ("r" :> <<"p">>)),
        <<OnError(<<"jwt_token_missing", "jwt_token_expired">>, StatusTo(407), << >>),
          OnError(<<"*">>, Public, <<AnswerWith(418)>>)>>)

CORS(credentials) ==
    Block("cors", << >>, A("allowed_origins", {"us.org"}) @@ A("allow_credentials", credentials) @@ A("max_age", "1"), << >>)
Anyone == Block("cors", << >>, A("allowed_origins", {"*"}), << >>)

Packed ==
    Origin(200, H("Content-Encoding", "gzip") @@ H("Cache-Control", "public") @@ H("Access-Control-Allow-Origin", "evil.org")
                @@ H("Access-Control-Allow-Credentials", "true") @@ ("Connection" :> <<"X-Hop", "close">>) @@ H("X-Hop", "1")
                @@ ("Set-Cookie" :> <<"cookie; Secure">>) @@ H("Keep-Alive", "1"), 100, 1)

Protected ==
    Conf(<<J>>,
         Server(Public,
            <<CORS(TRUE),
              API(A("base_path", <<"api">>) @@ A("access_control", <<"j">>) @@ Public,
                  <<OnError(<<"insufficient_permissions">>, NoAttrs, <<AnswerWith(403)>>),
                    Ep(<<"a">>, A("required_permission", [permissions |-> ("GET" :> "r") @@ ("POST" :> "w") @@ ("*" :> "any")])
                                @@ OnRequest(Ops({"X-Drop"}, H("X-Set", "1"), H("X-Add", "1"))) @@ A("buffers", {"response"}),
                       <<Proxy(Public, Backend(Off))>>),
                    Ep(<<"s">>, A("required_permission", [permission |-> "q"]) @@ A("disable_access_control", << >>),
                       <<Proxy(NoAttrs, Backend(Off))>>)>>)>>),
         {Plain, Packed})

Hop == ("Connection" :> <<"X-Trace", "keep-alive">>) @@ H("X-Trace", "1") @@ H("Te", "trailers") @@ H("Keep-Alive", "1")
Browser(t, origin) == Bearer(t) @@ H("Origin", origin) @@ H("Accept-Encoding", "gzip") @@ Hop

ProtectedRequests ==
    <<Req("GET", <<"api", "a">>, Browser("right", "us.org")), Req("GET", <<"api", "s">>, Browser("right", "evil.org")),
      Req("GET", <<"api", "a">>, Browser("wrong role", "us.org")), Req("GET", <<"api", "a">>, Browser("old", "evil.org")),
      Req("GET", <<"api", "a">>, Browser("forged", "us.org")), Req("PUT", <<"api", "a">>, Hop),
      Req("POST", <<"api", "a">>, Browser("right", "us.org")), Req("HEAD", <<"api", "x">>, Browser("right", "us.org")),
      Req("TRACE", <<"api", "a">>, Browser("right", "us.org")), Req("PUT", <<"api", "a">>, Browser("plain", "us.org")),
      Req("OPTIONS", <<"api", "a">>, H("Origin", "us.org") @@ H("Access-Control-Request-Method", "PUT")
                                     @@ H("Access-Control-Request-Headers", "X-A"))>>

-------------------------------------------------------------------------------
(* Other access controls.                                                  *)
Basic == Block("basic_auth", <<"b">>, A("user", "jane") @@ A("password", "pw")
                                      @@ A("htpasswd_file", <<[user |-> "joe", password |-> "px", hash |-> "md5"]>>), << >>)
Saml(acs) ==
    Block("saml", <<"s">>, A("certificates", <<"idp">>) @@ A("sp_entity_id", "sp") @@ A("issuer", "op") @@ A("sp_acs_url", acs)
                           @@ A("array_attributes", <<"mail", "none">>), << >>)

(* Two jwt blocks on routes of their own.                                  *)
Two(claims1, claims2) ==
    LET jwt(name, claims) ==
            Block("jwt", <<name>>, A("bearer", TRUE) @@ A("signature_algorithm", "HS256") @@ A("key", "k") @@ A("claims", claims), << >>)
        ep(name) == Ep(<<name>>, A("access_control", <<name>>), <<AnswerWith(200)>>)
    IN  Conf(<<jwt("j", claims1), jwt("o", claims2)>>, Server(NoAttrs, <<ep("j"), ep("o")>>), {})
For(aud, iss) == H("aud", aud) @@ H("iss", iss)
OAuth(type, attrs) ==
    Block(type, <<"o">>,
        A("client_id", "c") @@ A("client_secret", "x") @@ A("grant_type", "authorization_code") @@ A("redirect_uri", "r")
        @@ A("verifier_value", "pkce") @@ A("jwks", <<[kid |-> "1", use |-> "sig", alg |-> "", kty |-> "RSA", key |-> "op"]>>)
        @@ A("issuer", "op") @@ attrs, << >>)
Oidc   == OAuth("oidc", A("verifier_method", "nonce") @@ A("userinfo_endpoint", "u"))
OAuth2 == OAuth("beta_oauth2", A("verifier_method", "state") @@ A("token_endpoint_auth_method", "client_secret_post"))

Login(ac) ==
    [Conf(<<ac>>, Server(A("access_control", ac.labels), <<Anyone, Ep(<<"in">>, NoAttrs, <<AnswerWith(200)>>)>>), {})
        EXCEPT !.tokenAnswers = {NoAnswer} \cup {[NoAnswer EXCEPT !.err = NoError, !.json = TRUE, !.status = 200, !.idToken = t] :
                                                    t \in {"", "id", "other login", "no nonce", "two", "forged"}},
               !.userinfoAnswers = {NoAnswer} \cup {[NoAnswer EXCEPT !.err = NoError, !.json = TRUE, !.status = 200, !.sub = n] :
                                                       n \in {"s", "other"}}]
Callback(state) ==
    [Req("GET", <<"in">>, H("Cookie", "login") @@ H("Origin", "any.org")) EXCEPT !.query = H("code", "c") @@ state]

Sends(t) == [Req("POST", <<"in">>, << >>) EXCEPT !.form = H("SAMLResponse", t)]
TwoHosts(c) ==
    [c EXCEPT !.servers[1].attrs = A("hosts", <<[name |-> "h", port |-> 0], [name |-> "g", port |-> 0]>>) @@ @]

Logins ==
    Each(Login(Oidc), <<Callback(<< >>), Get0(<<"in">>)>>)
    \o Each(Login(OAuth2), <<Callback(H("state", "hash")), Callback(H("state", "other")), Req("POST", <<"in">>, << >>)>>)
    \o Each(Login(Basic), <<Req("GET", <<"in">>, Bearer("basic jane")), Req("GET", <<"in">>, Bearer("basic joe")),
                            Req("GET", <<"in">>, Bearer("basic junk")), Get0(<<"in">>)>>)
    \o Each(Login(Saml("h")), [i \in 1 .. 7 |-> Sends(<<"ours", "to g", "old", "for all", "for others", "forged", "of others">>[i])])
    \o Each(TwoHosts(Login(Saml(""))), <<Sends("ours"), Sends("to g"), [Sends("to g") EXCEPT !.host = "g"]>>)
    \o Each(Two(For("a:b", "c"), For("a:b", "c")), <<Req("GET", <<"j">>, Bearer("a:b c"))>>)
    \o Each(Two(For("d", "c"), For("d", "b:c")), <<Req("GET", <<"j">>, Bearer("d")), Req("GET", <<"o">>, Bearer("d"))>>)
    \o Each(Two(For("a:b", "c"), For("a", "b:c")), <<Req("GET", <<"j">>, Bearer("a:b c")), Req("GET", <<"j">>, Bearer("a b:c"))>>)

-------------------------------------------------------------------------------
(* Backends that are late or fail, and who handles that.                   *)
Failing(handlers, ownHandlers, producers, answers) ==
    Conf(<< >>, Server(NoAttrs, <<API(NoAttrs, handlers \o <<Ep(<<"a">>, NoAttrs, producers \o ownHandlers)>>)>>), answers)

ByTimeout == OnError(<<"backend_timeout">>, NoAttrs, <<AnswerWith(504)>>)
ByBackend == OnError(<<"backend">>, StatusTo(204), << >>)
ByAny     == OnError(<<"*">>, Public, <<Proxy(NoAttrs, Backend(Deadline))>>)
ByStatus  == OnError(<<"unexpected_status", "sequence">>, A("buffers", {"response"}), <<Proxy(NoAttrs, Backend(Off))>>)
Protect(ac, c) == [c EXCEPT !.definitions = <<ac>>, !.servers[1].attrs = A("access_control", ac.labels) @@ @]
ByNothing(p) == OnError(<<"backend">>, StatusTo(204), <<p>>)

Failures ==
    Each(Failing(<<ByAny>>, <<ByBackend, ByTimeout>>, <<Proxy(NoAttrs, Backend(NoAttrs))>>, {Plain}), <<Get0(<<"a">>)>>)
    \o Each(Failing(<<ByTimeout, ByAny>>, << >>, <<Proxy(NoAttrs, Backend(TTFB))>>, {Plain}), <<Get0(<<"a">>)>>)
    \o Each(Failing(<<ByBackend, ByTimeout>>, <<ByStatus>>,
                    <<Request(A("expected_status", {200}) @@ A("body", 10) @@ A("url", <<"r", "**">>),
                              Backend(Off @@ A("openapi", {<<"r", "**">>}) @@ A("basic_auth", "basic jane")))>>,
                    {Plain, Origin(500, << >>, 10, 0), [Plain EXCEPT !.valid = FALSE]}), <<Get0(<<"a">>)>>)
    \o Each(Protect(J, Failing(<<ByNothing(Request(A("expected_status", {200}), Backend(Off)))>>, << >>, <<Proxy(NoAttrs, Backend(Off))>>,
                    {Plain, Origin(500, << >>, 10, 0)})), <<Req("GET", <<"a">>, Bearer("right"))>>)
    \o Each(Protect(J, Failing(<<ByNothing(Proxy(NoAttrs, Backend(Off)))>>, << >>, <<Proxy(NoAttrs, Backend(Off))>>, {Plain})),
            <<Req("GET", <<"a">>, Bearer("right"))>>)
    \o Each(Failing(<<OnError(<<"access_control", "backend">>, StatusTo(503), << >>)>>, << >>,
                    <<Proxy(StatusTo(700), Backend(Off @@ A("path_prefix", <<"x", "">>)))>>, {Plain}), <<Get0(<<"a">>)>>)
    \o Each(Failing(<<OnError(<<"backend_unhealthy">>, StatusTo(503), << >>)>>, << >>,
                    <<Proxy(NoAttrs, Backend(Off @@ A("healthy", FALSE)))>>, {Plain}), <<Get0(<<"a">>)>>)

-------------------------------------------------------------------------------
(* Packed answers, forms, websockets and everything else.                  *)
Ws == Block("websockets", << >>, OnResponse(Ops({}, H("X-WS", "1"), << >>)), << >>)
Upgrade == ("Connection" :> <<"Upgrade">>) @@ H("Upgrade", "websocket")

Mixed(blocks, answers) == Conf(<< >>, Server(NoAttrs, blocks), answers)

Others ==
    Each(Mixed(<<Ep(<<"a">>, A("buffers", {"request"}) @@ A("request_body_limit", 20)
                             @@ A("context", [NoContext EXCEPT !.form = Ops({"f"}, << >>, H("g", "1")), !.path = <<"w", "**">>]),
                    <<Proxy(NoAttrs, Backend(Off @@ StatusTo(204)))>>)>>, {Packed}),
         <<[Req("POST", <<"a">>, H("Content-Type", "form")) EXCEPT !.length = 10, !.form = H("f", "1")],
           [Req("POST", <<"a">>, << >>) EXCEPT !.length = 30]>>)
    \o Each(Mixed(<<Ep(<<"a", "**">>, A("buffers", {"response"}),
                       <<Proxy(A("url", <<"o", "**">>), Backend(A("openapi", {<<"o", "x">>}) @@ TTFB))>>)>>, {Packed}),
            <<Req("GET", <<"a", "x">>, H("Accept-Encoding", "gzip")), Get0(<<"a", "y", "">>)>>)
    \o Each(Mixed(<<Ep(<<"a">>, NoAttrs, <<[Proxy(A("websockets", TRUE), Backend(Off)) EXCEPT !.blocks = <<Ws>>]>>)>>,
                  {Plain, Origin(101, Upgrade, 0, 0), Origin(101, ("Connection" :> <<"Upgrade">>) @@ H("Upgrade", "h2c"), 0, 0)}),
            <<Req("GET", <<"a">>, Upgrade)>>)
    \o Each(Mixed(<<Ep(<<"a">>, A("context", [NoContext EXCEPT !.path = <<"#">>]), <<AnswerWith(200)>>),
                    Ep(<<"b">>, NoAttrs, <<Request(A("method", "PUT"), Block("backend", <<"b">>, Off, << >>))>>),
                    Ep(<<"{id}">>, StatusTo(700), <<AnswerWith(200)>>)>>, {Plain}),
            <<Get0(<<"a">>), Get0(<<"b">>), Get0(<<"x">>), Get0(<<"healthz">>), Req("HEAD", <<"healthz">>, << >>),
              Req("GET", <<"x">>, H("X-ID", "#")), [Get0(<<"x">>) EXCEPT !.host = "g"], Get0(<<"x", "y">>)>>)

Docs ==
    Block("files", << >>, A("document_root", {<<"a">>, <<"b">>, <<"b", "index.html">>, <<"o">>, <<"x", "index.html">>}) @@ Public, << >>)
Spa  == Block("spa", << >>, A("paths", <<<<"s">>>>) @@ A("bootstrap_file", <<"spa", "index.html">>) @@ Public, << >>)
Sites0 ==
    [Mixed(<<Anyone, Docs, Spa>>, {}) EXCEPT !.settings.secureCookies = "strip", !.settings.xForwardedHost = TRUE,
                                             !.settings.shuttingDown = TRUE]
SiteRequests ==
    <<Req("GET", <<"o">>, H("Accept-Encoding", "gzip") @@ H("Origin", "any.org")), Get0(<<"x">>), Get0(<<"x", "">>), Get0(<<"z">>),
      Get0(<<"s">>), Req("POST", <<"s">>, << >>), Req("HEAD", <<"o">>, H("X-Forwarded-Host", "h")), Get0(<<"healthz">>)>>

Refused ==
    Conf(<<[J EXCEPT !.attrs = A("cookie", "c") @@ A("roles_claim", "r") @@ @],
           [Basic EXCEPT !.attrs = A("htpasswd_file", <<[user |-> "u", password |-> "", hash |-> "plain"]>>) @@ @],
           [Oidc EXCEPT !.attrs = A("token_endpoint_auth_method", "private_key_jwt") @@ @],
           [Saml("") EXCEPT !.attrs = A("certificates", <<"">>) @@ @]>>,
         Server(NoAttrs, <<[Spa EXCEPT !.attrs = A("bootstrap_data", "list") @@ @]>>), {})

AllScenarios ==
    Each(Protected, ProtectedRequests) \o Logins \o Failures \o Others
    \o Each(Sites0, SiteRequests) \o Each(Refused, <<Get0(<<"a">>)>>)

Hashes == ("v" :> "hash")
===============================================================================
