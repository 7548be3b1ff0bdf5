-------------------------------- MODULE Gateway --------------------------------
(***************************************************************************)
(* A request on its way through Couper: ServeHTTP of the server            *)
(* (server/http.go), of the middlewares and handlers of its route, of the  *)
(* endpoint (handler/endpoint.go) and of its error handlers, down to the   *)
(* origin and back to the client.                                          *)
(*                                                                         *)
(* The configuration decides what the handlers are (module Chain), the     *)
(* origin, the identity provider, the timers and the client are free. The  *)
(* request to an origin takes as many steps as module RoundTrip gives it.  *)
(***************************************************************************)
EXTENDS Upstream, RoundTrip

CONSTANT Scenarios   \* configurations, each with a request: definitions, servers, settings, request,
                     \* answers of the origin, of the token endpoint and of the userinfo endpoint

VARIABLES
    scenario,   \* the number of the scenario
    stage,      \* the handler that is next
    runtime,    \* the muxes and the chain of handlers of the request
    w,          \* the response writer
    req,        \* the client's request, which the handlers change in place
    control,    \* the access control that is next
    context,    \* what the access controls have left in the context of the request, by name
    ctxErr,     \* request.Error in the context of the request
    failed,     \* who has handed ctxErr over: "control", "permission" or "endpoint"
    handler,    \* the error handler that runs, or NoHandler
    outreq,     \* what is sent to the origin
    beresp,     \* the answer of the producer, or of the endpoint once it is written
    err,        \* the error of the producer
    sent        \* << >>, or what the client has got

local == <<scenario, w, req, control, context, ctxErr, failed, handler, outreq, beresp, err, sent>>
gvars == <<scenario, stage, runtime, w, req, control, context, ctxErr, failed, handler, outreq, beresp, err, sent>>
vars  == <<gvars, trip>>

scene == Scenarios[scenario]
NoResponse == Response(0, << >>, 0, 0)

-------------------------------------------------------------------------------
(* The server and its route                                                *)

Host(c) == LET forwarded == Get(c.request.header, "X-Forwarded-Host")
           IN  IF c.settings.xForwardedHost /\ forwarded # "" THEN forwarded ELSE c.request.host

(* HTTPServer.ServeHTTP: the mux of the host, or that of every host.       *)
Muxers(c) ==
    LET of(host) == SelectSeq(c.servers, LAMBDA s : [name |-> host, port |-> c.request.port] \in PortHosts(s))
    IN  of(Host(c)) \o of("*")

(* The origins, told apart by their host, that a request may have come to, *)
(* this one or an earlier one: one of a server, or whatever somebody means *)
(* where a server takes any host or is chosen by X-Forwarded-Host.         *)
Origins(c) ==
    LET hosts == UNION {{h.name : h \in PortHosts(s)} : s \in ToSet(c.servers)}
        meant == UNION {Assertions[t].to : t \in DOMAIN Assertions}
    IN  {c.request.host} \cup (hosts \ {"*"}) \cup IF "*" \in hosts \/ c.settings.xForwardedHost THEN meant ELSE {}

(* NewServerConfiguration makes muxes of the servers and chains of their   *)
(* handlers: those this request meets.                                     *)
Compiled(c) ==
    LET muxers == Muxers(c)
    IN  [mux |-> muxers, chain |-> IF muxers = << >> THEN NoChain
                                   ELSE HandlerChain(c.definitions, muxers[1], c.request.path)]

-------------------------------------------------------------------------------
(* What is known of the scenarios: the types the evaluation of a           *)
(* configuration gives its values, and what the loader has refused before. *)

(* An endpoint or an error_handler.                                        *)
IsEndpoint(b) ==
    LET producers == ProducersOf(b)
        own       == BlocksOfType(b, "response")
    IN  /\ IsContext(Context(b))
        /\ producers # << >> => IsProducer(producers[1])
        /\ own # << >> => IsHeader(Attr(own[1], "headers", << >>))

(* The endpoint of a route and the error handlers of it and its controls.  *)
RouteBlocks(definitions, c) ==
    LET of(handlers) == {handlers[k].block : k \in DOMAIN handlers}
    IN  {c.block} \cup of(c.handlers)
        \cup UNION {of(ControlHandlers(definitions, n, c.template)) : n \in ToSet(c.controls)}

(* checkReferencedAccessControls: what a route names has a definition.     *)
IsChain(definitions, c) ==
    /\ c.controls \in Seq({d.labels[1] : d \in ToSet(definitions)})
    /\ c.modifiers \in Seq(ToSet(c.modifiers)) /\ \A ops \in ToSet(c.modifiers) : IsOps(ops)
    /\ \A b \in RouteBlocks(definitions, c) : IsEndpoint(b)

IsScenario(c) ==
    /\ DOMAIN c.request = RequestFields
    /\ \A h \in {c.request.header, c.request.query, c.request.form} : IsHeader(h)
    /\ \A a \in c.answers : DOMAIN a = {"status", "header", "length", "gzips", "valid"} /\ IsHeader(a.header)
    /\ \A d \in ToSet(c.definitions) : IsFiniteSet(AllMapped(d))
    /\ ConfigurationProblems(c.definitions, c.servers) = {} =>
          /\ IsChain(c.definitions, Compiled(c).chain)
          /\ Compiled(c).mux # << >> => IsServed(Compiled(c).mux[1])

ASSUME ScenarioAssumption ==
    /\ \A i \in DOMAIN Scenarios : IsScenario(Scenarios[i])
    /\ \A t \in DOMAIN Tokens : IsHeader(Tokens[t].claims)
    /\ \A t \in DOMAIN Assertions : "mixture" \notin Assertions[t].to

-------------------------------------------------------------------------------

Mux   == runtime.mux
chain == runtime.chain

(* What the ** of the route has matched.                                   *)
Routed(request) ==
    LET pattern == chain.pattern
        any     == pattern # << >> /\ Wildcard(pattern)
    IN  [request EXCEPT !.isWildcard = any,
                        !.wildcard = IF any THEN SubSeq(request.path, Len(pattern), Len(request.path)) ELSE << >>]

Main     == handler = NoHandler
block    == IF Main THEN chain.block ELSE handler.block
buffers  == IF Main THEN chain.buffers ELSE Attr(block, "buffers", {})
template == IF Main THEN chain.template ELSE handler.template
producer == ProducersOf(block)[1]
kindsHandler ==
    IF failed = "control" THEN ControlHandlers(scene.definitions, chain.controls[control], chain.template) ELSE chain.handlers

-------------------------------------------------------------------------------
(* Answers                                                                 *)

templateLength == 80

(* Template.WithError. The template of an error handler applies the        *)
(* modifiers of its block to the header.                                   *)
ErrorHeader(header, name, e, ops) ==
    LET type == IF name \in {"html", "json"} THEN name ELSE "text"
        code == IF e.kinds = << >> THEN "error" ELSE e.kinds[1]
    IN  applyHeaderOps(ops, Set(Set(header, "Content-Type", type), "Couper-Error", code))

Templated(writer, name, e, request, ops) ==
    Sent(WriteHeader(WithHeader(writer, ErrorHeader(writer.header, name, e, ops)), request, e.status),
         IF request.method = "HEAD" THEN 0 ELSE templateLength, 0)

Ends(answer) == stage' = "end" /\ sent' = answer

(* set_response_status 204 in an error handler: ApplyResponseContext is    *)
(* called without a request there, and panics once the header is changed.  *)
Panics == ~Main /\ Context(block).status = 204

(* The handler recovers. If there is a response all the same it returns,   *)
(* and nobody writes the header. If not, the template is called and panics *)
(* again, in the handler's caller: the endpoint recovers in turn and       *)
(* answers with its own template, elsewhere net/http closes the connection. *)
Recovers(e, responds) ==
    LET ops   == Context(block).response
        once  == ErrorHeader(w.header, template, e, ops)
        twice == ErrorHeader(once, template, ServerError, ops)
    IN  Ends(IF responds THEN <<Sent(WithHeader(w, once), 0, 0)>>
             ELSE IF failed # "endpoint" THEN << >>
             ELSE <<Templated(WithHeader(w, twice), chain.template, ServerError, req, NoOps)>>)

(* The template answers; responds: a producer has left a response.         *)
Fails(e, responds) ==
    IF Panics THEN Recovers(e, responds)
    ELSE Ends(<<Templated(w, template, e, req, IF Main THEN NoOps ELSE Context(block).response)>>)

-------------------------------------------------------------------------------
(* The server                                                              *)

(* NewServerConfiguration. A configuration with problems is not served.    *)
Configure ==
    /\ stage = "start"
    /\ IF ConfigurationProblems(scene.definitions, scene.servers) = {}
       THEN stage' = "accepted" /\ runtime' = Compiled(scene)
       ELSE stage' = "refused" /\ UNCHANGED runtime
    /\ UNCHANGED <<local, trip>>

(* The request id the client may set; "#" stands for one that is not valid. *)
InvalidUID(request) ==
    scene.settings.acceptID # "" /\ Get(request.header, scene.settings.acceptID) = "#"

(* Health.ServeHTTP                                                        *)
Healthy(writer) ==
    LET status == IF scene.settings.shuttingDown THEN 500 ELSE 200
    IN  Sent(WriteHeader(SetHeader(SetHeader(writer, "Cache-Control", "no-store"), "Content-Type", "text/plain"), req, status), 7, 0)

(* setGetBody: the limit counts for a body that is read before.            *)
BodyExceeds(request) ==
    "request" \in chain.buffers /\ request.method # "TRACE" /\ request.length > chain.limit

(* UID.ServeHTTP, HTTPServer.ServeHTTP                                     *)
Refusal(request) ==
    LET refuse(name, e) == <<Templated(w, name, e, request, NoOps)>>
    IN  IF InvalidUID(request) THEN refuse("html", ClientRequestError)
        ELSE IF Mux = << >> THEN refuse("html", ConfigurationError)
        ELSE IF request.path = scene.settings.healthPath
        THEN IF request.method = "GET" THEN <<Healthy(w)>> ELSE refuse("json", MethodNotAllowed)
        ELSE IF chain.kind = "none" THEN refuse(chain.template, RouteNotFound)
        ELSE IF BodyExceeds(request) THEN refuse(ServerErrTpl(Mux[1]), Status(ClientRequestError, 413))
        ELSE << >>

(* The first of these that is so is the answer.                            *)
Receive ==
    /\ stage = "accepted"
    /\ LET refusal == Refusal(req)
       IN  IF refusal # << >> THEN Ends(refusal) /\ UNCHANGED req
           ELSE stage' = "cors" /\ req' = Routed(req) /\ UNCHANGED sent
    /\ UNCHANGED <<scenario, runtime, w, control, context, ctxErr, failed, handler, outreq, beresp, err, trip>>

(* CORS.ServeHTTP                                                          *)
AnswerCORS ==
    /\ stage = "cors"
    /\ LET cors == chain.cors
           with == IF cors = << >> THEN w ELSE AddCORS(w, cors[1], chain.methods)
       IN  IF cors # << >> /\ isCorsPreflightRequest(req)
           THEN Ends(<<Sent(WriteHeader(with, req, 204), 0, 0)>>) /\ UNCHANGED w
           ELSE stage' = "control" /\ w' = with /\ UNCHANGED sent
    /\ UNCHANGED <<scenario, runtime, req, control, context, ctxErr, failed, handler, outreq, beresp, err, trip>>

Failed(by, e) ==
    /\ ctxErr' = e
    /\ failed' = by
    /\ stage' = "error"

(* AccessControl.ServeHTTP, one control of the list. The identity provider *)
(* may answer whatever it likes.                                           *)
CheckControl ==
    /\ stage = "control" /\ control <= Len(chain.controls)
    /\ LET ac == Definition(scene.definitions, chain.controls[control])
       IN  /\ w' = IF DisablePrivateCaching(ac) THEN w ELSE AddPrivateCC(w)
           /\ \E kept \in Kept(scene.definitions, Origins(scene), ac),
                 token \in scene.tokenAnswers, userinfo \in scene.userinfoAnswers :
                 LET verdict == ValidateControl(ac, req, kept, token, userinfo)
                 IN  IF verdict.err = NoError
                     THEN /\ context' = Put(context, chain.controls[control], verdict)
                          /\ control' = control + 1
                          /\ UNCHANGED <<stage, ctxErr, failed>>
                     ELSE Failed("control", verdict.err) /\ UNCHANGED <<context, control>>
    /\ UNCHANGED <<scenario, runtime, req, handler, outreq, beresp, err, sent, trip>>

(* AllowedMethodsHandler.ServeHTTP                                         *)
CheckMethod ==
    /\ stage = "control" /\ control > Len(chain.controls)
    /\ IF req.method \in chain.methods THEN stage' = chain.kind /\ UNCHANGED sent
       ELSE Ends(<<Templated(w, chain.template, MethodNotAllowed, req, NoOps)>>)
    /\ UNCHANGED <<scenario, runtime, w, req, control, context, ctxErr, failed, handler, outreq, beresp, err, trip>>

-------------------------------------------------------------------------------
(* Files, spa and the routes without an endpoint                           *)

NotFound == Templated(w, chain.template, RouteNotFound, req, NoOps)

(* http.ServeContent                                                       *)
Content(writer, length) ==
    <<Sent(WriteHeader(SetHeader(writer, "Content-Length", "own"), req, 200), IF req.method = "HEAD" THEN 0 ELSE length, 0)>>

(* Spa.ServeHTTP: the modifiers come first. The file may be gone by now,   *)
(* unless its content with the bootstrap data is held.                     *)
ServeSPA ==
    /\ stage = "spa"
    /\ LET with == AddModifiers(w, chain.modifiers)
       IN  \/ Ends(Content(with, Attr(block, "bootstrap", 60)))
           \/ /\ Attr(block, "bootstrap_data", "null") # "object"
              /\ Ends(<<Templated(with, chain.template, RouteNotFound, req, NoOps)>>)
    /\ UNCHANGED <<scenario, runtime, w, req, control, context, ctxErr, failed, handler, outreq, beresp, err, trip>>

(* File.ServeHTTP: a directory has a slash and an index.html.              *)
ServeFile ==
    /\ stage = "files"
    /\ LET base  == Named(SiteBasePath(Mux[1], block))
           below == SubSeq(req.path, Len(base) + 1, Len(req.path))
           with  == AddModifiers(w, chain.modifiers)
           root  == block.attrs["document_root"]
           index == Append(Named(below), "index.html")
       IN  IF Named(below) \in root THEN Ends(Content(with, 60))
           ELSE IF index \notin root \/ PreferSPA(Mux[1], Named(below)) THEN Ends(<<NotFound>>)
           ELSE IF below # << >> /\ Last(below) # ""
           THEN Ends(<<Sent(WriteHeader(SetHeader(with, "Location", "slash"), req, 302), 0, 0)>>)
           ELSE Ends(Content(with, 60))
    /\ UNCHANGED <<scenario, runtime, w, req, control, context, ctxErr, failed, handler, outreq, beresp, err, trip>>

CatchPath ==
    /\ stage = "catch-all"
    /\ Ends(<<NotFound>>)
    /\ UNCHANGED <<scenario, runtime, w, req, control, context, ctxErr, failed, handler, outreq, beresp, err, trip>>

-------------------------------------------------------------------------------
(* The endpoint                                                            *)

Granted == UNION {context[n].granted : n \in DOMAIN context}

(* PermissionsControl.Validate                                             *)
CheckPermission ==
    /\ stage = "endpoint"
    /\ LET e == IF chain.permission = << >> THEN NoError ELSE PermissionsError(chain.permission[1], req.method, Granted)
       IN  IF e = NoError THEN stage' = "produce" /\ UNCHANGED <<ctxErr, failed>> ELSE Failed("permission", e)
    /\ UNCHANGED <<scenario, runtime, w, req, control, context, handler, outreq, beresp, err, sent, trip>>

XFF == Get(scene.request.header, "X-Forwarded-For")

(* evalTransport: a timing that is not set has a default, 0s is none.      *)
Timings(backend) == Attr(backend, "timings", [ttfb |-> TRUE, timeout |-> TRUE])

(* Endpoint.ServeHTTP up to produce, and the producer up to the backend.   *)
Produce ==
    /\ stage = "produce"
    /\ IF PathProblem(Context(block))
       THEN Fails(ConfigurationError, FALSE) /\ UNCHANGED <<w, req, outreq, err, trip>>
       ELSE /\ req' = ApplyRequestContext(Context(block), req)
            /\ IF ProducersOf(block) = << >>
               THEN stage' = "produced" /\ err' = NoError /\ UNCHANGED <<w, outreq, trip>>
               ELSE LET out == Outgoing(producer, XFF, req')
                        e   == ProducerError(producer, out)
                    IN  /\ outreq' = out
                        /\ err' = e
                        /\ w' = IF IsProxy(producer) THEN registerWebsocketsResponse(producer, Produced(producer, req'), w) ELSE w
                        /\ stage' = IF e = NoError THEN "trip" ELSE "produced"
                        /\ IF e = NoError THEN Renew(Timings(BackendOf(producer))) ELSE UNCHANGED trip
            /\ UNCHANGED sent
    /\ UNCHANGED <<scenario, runtime, control, context, ctxErr, failed, handler, beresp>>

(* The round trip goes on while the gateway does something else. The       *)
(* origin's answer is known when its header has been read; the context is  *)
(* canceled by a client that leaves or by the endpoint that returns.       *)
Trip ==
    /\ TripNext
    /\ call = "idle" => stage = "trip"
    /\ canceled' = "caller" /\ canceled = "no" => stage \in {"trip", "body", "end"}
    /\ IF call = "header" /\ call' = "body" THEN beresp' \in scene.answers ELSE UNCHANGED beresp
    /\ UNCHANGED <<scenario, stage, runtime, w, req, control, context, ctxErr, failed, handler, outreq, err, sent>>

(* Who reads the body before the endpoint writes its answer.               *)
BodyIsRead == Has(BackendOf(producer), "openapi") \/ "response" \in buffers

(* A body that ends too early is an error for the validation and is empty  *)
(* for everybody else.                                                     *)
CutError == IF Has(BackendOf(producer), "openapi") THEN Status(OpenapiValidation, 502) ELSE NoError

TripError ==
    CASE result \in {"deadline", "ttfb"}  -> BackendTimeout
      [] result = "backend"              -> BackendError
      [] result = "cut" /\ BodyIsRead    -> CutError
      [] OTHER                           -> NoError

(* The round trip has a result for the producer.                           *)
Answers == call = "done" \/ (call = "body" /\ ~BodyIsRead)

(* produce returns, unless the client is gone. 101 switches protocols, but *)
(* a connection that is hijacked is not hijacked again.                    *)
Return ==
    /\ stage = "trip" /\ Answers
    /\ IF canceled = "caller" THEN stage' = "end" /\ UNCHANGED <<w, beresp, err>>
       ELSE IF TripError # NoError THEN stage' = "produced" /\ err' = TripError /\ UNCHANGED <<w, beresp>>
       ELSE LET raw      == IF result = "cut" THEN [beresp EXCEPT !.length = 0] ELSE beresp
                answered == Answered(producer, buffers, outreq, raw)
                switches == SwitchesTo(outreq, answered) /\ ~w.hijacked
                e        == AnswerError(producer, outreq, raw, answered, switches)
            IN  /\ beresp' = answered
                /\ err' = e
                /\ w' = IF /\ answered.status = 101 /\ IsProxy(producer) /\ switches
                            /\ e \in {NoError, UnexpectedStatus}
                         THEN SwitchProtocols(w, req, answered) ELSE w
                /\ stage' = "produced"
    /\ UNCHANGED <<scenario, runtime, req, control, context, ctxErr, failed, handler, outreq, sent, trip>>

(* handleError of the endpoint itself; an error handler goes on.           *)
HandleError ==
    /\ stage = "produced"
    /\ IF Main /\ err # NoError THEN Failed("endpoint", err) ELSE stage' = "respond" /\ UNCHANGED <<ctxErr, failed>>
    /\ UNCHANGED <<scenario, runtime, w, req, control, context, handler, outreq, beresp, err, sent, trip>>

(* Error.ServeHTTP (handler/error.go): the handler of the error or the     *)
(* template of the route.                                                  *)
SelectHandler ==
    /\ stage = "error"
    /\ LET found == HandlerFor(kindsHandler, ctxErr)
       IN  IF found = NoHandler THEN Ends(<<Templated(w, template, ctxErr, req, NoOps)>>) /\ UNCHANGED handler
           ELSE handler' = found /\ stage' = "produce" /\ UNCHANGED sent
    /\ UNCHANGED <<scenario, runtime, w, req, control, context, ctxErr, failed, outreq, beresp, err, trip>>

(* NewResponse                                                             *)
NewResponse(response) ==
    Response(Attr(response, "status", 200), Attr(response, "headers", << >>), Attr(response, "body", 0), 0)

(* An error handler without a response: the error with the status of       *)
(* set_response_status.                                                    *)
FailsAgain ==
    LET status == Context(block).status
    IN  Fails(IF status = 0 \/ StatusProblem(status) THEN ctxErr ELSE Status(ctxErr, status), FALSE)

(* The response of a producer that has failed. A request has none if its   *)
(* configuration is wrong, a proxy none if the backend returns an error.   *)
Responds ==
    LET e == ProducerError(producer, outreq)
    IN  IF ~IsProxy(producer) THEN e # ConfigurationError
        ELSE /\ e = NoError
             /\ \/ err \in {UnexpectedStatus, ServerError}
                \/ err = ConfigurationError /\ ~StatusProblem(Context(BackendOf(producer)).status)

(* Endpoint.ServeHTTP after produce                                        *)
Respond ==
    /\ stage = "respond"
    /\ LET own      == BlocksOfType(block, "response")
           produced == ProducersOf(block) # << >>
           res      == IF own # << >> THEN NewResponse(own[1]) ELSE beresp
           with     == AddModifiers(w, IF Main THEN chain.modifiers ELSE << >>)
           of       == IF own # << >> THEN req ELSE outreq
           applied  == ApplyResponseContext(Context(block), of, res)
           written  == WithHeader(with, copyHeader(with.header, applied.header))
       IN  IF own = << >> /\ ~produced THEN FailsAgain /\ UNCHANGED <<w, beresp>>
           ELSE IF own = << >> /\ err # NoError THEN Fails(err, Responds) /\ UNCHANGED <<w, beresp>>
           ELSE IF w.hijacked THEN Ends(<<Sent(w, 0, 0)>>) /\ UNCHANGED <<w, beresp>>
           ELSE IF StatusProblem(Context(block).status) /\ ~IsUpgradeResponse(of, res)
           THEN Ends(<<Templated(with, template, ConfigurationError, req,
                                 IF Main THEN NoOps ELSE Context(block).response)>>) /\ UNCHANGED <<w, beresp>>
           ELSE /\ stage' = "body"
                /\ w' = WriteHeader(written, req, applied.status)
                /\ beresp' = applied
                /\ UNCHANGED sent
    /\ UNCHANGED <<scenario, runtime, req, control, context, ctxErr, failed, handler, outreq, err, trip>>

(* The answer is that of an origin, not that of a response block.          *)
Streamed == BlocksOfType(block, "response") = << >>

(* copyResponse: a body that ends too early is a complete one for the      *)
(* client, unless its length was announced.                                *)
CopyBody ==
    /\ stage = "body"
    /\ Streamed => call = "done"
    /\ LET cut == Streamed /\ result = "cut" /\ ~BodyIsRead
       IN  Ends(<<Sent(w, IF cut THEN beresp.length \div 2 ELSE beresp.length, beresp.gzips)>>)
    /\ UNCHANGED <<scenario, runtime, w, req, control, context, ctxErr, failed, handler, outreq, beresp, err, trip>>

-------------------------------------------------------------------------------

Init ==
    /\ scenario \in DOMAIN Scenarios
    /\ stage = "start" /\ runtime = [mux |-> << >>, chain |-> NoChain]
    /\ req = scene.request
    /\ w = NewWriter(scene.settings.secureCookies, scene.request)
    /\ control = 1 /\ context = << >>
    /\ ctxErr = NoError /\ failed = "" /\ err = NoError
    /\ handler = NoHandler
    /\ outreq = scene.request /\ beresp = NoResponse
    /\ sent = << >>
    /\ Idle([ttfb |-> FALSE, timeout |-> FALSE])

Site == ServeSPA \/ ServeFile \/ CatchPath

Gate == Configure \/ Receive \/ AnswerCORS \/ CheckControl \/ CheckMethod \/ CheckPermission \/ Site

Serve == Produce \/ Return \/ HandleError \/ SelectHandler \/ Respond \/ CopyBody

Next == Gate \/ Serve \/ Trip

(* When one of Gate and Serve can be taken.                                *)
Ready ==
    /\ stage \notin {"end", "refused"}
    /\ stage = "trip" => Answers
    /\ stage = "body" /\ Streamed => call = "done"

Alone == UNCHANGED gvars

(* The goroutines run. Nothing makes the origin answer, the client go or   *)
(* the transport write the request. The first conjunct is weak fairness    *)
(* with ENABLED spelled out.                                               *)
Fairness ==
    /\ []<>~Ready \/ []<><<Gate \/ Serve>>_vars
    /\ WF_vars(stage = "trip" /\ Start /\ Alone) /\ WF_vars(ReturnError /\ Alone)
    /\ WF_vars(TransportCanceled /\ Alone) /\ WF_vars(BodyCut /\ Alone)
    /\ WF_vars(ResetTimer /\ Alone) /\ WF_vars(ResetterStops /\ Alone)
    /\ WF_vars(DeadlineExpires /\ Alone) /\ WF_vars(GuardSends /\ Alone)
    /\ WF_vars(GuardCancels /\ Alone) /\ WF_vars(GuardEnds /\ Alone)
    /\ WF_vars(stage = "end" /\ CallerCancels /\ Alone)

Spec == Init /\ [][Next]_vars /\ Fairness

-------------------------------------------------------------------------------
(* Properties                                                              *)

Got == sent[1]
Behind == {"files", "spa", "endpoint", "produce", "trip", "produced", "respond", "body"}

(* The values a claim is compared with. An aud or iss that is empty asks   *)
(* for none (newParser), any other claim has to be the same.               *)
Expected(jwt, c) ==
    LET expected == ExpectedClaims(jwt)
    IN  IF c \in {"aud", "iss"} THEN {Get(expected, c)} \ {""} ELSE ToSet(expected[c])

(* No other jwt block has an audience and an issuer that read the same     *)
(* with a colon between them.                                              *)
Unambiguous(jwt) ==
    LET text(d) == Parts(Parser(d).audience) \o Parts(Parser(d).issuer)
    IN  \A d \in ToSet(scene.definitions) :
            d.type = "jwt" /\ text(d) = text(jwt) =>
                Parser(d).audience = Parser(jwt).audience /\ Parser(d).issuer = Parser(jwt).issuer

(* What a control protects, said without its algorithm.                    *)
Authorized(ac, left) ==
    LET request   == scene.request
        jwt       == Tokens[TokenValue(ac, request)]
        who       == Credentials[Get(request.header, "Authorization")]
        assertion == Assertions[Get(request.form, "SAMLResponse")]
        code      == Verifier(ac, request)
    IN  CASE ac.type = "jwt" ->
                /\ ~jwt.expired
                /\ jwt.key \in IF Has(ac, "jwks") THEN {k.key : k \in ToSet(ac.attrs["jwks"])} ELSE {ac.attrs["key"]}
                /\ ToSet(Attr(ac, "required_claims", << >>)) \subseteq DOMAIN jwt.claims
                /\ DOMAIN ExpectedClaims(ac) \subseteq DOMAIN jwt.claims
                /\ \A c \in DOMAIN ExpectedClaims(ac) \ (IF Unambiguous(ac) THEN {} ELSE {"aud", "iss"}) :
                      Expected(ac, c) \subseteq ToSet(jwt.claims[c])
          [] ac.type = "basic_auth" ->
                <<who.user, who.password>> \in
                    {<<l.user, l.password>> : l \in ToSet(Attr(ac, "htpasswd_file", << >>))}
                    \cup IF Has(ac, "password") THEN {<<Attr(ac, "user", ""), ac.attrs["password"]>>} ELSE {}
          [] ac.type = "saml" ->
                /\ ~assertion.expired /\ assertion.key \in ToSet(ac.attrs["certificates"])
                /\ \A r \in assertion.restrictions : ac.attrs["sp_entity_id"] \in r
                /\ Attr(ac, "issuer", "") \in {"", assertion.issuer}
                /\ assertion.to \subseteq IF ac.attrs["sp_acs_url"] = "" THEN Origins(scene) ELSE {ac.attrs["sp_acs_url"]}
          [] ac.type = "oidc" ->
                /\ ac.attrs["client_id"] \in ToSet(left["aud"])
                /\ ac.attrs["verifier_method"] = "nonce" => left["nonce"] = <<Sha256[code]>>
          [] OTHER ->
                ac.attrs["verifier_method"] = "state" => Get(request.query, "state") = Sha256[code]

(* A request gets past the access controls of its route only if every one  *)
(* of them vouches for it: for a jwt the signature, the time and each of   *)
(* the claims with its value, for oidc a token of this login and client,   *)
(* for saml a response to this service. Except for the audience and the    *)
(* issuer of a jwt block that reads the same as another one, the one with  *)
(* audience "a:b" and issuer "c", say, as that with "a" and "b:c": the key *)
(* of a parser does not tell them apart.                                   *)
OnlyAuthorized ==
    stage \in Behind /\ failed # "control" =>
        \A n \in ToSet(chain.controls) : Authorized(Definition(scene.definitions, n), context[n].data)

(* The permissions of a token are closed under its permissions_map,        *)
(* through several steps and around cycles, and a request that an endpoint *)
(* answers has the permission its method needs.                            *)
PermissionsAreGranted ==
    /\ \A n \in DOMAIN context :
          LET map == Attr(Definition(scene.definitions, n), "permissions_map", << >>)
          IN  \A p \in context[n].granted \cap DOMAIN map : ToSet(map[p]) \ {""} \subseteq context[n].granted
    /\ stage = "produce" /\ failed = "" /\ chain.permission # << >> =>
          \E p \in ToSet(PermissionFor(chain.permission[1], req.method)) : p \in Granted \cup {""}

(* Whoever answers once a jwt has been looked at, whatever the modifiers   *)
(* of proxy, endpoint, api and server do to Cache-Control: the answer is   *)
(* private. One whose header nobody writes is not: see Recovers.           *)
PrivateStaysPrivate ==
    LET looked == {i \in DOMAIN chain.controls : i < control \/ (i = control /\ failed = "control")}
    IN  /\ sent # << >> /\ Got.status # 0 /\ Mux # << >>
        /\ \E i \in looked : ~DisablePrivateCaching(Definition(scene.definitions, chain.controls[i]))
        => "private" \in ToSet(Values(Got.header, "Cache-Control"))

(* On a route with cors the client sees Couper's decision and never that   *)
(* of the origin: one allowed origin, the one that asks or "*", and        *)
(* credentials for an origin that is named only. As long as somebody       *)
(* writes the header: see Recovers.                                        *)
CorsIsOurs ==
    sent # << >> /\ Got.status # 0 /\ Mux # << >> /\ chain.cors # << >> =>
        LET cors   == chain.cors[1]
            asks   == Get(scene.request.header, "Origin")
            origin == Values(Got.header, "Access-Control-Allow-Origin")
        IN  /\ Len(origin) <= 1
            /\ origin # << >> => origin[1] \in {"*", asks} /\ {"*", origin[1]} \cap cors.origins # {}
            /\ Get(Got.header, "Access-Control-Allow-Credentials") # "" => cors.credentials /\ origin = <<asks>>

Hops(h) == HopHeaders \cup ToSet(Values(h, "Connection"))

(* Fields that are between two hops stay there in both directions, those   *)
(* that Connection names included, except for an upgrade.                  *)
HopsStayHops ==
    /\ stage = "trip" /\ ~outreq.websockets => Hops(scene.request.header) \cap DOMAIN outreq.header = {}
    /\ sent # << >> /\ ~w.hijacked => DOMAIN Got.header \cap UNION {Hops(a.header) : a \in scene.answers} = {}

(* A body is packed as often as its header says: not twice, and not        *)
(* without saying so, whoever packed it and whoever unpacked it.           *)
EncodingMatchesBody ==
    sent # << >> /\ Got.length > 0 =>
        Got.gzips = IF Get(Got.header, "Content-Encoding") = "gzip" THEN 1 ELSE 0

(* The error_handler blocks for an endpoint: its own and those of its api. *)
HandlersOf(server, endpoint) ==
    LET apis == {a \in ToSet(APIs(server)) : endpoint \in Endpoints(a)}
    IN  [endpoint |-> BlocksOfType(endpoint, "error_handler"),
         api      |-> IF apis = {} THEN << >> ELSE BlocksOfType(CHOOSE a \in apis : TRUE, "error_handler")]

(* The names under which a handler catches a kind, the closest first.      *)
Catching(ref, kind) ==
    LET supers == {s \in DOMAIN SubKinds(ref) : kind \in SubKinds(ref)[s]}
    IN  <<{kind}, supers \ {"*"}, supers \cap {"*"}>>

(* By the kind of the error, the block it stands in, the name it is caught *)
(* under, and the place.                                                   *)
Closer(c, d) ==
    \/ c.kind < d.kind
    \/ c.kind = d.kind /\ c.of = "endpoint" /\ d.of = "api"
    \/ c.kind = d.kind /\ c.of = d.of /\ c.by < d.by
    \/ c.kind = d.kind /\ c.of = d.of /\ c.by = d.by /\ c.place > d.place

(* The block found is that of the closest of these handlers for the kinds. *)
IsClosest(found, handlers, kinds) ==
    LET all        == [kind : DOMAIN kinds, of : {"endpoint", "api"}, by : 1 .. 3,
                       place : DOMAIN handlers.endpoint \cup DOMAIN handlers.api]
        catches(c) == /\ c.place \in DOMAIN handlers[c.of]
                      /\ ToSet(handlers[c.of][c.place].labels) \cap Catching(c.of, kinds[c.kind])[c.by] # {}
    IN  \E c \in all : /\ catches(c) /\ found = handlers[c.of][c.place]
                       /\ \A d \in all : catches(d) => ~Closer(d, c)

(* An error goes to the closest handler: that of the endpoint before that  *)
(* of the api, a specific one before one for a super kind, and the last    *)
(* one of those that name the same.                                        *)
HandlerIsClosest ==
    stage = "produce" /\ ~Main /\ failed # "control" =>
        IsClosest(handler.block, HandlersOf(Mux[1], chain.block), ctxErr.kinds)

(* A request whose backends have a timeout is answered, or given up,       *)
(* whatever the origins do, and leaves no guard behind.                    *)
TimesOut ==
    LET blocks    == {chain.block} \cup {chain.handlers[k].block : k \in DOMAIN chain.handlers}
        producers == UNION {ToSet(ProducersOf(b)) : b \in blocks}
    IN  \A p \in producers : Timings(BackendOf(p)).timeout

RequestsEnd ==
    (stage = "accepted" /\ Mux # << >> /\ TimesOut) ~> (stage = "end" /\ guard \in {"none", "ended"})
===============================================================================
