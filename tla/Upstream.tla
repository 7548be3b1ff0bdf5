------------------------------- MODULE Upstream -------------------------------
(***************************************************************************)
(* What is sent to an origin and what is made of its answer: the producers *)
(* of an endpoint (handler/producer), the proxy (handler/proxy.go) and the *)
(* backend (handler/transport/backend.go). How long it takes and how it    *)
(* fails is module RoundTrip's, tokens and health are of modules of their  *)
(* own.                                                                    *)
(*                                                                         *)
(* An endpoint has at most one proxy or request block, "default". Its      *)
(* attribute "backend" is the block of the backend, which has been merged  *)
(* with what the proxy or request says. An origin's answer is a response   *)
(* with the further field valid: whether it satisfies the OpenAPI document.*)
(***************************************************************************)
EXTENDS Chain

headerBlacklist == {"Authorization", "Cookie"}

ProducersOf(block)  == BlocksOfType(block, "proxy") \o BlocksOfType(block, "request")
BackendOf(producer) == producer.attrs["backend"]
IsProxy(producer)   == producer.type = "proxy"

(* NewURLFromAttribute: the path of url, with ** like the attribute path.  *)
NewURL(producer, req) == evalPathAttr([path |-> Attr(producer, "url", << >>)], req)

-------------------------------------------------------------------------------
(* Proxy                                                                   *)

(* websockets = false allows them as well.                                 *)
WebsocketsBlocks(proxy) == BlocksOfType(proxy, "websockets")
AllowsWebsockets(proxy) == Has(proxy, "websockets") \/ WebsocketsBlocks(proxy) # << >>

getWebsocketsBody(proxy) ==
    LET blocks == WebsocketsBlocks(proxy) IN IF Len(blocks) = 1 THEN Context(blocks[1]) ELSE NoContext

(* The evaluation of the configuration gives header fields their types.    *)
IsProducer(p) ==
    /\ IsContext(Context(p)) /\ IsContext(Context(BackendOf(p)))
    /\ IsContext(getWebsocketsBody(p))

applyWebsocketsRequest(proxy, req) ==
    LET allowed == [req EXCEPT !.websockets = AllowsWebsockets(proxy)]
    IN  IF IsUpgradeRequest(allowed) THEN ApplyRequestContext(getWebsocketsBody(proxy), allowed) ELSE allowed

(* The protocol that a Connection: upgrade asks for.                       *)
ProxyUpgradeType(h) == IF "Upgrade" \in ToSet(Values(h, "Connection")) THEN Get(h, "Upgrade") ELSE ""

ProxyRequest(proxy, req) ==
    LET outreq  == [req EXCEPT !.path = NewURL(proxy, req), !.header = Del(@, headerBlacklist)]
        applied == applyWebsocketsRequest(proxy, ApplyRequestContext(Context(proxy), outreq))
        upgrade == ProxyUpgradeType(applied.header)
        end2end == Del(RemoveConnectionHeaders(applied.header), HopHeaders)
    IN  IF upgrade = "" THEN [applied EXCEPT !.header = end2end]
        ELSE [applied EXCEPT !.header = Set(Set(end2end, "Connection", "Upgrade"), "Upgrade", upgrade)]

(* registerWebsocketsResponse: the proxy's modifiers for the answer are    *)
(* the writer's when the client asks for websockets.                       *)
registerWebsocketsResponse(proxy, req, w) ==
    IF IsUpgradeRequest(req)
    THEN AddModifiers(w, <<getWebsocketsBody(proxy).response, Context(proxy).response>>) ELSE w

-------------------------------------------------------------------------------
(* Request                                                                 *)

(* A new request: nothing of the client's is passed on.                    *)
NewRequest(request, req) ==
    LET length == Attr(request, "body", 0)
        method == Attr(request, "method", IF length > 0 THEN "POST" ELSE "GET")
    IN  ApplyRequestContext(Context(request),
            [req EXCEPT !.method = method, !.path = NewURL(request, req), !.query = << >>, !.form = << >>,
                        !.length = length,
                        !.header = IF length > 0 THEN Set(<< >>, "Content-Type", "text/plain") ELSE << >>])

-------------------------------------------------------------------------------
(* Backend                                                                 *)

(* utils.JoinPath: the slash at the end stays.                             *)
JoinPath(p, q) ==
    LET path == p \o q
    IN  IF Named(path) = << >> THEN Root ELSE IF Last(path) = "" THEN Named(path) \o Root ELSE Named(path)

withPathPrefix(backend, req) ==
    IF Has(backend, "path_prefix") THEN [req EXCEPT !.path = JoinPath(backend.attrs["path_prefix"], @)] ELSE req

withBasicAuth(backend, h) ==
    IF Has(backend, "basic_auth") THEN Set(h, "Authorization", backend.attrs["basic_auth"]) ELSE h

(* The field is what the client's was, whatever the modifiers say.         *)
withXFF(xff, h) == IF xff # "" THEN Set(h, "X-Forwarded-For", xff) ELSE Del(h, {"X-Forwarded-For"})

(* An empty one, lest net/http adds its own.                               *)
setUserAgent(h) == IF Get(h, "User-Agent") = "" THEN Set(h, "User-Agent", "") ELSE h

BackendRequest(backend, isProxy, xff, req) ==
    LET applied == withPathPrefix(backend, ApplyRequestContext(Context(backend), req))
        end2end == IF isProxy THEN applied.header ELSE RemoveAllHopHeaders(applied.header)
        header  == setUserAgent(withBasicAuth(backend, withXFF(xff, ModifyAcceptEncoding(end2end))))
    IN  [applied EXCEPT !.header = IF req.websockets THEN header ELSE Del(header, {"Connection", "Upgrade"})]

(* Why a request does not get as far as the origin.                        *)
RequestError(backend, outreq) ==
    LET prefix == ToSet(Attr(backend, "path_prefix", << >>))
        paths  == Attr(backend, "openapi", {outreq.path})
    IN  IF ~Attr(backend, "healthy", TRUE) /\ ~Attr(backend, "use_when_unhealthy", FALSE) THEN BackendUnhealthy
        ELSE IF PathProblem(Context(backend)) \/ ~Has(backend, "origin") \/ {"#", "?"} \cap prefix # {}
        THEN ConfigurationError
        ELSE IF outreq.path \notin paths /\ ~Attr(backend, "ignore_request_violations", FALSE)
        THEN OpenapiValidation ELSE NoError

(* ValidateResponse comes before the body is unpacked, and reads it.       *)
ResponseError(backend, outreq, res) ==
    IF /\ Has(backend, "openapi")
       /\ outreq.path \notin backend.attrs["openapi"] \/ ~res.valid
       /\ ~Attr(backend, "ignore_response_violations", FALSE)
    THEN Status(OpenapiValidation, 502) ELSE NoError

(* The body is unpacked for a configuration that reads it.                 *)
setGzipReader(buffers, res) ==
    IF "response" \in buffers /\ Get(res.header, "Content-Encoding") = "gzip" /\ res.gzips > 0
    THEN [res EXCEPT !.gzips = @ - 1, !.header = Del(@, {"Content-Encoding", "Content-Length"})] ELSE res

BackendResponse(backend, isProxy, buffers, outreq, res) ==
    LET unpacked == IF IsUpgradeResponse(outreq, res) THEN res ELSE setGzipReader(buffers, res)
    IN  ApplyResponseContext(Context(backend), outreq,
            IF isProxy THEN unpacked ELSE [unpacked EXCEPT !.header = RemoveAllHopHeaders(@)])

-------------------------------------------------------------------------------
(* From the endpoint to the origin and back                                *)

Produced(producer, req) == IF IsProxy(producer) THEN ProxyRequest(producer, req) ELSE NewRequest(producer, req)

Outgoing(producer, xff, req) ==
    BackendRequest(BackendOf(producer), IsProxy(producer), xff, Produced(producer, req))

ProducerError(producer, outreq) ==
    IF PathProblem(Context(producer)) THEN ConfigurationError ELSE RequestError(BackendOf(producer), outreq)

(* A 101 is the proxy's to handle; the protocol must be the one asked for. *)
SwitchesTo(outreq, res) == ProxyUpgradeType(outreq.header) = ProxyUpgradeType(res.header)

ProxyResponse(proxy, outreq, res) ==
    ApplyResponseContext(Context(proxy), outreq, [res EXCEPT !.header = RemoveAllHopHeaders(@)])

Answered(producer, buffers, outreq, res) ==
    LET beresp == BackendResponse(BackendOf(producer), IsProxy(producer), buffers, outreq, res)
    IN  IF IsProxy(producer) /\ beresp.status # 101 THEN ProxyResponse(producer, outreq, beresp) ELSE beresp

(* What the backend, the proxy and roundtrip (handler/producer/result.go)  *)
(* find wrong with the answer res that became beresp.                      *)
AnswerError(producer, outreq, res, beresp, switches) ==
    LET backend == BackendOf(producer)
        proxied == IsProxy(producer) /\ beresp.status # 101
        invalid == ResponseError(backend, outreq, res)
        status  == StatusProblem(Context(backend).status) \/ (proxied /\ StatusProblem(Context(producer).status))
    IN  IF invalid # NoError THEN invalid
        ELSE IF status THEN ConfigurationError
        ELSE IF beresp.status \notin Attr(producer, "expected_status", {beresp.status}) THEN UnexpectedStatus
        ELSE IF IsProxy(producer) /\ ~proxied /\ ~switches THEN ServerError ELSE NoError
===============================================================================
