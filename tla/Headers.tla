-------------------------------- MODULE Headers -------------------------------
(***************************************************************************)
(* The header fields of requests and responses and what Couper does to     *)
(* them: the modifiers of eval/http.go, the hop-by-hop fields of           *)
(* handler/transport/backend.go, CORS and cookies.                         *)
(*                                                                         *)
(* A header is a function from the fields it has to the sequences of their *)
(* values. A value that is a list (Connection, Accept-Encoding) is written *)
(* as that many values. Query and form parameters have the same form.      *)
(***************************************************************************)
EXTENDS Integers, SequencesExt

Values(h, f)  == IF f \in DOMAIN h THEN h[f] ELSE << >>
Put(h, f, vs) == [g \in DOMAIN h \cup {f} |-> IF g = f THEN vs ELSE h[g]]
Over(g, h)    == [f \in DOMAIN g \cup DOMAIN h |-> IF f \in DOMAIN g THEN g[f] ELSE h[f]]
Get(h, f)     == IF Values(h, f) = << >> THEN "" ELSE Values(h, f)[1]
Del(h, fs)    == [f \in DOMAIN h \ fs |-> h[f]]
Set(h, f, v)  == Put(h, f, <<v>>)
Add(h, f, v)  == Put(h, f, Append(Values(h, f), v))

(* Go's http.Header and url.Values are maps to lists of strings.           *)
IsHeader(h) == \A f \in DOMAIN h : h[f] \in Seq(STRING)

copyHeader(dst, src) == [f \in DOMAIN dst \cup DOMAIN src |-> Values(dst, f) \o Values(src, f)]

-------------------------------------------------------------------------------
(* Modifiers: the del_, set_ and add_ attributes of a body for one of      *)
(* request headers, response headers, query and form parameters.           *)

NoOps == [del |-> {}, set |-> << >>, add |-> << >>]

IsOps(ops) == IsHeader(ops.set) /\ IsHeader(ops.add)

(* SetHeader and toSlice: null is left alone.                              *)
Given(values) == Del(values, {f \in DOMAIN values : values[f] = <<"null">>})

applyHeaderOps(ops, h) == copyHeader(Over(Given(ops.set), Del(h, ops.del)), Given(ops.add))

(* A body of attributes that modify requests and responses.                *)
NoContext ==
    [path |-> << >>, request |-> NoOps, query |-> NoOps, form |-> NoOps, response |-> NoOps, status |-> 0]

IsContext(body) == \A ops \in {body.request, body.query, body.form, body.response} : IsOps(ops)

(* A request: http.Request and what the context of the request says of it. *)
RequestFields ==
    {"host", "port", "method", "path", "wildcard", "isWildcard", "header", "query", "form", "websockets", "length"}

(* evalPathAttr: a path ending in ** gets what the route's own ** matched. *)
PathProblem(body) == body.path # << >> /\ {"#", "?"} \cap ToSet(body.path) # {}

evalPathAttr(body, req) ==
    LET slash(p) == IF p # << >> /\ Last(p) = "" THEN p ELSE Append(p, "")
        rest     == IF Last(req.path) = "" THEN slash(req.wildcard) ELSE req.wildcard
    IN  CASE body.path = << >> -> req.path
          [] body.path # << >> /\ Last(body.path) = "**" /\ req.isWildcard -> Front(body.path) \o rest
          [] OTHER -> body.path

(* getFormParams: only the form of a POST request is modified; its body is *)
(* encoded again, with a length of its own.                                *)
IsForm(req) == req.method = "POST" /\ Get(req.header, "Content-Type") = "form"

getFormParams(ops, req) ==
    IF ops = NoOps \/ ~IsForm(req) THEN req
    ELSE LET form == applyHeaderOps(ops, req.form)
         IN  [req EXCEPT !.form = form, !.header = Set(@, "Content-Length", "encoded")]

ApplyRequestContext(body, req) ==
    getFormParams(body.form,
        [req EXCEPT !.path = evalPathAttr(body, req),
                    !.header = applyHeaderOps(body.request, @),
                    !.query = applyHeaderOps(body.query, @)])

(* A response: its body has a length, and is encoded gzips times.          *)
Response(status, header, length, gzips) ==
    [status |-> status, header |-> header, length |-> length, gzips |-> gzips]

StatusProblem(status) == status # 0 /\ status \notin 100 .. 599

(* ApplyResponseStatus: 204 takes the body with it.                        *)
ApplyResponseStatus(status, res) ==
    IF status = 204
    THEN [res EXCEPT !.status = 204, !.length = 0, !.gzips = 0, !.header = Del(@, {"Content-Length"})]
    ELSE [res EXCEPT !.status = status]

-------------------------------------------------------------------------------
(* Hop-by-hop fields and protocol upgrades.                                *)

HopHeaders ==
    {"Connection", "Proxy-Connection", "Keep-Alive", "Proxy-Authenticate", "Proxy-Authorization",
     "Te", "Trailer", "Transfer-Encoding", "Upgrade"}

RemoveConnectionHeaders(h) == Del(h, ToSet(Values(h, "Connection")))

RemoveHopHeaders(h) ==
    Del(h, {f \in HopHeaders : Get(h, f) # "" /\ ~(f = "Te" /\ Get(h, f) = "trailers")})

(* Mutant of RemoveAllHopHeaders: the fields that Connection names stay. *)
RemoveListedOnly(h) == RemoveHopHeaders(h)

RemoveAllHopHeaders(h) == RemoveHopHeaders(RemoveConnectionHeaders(h))

upgradeType(h) == Get(h, "Upgrade")

IsUpgradeRequest(req) ==
    /\ req.websockets
    /\ "Upgrade" \in ToSet(Values(req.header, "Connection"))
    /\ upgradeType(req.header) = "websocket"

IsUpgradeResponse(req, res) ==
    IsUpgradeRequest(req) /\ upgradeType(req.header) = upgradeType(res.header)

ApplyResponseContext(body, req, res) ==
    LET modified == [res EXCEPT !.header = applyHeaderOps(body.response, @)]
    IN  IF IsUpgradeResponse(req, modified) \/ body.status = 0 THEN modified
        ELSE ApplyResponseStatus(body.status, modified)

ModifyAcceptEncoding(h) ==
    IF "gzip" \in ToSet(Values(h, "Accept-Encoding")) THEN Set(h, "Accept-Encoding", "gzip")
    ELSE Del(h, {"Accept-Encoding"})

-------------------------------------------------------------------------------
(* Cookies: a secure cookie loses the flag.                                *)

stripSecureCookies(h) ==
    LET strip(c) == IF c = "cookie; Secure" THEN "cookie" ELSE c
    IN  [f \in DOMAIN h |-> IF f = "Set-Cookie" THEN [i \in DOMAIN h[f] |-> strip(h[f][i])] ELSE h[f]]

-------------------------------------------------------------------------------
(* CORS                                                                    *)

CorsHeaders ==
    {"Access-Control-Allow-Origin", "Access-Control-Allow-Credentials", "Access-Control-Allow-Headers",
     "Access-Control-Allow-Methods", "Access-Control-Max-Age"}

AllowsOrigin(cors, origin) == {origin, "*"} \cap cors.origins # {}

isCorsRequest(req) == Get(req.header, "Origin") # ""

isCorsPreflightRequest(req) ==
    /\ req.method = "OPTIONS"
    /\ \/ Get(req.header, "Access-Control-Request-Method") # ""
       \/ Get(req.header, "Access-Control-Request-Headers") # ""

(* What a preflight request gets: the method if the route allows it, the   *)
(* headers as they were asked for.                                         *)
PreflightHeaders(cors, methods, req, h) ==
    LET method  == Get(req.header, "Access-Control-Request-Method")
        headers == Get(req.header, "Access-Control-Request-Headers")
        age     == IF cors.maxAge = "" THEN h ELSE Set(h, "Access-Control-Max-Age", cors.maxAge)
        named   == IF headers = "" THEN age
                   ELSE Add(Set(age, "Access-Control-Allow-Headers", headers), "Vary", "Access-Control-Request-Headers")
        varies  == IF method = "" THEN named ELSE Add(named, "Vary", "Access-Control-Request-Method")
    IN  IF method \in methods THEN Set(varies, "Access-Control-Allow-Methods", method) ELSE varies

(* Mutant of OurCorsHeaders: those of the backend stay. *)
AllCorsHeaders(h) == h

OurCorsHeaders(h) == Del(h, CorsHeaders)

setCorsRespHeaders(cors, methods, req, h) ==
    LET any      == AllowsOrigin(cors, "*") /\ ~cors.credentials
        origin   == Get(req.header, "Origin")
        first    == IF any THEN Set(OurCorsHeaders(h), "Access-Control-Allow-Origin", "*")
                    ELSE Add(OurCorsHeaders(h), "Vary", "Origin")
        specific == IF any THEN first ELSE Set(first, "Access-Control-Allow-Origin", origin)
        allowed  == IF cors.credentials THEN Set(specific, "Access-Control-Allow-Credentials", "true") ELSE specific
    IN  IF ~isCorsRequest(req) \/ ~AllowsOrigin(cors, origin) THEN first
        ELSE IF isCorsPreflightRequest(req) THEN PreflightHeaders(cors, methods, req, allowed) ELSE allowed
===============================================================================
