-------------------------------- MODULE Chain ---------------------------------
(***************************************************************************)
(* The handlers a request runs through on its route, as                    *)
(* NewServerConfiguration (config/runtime/server.go) chains them:          *)
(* CORS, access control, allowed methods, permission, endpoint, files or   *)
(* spa; and the handlers and templates that answer its errors.             *)
(*                                                                         *)
(* The modifiers of a body are its attribute "context". A template is the  *)
(* name of its file; "html" and "json" are the built-in ones.              *)
(***************************************************************************)
EXTENDS Routing, Controls, Writer

Context(body) == Attr(body, "context", NoContext)

-------------------------------------------------------------------------------
(* CORS                                                                    *)

CORSOptions(block) ==
    [origins     |-> Attr(block, "allowed_origins", {}),
     credentials |-> Attr(block, "allow_credentials", FALSE),
     maxAge      |-> Attr(block, "max_age", ""),
     disable     |-> Attr(block, "disable", FALSE)]

(* A block without cors has that of the server. this is no block or one.   *)
whichCORS(server, this) ==
    LET own == IF this = << >> THEN << >> ELSE BlocksOfType(this[1], "cors")
    IN  CASE own = << >>                       -> BlocksOfType(server, "cors")
          [] own # << >> /\ Attr(own[1], "disable", FALSE) -> << >>
          [] OTHER                             -> own

NewCORSOptions(blocks) == [i \in DOMAIN blocks |-> CORSOptions(blocks[i])]

-------------------------------------------------------------------------------
(* Templates                                                               *)

ServerErrTpl(server) == Attr(server, "error_file", "html")
APIErrTpl(api)       == Attr(api, "error_file", "json")
FilesErrTpl(server, files) == Attr(files, "error_file", ServerErrTpl(server))

(* NewEndpointOptions                                                      *)
EndpointErrTpl(server, api, block) ==
    IF Has(block, "error_file") THEN block.attrs["error_file"]
    ELSE IF api # << >> THEN APIErrTpl(api[1]) ELSE ServerErrTpl(server)

-------------------------------------------------------------------------------
(* Error handlers                                                          *)

(* An error_handler block is an endpoint of its own with the template of   *)
(* its error_file or of the route. It answers with the template unless it  *)
(* has something that makes a response.                                    *)
ErrorHandler(block, template) ==
    [kinds |-> block.labels, block |-> block, template |-> Attr(block, "error_file", template)]

ErrorHandlers(body, template) ==
    LET blocks == BlocksOfType(body, "error_handler")
    IN  [i \in DOMAIN blocks |-> ErrorHandler(blocks[i], template)]

Reference(name, body, template) == [name |-> name, handlers |-> ErrorHandlers(body, template)]

(* Those of the endpoint override those of its api.                        *)
EndpointHandlers(api, block, template) ==
    LET own == Reference("endpoint", block, template)
    IN  newErrorHandler(IF api = << >> THEN <<own>> ELSE <<Reference("api", api[1], template), own>>)

(* Labels are unique (validateDefinitions).                                *)
Definition(definitions, name) == CHOOSE d \in ToSet(definitions) : d.labels[1] = name

ControlHandlers(definitions, name, template) ==
    newErrorHandler(<<Reference(name, Definition(definitions, name), template)>>)

-------------------------------------------------------------------------------
(* The chain of a route                                                    *)

NoChain ==
    [kind |-> "none", block |-> CatchAll, pattern |-> << >>, controls |-> << >>, cors |-> << >>, methods |-> {}, permission |-> << >>,
     handlers |-> << >>, template |-> "html", modifiers |-> << >>, buffers |-> {}, limit |-> 0]

(* The api an endpoint is part of: its place tells the route apart.        *)
ParentAPI(server, route) ==
    LET parent(a) ==
            IF route.block = CatchAll
            THEN /\ AccessControls(<<server, a>>) # << >>
                 /\ JoinOpenAPIPath(APIBasePath(server, a), CatchAllPattern) = route.pattern
            ELSE /\ route.block \in Endpoints(a)
                 /\ JoinOpenAPIPath(APIBasePath(server, a), route.block.labels[1]) = route.pattern
    IN  IF route.kind = "api" THEN <<APIs(server)[SelectInSeq(APIs(server), parent)]>> ELSE << >>

(* What the endpoint does not say the api says.                            *)
Inherited(api, block, name) ==
    IF Has(block, name) THEN <<block.attrs[name]>>
    ELSE IF api # << >> /\ Has(api[1], name) THEN <<api[1].attrs[name]>> ELSE << >>

(* Of which messages an expression reads the body: one of the endpoint, of *)
(* its access controls or of the handlers of its errors.                   *)
Buffers(definitions, controls, block, handlers) ==
    UNION {Attr(b, "buffers", {}) :
              b \in {block} \cup {Definition(definitions, n) : n \in ToSet(controls)}
                   \cup {handlers[k].block : k \in DOMAIN handlers}}

EndpointChain(definitions, server, answer) ==
    LET block    == answer.route.block
        api      == ParentAPI(server, answer.route)
        catchAll == block = CatchAll
        template == EndpointErrTpl(server, api, block)
        handlers == EndpointHandlers(api, block, template)
    IN  [kind |-> IF catchAll THEN "catch-all" ELSE "endpoint",
         block |-> block, pattern |-> answer.route.pattern, controls |-> answer.controls, template |-> template,
         cors |-> NewCORSOptions(whichCORS(server, api)),
         methods |-> AllowedMethods(Inherited(api, block, "allowed_methods"), DefaultEndpointAllowedMethods),
         permission |-> IF catchAll THEN << >> ELSE Inherited(api, block, "required_permission"),
         handlers |-> handlers,
         modifiers |-> [i \in DOMAIN api |-> Context(api[i]).response] \o <<Context(server).response>>,
         buffers |-> IF catchAll THEN {} ELSE Buffers(definitions, answer.controls, block, handlers),
         limit |-> Attr(block, "request_body_limit", 64)]

SiteChain(server, answer) ==
    LET block == answer.route.block
    IN  [NoChain EXCEPT
            !.kind = answer.by, !.block = block, !.pattern = answer.route.pattern, !.controls = answer.controls,
            !.template = IF answer.by = "files" THEN FilesErrTpl(server, block) ELSE ServerErrTpl(server),
            !.cors = NewCORSOptions(whichCORS(server, <<block>>)),
            !.methods = DefaultFileSpaAllowedMethods,
            !.modifiers = <<Context(block).response, Context(server).response>>]

(* A path without a route is an error of the api it is below.              *)
APIOf(server, path) == SelectSeq(APIs(server), LAMBDA a : isAPIError(server, a, path))[1]

HandlerChain(definitions, server, path) ==
    LET answer == FindHandler(server, path)
    IN  CASE answer.by \in {"endpoint", "api"} -> EndpointChain(definitions, server, answer)
          [] answer.by \in {"files", "spa"}    -> SiteChain(server, answer)
          [] answer.by = "api error"           -> [NoChain EXCEPT !.template = APIErrTpl(APIOf(server, path))]
          [] OTHER                             -> [NoChain EXCEPT !.template = ServerErrTpl(server)]

-------------------------------------------------------------------------------
(* What NewServerConfiguration refuses                                     *)

SPAProblems(spa) ==
    When(Attr(spa, "bootstrap", 60) = 0, "bootstrap_file")
    \cup When(Attr(spa, "bootstrap_data", "object") \notin {"object", "null"}, "bootstrap_data")

ConfigurationProblems(definitions, servers) ==
    HostProblems(servers)
    \cup (UNION {ControlProblems(d) : d \in ToSet(definitions)})
    \cup UNION {UNION {SPAProblems(s) : s \in ToSet(BlocksOfType(server, "spa"))} : server \in ToSet(servers)}
===============================================================================
