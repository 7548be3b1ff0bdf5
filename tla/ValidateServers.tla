---------------------------- MODULE ValidateServers ----------------------------
(***************************************************************************)
(* What the loader refuses of servers, apis and endpoints when it refines  *)
(* them (refineEndpoint of endpoint.go, error_handler.go, configureServer  *)
(* of helper.go). An error handler is an endpoint of its own and may have  *)
(* error handlers.                                                         *)
(***************************************************************************)
EXTENDS Validate

CONSTANT KnownKinds    \* the error kinds an error_handler may name

Producers(ep) == SelectSeq(ep.blocks, LAMBDA b : b.type \in {"proxy", "request"})

ProducerNames(ep) ==
    [i \in DOMAIN Producers(ep) |->
        IF Producers(ep)[i].labels = << >> THEN "default" ELSE Producers(ep)[i].labels[1]]

BodyAttributes(b) == {"body", "form_body", "json_body"} \cap DOMAIN b.attrs

(* The websockets attribute and block exclude each other, and a proxy with *)
(* websockets is the endpoint's only block.                                *)
websocketsEnabled(proxy) ==
    Attr(proxy, "websockets", FALSE) \/ BlocksOfType(proxy, "websockets") # << >>

websocketsProblems(ep, proxy) ==
    LET alone == Len(Producers(ep)) = 1 /\ BlocksOfType(ep, "response") = << >>
    IN  When(Has(proxy, "websockets") /\ BlocksOfType(proxy, "websockets") # << >>, "websockets twice")
        \cup When(websocketsEnabled(proxy) /\ (~alone \/ ProducerNames(ep) # <<"default">>), "websockets")

(* The kinds of the error handlers in a block; none means all ("*").       *)
HandledKinds(b) ==
    LET handlers == BlocksOfType(b, "error_handler")
        kinds(h) == IF FlattenSeq(h.labels) = << >> THEN <<"*">> ELSE FlattenSeq(h.labels)
    IN  FlattenSeq([i \in DOMAIN handlers |-> kinds(handlers[i])])

newErrorHandlerContent(b) ==
    When(Repeated(HandledKinds(b)), "duplicate error type")
    \cup When(\E k \in ToSet(HandledKinds(b)) : k # "*" /\ k \notin KnownKinds, "unknown error type")

RECURSIVE refineEndpoint(_, _, _), configureErrorHandler(_)
refineEndpoint(ep, isRoute, defined) ==
    LET names     == ProducerNames(ep)
        responses == ToSet(BlocksOfType(ep, "response"))
    IN  When(isRoute /\ names = << >> /\ responses = {}, "empty endpoint")
        \cup When(isRoute /\ "default" \notin ToSet(names) /\ responses = {}, "no default")
        \cup When(Len(names) > 1 /\ Repeated(names), "proxy and request names")
        \cup When(\E r \in ToSet(BlocksOfType(ep, "request")) : Cardinality(BodyAttributes(r)) > 1, "bodies")
        \cup When(\E r \in responses : {"body", "json_body"} \subseteq BodyAttributes(r), "bodies")
        \cup UNION {websocketsProblems(ep, p) : p \in ToSet(BlocksOfType(ep, "proxy"))}
        \cup (IF isRoute THEN checkReferencedAccessControls(ep, defined) ELSE {})
        \cup configureErrorHandler(ep)

configureErrorHandler(b) ==
    newErrorHandlerContent(b)
    \cup UNION {refineEndpoint(h, FALSE, {}) : h \in ToSet(BlocksOfType(b, "error_handler"))}

configureAPI(api, defined) ==
    checkReferencedAccessControls(api, defined)
    \cup UNION {refineEndpoint(e, TRUE, defined) : e \in ToSet(BlocksOfType(api, "endpoint"))}
    \cup checkPermissionMixedConfig(api)
    \cup configureErrorHandler(api)

configureServer(server, defined) ==
    checkReferencedAccessControls(server, defined)
    \cup UNION {checkReferencedAccessControls(b, defined) :
                    b \in ToSet(BlocksOfType(server, "files") \o BlocksOfType(server, "spa"))}
    \cup UNION {configureAPI(a, defined) : a \in ToSet(BlocksOfType(server, "api"))}
    \cup UNION {refineEndpoint(e, TRUE, defined) : e \in ToSet(BlocksOfType(server, "endpoint"))}
===============================================================================
