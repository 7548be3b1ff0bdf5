-------------------------------- MODULE Writer --------------------------------
(***************************************************************************)
(* The response writers between the handlers and net/http: Response        *)
(* (server/writer/response.go), which changes the header before it is      *)
(* sent, around Gzip (gzip.go), which compresses the body.                 *)
(***************************************************************************)
EXTENDS Headers

minCompressBodyLength == 60

(* NewRecordHandler. gzip is what the client's header said when the        *)
(* request came in; cors holds the options of the modifier that the CORS   *)
(* handler adds. The modifier looks at the request when the header is      *)
(* written: what the endpoint has removed from the request is gone.        *)
NewWriter(secureCookies, req) ==
    [header |-> << >>, secureCookies |-> secureCookies, private |-> FALSE, cors |-> << >>, modifiers |-> << >>,
     gzip |-> "gzip" \in ToSet(Values(req.header, "Accept-Encoding")), hijacked |-> FALSE, status |-> 0]

(* What is changed in the header after it has been written is not sent.    *)
WithHeader(w, header) == IF w.status # 0 THEN w ELSE [w EXCEPT !.header = header]

SetHeader(w, f, v)    == WithHeader(w, Set(w.header, f, v))
AddPrivateCC(w)       == [w EXCEPT !.private = TRUE]
AddModifiers(w, ops)  == [w EXCEPT !.modifiers = @ \o ops]
AddCORS(w, cors, methods) == [w EXCEPT !.cors = <<[options |-> cors, methods |-> methods]>>]

configureHeader(w) ==
    LET named == Set(w.header, "Server", "couper.io")
    IN  IF w.secureCookies = "strip" THEN stripSecureCookies(named) ELSE named

applyHeaderModifiers(w, req, h) ==
    IF w.cors = << >> THEN h ELSE setCorsRespHeaders(w.cors[1].options, w.cors[1].methods, req, h)

applyModifiers(w, h) ==
    LET applied[n \in 0 .. Len(w.modifiers)] ==
            IF n = 0 THEN h ELSE applyHeaderOps(w.modifiers[n], applied[n - 1])
    IN  applied[Len(w.modifiers)]

(* Mutant of WriteHeader: the modifiers of api and server come last. *)
PrivateBeforeModifiers(w, req, status) ==
    IF w.status # 0 THEN w
    ELSE LET cors    == applyHeaderModifiers(w, req, configureHeader(w))
             private == IF w.private THEN Add(cors, "Cache-Control", "private") ELSE cors
         IN  [w EXCEPT !.header = applyModifiers(w, private), !.status = IF status = 0 THEN 500 ELSE status]

(* The header is changed once, when it is written.                         *)
WriteHeader(w, req, status) ==
    IF w.status # 0 THEN w
    ELSE LET changed == applyModifiers(w, applyHeaderModifiers(w, req, configureHeader(w)))
         IN  [w EXCEPT !.header = IF w.private THEN Add(changed, "Cache-Control", "private") ELSE changed,
                       !.status = IF status = 0 THEN 500 ELSE status]

(* Mutant of Compresses: whatever the backend did with the body. *)
CompressesAgain(w, length) == w.gzip /\ ~w.hijacked /\ length >= minCompressBodyLength

(* Gzip.writeHeader: a long body is compressed for a client that accepts   *)
(* it, unless it is compressed already.                                    *)
Compresses(w, length) ==
    /\ w.gzip /\ ~w.hijacked
    /\ length >= minCompressBodyLength
    /\ Get(w.header, "Content-Encoding") # "gzip"

(* What the client gets when the handlers have returned and Gzip.Close has *)
(* run. A status of 0 is the 200 of net/http when nobody has written one.  *)
Sent(w, length, gzips) ==
    LET varied == IF length >= minCompressBodyLength THEN Add(w.header, "Vary", "Accept-Encoding") ELSE w.header
    IN  IF Compresses(w, length)
        THEN Response(w.status, Set(Del(varied, {"Content-Length"}), "Content-Encoding", "gzip"), length, gzips + 1)
        ELSE Response(w.status, varied, length, gzips)

(* Hijack, and the header of a 101 that is written to the connection.      *)
SwitchProtocols(w, req, res) ==
    WriteHeader([w EXCEPT !.hijacked = TRUE, !.header = copyHeader(@, res.header)], req, res.status)
===============================================================================
