------------------------------ MODULE Exchange ------------------------------
(***************************************************************************)
(* What a server means and what a client of this library understands: one  *)
(* call over an intact network, from the server's choice of protocol, codec *)
(* and compression to the status, messages and metadata that the client    *)
(* hands on.  A call is a Connect unary call by GET or POST, a Connect     *)
(* stream, gRPC or gRPC-Web.  Modules AsyncRequest and ClientCall model     *)
(* what goes wrong on the way; here it is what is written that counts.     *)
(***************************************************************************)
EXTENDS Naturals, Sequences, SequencesExt

CONSTANTS MaxMessages,   \* bound on the messages of a stream
          Accepts,       \* what clients may accept, in order of preference
          Supports,      \* what servers may support: sets of compressions
          Names          \* of the metadata a handler may set

Kinds == {"get", "post", "connect", "grpc", "web"}
None == "none"

\* The codes in the order of their gRPC status, which is the index.
CodeTable == <<"canceled", "unknown", "invalid_argument", "deadline_exceeded",
    "not_found", "already_exists", "permission_denied", "resource_exhausted",
    "failed_precondition", "aborted", "out_of_range", "unimplemented",
    "internal", "unavailable", "data_loss", "unauthenticated">>
GrpcStatus(code) == CHOOSE i \in DOMAIN CodeTable : CodeTable[i] = code
FromGrpc(status) == CodeTable[status]

\* Connect's HTTP status of a code, and the code of one that came without any.
HttpStatus(code) ==
    CASE code = "canceled" -> 499
      [] code \in {"invalid_argument", "failed_precondition", "out_of_range"} -> 400
      [] code = "deadline_exceeded" -> 504
      [] code = "not_found" -> 404
      [] code \in {"already_exists", "aborted"} -> 409
      [] code = "permission_denied" -> 403
      [] code = "resource_exhausted" -> 429
      [] code = "unimplemented" -> 501
      [] code = "unavailable" -> 503
      [] code = "unauthenticated" -> 401
      [] OTHER -> 500
FromHttp(status) ==
    CASE status = 400 -> "internal"
      [] status = 401 -> "unauthenticated"
      [] status = 403 -> "permission_denied"
      [] status = 404 -> "unimplemented"
      [] status \in {429, 502, 503, 504} -> "unavailable"
      [] OTHER -> "unknown"

\* A status: success, an error, or the bare HTTP status of an HTTPError.
Error(code, message, details) ==
    [code |-> code, message |-> message, details |-> details]
Ok == Error("ok", "", FALSE)
Pending == Error("pending", "", FALSE)
Http(status) == [http |-> status]
IsHttp(e) == DOMAIN e = {"http"}
Errors == [code : Range(CodeTable), message : {"", "text"}, details : BOOLEAN]

VARIABLES
    call,       \* the client's side: kind, accept, send, codec and timeout
    server,     \* the server's side: endpoint, trailers, codecs, compressions
    pc,
    chosen,     \* compression of the response
    user,       \* metadata the handler sets: headers and trailers
    meant,      \* the status the server means
    sent,       \* messages the server has sent
    wire,       \* the response
    metadata,   \* what the client's ResponseMetadata has
    got,        \* messages the client got
    verdict     \* the status the client understands

vars == <<call, server, pc, chosen, user, meant, sent, wire, metadata, got, verdict>>

Unary == call.kind \in {"get", "post"}
Grpc == call.kind \in {"grpc", "web"}

Missing == 99
NoStatus == [status |-> Missing, message |-> "", bin |-> Ok, names |-> {}]
NoResponse == [http |-> 0, type |-> None, encoding |-> None, headers |-> {},
               status |-> NoStatus, frames |-> <<>>, trailers |-> NoStatus]

\* A client lists all it accepts, identity last, and always says how it sends;
\* identity is supported on both sides.  Ten digits are the most that Connect's
\* timeout may have; gRPC's eight and a unit do for ten thousand years.
Requests == [kind : Kinds,
             accept : Accepts,
             send : {"gzip", "identity"},
             codec : {"proto", "custom"},
             timeout : {"short", "eleven_digits"}]
Servers == [endpoint : BOOLEAN, trailers : BOOLEAN, codecs : {{"proto"}},
            compressions : Supports]

Init ==
    /\ call \in Requests /\ server \in Servers
    /\ Grpc => call.timeout = "short"
    /\ pc = "route" /\ chosen = None
    /\ user = [headers |-> {}, trailers |-> {}]
    /\ meant = Pending /\ sent = 0 /\ wire = NoResponse
    /\ metadata = [headers |-> {}, trailers |-> {}]
    /\ got = 0 /\ verdict = Pending
-----------------------------------------------------------------------------
(* The server. *)

\* A header is a name and what precedes it.  Connect's metadata of a response
\* without an end message: trailers are headers with a prefix.
Header(name) == [prefix |-> "", name |-> name]
Prefixed(name) == [prefix |-> "trailer-", name |-> name]
ContextHeaders == user.headers \cup {Prefixed(t) : t \in user.trailers}

\* _status_trailers.  A user's trailer of a reserved name, as a proxy may pass
\* them on, stays where the error sets none.
Reserved == "grpc-"
Stale == Error("data_loss", "stale", FALSE)
StatusTrailers(trailers, e) ==
    LET reserved == Reserved \in trailers IN
    [status |-> IF e = Ok THEN 0 ELSE GrpcStatus(e.code),
     message |-> IF e # Ok /\ e.message # "" THEN e.message
                 ELSE IF reserved THEN Stale.message ELSE "",
     bin |-> IF e # Ok /\ e.details THEN e ELSE IF reserved THEN Stale ELSE Ok,
     names |-> trailers]

\* _handle_error: an HTTPError as it is, gRPC's error as a response of trailers
\* only, Connect's as JSON.
TrailersOnly(e) ==
    [NoResponse EXCEPT !.http = 200, !.type = call.kind, !.headers = user.headers,
                       !.status = StatusTrailers(user.trailers, e)]
Json(e) == <<e>>
ErrorResponse(e) ==
    IF IsHttp(e) THEN [NoResponse EXCEPT !.http = e.http, !.headers = ContextHeaders]
    ELSE IF Grpc THEN TrailersOnly(e)
    ELSE [NoResponse EXCEPT !.http = HttpStatus(e.code), !.type = "json",
                            !.headers = ContextHeaders, !.frames = Json(e)]

Answer(e, response) == meant' = e /\ wire' = response /\ pc' = "headers"

\* Routing, protocol, deadline and codec: the first of them that fails.
Rejection ==
    IF ~server.endpoint THEN Http(404)
    ELSE IF call.kind = "grpc" /\ ~server.trailers THEN Error("unknown", "text", FALSE)
    ELSE IF ~Grpc /\ call.timeout = "eleven_digits"
         THEN Error("invalid_argument", "text", FALSE)
    ELSE IF call.codec \notin server.codecs THEN Http(415)
    ELSE Ok
Route ==
    /\ pc = "route"
    /\ IF Rejection = Ok THEN pc' = "negotiate" /\ UNCHANGED <<meant, wire>>
       ELSE Answer(Rejection, ErrorResponse(Rejection))
    /\ UNCHANGED <<call, server, chosen, user, sent, metadata, got, verdict>>

\* The head of a stream's response, and the stream's end.
Head_ == IF wire.http # 0 THEN wire
         ELSE [NoResponse EXCEPT !.http = 200, !.type = call.kind,
                                 !.encoding = chosen', !.headers = user.headers]
EndFrame(e) == [end |-> e, names |-> user.trailers, encoding |-> chosen']
EndStream(e) ==
    IF call.kind = "grpc"
    THEN [Head_ EXCEPT !.trailers = StatusTrailers(user.trailers, e)]
    ELSE LET end == IF Grpc THEN StatusTrailers(user.trailers, e) ELSE e
         IN  [Head_ EXCEPT !.frames = Append(@, EndFrame(end))]

\* negotiate_compression takes the first that is accepted and supported, identity
\* if there is none; a request in an encoding that is not supported is refused.
Suits(accept, i) == i \in DOMAIN accept /\ accept[i] \in server.compressions
NegotiateCompression(accept) ==
    IF \E i \in DOMAIN accept : Suits(accept, i)
    THEN accept[CHOOSE i \in DOMAIN accept :
                    Suits(accept, i) /\ \A j \in 1..(i - 1) : ~Suits(accept, j)]
    ELSE "identity"
Unsupported == Error("unimplemented", "text", FALSE)
Negotiate ==
    /\ pc = "negotiate"
    /\ chosen' = NegotiateCompression(call.accept)
    /\ IF call.send \in server.compressions
       THEN pc' = "handler" /\ UNCHANGED <<meant, wire>>
       ELSE Answer(Unsupported, IF Unary THEN ErrorResponse(Unsupported)
                                ELSE EndStream(Unsupported))
    /\ UNCHANGED <<call, server, user, sent, metadata, got, verdict>>

\* The handler sets metadata, of names without the prefix, sends messages if it is
\* a stream's, and ends.
UserMetadata == [headers : SUBSET {Header(n) : n \in Names},
                 trailers : SUBSET (Names \cup {Reserved})]
SetMetadata ==
    /\ pc = "handler"
    /\ user' \in UserMetadata
    /\ pc' = "running"
    /\ UNCHANGED <<call, server, chosen, meant, sent, wire, metadata, got, verdict>>
SendMessage ==
    /\ pc = "running" /\ ~Unary /\ sent < MaxMessages
    /\ chosen' = chosen /\ sent' = sent + 1
    /\ wire' = [Head_ EXCEPT !.frames = Append(@, [encoding |-> chosen])]
    /\ UNCHANGED <<call, server, pc, user, meant, metadata, got, verdict>>
UnaryResponse ==
    [NoResponse EXCEPT !.http = 200, !.type = "unary", !.encoding = chosen,
                       !.headers = ContextHeaders]
HandlerEnds ==
    /\ pc = "running" /\ chosen' = chosen
    /\ \E e \in Errors \cup {Ok} :
         /\ Answer(e, IF ~Unary THEN EndStream(e)
                      ELSE IF e = Ok THEN UnaryResponse ELSE ErrorResponse(e))
         /\ sent' = IF Unary /\ e = Ok THEN 1 ELSE sent
    /\ UNCHANGED <<call, server, user, metadata, got, verdict>>
-----------------------------------------------------------------------------
(* The client. *)

\* handle_response_headers takes the prefix off what is a trailer.
Trailers == {t \in Names \cup {Reserved} : Prefixed(t) \in wire.headers}
Received ==
    [headers |-> wire.headers \ {Prefixed(t) : t \in Trailers}, trailers |-> Trailers]

\* from_response and from_dict: the code is the one in the JSON.
FromResponse(response) ==
    IF response.type = "json" THEN response.frames[1]
    ELSE Error(FromHttp(response.http), "phrase", FALSE)

\* validate_response, validate_stream_response and handle_response_compression.
Invalid(expected) ==
    \/ wire.type # expected
    \/ wire.encoding # None /\ ~Contains(call.accept, wire.encoding)
Internal == Error("internal", "text", FALSE)

ReadHeaders ==
    /\ pc = "headers"
    /\ metadata' = Received
    /\ \/ /\ wire.http # 200
          /\ verdict' = FromResponse(wire) /\ pc' = "done" /\ got' = 0
       \/ /\ wire.http = 200 /\ Unary /\ pc' = "done"
          /\ IF Invalid("unary") THEN verdict' = Internal /\ got' = 0
             ELSE verdict' = Ok /\ got' = 1
       \/ /\ wire.http = 200 /\ ~Unary /\ got' = 0
          /\ IF Invalid(call.kind) THEN verdict' = Internal /\ pc' = "done"
             ELSE pc' = "frames" /\ UNCHANGED verdict
    /\ UNCHANGED <<call, server, chosen, user, meant, sent, wire>>

\* The verdict on gRPC's trailers: the status in the details goes first.
GrpcVerdict(t) ==
    IF t.status = Missing THEN Internal
    ELSE IF t.status = 0 THEN Ok
    ELSE IF t.bin # Ok
         THEN Error(FromGrpc(GrpcStatus(t.bin.code)), t.bin.message, t.bin.details)
    ELSE Error(FromGrpc(t.status), t.message, FALSE)

\* The envelope readers: a message is decoded with the compression of the
\* response; the end message has the status, and the metadata.
IsEnd(frame) == "end" \in DOMAIN frame
AddTrailers(names) == metadata' = [metadata EXCEPT !.trailers = @ \cup names]
ReadFrame ==
    /\ pc = "frames" /\ wire.frames # <<>>
    /\ wire' = [wire EXCEPT !.frames = Tail(@)]
    /\ LET frame == Head(wire.frames) IN
       IF frame.encoding # wire.encoding
       THEN verdict' = Internal /\ pc' = "done" /\ UNCHANGED <<got, metadata>>
       ELSE IF IsEnd(frame)
       THEN /\ verdict' = IF Grpc THEN GrpcVerdict(frame.end) ELSE frame.end
            /\ AddTrailers(frame.names) /\ pc' = "done" /\ UNCHANGED got
       ELSE got' = got + 1 /\ UNCHANGED <<verdict, pc, metadata>>
    /\ UNCHANGED <<call, server, chosen, user, meant, sent>>

\* handle_response_complete: gRPC's status is in the trailers; without a body it
\* may be in the headers.
InHeaders_Never == FALSE
InHeaders == got = 0
ReadEnd ==
    /\ pc = "frames" /\ wire.frames = <<>>
    /\ LET t == IF wire.trailers.status = Missing /\ InHeaders THEN wire.status
                ELSE wire.trailers
       IN  /\ verdict' = IF Grpc THEN GrpcVerdict(t) ELSE Internal
           /\ AddTrailers(t.names)
    /\ pc' = "done"
    /\ UNCHANGED <<call, server, chosen, user, meant, sent, wire, got>>

Next ==
    \/ Route \/ Negotiate \/ SetMetadata \/ SendMessage \/ HandlerEnds
    \/ ReadHeaders \/ ReadFrame \/ ReadEnd

Spec == Init /\ [][Next]_vars
-----------------------------------------------------------------------------
\* The client understands what the server meant, over every protocol and however
\* early it failed: the code, the message and the details, all messages of a
\* success and all metadata.  An HTTPError becomes the code of its status.  The
\* one exception is gRPC's error without a message or details over a user's
\* trailers of reserved names.
ExchangeHonest ==
    pc = "done" =>
        /\ \/ verdict = meant
           \/ meant = Http(404) /\ verdict.code = "unimplemented"
           \/ meant = Http(415) /\ verdict.code = "unknown"
           \/ /\ Grpc /\ Reserved \in user.trailers
              /\ meant \in Errors /\ (meant.message = "" \/ ~meant.details)
        /\ verdict = Ok => got = sent
        /\ user.headers \subseteq metadata.headers
        /\ user.trailers \subseteq metadata.trailers
=============================================================================
