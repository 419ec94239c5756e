--------------------------- MODULE ClientResponse ---------------------------
(***************************************************************************)
(* How a client judges a response: the headers it accepts, what the        *)
(* readers of the three protocols take for the end of a response, and what *)
(* a stream reset means.  Both clients, module ClientCall and module       *)
(* ClientCallSync, are built from these operators.  Code "remote" stands   *)
(* for whatever code the server has sent.                                  *)
(***************************************************************************)
EXTENDS Naturals, Sequences, FiniteSets

CONSTANTS NoTime,       \* no deadline
          Shapes,       \* "unary": Connect unary; "single": one response, taken
                        \* by _consume_single_response; "stream": for the caller
          Deadlines,    \* deadlines of the call: times or NoTime
          MaxTime,      \* bound on the clock
          MaxMessages,  \* bound on the messages of a response
          MaxChunk      \* bound on the frames of a chunk

ASSUME ClientAssumption ==
    /\ Shapes \subseteq {"unary", "single", "stream"}
    /\ NoTime \notin Nat /\ Deadlines \subseteq Nat \cup {NoTime}
    /\ {MaxTime, MaxMessages, MaxChunk} \subseteq Nat

None == "none"
Protocols == {"connect", "grpc", "web"}

\* A call of either client: gRPC serves a unary call as a stream.
Calls == {c \in [shape : Shapes, protocol : Protocols, deadline : Deadlines] :
            c.shape = "unary" => c.protocol = "connect"}

\* The status a response carries: none, success, or an error with details.
Statuses == {None, "ok", "error"}

\* An error to report, and whether it has the details the server has sent.
Error(code) == [code |-> code, details |-> FALSE]
RemoteError(code) == [code |-> code, details |-> TRUE]
NoError == Error(None)

\* The content-type of a response to a stream, and its encoding.
HeaderKinds == {"good", "foreign", "other_codec", "encoding"}
HeaderError(kind) ==
    CASE kind = "foreign" -> Error("unknown")
      [] kind \in {"other_codec", "encoding"} -> Error("internal")
      [] OTHER -> NoError

\* validate_response and what follows it, for the whole response of a Connect
\* unary call: an error counts if it is JSON, else its HTTP status does.
UnaryKinds == {"good", "foreign", "other_codec", "encoding", "too_large",
               "malformed", "json_error", "http_error"}
UnaryVerdict(kind) ==
    CASE kind = "too_large" -> Error("resource_exhausted")
      [] kind = "malformed" -> Error("invalid_argument")
      [] kind = "json_error" -> RemoteError("remote")
      [] kind = "http_error" -> Error("remote")
      [] OTHER -> HeaderError(kind)

\* Frames of the body, as they are decoded: a message, one that is malformed or
\* too large, or the end message of Connect or gRPC-Web.
EndFrames(protocol) ==
    CASE protocol = "connect" -> {"end_ok", "end_error"}
      [] protocol = "web" -> {"end_ok", "end_error", "end_none"}
      [] OTHER -> {}
Frames(protocol) == {"message", "bad"} \cup EndFrames(protocol)
EndStatus(frame) ==
    CASE frame = "end_ok" -> "ok" [] frame = "end_error" -> "error" [] OTHER -> None

\* What the reader keeps: gRPC readers note that a frame was read; the trailers
\* are those of the end message.
NewReader ==
    [made |-> TRUE, read |-> FALSE, ended |-> FALSE, trailers |-> None, partial |-> FALSE]
NoReader == [NewReader EXCEPT !.made = FALSE]

\* handle_end_message: the reader after a frame.
Connect_Handle(r, frame) == [r EXCEPT !.ended = frame # "message"]
Grpc_Handle(r, frame) == [r EXCEPT !.read = TRUE]
Web_Handle(r, frame) ==
    [Grpc_Handle(r, frame) EXCEPT !.ended = frame # "message",
                                  !.trailers = EndStatus(frame)]
HandleFrame(protocol, r, frame) ==
    CASE protocol = "connect" -> Connect_Handle(r, frame)
      [] protocol = "grpc" -> Grpc_Handle(r, frame)
      [] OTHER -> Web_Handle(r, frame)

\* The error a frame raises: Connect's end message carries the error itself.
FrameError(protocol, frame) ==
    CASE frame = "bad" -> Error("invalid_argument")
      [] protocol = "connect" /\ frame = "end_error" -> RemoteError("remote")
      [] OTHER -> NoError

\* _check_ended: bytes after the end message, or a frame cut short.
CheckEnded(r, left) ==
    IF r.partial \/ (r.ended /\ left # <<>>) THEN Error("internal") ELSE NoError

\* handle_response_complete.  reset is the error of a stream reset, which keeps
\* its code whatever the trailers say and takes their details.
OrReset(reset, code) == IF reset # NoError THEN reset ELSE Error(code)
Connect_Complete_Trusting(r, reset) == NoError
Connect_Complete(r, reset) ==
    IF reset = NoError /\ ~r.ended THEN Error("internal") ELSE NoError

\* gRPC's status is in the trailers, or in the headers if there was no body.
Status(r, trailers, headers) ==
    IF trailers # None THEN trailers ELSE IF r.read THEN None ELSE headers
Grpc_Complete(status, reset) ==
    CASE status = None -> OrReset(reset, "internal")
      [] status = "error" ->
           RemoteError(IF reset # NoError THEN reset.code ELSE "remote")
      [] OTHER -> NoError
Complete(protocol, r, resp, reset) ==
    CASE protocol = "connect" -> Connect_Complete(r, reset)
      [] protocol = "grpc" ->
           Grpc_Complete(Status(r, resp.trailers, resp.headers), reset)
      [] OTHER -> Grpc_Complete(Status(r, r.trailers, resp.headers), reset)

\* maybe_map_stream_reset.  PROTOCOL_ERROR stands for the eight codes of a
\* broken stream, STREAM_CLOSED for those that are not mapped.
ResetCodes == {"PROTOCOL_ERROR", "REFUSED_STREAM", "CANCEL",
               "ENHANCE_YOUR_CALM", "INADEQUATE_SECURITY", "STREAM_CLOSED"}
MapReset_NoClock(code, expired) ==
    IF code = "CANCEL" THEN Error("deadline_exceeded") ELSE Error("internal")
MapReset(code, expired) ==
    CASE code = "PROTOCOL_ERROR" -> Error("internal")
      [] code = "REFUSED_STREAM" -> Error("unavailable")
      [] code = "CANCEL" -> Error(IF expired THEN "deadline_exceeded" ELSE "canceled")
      [] code = "ENHANCE_YOUR_CALM" -> Error("resource_exhausted")
      [] code = "INADEQUATE_SECURITY" -> Error("permission_denied")
      [] OTHER -> NoError

\* After a reset a reader is asked for details that the trailers may hold.
AfterReset(protocol, r, resp, mapped) ==
    IF mapped = NoError THEN Error("unavailable")
    ELSE LET verdict == Complete(protocol, r, resp, mapped)
         IN  IF r.made /\ verdict # NoError THEN verdict ELSE mapped

\* The body's end: the reader is left, and then asked for the verdict.
AtEnd(protocol, r, left, resp) ==
    IF CheckEnded(r, left) # NoError THEN CheckEnded(r, left)
    ELSE Complete(protocol, r, resp, NoError)

\* What a consumer learns, beside the errors, and the exceptions that the
\* client's code handles: they are no ConnectError yet.  HttpTimeout is a
\* TimeoutError as well, but not the deadline's: one of the HTTP client's own
\* timeouts, of the system's, or of the caller's requests.  No code tells it apart.
Pending == Error("pending")
Success == NoError
Abandoned == Error("abandoned")
Timeout == Error("TimeoutError")
HttpTimeout == Error("HttpTimeoutError")
Cancelled == Error("CancelledError")
Reset == Error("StreamError")
Other == Error("Exception")
Exit == Error("GeneratorExit")

\* Codes a client reports of its own.
LocalCodes == {"canceled", "unknown", "deadline_exceeded", "unimplemented",
               "internal", "unavailable", "resource_exhausted",
               "permission_denied", "invalid_argument"}
Codes == LocalCodes \cup {"remote"}
-----------------------------------------------------------------------------
\* What a server sends.  A chunk holds the frames that it completes, and perhaps
\* the first part of another.
Chunks(protocol, max) == UNION {[1..n -> Frames(protocol)] : n \in 0..max}
Messages(frames) == Cardinality({i \in DOMAIN frames : frames[i] = "message"})
Follows(r, frames, partial) ==
    r.partial /\ (frames = <<>> \/ r.ended) => partial
Trailers(protocol) == IF protocol = "grpc" THEN Statuses ELSE {None}

\* How the response ends as far as it was heard, if it ended with finish before
\* this chunk.  Whatever follows an end message garbles it.
Heard(protocol, finish, frames, partial) ==
    LET n == Len(frames)
        IsEnd(i) == frames[i] \in EndFrames(protocol)
    IN  IF n = 0 /\ ~partial THEN finish
        ELSE IF finish # None \/ \E i \in 1..n - 1 : IsEnd(i) THEN "garbled"
        ELSE IF n = 0 \/ ~IsEnd(n) THEN None
        ELSE IF partial THEN "garbled"
        ELSE IF EndStatus(frames[n]) = None THEN "nostatus" ELSE EndStatus(frames[n])

\* And once there is no more: trailers decide, or headers if there was no body.
Finish(protocol, finish, sent, resp) ==
    IF resp.trailers # None THEN resp.trailers
    ELSE IF finish # None THEN finish
    ELSE IF protocol # "connect" /\ sent = 0 THEN resp.headers ELSE None
=============================================================================
