--------------------------- MODULE ClientCallSync ---------------------------
(***************************************************************************)
(* One call of the synchronous client: _send_request_bidi_stream, or       *)
(* _send_request_unary for a Connect unary call.  It runs on a thread that *)
(* nobody cancels and leaves deadlines to the HTTP client, which may not   *)
(* notice one, and whose response may raise when it is closed before it    *)
(* was read to its end.  sent, finish, reset and late say what really      *)
(* happened and no guard of the client reads them.                         *)
(***************************************************************************)
EXTENDS ClientResponse

VARIABLES
    call,         \* the call: its shape, protocol and deadline
    now,          \* time.monotonic()
    pc,           \* where the generator is
    open,         \* the HTTP response: "none", "open" or "closed"
    resp,         \* status in its headers and trailers
    buffer,       \* frames of the last chunk that the reader has not decoded
    reader,       \* the envelope reader
    streamError,  \* the error the reader raised while it was fed
    exc,          \* the exception that unwinds the generator
    taken,        \* messages the consumer got
    outcome,      \* what the consumer learns
    sent,         \* messages that arrived
    finish,       \* how the server ended the response
    reset,        \* the code of the stream reset that arrived
    late          \* the body ended, when the deadline had passed

callVars == <<call, now>>
responseVars == <<resp, buffer, reader>>
serverVars == <<sent, finish, reset, late>>
vars == <<callVars, pc, open, responseVars, streamError, exc, taken, outcome, serverVars>>

Protocol == call.protocol
Init ==
    /\ call \in Calls /\ now = 0
    /\ pc = "start" /\ open = "none"
    /\ resp = [headers |-> None, trailers |-> None]
    /\ buffer = <<>> /\ reader = NoReader
    /\ streamError = NoError /\ exc = NoError
    /\ taken = 0 /\ outcome = Pending
    /\ sent = 0 /\ finish = None /\ reset = None /\ late = FALSE

Passed(t) == t # NoTime /\ t <= now
Raise(e) == exc' = e /\ pc' = "close"
Report(e) == outcome' = IF outcome = Pending THEN e ELSE outcome
-----------------------------------------------------------------------------
\* execute_* and the first lines: a deadline that has passed sends nothing.
Start ==
    /\ pc = "start"
    /\ IF Passed(call.deadline)
       THEN Report(Error("deadline_exceeded")) /\ pc' = "ended"
       ELSE UNCHANGED outcome /\ pc' = IF call.shape = "unary" THEN "post" ELSE "enter"
    /\ UNCHANGED <<callVars, open, responseVars, streamError, exc, taken, serverVars>>

\* A unary call has its whole response at once.
Post ==
    /\ pc = "post"
    /\ \E kind \in UnaryKinds :
         /\ Raise(UnaryVerdict(kind))
         /\ taken' = IF UnaryVerdict(kind) = NoError THEN 1 ELSE 0
         /\ sent' = taken'
         /\ finish' = IF kind = "good" THEN "ok" ELSE "error"
    /\ UNCHANGED <<callVars, open, responseVars, streamError, outcome, reset, late>>

\* The headers of the response arrive: they are judged if its status is 200,
\* else the body is collected, which holds the error.
EnterResponds ==
    /\ pc = "enter" /\ open' = "open"
    /\ \E kind \in HeaderKinds, status \in Statuses :
         /\ resp' = [resp EXCEPT !.headers = status]
         /\ IF HeaderError(kind) = NoError
            THEN pc' = "read" /\ reader' = NewReader /\ UNCHANGED exc
            ELSE Raise(HeaderError(kind)) /\ UNCHANGED reader
    /\ UNCHANGED <<callVars, buffer, streamError, taken, outcome, serverVars>>
EnterRefused ==
    /\ pc = "enter" /\ open' = "open" /\ pc' = "collect"
    /\ UNCHANGED <<callVars, responseVars, streamError, exc, taken, outcome, serverVars>>
Collect ==
    /\ pc = "collect"
    /\ \E kind \in {"json_error", "http_error"} : Raise(UnaryVerdict(kind))
    /\ finish' = "error" /\ open' = "read"
    /\ UNCHANGED <<callVars, responseVars, streamError, taken, outcome, sent, reset, late>>

\* A chunk of the body arrives and is handed to the reader.
Read ==
    /\ pc = "read"
    /\ \E frames \in Chunks(Protocol, MaxChunk), partial \in BOOLEAN :
         /\ sent + Messages(frames) <= MaxMessages
         /\ Len(buffer) + Len(frames) <= MaxChunk
         /\ Follows(reader, frames, partial)
         /\ buffer' = buffer \o frames
         /\ reader' = [reader EXCEPT !.partial = partial]
         /\ sent' = sent + Messages(frames)
         /\ finish' = Heard(Protocol, finish, frames, partial)
    /\ pc' = "feed"
    /\ UNCHANGED <<callVars, open, resp, streamError, exc, taken, outcome, reset, late>>

\* The reader decodes the next frame and yields a message, or wants more; what
\* it raises here is kept.
Keep(error) == error
Decode ==
    /\ pc = "feed"
    /\ UNCHANGED <<callVars, open, resp, taken, outcome, serverVars>>
    /\ IF buffer = <<>> \/ reader.ended
       THEN pc' = "read" /\ UNCHANGED <<buffer, reader, streamError, exc>>
       ELSE LET frame == Head(buffer)
                error == FrameError(Protocol, frame)
            IN  /\ buffer' = Tail(buffer)
                /\ IF error # NoError
                   THEN Raise(error) /\ streamError' = Keep(error) /\ UNCHANGED reader
                   ELSE /\ reader' = HandleFrame(Protocol, reader, frame)
                        /\ pc' = IF reader'.ended THEN "feed" ELSE "yield"
                        /\ UNCHANGED <<streamError, exc>>

\* The consumer takes the message and asks for more; _consume_single_response
\* raises at a second one and drops the generator, as a caller may who closes
\* it or drops it.
Take ==
    /\ pc = "yield" /\ taken' = taken + 1
    /\ IF call.shape = "single" /\ taken > 0
       THEN Report(Error("unimplemented")) /\ Raise(Exit)
       ELSE pc' = "feed" /\ UNCHANGED <<outcome, exc>>
    /\ UNCHANGED <<callVars, open, responseVars, streamError, serverVars>>
StopEarly ==
    /\ pc = "yield" /\ call.shape = "stream"
    /\ Report(Abandoned) /\ Raise(Exit)
    /\ UNCHANGED <<callVars, open, responseVars, streamError, taken, serverVars>>

\* The body ends, with the trailers of HTTP.  The HTTP client may have missed
\* that the deadline was why, so the clock decides before the reader is asked.
LateEnd == Passed(call.deadline)
Eof ==
    /\ pc = "read" /\ open' = "read"
    /\ late' = Passed(call.deadline)
    /\ \E trailers \in Trailers(Protocol) :
         /\ resp' = [resp EXCEPT !.trailers = trailers]
         /\ finish' = Finish(Protocol, finish, sent, resp')
         /\ Raise(IF LateEnd THEN Timeout ELSE AtEnd(Protocol, reader, buffer, resp'))
    /\ UNCHANGED <<callVars, buffer, reader, streamError, taken, outcome, sent, reset>>

\* The network fails or times out, the server resets the stream, or the HTTP
\* client notices that the call's timeout has passed.
Waiting == {"post", "enter", "collect", "read"}
Fails ==
    /\ pc \in Waiting
    /\ \/ Raise(Other) \/ Raise(HttpTimeout)
       \/ Passed(call.deadline) /\ Raise(Timeout)
    /\ UNCHANGED <<callVars, open, responseVars, streamError, taken, outcome, serverVars>>
StreamReset ==
    /\ pc \in Waiting \ {"post"}
    /\ \E code \in ResetCodes, trailers \in Trailers(Protocol) :
         /\ reset' = code
         /\ resp' = [resp EXCEPT !.trailers = trailers]
    /\ Raise(Reset)
    /\ UNCHANGED <<callVars, open, buffer, reader, streamError, taken, outcome, sent, finish, late>>

\* The response is closed.  If its body was not read to the end that may raise,
\* in place of what unwinds: an error of the reader goes first all the same, but
\* not before a TimeoutError.
NoMessage == call.shape = "single" /\ taken = 0
Mapped(e) ==
    CASE e \in {Timeout, HttpTimeout} -> Error("deadline_exceeded")
      [] e = Reset -> AfterReset(Protocol, reader, resp, MapReset(reset, Passed(call.deadline)))
      [] e = Other -> IF streamError # NoError THEN streamError ELSE Error("unavailable")
      [] e = NoError /\ NoMessage -> Error("unimplemented")
      [] OTHER -> e
Close ==
    /\ pc = "close" /\ pc' = "ended"
    /\ open' = IF open = "none" THEN open ELSE "closed"
    /\ \/ Report(Mapped(exc)) /\ UNCHANGED exc
       \/ open = "open" /\ Report(Mapped(Other)) /\ UNCHANGED exc
       \/ open = "open" /\ exc' = HttpTimeout /\ Report(Mapped(HttpTimeout))
    /\ UNCHANGED <<callVars, responseVars, streamError, taken, serverVars>>

Tick ==
    /\ now < MaxTime /\ now' = now + 1
    /\ UNCHANGED <<call, pc, open, responseVars, streamError, exc, taken, outcome, serverVars>>
Done == pc = "ended" /\ UNCHANGED vars

Next ==
    \/ Start \/ Post \/ EnterResponds \/ EnterRefused \/ Collect \/ Read
    \/ Decode \/ Take \/ StopEarly \/ Eof \/ Fails \/ StreamReset \/ Close
    \/ Tick \/ Done

=============================================================================
