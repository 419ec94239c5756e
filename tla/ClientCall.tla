----------------------------- MODULE ClientCall -----------------------------
(***************************************************************************)
(* One call of the asynchronous client: from execute_* to the end of the   *)
(* generator _send_request_bidi_stream, or of _send_request_unary for a    *)
(* Connect unary call.  The server, the network, the clock, the caller's   *)
(* cancellation and a consumer that stops early act in between.            *)
(*                                                                         *)
(* The generator's code between two awaits is one step.  resp, reader and  *)
(* exc are the locals of the code; sent, finish and reset say what the     *)
(* server really did and no guard of the client reads them.                *)
(***************************************************************************)
EXTENDS ClientResponse

VARIABLES
    call,     \* the call: its shape, protocol and deadline
    now,      \* the loop's clock
    pc,       \* where the generator is
    open,     \* the HTTP response: "none", "open" or "closed"
    resp,     \* status in its headers and trailers
    buffer,   \* frames of the last chunk that the reader has not decoded
    reader,   \* the envelope reader
    exc,      \* the exception that unwinds the generator
    cancel,   \* the caller's task was cancelled: pending, then delivered
    taken,    \* messages the consumer got
    outcome,  \* what the consumer learns: an error, or its absence
    sent,     \* messages that arrived
    finish,   \* how the server ended the response
    reset     \* the code of the stream reset that arrived

vars == <<call, now, pc, open, resp, buffer, reader, exc, cancel, taken,
          outcome, sent, finish, reset>>
serverVars == <<sent, finish, reset>>

Protocol == call.protocol

Init ==
    /\ call \in Calls /\ now = 0
    /\ pc = "start" /\ open = "none"
    /\ resp = [headers |-> None, trailers |-> None]
    /\ buffer = <<>> /\ reader = NoReader /\ exc = NoError
    /\ cancel = "no" /\ taken = 0 /\ outcome = Pending
    /\ sent = 0 /\ finish = None /\ reset = None

Passed(t) == t # NoTime /\ t <= now

\* An await that returned: nothing has cancelled the task at it.
Resumed(at) == pc = at /\ cancel # "pending"

\* Unwinding: the stack closes the response, then the error is mapped.
Raise(e) == exc' = e /\ pc' = "close"
Report(e) == outcome' = IF outcome = Pending THEN e ELSE outcome
-----------------------------------------------------------------------------
\* execute_* and the first lines: a deadline that has passed sends nothing.
Start ==
    /\ pc = "start"
    /\ IF Passed(call.deadline)
       THEN Report(Error("deadline_exceeded")) /\ pc' = "ended"
       ELSE UNCHANGED outcome /\ pc' = IF call.shape = "unary" THEN "post" ELSE "enter"
    /\ UNCHANGED <<call, now, open, resp, buffer, reader, exc, cancel, taken, serverVars>>

\* A unary call has its whole response at once.
Post ==
    /\ Resumed("post")
    /\ \E kind \in UnaryKinds :
         LET verdict == UnaryVerdict(kind) IN
         /\ Raise(verdict)
         /\ taken' = IF verdict = NoError THEN 1 ELSE 0
         /\ sent' = taken'
         /\ finish' = IF kind = "good" THEN "ok" ELSE "error"
    /\ UNCHANGED <<call, now, open, resp, buffer, reader, cancel, outcome, reset>>

\* The headers of the response arrive, and are judged.
EnterResponds ==
    /\ Resumed("enter")
    /\ open' = "open"
    /\ \E kind \in HeaderKinds, status \in Statuses :
         /\ resp' = [resp EXCEPT !.headers = status]
         /\ IF HeaderError(kind) = NoError
            THEN pc' = "top" /\ reader' = NewReader /\ UNCHANGED exc
            ELSE Raise(HeaderError(kind)) /\ UNCHANGED reader
    /\ UNCHANGED <<call, now, buffer, cancel, taken, outcome, serverVars>>

\* Not 200: the body is collected, and holds the error.
EnterRefused ==
    /\ Resumed("enter")
    /\ open' = "open" /\ pc' = "collect"
    /\ UNCHANGED <<call, now, resp, buffer, reader, exc, cancel, taken, outcome, serverVars>>
Collect ==
    /\ Resumed("collect")
    /\ \E kind \in {"json_error", "http_error"} : Raise(UnaryVerdict(kind))
    /\ finish' = "error"
    /\ UNCHANGED <<call, now, open, resp, buffer, reader, cancel, taken, outcome, sent, reset>>

\* The loop's top: a read of buffered data does not suspend, so the deadline is
\* compared with the clock before each.
LateAtTop_Never == FALSE
LateAtTop == Passed(call.deadline)
CheckDeadline ==
    /\ pc = "top"
    /\ IF LateAtTop THEN Raise(Timeout) ELSE pc' = "read" /\ UNCHANGED exc
    /\ UNCHANGED <<call, now, open, resp, buffer, reader, cancel, taken, outcome, serverVars>>

\* A chunk of the body arrives and is handed to the reader.
Read ==
    /\ Resumed("read")
    /\ \E frames \in Chunks(Protocol, MaxChunk), partial \in BOOLEAN :
         /\ sent + Messages(frames) <= MaxMessages
         /\ Len(buffer) + Len(frames) <= MaxChunk
         /\ Follows(reader, frames, partial)
         /\ buffer' = buffer \o frames
         /\ reader' = [reader EXCEPT !.partial = partial]
         /\ sent' = sent + Messages(frames)
         /\ finish' = Heard(Protocol, finish, frames, partial)
    /\ pc' = "feed"
    /\ UNCHANGED <<call, now, open, resp, exc, cancel, taken, outcome, reset>>

\* The reader decodes the next frame and yields a message, or wants more.
Decode ==
    /\ pc = "feed"
    /\ UNCHANGED <<call, now, open, resp, cancel, taken, outcome, serverVars>>
    /\ IF buffer = <<>> \/ reader.ended
       THEN pc' = "top" /\ UNCHANGED <<buffer, reader, exc>>
       ELSE LET frame == Head(buffer)
                error == FrameError(Protocol, frame)
            IN  /\ buffer' = Tail(buffer)
                /\ IF error # NoError THEN Raise(error) /\ UNCHANGED reader
                   ELSE /\ reader' = HandleFrame(Protocol, reader, frame)
                        /\ pc' = IF reader'.ended THEN "feed" ELSE "yield"
                        /\ UNCHANGED exc

\* The consumer takes the message and asks for the next one.
Second == call.shape = "single" /\ taken > 0
Take ==
    /\ pc = "yield" /\ ~Second
    /\ taken' = taken + 1 /\ pc' = "sleep"
    /\ UNCHANGED <<call, now, open, resp, buffer, reader, exc, cancel, outcome, serverVars>>

\* _consume_single_response raises at a second message and drops the generator.
TakeSecond ==
    /\ pc = "yield" /\ Second
    /\ taken' = taken + 1 /\ pc' = "dropped"
    /\ Report(Error("unimplemented"))
    /\ UNCHANGED <<call, now, open, resp, buffer, reader, exc, cancel, serverVars>>

\* A caller may stop early: it closes the generator, or only drops it.
StopEarly ==
    /\ pc = "yield" /\ call.shape = "stream"
    /\ Report(Abandoned)
    /\ \/ Raise(Exit)
       \/ pc' = "dropped" /\ UNCHANGED exc
    /\ UNCHANGED <<call, now, open, resp, buffer, reader, cancel, taken, serverVars>>

\* A dropped generator is closed by the loop, through its hook for generators.
Finalize ==
    /\ pc = "dropped"
    /\ Raise(Exit)
    /\ UNCHANGED <<call, now, open, resp, buffer, reader, cancel, taken, outcome, serverVars>>

\* sleep(0) after each message: nothing but a cancellation happens there.
Awake ==
    /\ Resumed("sleep")
    /\ pc' = "feed"
    /\ UNCHANGED <<call, now, open, resp, buffer, reader, exc, cancel, taken, outcome, serverVars>>

\* The body ends, with the trailers of HTTP: the reader is left and asked for
\* the response's verdict.
Eof ==
    /\ Resumed("read")
    /\ \E trailers \in Trailers(Protocol) :
         /\ resp' = [resp EXCEPT !.trailers = trailers]
         /\ finish' = Finish(Protocol, finish, sent, resp')
         /\ Raise(AtEnd(Protocol, reader, buffer, resp'))
    /\ UNCHANGED <<call, now, open, buffer, reader, cancel, taken, outcome, sent, reset>>

\* The network fails or times out, or the server resets the stream, perhaps with
\* trailers.
Waiting == {"post", "enter", "collect", "read"}
Suspended == Waiting \cup {"sleep"} \cup IF open = "open" THEN {"close"} ELSE {}
Fails ==
    /\ pc \in Waiting /\ cancel # "pending"
    /\ Raise(Other) \/ Raise(HttpTimeout)
    /\ UNCHANGED <<call, now, open, resp, buffer, reader, cancel, taken, outcome, serverVars>>
StreamReset ==
    /\ pc \in Waiting \ {"post"} /\ cancel # "pending"
    /\ \E code \in ResetCodes, trailers \in Trailers(Protocol) :
         /\ reset' = code
         /\ resp' = [resp EXCEPT !.trailers = trailers]
    /\ Raise(Reset)
    /\ UNCHANGED <<call, now, open, buffer, reader, cancel, taken, outcome, sent, finish>>

\* asyncio's timeout around each wait, unless the task was cancelled as well.
TimedOut ==
    /\ pc \in Waiting /\ Passed(call.deadline) /\ cancel # "pending"
    /\ Raise(Timeout)
    /\ UNCHANGED <<call, now, open, resp, buffer, reader, cancel, taken, outcome, serverVars>>

\* A cancellation is delivered at the await the generator is suspended at, also
\* while the response is being closed.
Interrupt ==
    /\ pc \in Suspended /\ cancel = "pending"
    /\ cancel' = "delivered"
    /\ open' = IF open = "open" /\ pc = "close" THEN "closed" ELSE open
    /\ Raise(Cancelled)
    /\ UNCHANGED <<call, now, resp, buffer, reader, taken, outcome, serverVars>>

\* The stack has closed the response: the error is mapped to a ConnectError.
\* After a reset the reader is asked for details the trailers may hold.
NoMessage_Never == FALSE
NoMessage == call.shape = "single" /\ taken = 0
Mapped(e) ==
    CASE e \in {Timeout, HttpTimeout} -> Error("deadline_exceeded")
      [] e = Cancelled -> Error("canceled")
      [] e = Reset ->
           AfterReset(Protocol, reader, resp, MapReset(reset, Passed(call.deadline)))
      [] e = Other -> Error("unavailable")
      [] e = NoError /\ NoMessage -> Error("unimplemented")
      [] OTHER -> e
Close ==
    /\ pc = "close"
    /\ open' = IF open = "open" THEN "closed" ELSE open
    /\ Report(Mapped(exc))
    /\ pc' = "ended"
    /\ UNCHANGED <<call, now, resp, buffer, reader, exc, cancel, taken, serverVars>>
-----------------------------------------------------------------------------
Tick == now < MaxTime /\ now' = now + 1
        /\ UNCHANGED <<call, pc, open, resp, buffer, reader, exc, cancel, taken, outcome, serverVars>>

\* The caller's task is cancelled while it is in the client's code.
CallerCancels ==
    /\ cancel = "no" /\ pc \in Suspended /\ outcome = Pending
    /\ cancel' = "pending"
    /\ UNCHANGED <<call, now, pc, open, resp, buffer, reader, exc, taken, outcome, serverVars>>

Done == pc = "ended" /\ UNCHANGED vars

Next ==
    \/ Start \/ Post \/ EnterResponds \/ EnterRefused \/ Collect
    \/ CheckDeadline \/ Read \/ Decode \/ Take \/ TakeSecond \/ StopEarly
    \/ Finalize \/ Awake \/ Eof \/ Fails \/ StreamReset \/ TimedOut
    \/ Interrupt \/ Close \/ Tick \/ CallerCancels \/ Done

\* The event loop runs what is ready, closes what is dropped and fires timers;
\* the clock goes on.  Nothing is assumed of the server or of the consumer.
Progress ==
    \/ Start \/ CheckDeadline \/ Decode \/ Awake \/ Close
    \/ Finalize \/ Interrupt \/ TimedOut
=============================================================================
