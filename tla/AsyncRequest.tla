---------------------------- MODULE AsyncRequest ----------------------------
(***************************************************************************)
(* One RPC served by ConnectASGIApplication._handle_request under asyncio. *)
(*                                                                         *)
(* The coroutine runs without interruption between two awaits, so pc       *)
(* ranges over its awaits (AwaitPcs) and over the straight-line code       *)
(* between them; the rest of the world (the client, the clock, the timer   *)
(* of the deadline, the disconnect watch, the app server cancelling the    *)
(* task) only steps while the coroutine is suspended at an await.          *)
(***************************************************************************)
EXTENDS Naturals, Sequences

CONSTANTS
    Shapes,        \* kinds of request: see AllShapes
    NHooks,        \* number of leading metadata interceptors
    Deadlines,     \* deadlines a request may carry, NoTime for none
    NoTime,        \* "no deadline"
    MaxTime,       \* bound on the clock
    MaxChunks,     \* bound on the chunks of a request body
    MaxMessages,   \* bound on the messages a generator handler yields
    MaxCancels,    \* bound on the cancellations by the app server
    MaxInterrupts, \* bound on the KeyboardInterrupts raised in user code
    LateAccept     \* may a cancelled send() already have been accepted?

\* "get", "post": Connect unary.  "single": unary on a stream protocol (gRPC).
AllShapes == {"get", "post", "single", "client_stream", "server_stream", "bidi"}

ASSUME NHooksAssumption == NHooks \in Nat
ASSUME TimeAssumption ==
    /\ NoTime \notin Nat
    /\ Deadlines \subseteq Nat \cup {NoTime}
    /\ MaxTime \in Nat
ASSUME BoundAssumption ==
    /\ Shapes \subseteq AllShapes
    /\ MaxChunks \in Nat \ {0}
    /\ {MaxMessages, MaxCancels, MaxInterrupts} \subseteq Nat
    /\ LateAccept \in BOOLEAN

VARIABLES
    shape, trailers, deadline,            \* the request
    now, clientGone, goneAt, unread,      \* clock and client
    bodyDone, disconnected, watch,        \* _RequestReceiver and the watch task
    scope, when,                          \* asyncio.Timeout: state and deadline
    mustCancel, cancels, swallowed,       \* cancellation of the task
    started, runErr, runCancel, endSite,  \* MetadataInterceptorsRun
    seen, hookTrouble, interrupts,        \* history of the hooks
    sStarted, sFailed, wire, status,      \* _ResponseSender, accepted messages
    gen, requestStream, yielded,          \* the two generators
    pc, exc, error, leaving, responded, result   \* the coroutine

request == <<shape, trailers, deadline>>
world == <<now, clientGone, goneAt, unread>>
receiver == <<bodyDone, disconnected, watch>>
timer == <<scope, when>>
cancellation == <<mustCancel, cancels, swallowed>>
run == <<started, runErr, runCancel, endSite>>
history == <<seen, hookTrouble, interrupts>>
sender == <<sStarted, sFailed, wire, status>>
generators == <<gen, requestStream, yielded>>
frame == <<pc, exc, error, leaving, responded, result>>
\* Shorthands for UNCHANGED.
still == <<request, world, receiver, timer>>
io == <<run, history, sender, generators>>
ending == <<leaving, responded, result>>
vars == <<request, world, receiver, timer, cancellation, run, history, sender,
          generators, frame>>

-----------------------------------------------------------------------------
(* Vocabulary *)

NoError == "none"
\* Errors that carry their own status; the others are plain exceptions.
StatusErrors == {"http", "invalid", "app", "gone_reading", "gone", "deadline",
                 "cancelled", "unknown"}
PlainErrors == {"crash", "sendfail", "hook"}
Errors == StatusErrors \cup PlainErrors
\* What the handler and the hooks may raise of their own.
HandlerErrors == {"app", "crash"}
\* Raised past `except Exception`: CancelledError and KeyboardInterrupt.
BaseErrors == {"cancel", "interrupt"}

ConnectUnary == shape \in {"get", "post"}
Streams == shape \notin {"get", "post"}
\* The handler is an async generator: it may yield many responses.
Generator == shape \in {"server_stream", "bidi"}
\* The handler itself iterates over the request stream.
ReadsStream == shape \in {"client_stream", "bidi"}

SendPcs == {"unary_start", "unary_body", "headers", "message", "end_headers",
            "end_body", "end_trailers", "err_start", "err_body"}
AwaitPcs == SendPcs \cup {"on_start", "read", "handler", "handler_read", "close",
                          "unwatching", "end"}
CodePcs == {"route", "begin", "encode", "unwatch", "caught", "unary_encode",
            "scope_exit", "respond", "finish", "done"}

\* The coroutine is suspended, so the rest of the event loop may run.
Suspended ==
    \/ pc \in AwaitPcs \ {"end", "close"}
    \/ pc = "end" /\ started # <<>>
    \/ pc = "close" /\ Generator

MessageType(p) ==
    CASE p \in {"headers", "end_headers"} ->
           IF trailers THEN "start_trailers" ELSE "start"
      [] p = "unary_start" -> "start"
      [] p = "err_start" -> "start_error"
      [] p = "message" -> "chunk"
      [] p \in {"unary_body", "end_body", "err_body"} -> "last"
      [] p = "end_trailers" -> "trailers"

\* The messages of a complete response: only a stream of gRPC has trailers.
StartTypes == {"start", "start_trailers", "start_error"}
Has(type) == \E i \in DOMAIN wire : wire[i] = type
LastMessage == IF Has("start_trailers") THEN "trailers" ELSE "last"
HeadersSent == wire # <<>>
Complete == Has(LastMessage)

\* The order of messages the ASGI specification asks for: what an app server
\* accepts.  Anything else it answers with an exception out of send().
Legal(type) ==
    CASE type \in StartTypes -> wire = <<>>
      [] type \in {"chunk", "last"} -> HeadersSent /\ ~Has("last")
      [] type = "trailers" -> LastMessage = "trailers" /\ Has("last") /\ ~Complete

-----------------------------------------------------------------------------
(* Start of the request, up to its body *)

Init ==
    /\ shape \in Shapes
    /\ trailers \in IF Streams THEN BOOLEAN ELSE {FALSE}
    /\ deadline \in Deadlines
    /\ now = 0 /\ clientGone = FALSE /\ goneAt = NoTime
    /\ unread \in IF shape = "get" THEN {0} ELSE 1..MaxChunks
    /\ bodyDone = FALSE /\ disconnected = FALSE /\ watch = "off"
    /\ scope = "entered" /\ when = NoTime
    /\ mustCancel = FALSE /\ cancels = 0 /\ swallowed = FALSE
    /\ started = <<>> /\ runErr = NoError /\ runCancel = FALSE /\ endSite = "in"
    /\ seen = [i \in 1..NHooks |-> <<>>] /\ hookTrouble = FALSE /\ interrupts = 0
    /\ sStarted = FALSE /\ sFailed = FALSE /\ wire = <<>> /\ status = NoError
    /\ gen = "none" /\ requestStream = "none" /\ yielded = 0
    /\ pc = "route" /\ exc = NoError /\ error = NoError
    /\ leaving = NoError /\ responded = FALSE /\ result = NoError

\* Unknown path or codec ("http"), invalid headers ("invalid"), or an app
\* server without the trailers extension ("crash"): no hook has started.
RouteFails ==
    /\ pc = "route"
    /\ error' \in {"http", "invalid", "crash"}
    /\ pc' = "scope_exit"
    /\ UNCHANGED <<still, cancellation, io, exc, ending>>

\* Mutant: the scope is not rescheduled to the request's deadline.
ScopeDeadline_Unset == NoTime
ScopeDeadline == deadline

AfterStart(n) == IF n = NHooks THEN "begin" ELSE "on_start"

Route ==
    /\ pc = "route"
    /\ when' = ScopeDeadline
    /\ requestStream' = IF Streams THEN "unset" ELSE "none"
    /\ pc' = AfterStart(0)
    /\ UNCHANGED <<request, world, receiver, scope, cancellation, run, history,
                   sender, gen, yielded, exc, error, ending>>

\* A coroutine that has a cancellation delivered resumes without it.
Deliver == /\ mustCancel
           /\ mustCancel' = FALSE
           /\ UNCHANGED <<cancels, swallowed>>
NoCancel == ~mustCancel /\ UNCHANGED cancellation
\* User code may answer a cancellation with something else.
MaySwallow == /\ mustCancel' = FALSE
              /\ swallowed' = (swallowed \/ mustCancel)
              /\ UNCHANGED cancels

\* User code may raise a KeyboardInterrupt.
Interrupted == /\ interrupts < MaxInterrupts
               /\ interrupts' = interrupts + 1
               /\ UNCHANGED <<seen, hookTrouble>>

OnStartReturns ==
    /\ pc = "on_start"
    /\ MaySwallow
    /\ started' = Append(started, Len(started) + 1)
    /\ pc' = AfterStart(Len(started'))
    /\ UNCHANGED <<still, runErr, runCancel, endSite, history, sender,
                   generators, exc, error, ending>>

OnStartRaises ==
    /\ pc = "on_start"
    /\ pc' = "caught"
    /\ \/ exc' = "hook" /\ MaySwallow /\ UNCHANGED history
       \/ exc' = "cancel" /\ Deliver /\ UNCHANGED history
       \/ exc' = "interrupt" /\ MaySwallow /\ Interrupted
    /\ UNCHANGED <<still, run, sender, generators, error, ending>>

\* watch_for_disconnect is entered: its task waits for the end of the body.
StartWatch == watch' = "waiting" /\ UNCHANGED disconnected

BeginUnary ==
    /\ pc = "begin" /\ ConnectUnary
    /\ \/ shape = "get" /\ StartWatch /\ bodyDone' = TRUE /\ pc' = "handler"
          /\ UNCHANGED exc
       \/ shape = "get" /\ UNCHANGED receiver /\ pc' = "caught" /\ exc' = "invalid"
       \/ shape = "post" /\ UNCHANGED <<receiver, exc>> /\ pc' = "read"
    /\ UNCHANGED <<request, world, timer, cancellation, io, error, ending>>

BeginStream ==
    /\ pc = "begin" /\ Streams
    /\ StartWatch
    /\ requestStream' = "open"
    /\ pc' = IF ReadsStream THEN "handler" ELSE "read"
    /\ UNCHANGED <<request, world, bodyDone, timer, cancellation, run, history,
                   sender, gen, yielded, exc, error, ending>>

\* The request's compression is unknown.
BeginFails ==
    /\ pc = "begin" /\ Streams
    /\ exc' = "invalid" /\ pc' = "caught"
    /\ UNCHANGED <<still, cancellation, io, error, ending>>

-----------------------------------------------------------------------------
(* Reading the request: receive() is awaited here and by the watch *)

\* http.request: the receiver notes the last chunk before anyone sees it.
TakeChunk ==
    /\ unread > 0
    /\ unread' = unread - 1
    /\ bodyDone' = (unread = 1)
    /\ UNCHANGED <<disconnected, now, clientGone, goneAt>>

\* http.disconnect
TakeDisconnect ==
    /\ clientGone
    /\ disconnected' = TRUE
    /\ UNCHANGED <<bodyDone, world>>

AfterReadError == IF Streams THEN "unwatch" ELSE "caught"

\* Bad bytes, too many bytes, or not exactly one message.
ReadFails ==
    /\ pc = "read" /\ NoCancel /\ TakeChunk
    /\ exc' = "invalid" /\ pc' = AfterReadError
    /\ UNCHANGED <<request, watch, timer, io, error, ending>>

ReadMore ==
    /\ pc = "read" /\ NoCancel /\ TakeChunk
    /\ ~bodyDone'
    /\ UNCHANGED <<request, watch, timer, io, frame>>

ReadLast ==
    /\ pc = "read" /\ NoCancel /\ TakeChunk
    /\ bodyDone'
    /\ watch' = "waiting"
    /\ pc' = "handler"
    /\ UNCHANGED <<request, timer, io, exc, error, ending>>

ReadDisconnect ==
    /\ pc = "read" /\ NoCancel /\ TakeDisconnect
    /\ exc' = "gone_reading" /\ pc' = AfterReadError
    /\ UNCHANGED <<request, watch, timer, io, error, ending>>

ReadCancelled ==
    /\ pc = "read" /\ Deliver
    /\ exc' = "cancel" /\ pc' = AfterReadError
    /\ UNCHANGED <<still, io, error, ending>>

-----------------------------------------------------------------------------
(* The handler *)

\* A handler that iterates over the request stream waits for the next message.
HandlerCalls ==
    /\ pc = "handler" /\ NoCancel
    /\ ReadsStream /\ requestStream = "open" /\ ~bodyDone
    /\ pc' = "handler_read"
    /\ UNCHANGED <<still, io, exc, error, ending>>

\* The chunk ends the handler's wait with a message, the end of the stream, or
\* an error, which finishes the request stream.
HandlerGetsChunk ==
    /\ pc = "handler_read" /\ NoCancel /\ TakeChunk
    /\ requestStream' \in {"open", "closed"}
    /\ pc' = "handler"
    /\ UNCHANGED <<request, watch, timer, run, history, sender, gen, yielded,
                   exc, error, ending>>

HandlerGetsDisconnect ==
    /\ pc = "handler_read" /\ NoCancel /\ TakeDisconnect
    /\ requestStream' = "closed"
    /\ pc' = "handler"
    /\ UNCHANGED <<request, watch, timer, run, history, sender, gen, yielded,
                   exc, error, ending>>

\* The handler runs: at an await of its own, or a cancellation was delivered
\* through the request stream it waits for, which that finishes.
HandlerRuns ==
    /\ pc = "handler" \/ (pc = "handler_read" /\ mustCancel)
    /\ requestStream' = IF pc = "handler_read" THEN "closed" ELSE requestStream

HandlerReturns ==
    /\ HandlerRuns /\ ~Generator /\ MaySwallow
    /\ pc' = IF ConnectUnary THEN "unwatch" ELSE "end"
    /\ endSite' = "mid" /\ runErr' = NoError /\ runCancel' = FALSE
    /\ UNCHANGED <<still, started, history, sender, gen, yielded, exc, error,
                   ending>>

HandlerStops ==
    /\ HandlerRuns
    /\ gen' = IF Generator THEN "closed" ELSE gen
    /\ pc' = "unwatch"
    /\ UNCHANGED <<still, run, sender, yielded, error, ending>>

HandlerRaises ==
    /\ HandlerStops /\ MaySwallow
    /\ \/ exc' \in HandlerErrors /\ UNCHANGED history
       \/ exc' = "interrupt" /\ Interrupted

HandlerCancelled ==
    HandlerStops /\ Deliver /\ exc' = "cancel" /\ UNCHANGED history

GeneratorEnds ==
    /\ HandlerRuns /\ Generator /\ MaySwallow
    /\ gen' = "closed"
    /\ pc' = "unwatch"
    /\ UNCHANGED <<still, run, history, sender, yielded, exc, error, ending>>

\* The headers wait for the first message, so the handler can still add some.
AfterYield == IF sStarted THEN "encode" ELSE "headers"

GeneratorYields ==
    /\ HandlerRuns /\ Generator /\ MaySwallow
    /\ yielded < MaxMessages
    /\ yielded' = yielded + 1
    /\ gen' = "live"
    /\ pc' = AfterYield
    /\ UNCHANGED <<still, run, history, sender, exc, error, ending>>

\* The handler's generator is closed, with the error that ended the request
\* thrown into it.  An error of its own replaces that one, except after a
\* cancellation; one that has finished, or that yields a single response,
\* closes at once.
CloseGenerator ==
    /\ pc = "close"
    /\ gen' = "closed"
    /\ \/ ~Generator /\ NoCancel /\ UNCHANGED exc
       \/ Generator /\ MaySwallow /\ UNCHANGED exc
       \/ Generator /\ MaySwallow
          /\ exc' \in IF exc = "cancel" THEN {exc} ELSE HandlerErrors
       \/ Generator /\ Deliver /\ exc' = "cancel"
    /\ pc' = "unwatch"
    /\ UNCHANGED <<still, run, history, sender, requestStream, yielded, error,
                   ending>>

\* Mutant: the watch is awaited but not cancelled.
LeaveWatch_NoCancel ==
    /\ pc = "unwatch"
    /\ pc' = "unwatching"
    /\ UNCHANGED <<still, cancellation, io, exc, error, ending>>
\* watch_for_disconnect is left: its task is cancelled, then awaited, which
\* lets a cancellation of the request itself through.
LeaveWatch ==
    /\ pc = "unwatch"
    /\ watch' = "off"
    /\ pc' = "unwatching"
    /\ UNCHANGED <<request, world, bodyDone, disconnected, timer, cancellation,
                   io, exc, error, ending>>

WatchLeft ==
    /\ pc = "unwatching"
    /\ \/ NoCancel /\ watch \notin {"waiting", "receiving"} /\ UNCHANGED exc
       \/ Deliver /\ exc' = "cancel"
    /\ pc' = "caught"
    /\ UNCHANGED <<still, io, error, ending>>

-----------------------------------------------------------------------------
(* MetadataInterceptorsRun.end, from three places: "mid", after the handler  *)
(* of a single response; "in", at the end of the scope; "out", past it       *)

\* `except Exception as e: error = e`, then the run is ended.
Catch ==
    /\ pc = "caught" /\ exc \notin BaseErrors
    /\ error' = IF exc = NoError THEN error ELSE exc
    /\ exc' = NoError
    /\ pc' = "end" /\ endSite' = "in" /\ runErr' = error' /\ runCancel' = FALSE
    /\ UNCHANGED <<still, cancellation, started, history, sender, generators,
                   ending>>

CatchNot ==
    /\ pc = "caught" /\ exc \in BaseErrors
    /\ pc' = "scope_exit"
    /\ UNCHANGED <<still, cancellation, io, exc, error, ending>>

Top == started[Len(started)]

\* The hook that started last is popped and its on_end runs with the error.
PopHook ==
    /\ pc = "end" /\ started # <<>>
    /\ started' = SubSeq(started, 1, Len(started) - 1)
    /\ seen' = [seen EXCEPT ![Top] = Append(@, runErr)]
    /\ UNCHANGED <<endSite, still, sender, generators, error, responded,
                   result>>

OnEndReturns ==
    /\ PopHook /\ MaySwallow
    /\ hookTrouble' = (hookTrouble \/ mustCancel)
    /\ UNCHANGED <<runErr, runCancel, interrupts, pc, exc, leaving>>

OnEndRaises ==
    /\ PopHook /\ MaySwallow
    /\ runErr' = "hook" /\ hookTrouble' = TRUE
    /\ UNCHANGED <<runCancel, interrupts, pc, exc, leaving>>

OnEndCancelled ==
    /\ PopHook /\ Deliver
    /\ runErr' = "cancelled" /\ runCancel' = TRUE /\ hookTrouble' = TRUE
    /\ UNCHANGED <<interrupts, pc, exc, leaving>>

\* Where an exception raised out of end() goes.
RaiseFromEnd(e) ==
    /\ exc' = IF endSite = "out" THEN exc ELSE e
    /\ leaving' = IF endSite = "out" THEN e ELSE leaving
    /\ pc' = CASE endSite = "mid" -> "unwatch"
               [] endSite = "in" -> "scope_exit"
               [] endSite = "out" -> "finish"

OnEndInterrupted ==
    /\ PopHook /\ MaySwallow
    /\ interrupts < MaxInterrupts /\ interrupts' = interrupts + 1
    /\ hookTrouble' = TRUE
    /\ RaiseFromEnd("interrupt")
    /\ UNCHANGED <<runErr, runCancel>>

\* All hooks are unwound: a cancellation met on the way propagates now.
EndCancelled ==
    /\ pc = "end" /\ started = <<>> /\ runCancel
    /\ RaiseFromEnd("cancel")
    /\ UNCHANGED <<still, cancellation, io, error, responded, result>>

\* A hook's error is raised as the handler's; otherwise the single response
\* becomes a stream.
EndedMid ==
    /\ pc = "end" /\ started = <<>> /\ ~runCancel /\ endSite = "mid"
    /\ exc' = runErr
    /\ \/ runErr # NoError /\ pc' = "unwatch" /\ UNCHANGED gen
       \/ runErr = NoError /\ pc' = "headers" /\ gen' = "live"
    /\ UNCHANGED <<still, cancellation, run, history, sender, requestStream,
                   yielded, error, ending>>

AfterEnd(e) ==
    IF endSite = "out" THEN "respond"
    ELSE IF e = NoError /\ ConnectUnary THEN "unary_encode" ELSE "scope_exit"

Ended ==
    /\ pc = "end" /\ started = <<>> /\ ~runCancel /\ endSite # "mid"
    /\ error' = runErr
    /\ pc' = AfterEnd(runErr)
    /\ UNCHANGED <<still, cancellation, io, exc, ending>>

-----------------------------------------------------------------------------
(* The end of the timeout scope *)

TimeoutError ==
    IF disconnected /\ (deadline = NoTime \/ when < deadline)
    THEN "gone" ELSE "deadline"

\* The scope turns the one cancellation it asked for into a TimeoutError.
TimedOut == exc = "cancel" /\ scope = "expiring" /\ cancels = 0

\* Mutants: `finally` does not end the run.
AfterScope_NoEnd == "respond"
AfterScope == "end"

ScopeExit ==
    /\ pc = "scope_exit"
    /\ scope' = IF scope = "expiring" THEN "expired" ELSE "exited"
    /\ exc' = NoError
    /\ leaving' = IF exc \in BaseErrors /\ ~TimedOut THEN exc ELSE NoError
    /\ error' = CASE TimedOut -> IF error = NoError THEN TimeoutError ELSE error
                  [] exc = "cancel" /\ ~TimedOut -> "cancelled"
                  [] exc = "interrupt" -> "unknown"
                  [] exc = NoError -> error
    /\ pc' = AfterScope /\ endSite' = "out" /\ runErr' = error' /\ runCancel' = FALSE
    /\ UNCHANGED <<request, world, receiver, when, cancellation, started,
                   history, sender, generators, responded, result>>

-----------------------------------------------------------------------------
(* Sending: _ResponseSender around the app server's send() *)

\* The app server takes the message; `final` is the status it completes.
Accept(type, final) ==
    /\ Legal(type)
    /\ wire' = Append(wire, type)
    /\ status' = final

\* Mutant: the end of a stream does not carry the error.
StatusAfter_NoError(p) == IF p = "err_body" THEN error ELSE NoError
\* The status the response has once the message being sent is accepted.
StatusAfter(p) ==
    IF p \in {"unary_body", "end_trailers", "err_body"}
       \/ (p = "end_body" /\ ~Has("start_trailers"))
    THEN error ELSE status

\* Where the coroutine goes once send() has returned.
AfterSend ==
    [unary_start |-> "unary_body", unary_body |-> "scope_exit",
     headers |-> "encode", message |-> IF Generator THEN "handler" ELSE "unwatch",
     end_headers |-> "end_body",
     end_body |-> IF trailers THEN "end_trailers" ELSE "finish",
     end_trailers |-> "finish", err_start |-> "err_body", err_body |-> "finish"]

\* After its message the generator of a single response ends, a handler's runs.
GeneratorAfter(p) ==
    IF p # "message" THEN gen ELSE IF Generator THEN "none" ELSE "closed"

Send ==
    /\ pc \in SendPcs /\ NoCancel
    /\ Accept(MessageType(pc), StatusAfter(pc))
    /\ sStarted' = (sStarted \/ MessageType(pc) \in StartTypes)
    /\ pc' = AfterSend[pc]
    /\ gen' = GeneratorAfter(pc)
    /\ responded' = (responded \/ pc' = "finish")
    /\ UNCHANGED <<sFailed, still, run, history, requestStream, yielded, exc,
                   error, leaving, result>>

\* The connection is gone or the app server rejects the message.
SendFails ==
    /\ NoCancel
    /\ sFailed' = TRUE
    /\ UNCHANGED <<sStarted, wire, status, still, run, history, generators,
                   responded, result>>

\* A cancelled send leaves it open whether the app server had the message.
SendCancelled ==
    /\ Deliver
    /\ \/ UNCHANGED <<wire, status>>
       \/ LateAccept /\ Accept(MessageType(pc), StatusAfter(pc))
    /\ UNCHANGED <<sStarted, sFailed, still, run, history, generators,
                   responded, result>>

\* A failed or cancelled send while messages are streamed.
StreamSendStops ==
    /\ pc \in {"headers", "message"}
    /\ \/ SendFails /\ exc' = "sendfail"
       \/ SendCancelled /\ exc' = "cancel"
    /\ pc' = "close"
    /\ UNCHANGED <<error, leaving>>

Encode ==
    /\ pc = "encode"
    /\ \/ pc' = "message" /\ UNCHANGED exc
       \/ pc' = "close" /\ exc' = "crash"
    /\ UNCHANGED <<still, cancellation, io, error, ending>>

\* _UnaryResponse.send: an Exception becomes the error, a cancellation leaves.
UnaryEncode ==
    /\ pc = "unary_encode"
    /\ \/ pc' = "unary_start" /\ UNCHANGED error
       \/ pc' = "scope_exit" /\ error' = "crash"
    /\ UNCHANGED <<still, cancellation, io, exc, ending>>

UnarySendStops ==
    /\ pc \in {"unary_start", "unary_body"}
    /\ \/ SendFails /\ error' = "sendfail" /\ UNCHANGED exc
       \/ SendCancelled /\ exc' = "cancel" /\ UNCHANGED error
    /\ pc' = "scope_exit"
    /\ UNCHANGED leaving

-----------------------------------------------------------------------------
(* The status: written past the scope, without a deadline *)

\* Mutant: a started response is replaced by the error.
CannotReplace_Started == sFailed
\* The response can no longer be started, so neither replaced by an error.
CannotReplace == sStarted \/ sFailed

Respond ==
    /\ pc = "respond"
    /\ CASE requestStream # "none" ->
              /\ pc' = IF sFailed THEN "finish"
                       ELSE IF sStarted THEN "end_body" ELSE "end_headers"
              /\ UNCHANGED responded
         [] requestStream = "none" /\ error # NoError ->
              /\ pc' = IF CannotReplace THEN "finish" ELSE "err_start"
              /\ UNCHANGED responded
         [] requestStream = "none" /\ error = NoError ->
              /\ pc' = "finish"
              /\ responded' = TRUE
    /\ UNCHANGED <<still, cancellation, io, exc, error, leaving, result>>

\* Mutant: a failed send of the status hides the cancellation.
AfterFailedStatus_Hides == "sendfail"
AfterFailedStatus == IF leaving = "cancel" THEN leaving ELSE "sendfail"

\* After a cancellation the status is best effort: an Exception is suppressed.
\* Otherwise it replaces whatever was leaving.
StatusSendStops ==
    /\ pc \in {"end_headers", "end_body", "end_trailers", "err_start", "err_body"}
    /\ \/ SendFails /\ leaving' = AfterFailedStatus
       \/ SendCancelled /\ leaving' = "cancel"
    /\ pc' = "finish"
    /\ UNCHANGED <<exc, error>>

\* Mutant: an error that could not be sent is dropped.
Outcome_Drops ==
    CASE leaving = "sendfail" -> "raise"
      [] leaving \in BaseErrors -> leaving
      [] OTHER -> "return"
\* The request stream is closed, then the coroutine returns or raises.
Outcome ==
    CASE leaving = "sendfail" -> "raise"
      [] leaving \in BaseErrors -> leaving
      [] leaving = NoError /\ error # NoError
            /\ (~responded \/ error \notin StatusErrors) -> "raise"
      [] OTHER -> "return"

\* Mutant: the request stream is left to the garbage collector.
ClosedStream_Left == requestStream
ClosedStream == IF requestStream = "open" THEN "closed" ELSE requestStream

Finish ==
    /\ pc = "finish"
    /\ requestStream' = ClosedStream
    /\ result' = Outcome
    /\ pc' = "done"
    /\ UNCHANGED <<still, cancellation, run, history, sender, gen, yielded,
                   exc, error, leaving, responded>>

-----------------------------------------------------------------------------
(* The rest of the event loop, while the coroutine is suspended *)

Tick ==
    /\ Suspended /\ now < MaxTime
    /\ now' = now + 1
    /\ UNCHANGED <<request, clientGone, goneAt, unread, receiver, timer,
                   cancellation, io, frame>>

ClientLeaves ==
    /\ Suspended /\ ~clientGone
    /\ clientGone' = TRUE /\ goneAt' = now
    /\ UNCHANGED <<request, now, unread, receiver, timer, cancellation, io,
                   frame>>

\* The app server cancels the task, for example when it shuts down.
ServerCancels ==
    /\ Suspended /\ cancels < MaxCancels
    /\ cancels' = cancels + 1
    /\ mustCancel' = TRUE
    /\ UNCHANGED <<swallowed, still, io, frame>>

\* asyncio.Timeout._on_timeout
TimerFires ==
    /\ Suspended /\ scope = "entered" /\ when # NoTime /\ when <= now
    /\ scope' = "expiring"
    /\ mustCancel' = TRUE
    /\ UNCHANGED <<when, cancels, swallowed, request, world, receiver, io,
                   frame>>

\* The watch only reads receive() once the handler no longer does.
WatchMayReceive == bodyDone

WatchStarts ==
    /\ Suspended /\ watch = "waiting" /\ WatchMayReceive
    /\ watch' = "receiving"
    /\ UNCHANGED <<request, world, bodyDone, disconnected, timer, cancellation,
                   io, frame>>

\* Mutant: the scope's state is not looked at.
MayReschedule_Always == TRUE
\* `not scope.expired()`
MayReschedule == scope \notin {"expiring", "expired"}
\* Mutant: the watch sees the disconnect and leaves the scope alone.
Reschedule_Never == watch' = "done" /\ UNCHANGED when
\* asyncio.Timeout.reschedule raises unless the scope is entered: the watch's
\* task fails, with nobody to look at its exception.
Reschedule ==
    \/ ~MayReschedule /\ watch' = "done" /\ UNCHANGED when
    \/ MayReschedule /\ scope = "entered" /\ watch' = "done" /\ when' = now
    \/ MayReschedule /\ scope # "entered" /\ watch' = "raised" /\ UNCHANGED when

WatchSeesDisconnect ==
    /\ Suspended /\ watch = "receiving" /\ TakeDisconnect
    /\ Reschedule
    /\ UNCHANGED <<request, scope, cancellation, io, frame>>

\* receive() raises: suppressed, and nothing watches any more.
WatchFails ==
    /\ Suspended /\ watch = "receiving"
    /\ watch' = "failed"
    /\ UNCHANGED <<request, world, bodyDone, disconnected, timer, cancellation,
                   io, frame>>

-----------------------------------------------------------------------------

\* Steps that wait for nobody but the event loop and for user code that must
\* return: hooks, cleanup after a cancellation, and the app server's send().
Progress ==
    \/ RouteFails \/ Route \/ OnStartReturns \/ OnStartRaises
    \/ BeginUnary \/ BeginStream \/ BeginFails
    \/ ReadDisconnect \/ ReadCancelled \/ HandlerGetsDisconnect \/ HandlerCancelled
    \/ CloseGenerator \/ LeaveWatch \/ WatchLeft \/ Catch \/ CatchNot
    \/ OnEndReturns \/ OnEndRaises \/ OnEndCancelled \/ OnEndInterrupted
    \/ EndCancelled \/ EndedMid \/ Ended \/ ScopeExit
    \/ Send \/ StreamSendStops \/ Encode \/ UnaryEncode \/ UnarySendStops
    \/ Respond \/ StatusSendStops \/ Finish
    \/ Tick \/ TimerFires \/ WatchStarts \/ WatchSeesDisconnect

\* The handler and the client may take forever; nobody has to leave or cancel.
Unforced ==
    \/ ReadFails \/ ReadMore \/ ReadLast
    \/ HandlerCalls \/ HandlerGetsChunk \/ HandlerReturns \/ HandlerRaises
    \/ GeneratorEnds \/ GeneratorYields
    \/ ClientLeaves \/ ServerCancels \/ WatchFails

Terminated == pc = "done" /\ UNCHANGED vars

Next == Progress \/ Unforced \/ Terminated

Spec == Init /\ [][Next]_vars
FairSpec == Spec /\ WF_vars(Progress)
=============================================================================
