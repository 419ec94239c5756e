------------------------ MODULE AsyncRequestProperties ------------------------
(***************************************************************************)
(* What makes one request served by _handle_request correct: see module    *)
(* AsyncRequest.                                                           *)
(***************************************************************************)
EXTENDS AsyncRequest, FiniteSets

RequestOK == shape \in Shapes /\ trailers \in BOOLEAN /\ deadline \in Deadlines
WorldOK ==
    /\ now \in 0..MaxTime /\ clientGone \in BOOLEAN
    /\ goneAt \in 0..MaxTime \cup {NoTime} /\ unread \in 0..MaxChunks
ReceiverOK ==
    /\ bodyDone \in BOOLEAN /\ disconnected \in BOOLEAN
    /\ watch \in {"off", "waiting", "receiving", "done", "failed", "raised"}
TimerOK ==
    /\ scope \in {"entered", "expiring", "expired", "exited"}
    /\ when \in Nat \cup {NoTime}
CancellationOK ==
    mustCancel \in BOOLEAN /\ cancels \in 0..MaxCancels /\ swallowed \in BOOLEAN
RunOK ==
    /\ started \in Seq(1..NHooks) /\ runErr \in Errors \cup {NoError}
    /\ runCancel \in BOOLEAN /\ endSite \in {"mid", "in", "out"}
HistoryOK ==
    /\ seen \in [1..NHooks -> Seq(Errors \cup {NoError})]
    /\ hookTrouble \in BOOLEAN /\ interrupts \in 0..MaxInterrupts
SenderOK ==
    /\ sStarted \in BOOLEAN /\ sFailed \in BOOLEAN
    /\ wire \in Seq(StartTypes \cup {"chunk", "last", "trailers"})
    /\ status \in Errors \cup {NoError}
GeneratorsOK ==
    /\ gen \in {"none", "live", "closed"}
    /\ requestStream \in {"none", "unset", "open", "closed"}
    /\ yielded \in 0..MaxMessages
FrameOK ==
    /\ pc \in AwaitPcs \cup CodePcs
    /\ exc \in Errors \cup BaseErrors \cup {NoError}
    /\ error \in Errors \cup {NoError}
    /\ leaving \in BaseErrors \cup {NoError, "sendfail"}
    /\ responded \in BOOLEAN
    /\ result \in BaseErrors \cup {NoError, "return", "raise"}

\* Every variable has a value of its type.
TypeOK ==
    /\ RequestOK /\ WorldOK /\ ReceiverOK /\ TimerOK /\ CancellationOK
    /\ RunOK /\ HistoryOK /\ SenderOK /\ GeneratorsOK /\ FrameOK

\* The application never sends an ASGI message out of order, whatever failed or
\* was cancelled before: in particular never a second response start.
SendsInOrder == pc \in SendPcs => Legal(MessageType(pc))

\* Once a send failed nothing more is sent, so the first failure is not hidden.
SilentAfterFailure == sFailed => pc \notin SendPcs

\* What is sent is in order, and the first failure ends it.
WireOrder == SendsInOrder /\ SilentAfterFailure

\* The body and the disconnect watch never wait in receive() at once: each
\* would steal the other's messages.
OneReceiver == watch = "receiving" => pc \notin {"read", "handler_read"}

\* Hooks end at most once and in the reverse of the order they started in.
HooksUnwindInOrder ==
    /\ \A i \in 1..NHooks : Len(seen[i]) <= 1
    /\ \A i, j \in 1..NHooks :
         i < j /\ seen[i] # <<>> => \A k \in DOMAIN started : started[k] # j
    /\ \A k \in DOMAIN started : seen[started[k]] = <<>>

\* Metadata can be changed in on_end: all hooks have ended before a status, or
\* the headers of a single response, are sent.
HooksEndBeforeStatus ==
    pc \in SendPcs /\ (~Generator \/ pc \notin {"headers", "message"}) => started = <<>>

\* When the request is over every hook that started has ended, unless a
\* KeyboardInterrupt in the last unwinding stopped it.
HooksAllEnd == pc = "done" /\ started # <<>> => result = "interrupt"

\* Hooks end once, in reverse order, in time for the status, and all of them.
HooksCorrect == HooksUnwindInOrder /\ HooksEndBeforeStatus /\ HooksAllEnd

\* When no hook failed, every hook was told what the client was told.  A hook
\* of a single response ends before it is sent and misses its failure.
HooksSeeOutcome ==
    pc = "done" /\ Complete /\ ~hookTrouble =>
        \A i \in 1..NHooks : seen[i] # <<>> =>
            \/ seen[i][1] = status
            \/ ~Generator /\ seen[i][1] = NoError

\* If the coroutine returns, the client has a complete response, with the
\* error the request ended with; plain exceptions reach the app server.
ReturnMeansComplete ==
    result = "return" => Complete /\ status = error /\ error \notin PlainErrors

\* A cancellation that user code did not swallow reaches the app server,
\* whatever else went wrong.
CancellationWins ==
    pc = "done" /\ cancels > 0 /\ ~swallowed /\ interrupts = 0 => result = "cancel"

\* DEADLINE_EXCEEDED means the deadline passed; CANCELED for a disconnect means
\* that the client left before it.
HonestTimeout ==
    /\ error = "deadline" => deadline # NoTime /\ now >= deadline
    /\ error = "gone" => clientGone /\ (deadline = NoTime \/ goneAt < deadline)

\* However a request ends, the client and the app server are told the truth: a
\* complete response, the cancellation, or which of deadline and client it was.
EndIsHonest == ReturnMeansComplete /\ CancellationWins /\ HonestTimeout

\* Nothing is left open: the handler's generator, the request stream, the watch.
NothingLeftOpen ==
    pc = "done" => /\ gen # "live" /\ requestStream # "open"
                   /\ watch \notin {"waiting", "receiving"}

\* The watch never reschedules a scope that is expiring, has expired or was left,
\* though it looks at the first two alone: asyncio raises a RuntimeError.
NoLateReschedule == watch # "raised"

\* The watch takes no message of the body's and reschedules no scope too late.
WatchCorrect == OneReceiver /\ NoLateReschedule

\* What the client has got: a Connect unary response is its start and body.
Chunks == Cardinality({i \in DOMAIN wire : wire[i] = "chunk"})
Replies == Chunks + (IF ConnectUnary /\ Has("start") THEN 1 ELSE 0)

\* The client sees an RPC: see module Rpc.
Client == INSTANCE Rpc WITH
    Success <- NoError,
    Failures <- Errors \cup {"aborted"},
    single <- ~Generator,
    delivered <- Replies,
    outcome <- IF Complete THEN status
               ELSE IF pc = "done" THEN "aborted" ELSE "pending"

\* What the client sees of the request implements Rpc.
ImplementsRpc == Client!RpcSpec

Over == pc = "done" \/ swallowed

\* A handler that hangs is stopped by the deadline.
DeadlineEnds == pc # "route" /\ deadline # NoTime ~> Over

\* A handler that hangs is stopped when the client leaves: once the body was
\* read, and before that if the server, not the handler, reads it.
DisconnectEnds ==
    clientGone /\ (bodyDone \/ ~ReadsStream) ~> Over \/ watch = "failed"

\* A handler that hangs is stopped when the app server cancels the request.
CancelEnds == cancels > 0 ~> Over
=============================================================================
