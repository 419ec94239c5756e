------------------------------- MODULE Clients -------------------------------
(***************************************************************************)
(* A call of either client, module ClientCall or module ClientCallSync, and *)
(* what both promise their caller: an honest end, a complete response, and  *)
(* the RPC of module Rpc.                                                   *)
(***************************************************************************)
EXTENDS ClientResponse

VARIABLES client,       \* which client calls: "async" or "sync"
          call, now, pc, open, resp, buffer, reader, exc, taken, outcome,
          sent, finish, reset,
          cancel,             \* of the asynchronous client only
          streamError, late   \* of the synchronous client only

vars == <<client, call, now, pc, open, resp, buffer, reader, exc, taken,
          outcome, sent, finish, reset, cancel, streamError, late>>

Async == INSTANCE ClientCall
Sync == INSTANCE ClientCallSync

Init ==
    \/ client = "async" /\ Async!Init /\ streamError = NoError /\ late = FALSE
    \/ client = "sync" /\ Sync!Init /\ cancel = "no"

AsAsync == client = "async" /\ UNCHANGED <<client, streamError, late>>
AsSync == client = "sync" /\ UNCHANGED <<client, cancel>>

Next == (AsAsync /\ Async!Next) \/ (AsSync /\ Sync!Next)

\* The event loop makes progress and its clock goes on.  The synchronous client
\* leaves deadlines to the HTTP client: nothing is assumed of it.
Spec ==
    /\ Init /\ [][Next]_vars
    /\ WF_vars(AsAsync /\ Async!Progress)
    /\ WF_vars(AsAsync /\ Async!Tick)
-----------------------------------------------------------------------------
Single == call.shape # "stream"
Passed(t) == t # NoTime /\ t <= now

\* A call succeeds only if the server has said so at the end of a response that
\* arrived whole and, on a thread, in time; and its consumer got every message,
\* or the only one.
SuccessIsComplete ==
    outcome = Success =>
        /\ finish = "ok" /\ ~reader.partial /\ ~late
        /\ taken = sent /\ (Single => taken = 1)

\* The error a call ends with is the one that happened: a deadline passed or
\* something else timed out, the task was cancelled or the stream was, the server
\* sent an error or details; and whatever closing the response raised, on a
\* thread, short of a TimeoutError.
HonestOutcome ==
    /\ outcome.code = "deadline_exceeded" => Passed(call.deadline) \/ exc = HttpTimeout
    /\ outcome.code = "canceled" => cancel = "delivered" \/ reset = "CANCEL"
    /\ outcome.code = "remote" => finish \in {"error", "garbled"}
    /\ outcome.details =>
         finish \in {"error", "garbled"} \/ "error" \in {resp.headers, resp.trailers}
    /\ pc = "ended" =>
         /\ cancel = "delivered" => outcome \in {Error("canceled"), Abandoned}
         /\ late => outcome.code = "deadline_exceeded"
         /\ client = "sync" /\ exc.code \in {"invalid_argument", "remote"} =>
              outcome = exc

\* What the consumer sees is an RPC: see module Rpc.
Consumer == INSTANCE Rpc WITH
    Success <- None,
    Failures <- Codes \cup {"abandoned"},
    single <- Single,
    delivered <- IF call.shape = "single" /\ taken > 0 THEN 1 ELSE taken,
    outcome <- outcome.code
ImplementsRpc == Consumer!RpcSpec

\* An asynchronous call ends and closes its response if it has a deadline, even if
\* chunks without messages keep coming, if it is cancelled, and if its consumer
\* knows the outcome, even if it dropped the generator; unless its consumer has a
\* message and asks for no other.
CallEnds ==
    client = "async" /\ (call.deadline # NoTime \/ cancel = "pending" \/ outcome # Pending)
    ~> \/ pc = "ended" /\ open # "open"
       \/ pc = "yield" /\ outcome = Pending /\ cancel = "no"
=============================================================================
