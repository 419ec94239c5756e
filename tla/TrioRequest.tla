----------------------------- MODULE TrioRequest -----------------------------
(* A request under trio, from the call of the handler on: what differs from *)
(* asyncio.  A cancelled scope raises Cancelled at every checkpoint, not    *)
(* once; cleanup can await only in a shielded scope, which is given a       *)
(* deadline; the watch for a disconnect is a task of a nursery, moves the   *)
(* deadline up for a unary handler and only raises a flag for a stream.     *)
(* User code that awaits is cut at once by a cancellation and may hang      *)
(* otherwise.                                                               *)
EXTENDS Naturals

CONSTANTS Deadline,     \* the deadline of a request that has one
          Cleanup,      \* _CLEANUP_TIMEOUT
          MaxTime,      \* bound on the clock
          Never         \* no deadline (trio's math.inf)

ASSUME TrioAssumption ==
  /\ Deadline \in Nat /\ Cleanup \in Nat \ {0} /\ MaxTime \in Nat /\ Never \notin Nat

VARIABLES kind,         \* "unary" or "stream"
          deadline,     \* the request's deadline, or Never
          when,         \* the deadline of TrioTimeout's scope
          now,          \* trio.current_time()
          outer,        \* the app server has cancelled the request
          clientGone,   \* the client has disconnected
          bodyDone,     \* the request was read to the end
          disconnected, \* receive() has returned http.disconnect
          watch,        \* the nursery's task: "waiting", "over"
          pc, pend,     \* where the request is, and the exception in flight
          gen,          \* the handler's generator: "open", "closed"
          limit,        \* when the shielded cleanup is cut, or Never
          error,        \* the error the status reports
          raised,       \* what the request raised to the app server
          cancelledAt,  \* history: when the app server cancelled it
          own           \* history: how the handler ended by itself, or in a group

clock == <<now, outer, clientGone, cancelledAt>>
receiver == <<disconnected, watch, when>>
fixed == <<kind, deadline, bodyDone>>
vars == <<fixed, clock, receiver, pc, pend, gen, limit, error, raised, own>>

Init ==
  /\ kind \in {"unary", "stream"}
  /\ deadline \in {Deadline, Never} /\ when = deadline
  /\ now = 0 /\ outer = FALSE /\ clientGone = FALSE /\ cancelledAt = Never
  /\ bodyDone \in BOOLEAN /\ disconnected = FALSE /\ watch = "waiting"
  /\ pc = "handler" /\ pend = "none"
  /\ gen = (IF kind = "stream" THEN "open" ELSE "closed")
  /\ limit = Never /\ error = "none" /\ raised = "none" /\ own = "none"

Expired == when # Never /\ now >= when
(* A checkpoint inside the request's scope, not shielded, raises Cancelled. *)
Cancelling == outer \/ Expired
(* A nursery's exception group that holds a cancellation is one too.        *)
IsCancellation(e) == e \in {"Cancelled", "Group"}
Limit_Unbounded(e) == now + MaxTime
Limit(e) == IF IsCancellation(e) THEN now + Cleanup ELSE Never

---------------------------------------------------------------------------
(* The app server, the client and the clock.  Time passes only while every *)
(* task waits: nothing that is cancelled or cut is left waiting.           *)

Shielded == limit # Never
Cut == Shielded /\ now >= limit
Interrupted == IF Shielded THEN Cut ELSE outer \/ (pc \in {"handler", "send", "close", "hooks"} /\ Expired)
WatchDue == watch = "waiting" /\ bodyDone /\ clientGone /\ pc \in {"handler", "send", "close"}

Tick ==
  /\ now < MaxTime
  /\ pc \in {"handler", "send", "close", "hooks", "final"} /\ ~Interrupted /\ ~WatchDue
  /\ now' = now + 1
  /\ UNCHANGED <<fixed, outer, clientGone, cancelledAt, receiver, pc, pend, gen, limit,
                 error, raised, own>>

Disconnect ==
  /\ ~clientGone /\ clientGone' = TRUE
  /\ UNCHANGED <<fixed, now, outer, cancelledAt, receiver, pc, pend, gen, limit,
                 error, raised, own>>

AppServerCancels ==
  /\ ~outer /\ pc # "done"
  /\ outer' = TRUE /\ cancelledAt' = now
  /\ UNCHANGED <<fixed, now, clientGone, receiver, pc, pend, gen, limit, error,
                 raised, own>>

(* watch(): a stream's body polls the flag, a unary handler is cut short. *)
Reschedule_Never == when
Reschedule == IF kind = "unary" THEN now ELSE when
WatchReceives ==
  /\ WatchDue
  /\ \/ disconnected' = TRUE /\ when' = Reschedule
     \/ UNCHANGED <<disconnected, when>>       \* receive() raised: suppressed
  /\ watch' = "over"
  /\ UNCHANGED <<fixed, clock, pc, pend, gen, limit, error, raised, own>>

---------------------------------------------------------------------------
(* The handler and the loop over its responses.                            *)

Body == UNCHANGED <<fixed, clock, receiver, error, raised>>

HandlerEnds ==
  /\ pc = "handler"
  /\ \E e \in {"none", "App"} : pend' = e /\ own' = (IF e = "none" THEN "returned" ELSE e)
  /\ pc' = "leave" /\ gen' = "closed"
  /\ UNCHANGED limit /\ Body

(* Cancelled in the handler: it may be raised alone or in a group beside an *)
(* error, replaced by an error of its cleanup, or swallowed.                *)
HandlerCancelled ==
  /\ pc = "handler" /\ Cancelling
  /\ pend' \in {"Cancelled", "Group", "App", "none"}
  /\ own' = IF pend' = "Group" THEN "Group" ELSE own
  /\ pc' = "leave" /\ gen' = "closed"
  /\ UNCHANGED limit /\ Body

Yields ==
  /\ pc = "handler" /\ kind = "stream"
  /\ IF disconnected
     THEN pend' = "Gone" /\ pc' = "close"
     ELSE pend' = pend /\ pc' = "send"
  /\ UNCHANGED <<gen, limit, own>> /\ Body

SendEnds ==
  /\ pc = "send"
  /\ \/ ~Cancelling /\ pc' = "handler" /\ UNCHANGED <<pend, limit>>
     \/ pc' = "close" /\ pend' = "SendError" /\ limit' = Never
     \/ Cancelling /\ pc' = "close" /\ pend' = "Cancelled" /\ limit' = Limit("Cancelled")
  /\ UNCHANGED <<gen, own>> /\ Body

(* _close_response_stream: what leaves it, from what the generator's cleanup *)
(* did.  An error of the cleanup is suppressed after a cancellation only.   *)
AfterClose(e, did) == IF did = "same" \/ IsCancellation(e) THEN e ELSE did

Close ==
  /\ pc = "close"
  /\ \/ ~Cut /\ \E did \in {"same", "App"} : pend' = AfterClose(pend, did)
     \/ Shielded /\ Cut /\ UNCHANGED pend
     \/ ~Shielded /\ Cancelling /\ pend' = AfterClose(pend, "Cancelled")
  /\ pc' = "leave" /\ gen' = "closed" /\ limit' = Never
  /\ UNCHANGED own /\ Body

(* The nursery ends its watch.  A watch still waiting makes the nursery     *)
(* raise the cancellation around it, unless one is in flight already.       *)
AfterNursery(e, around) == IF around /\ ~IsCancellation(e) THEN "Cancelled" ELSE e

LeaveNursery ==
  /\ pc = "leave"
  /\ pend' = AfterNursery(pend, Cancelling /\ watch = "waiting")
  /\ watch' = "over"
  /\ pc' = "hooks"
  /\ UNCHANGED <<fixed, clock, disconnected, when, gen, limit, error, raised, own>>

(* Inside the scope, hooks run after a normal end or an Exception. *)
HooksInScope ==
  /\ pc = "hooks"
  /\ IF IsCancellation(pend) THEN UNCHANGED <<pend, error>>
     ELSE \/ error' = pend /\ pend' = "none"
          \/ Cancelling /\ error' = pend /\ pend' = "Cancelled"
  /\ pc' = "scope"
  /\ UNCHANGED <<fixed, clock, receiver, gen, limit, raised, own>>

---------------------------------------------------------------------------
(* TrioTimeout.__aexit__: the scope takes its own cancellation out of what  *)
(* leaves it, but none while the app server's is visible to it.             *)
Swallows(e) == e = "Cancelled" /\ Expired /\ ~outer

(* _timeout_error *)
TimeoutStatus ==
  IF disconnected /\ (deadline = Never \/ when < deadline) THEN "Gone" ELSE "Timeout"

LeaveScope ==
  /\ pc = "scope" /\ pc' = "final"
  /\ CASE Swallows(pend) ->
            /\ error' = IF error = "none" THEN TimeoutStatus ELSE error
            /\ limit' = Never /\ UNCHANGED raised
       [] ~Swallows(pend) /\ pend = "Group" /\ ~outer ->
            error' = "Interrupted" /\ limit' = Never /\ raised' = "App"
       [] ~Swallows(pend) /\ IsCancellation(pend) /\ (pend = "Cancelled" \/ outer) ->
            error' = "Canceled" /\ limit' = Limit(pend) /\ raised' = pend
       [] OTHER -> UNCHANGED <<error, limit, raised>>
  /\ pend' = "none"
  /\ UNCHANGED <<fixed, clock, receiver, gen, own>>

(* The finally block: the hooks that have not run, and the status.  It may *)
(* take any time; after a cancellation it is cut at its limit.             *)
Finish ==
  /\ pc = "final"
  /\ \/ ~Shielded /\ outer /\ raised' = "Cancelled"
     \/ raised' = IF raised = "none" /\ error \in {"App", "SendError"} THEN error ELSE raised
  /\ pc' = "done" /\ limit' = Never
  /\ UNCHANGED <<fixed, clock, receiver, pend, gen, error, own>>

Done == pc = "done" /\ UNCHANGED vars

Step == HandlerCancelled \/ Close \/ LeaveNursery \/ HooksInScope \/ LeaveScope
Next ==
  \/ Tick \/ Disconnect \/ AppServerCancels \/ WatchReceives
  \/ HandlerEnds \/ Yields \/ SendEnds \/ Step \/ Finish
  \/ Done

Spec == Init /\ [][Next]_vars

---------------------------------------------------------------------------
(* "A cancelled request therefore delays the app server by at most twice    *)
(* this": however its cleanup and its hooks hang.                           *)
BoundedCleanup == outer /\ pc # "done" => now <= cancelledAt + 2 * Cleanup

(* The status says what happened: a timeout only when the deadline passed,  *)
(* a disconnect only when the client left; an error of the handler that     *)
(* nothing cancelled is kept, and so is one it raised in a group beside a   *)
(* cancellation; and the app server's cancellation, when it was there       *)
(* before the scope was left, is not taken for a timeout.                   *)
HonestStatus ==
  pc \in {"final", "done"} =>
    /\ error = "Timeout" => deadline # Never /\ now >= deadline
    /\ error = "Gone" => disconnected
    /\ own = "App" /\ ~Cancelling => error = "App"
    /\ error = "none" /\ own # "returned" => Cancelling
    /\ raised = "none" => error \notin {"Canceled", "Interrupted"}
    /\ pc = "final" /\ own = "Group" => raised \in {"Group", "App"}

(* Nothing outlives the request: neither the handler's generator nor the    *)
(* watch, on whatever way out.                                              *)
NothingLeft == pc \in {"final", "done"} => gen = "closed" /\ watch = "over"

TrioSafe == BoundedCleanup /\ HonestStatus /\ NothingLeft

(* The app server's cancellation always ends the request, and a client that *)
(* disconnects always ends a unary one, though the handler never returns.   *)
TrioEnds ==
  /\ outer ~> (pc = "done" \/ now = MaxTime)
  /\ (kind = "unary" /\ WatchDue) ~>
       (pc \in {"final", "done"} \/ (watch = "over" /\ ~disconnected))
=============================================================================
