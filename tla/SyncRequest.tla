----------------------------- MODULE SyncRequest -----------------------------
(***************************************************************************)
(* One RPC served by ConnectWSGIApplication on a thread.  The application  *)
(* is called, calls start_response and returns what the app server then    *)
(* iterates over, or closes early: a list, or for a stream that has begun  *)
(* the generator _response_stream.  User code (hooks, handler, codec) and  *)
(* the app server's callables may raise at every call.                     *)
(***************************************************************************)
EXTENDS Naturals, Sequences

CONSTANTS
    Shapes,        \* kinds of request: see AllShapes
    NHooks,        \* number of leading metadata interceptors
    MaxMessages,   \* bound on the messages a generator handler yields
    MaxInterrupts  \* bound on the KeyboardInterrupts raised in user code

AllShapes == {"unary", "single", "client_stream", "server_stream", "bidi"}

ASSUME ShapesAssumption == Shapes \subseteq AllShapes
ASSUME BoundAssumption == {NHooks, MaxMessages, MaxInterrupts} \subseteq Nat

VARIABLES
    shape, trailers, http1,  \* the request: "unary" is Connect's unary
    body,                    \* is some of wsgi.input left, or all of it read?
    started, ended, toEnd,   \* MetadataInterceptorsRunSync, and end()'s loop
    seen, hookTrouble, interrupts,   \* history of the hooks
    headers, chunks, status, \* what the app server got
    gen, yielded,            \* the handler's generator
    response,                \* what the application returned
    pc, site,                \* the call being made, and from where
    exc, error,              \* exception passing through, `error`
    result                   \* how the request ended for the app server

request == <<shape, trailers, http1>>
run == <<started, ended, toEnd>>
history == <<seen, hookTrouble, interrupts>>
server == <<headers, chunks, status>>
handler == <<gen, yielded>>
frame == <<pc, site, exc, error, response, result>>
vars == <<request, body, run, history, server, handler, frame>>

NoError == "none"
HandlerErrors == {"app", "crash"}
Errors == HandlerErrors \cup {"http", "invalid", "hook", "trailers", "gone", "unknown"}
\* What may pass through a `finally`.
Passing == {"crash", "closed", "interrupt"}

Pcs == {"route", "on_start", "read", "handler", "first", "next", "end", "encode",
        "start", "write", "unwind", "drain", "last", "idle", "over"}
Sites == {"call", "unary", "mid", "first", "empty", "failed", "interrupted",
          "stream"}

Unary == shape = "unary"
Generator == shape \in {"server_stream", "bidi"}
ReadsStream == shape \in {"client_stream", "bidi"}
Complete == status # "pending"

Init ==
    /\ shape \in Shapes /\ http1 \in BOOLEAN
    /\ trailers \in IF Unary THEN {FALSE} ELSE BOOLEAN
    /\ body = "left"
    /\ started = <<>> /\ ended = FALSE /\ toEnd = <<>>
    /\ seen = [i \in 1..NHooks |-> <<>>] /\ hookTrouble = FALSE /\ interrupts = 0
    /\ headers = "none" /\ chunks = 0 /\ status = "pending"
    /\ gen = "none" /\ yielded = 0
    /\ response = "none"
    /\ pc = "route" /\ site = "call" /\ exc = NoError /\ error = NoError
    /\ result = NoError

-----------------------------------------------------------------------------
(* Where an exception goes *)

Goto(label, from) == pc' = label /\ site' = from

\* Only the first end() ends the hooks.
ToEnd == IF ended THEN <<>> ELSE started

EndHooks(from, e) ==
    /\ Goto("end", from)
    /\ ended' = TRUE /\ toEnd' = ToEnd
    /\ error' = e
    /\ UNCHANGED started

\* Out of the handler, a hook or the reading of the request.
Raise(e) ==
    /\ EndHooks(IF Unary THEN "unary" ELSE "failed", e)
    /\ UNCHANGED exc

Interrupt ==
    /\ interrupts < MaxInterrupts
    /\ interrupts' = interrupts + 1
    /\ UNCHANGED <<seen, hookTrouble>>

RaiseInterrupt ==
    /\ Interrupt
    /\ EndHooks(IF Unary THEN "unary" ELSE "interrupted", "unknown")
    /\ exc' = "interrupt"

\* Into the `except` of __call__.
RaiseToCall(e) == Goto("drain", "call") /\ error' = e

\* The application returns or raises for good.
Over(r) == Goto("over", site) /\ result' = r

-----------------------------------------------------------------------------
(* The application is called *)

RouteFails ==
    /\ pc = "route"
    /\ \E e \in {"http", "invalid", "crash"} : RaiseToCall(e)
    /\ UNCHANGED <<request, body, run, history, server, handler, exc, response,
                   result>>

AfterStart(n) ==
    IF n < NHooks THEN "on_start" ELSE IF ReadsStream THEN "handler" ELSE "read"

Route ==
    /\ pc = "route"
    /\ Goto(AfterStart(0), "call")
    /\ UNCHANGED <<request, body, run, history, server, handler, exc, error,
                   response, result>>

OnStartReturns ==
    /\ pc = "on_start"
    /\ started' = Append(started, Len(started) + 1)
    /\ Goto(AfterStart(Len(started')), "call")
    /\ UNCHANGED <<request, body, ended, toEnd, history, server, handler, exc,
                   error, response, result>>

OnStartRaises ==
    /\ pc = "on_start"
    /\ \/ Raise("hook") /\ UNCHANGED history
       \/ RaiseInterrupt
    /\ UNCHANGED <<request, body, server, handler, response, result>>

\* The compression is unknown, or the request is bad.
ReadFails ==
    /\ pc = "read" \/ (pc = "handler" /\ ReadsStream)
    /\ body' \in {body, "read"}
    /\ Raise("invalid")
    /\ UNCHANGED <<request, history, server, handler, response, result>>

\* A Connect GET has its message in the URL.
Read ==
    /\ pc = "read"
    /\ body' \in IF Unary THEN {body, "read"} ELSE {"read"}
    /\ Goto("handler", "call")
    /\ UNCHANGED <<request, run, history, server, handler, exc, error, response,
                   result>>

\* The handler runs, and reads what it likes of a request stream.
HandlerMayRead ==
    body' \in IF ReadsStream /\ (Generator \/ pc = "handler")
              THEN {body, "read"} ELSE {body}

HandlerReturns ==
    /\ pc = "handler" /\ HandlerMayRead
    /\ IF Generator
       THEN gen' = "live" /\ Goto("first", "call") /\ UNCHANGED <<run, error>>
       ELSE EndHooks(IF Unary THEN "unary" ELSE "mid", NoError) /\ UNCHANGED gen
    /\ UNCHANGED <<request, history, server, yielded, exc, response, result>>

HandlerRaises ==
    /\ pc = "handler" /\ HandlerMayRead
    /\ \/ \E e \in HandlerErrors : Raise(e) /\ UNCHANGED history
       \/ RaiseInterrupt
    /\ UNCHANGED <<request, server, handler, response, result>>

-----------------------------------------------------------------------------
(* MetadataInterceptorsRunSync.end *)

Hook == toEnd[Len(toEnd)]
Rest == SubSeq(toEnd, 1, Len(toEnd) - 1)

\* Mutant: an on_end that raises ends the loop.
AfterHookError_Stop == <<>>
AfterHookError == Rest

\* The hooks end in the reverse order, each with the error of the moment.
OnEnd ==
    /\ pc = "end" /\ toEnd # <<>>
    /\ seen' = [seen EXCEPT ![Hook] = Append(@, error)]
    /\ UNCHANGED <<request, body, started, ended, server, handler, response>>

OnEndReturns ==
    /\ OnEnd
    /\ toEnd' = Rest
    /\ UNCHANGED <<hookTrouble, interrupts, pc, site, exc, error, result>>

OnEndRaises ==
    /\ OnEnd
    /\ toEnd' = AfterHookError /\ error' = "hook" /\ hookTrouble' = TRUE
    /\ UNCHANGED <<interrupts, pc, site, exc, result>>

\* Past every handler of exceptions: end() does not go on, nor is it repeated.
OnEndInterrupted ==
    /\ OnEnd
    /\ interrupts < MaxInterrupts /\ interrupts' = interrupts + 1
    /\ toEnd' = Rest /\ hookTrouble' = TRUE
    /\ Over("interrupt")
    /\ UNCHANGED <<exc, error>>

AfterUnary == [end |-> "encode", encode |-> "start", start |-> "idle"]

\* end() has returned `error`.
Ended ==
    /\ pc = "end" /\ toEnd = <<>>
    /\ \/ site = "unary" /\ exc = "interrupt" /\ Over("interrupt")
          /\ UNCHANGED <<exc, error>>
       \/ site = "unary" /\ exc = NoError /\ error # NoError /\ RaiseToCall(error)
          /\ UNCHANGED <<exc, result>>
       \/ site = "unary" /\ exc = NoError /\ error = NoError
          /\ Goto(AfterUnary.end, "unary") /\ UNCHANGED <<exc, error, result>>
       \* A hook's error is raised; the second end() changes nothing.
       \/ site = "mid" /\ error # NoError /\ Goto("end", "failed")
          /\ UNCHANGED <<exc, error, result>>
       \/ site = "mid" /\ error = NoError /\ Goto("first", "call")
          /\ UNCHANGED <<exc, error, result>>
       \/ site = "empty" /\ Goto("last", "empty") /\ UNCHANGED <<exc, error, result>>
       \/ site = "failed" /\ Goto("drain", "failed") /\ UNCHANGED <<exc, error, result>>
       \/ site = "interrupted" /\ Over("interrupt") /\ UNCHANGED <<exc, error>>
       \/ site = "stream" /\ exc = NoError /\ Goto("last", "stream")
          /\ UNCHANGED <<exc, error, result>>
       \/ site = "stream" /\ exc # NoError
          /\ Over(IF exc = "crash" THEN "raise" ELSE exc)
          /\ UNCHANGED <<exc, error>>
    /\ UNCHANGED <<request, body, run, history, server, handler, response>>

-----------------------------------------------------------------------------
(* The response starts *)

Encode ==
    /\ pc = "encode"
    /\ \/ Goto(AfterUnary.encode, "unary") /\ UNCHANGED error
       \/ RaiseToCall("crash")
    /\ UNCHANGED <<request, body, run, history, server, handler, exc, response,
                   result>>

\* The app server refuses to start a response twice.
Start ==
    /\ pc = "start" /\ headers = "none"
    /\ headers' = IF site = "call" THEN "error" ELSE "success"
    /\ \/ /\ \/ site = "unary" /\ Goto(AfterUnary.start, site) /\ response' = "list"
             \/ site = "call" /\ Goto("idle", site) /\ response' = "list"
             \/ site = "first" /\ Goto("idle", site) /\ response' = "fresh"
             \/ site = "failed" /\ Goto("last", site) /\ UNCHANGED response
          /\ UNCHANGED <<run, error>>
       \/ site = "empty" /\ EndHooks(site, NoError) /\ UNCHANGED response
    /\ UNCHANGED <<request, body, history, chunks, status, handler, exc, result>>

\* It may also raise for headers it does not like.
StartFails ==
    /\ pc = "start"
    /\ \/ site \in {"first", "empty"} /\ Raise("crash") /\ UNCHANGED result
       \/ site \in {"unary", "failed"} /\ RaiseToCall("crash")
          /\ UNCHANGED <<run, exc, result>>
       \/ site = "call" /\ Over("raise") /\ UNCHANGED <<run, exc, error>>
    /\ UNCHANGED <<request, body, history, server, handler, response>>

\* _drain_request_body
Drain ==
    /\ pc = "drain"
    /\ body' = IF http1 THEN "read" ELSE body
    /\ Goto(IF site = "stream" THEN "unwind" ELSE "start", site)
    /\ UNCHANGED <<request, run, history, server, handler, exc, error, response,
                   result>>

DrainFails ==
    /\ pc = "drain" /\ http1 /\ body = "left"
    /\ \/ site = "failed" /\ RaiseToCall("crash") /\ UNCHANGED <<exc, result>>
       \/ site = "call" /\ Over("raise") /\ UNCHANGED <<exc, error>>
       \/ site = "stream" /\ exc' = "crash" /\ Goto("unwind", site)
          /\ UNCHANGED <<error, result>>
    /\ UNCHANGED <<request, body, run, history, server, handler, response>>

\* _end_response: the status, as trailers before the last item.
Last ==
    /\ pc = "last"
    /\ Goto("idle", site)
    /\ response' = IF site = "stream" THEN "last" ELSE "list"
    /\ UNCHANGED <<request, body, run, history, server, handler, exc, error, result>>

LastFails ==
    /\ pc = "last" /\ trailers
    /\ \/ site = "empty" /\ Raise("trailers") /\ UNCHANGED result
       \/ site = "failed" /\ RaiseToCall("trailers") /\ UNCHANGED <<run, exc, result>>
       \/ site = "stream" /\ Over("raise") /\ UNCHANGED <<run, exc, error>>
    /\ UNCHANGED <<request, body, history, server, handler, response>>

-----------------------------------------------------------------------------
(* The handler's generator, before (pc "first") and after the response began *)

\* Mutant: a failed stream leaves the request's body unread.
AfterStreamError_NoDrain == "unwind"
AfterStreamError == "drain"

HandlerYields ==
    /\ pc \in {"first", "next"} /\ HandlerMayRead
    /\ IF Generator THEN yielded < MaxMessages ELSE yielded = 0
    /\ yielded' = yielded + 1
    /\ IF pc = "first" THEN Goto("start", "first") ELSE Goto("write", "stream")
    /\ UNCHANGED <<request, run, history, server, gen, exc, error, response, result>>

HandlerEnds ==
    /\ pc \in {"first", "next"} /\ (Generator \/ yielded = 1)
    /\ HandlerMayRead
    /\ gen' = IF Generator THEN "closed" ELSE gen
    /\ IF pc = "first" THEN Goto("start", "empty") ELSE Goto("unwind", "stream")
    /\ UNCHANGED <<request, run, history, server, yielded, exc, error, response,
                   result>>

GeneratorRaises ==
    /\ pc \in {"first", "next"} /\ Generator /\ HandlerMayRead
    /\ gen' = "closed"
    /\ \/ /\ UNCHANGED history
          /\ \E e \in HandlerErrors \cup {"invalid"} :
              \/ pc = "first" /\ Raise(e)
              \/ pc = "next" /\ Goto(AfterStreamError, "stream") /\ error' = e
                 /\ UNCHANGED <<run, exc>>
       \/ pc = "first" /\ RaiseInterrupt
       \/ pc = "next" /\ Interrupt /\ exc' = "interrupt" /\ error' = "unknown"
          /\ Goto("unwind", "stream") /\ UNCHANGED run
    /\ UNCHANGED <<request, server, yielded, response, result>>

-----------------------------------------------------------------------------
(* _response_stream, and the app server that iterates over the response *)

Write ==
    /\ pc = "write"
    /\ chunks' = chunks + 1 /\ response' = "open"
    /\ Goto("idle", site)
    /\ UNCHANGED <<request, body, run, history, headers, status, handler, exc,
                   error, result>>

WriteFails ==
    /\ pc = "write"
    /\ error' = "crash"
    /\ Goto(AfterStreamError, "stream")
    /\ UNCHANGED <<request, body, run, history, server, handler, exc, response,
                   result>>

\* _end_stream: a handler that is suspended gets the error, and may clean up.
Unwind ==
    /\ pc = "unwind"
    /\ gen' = IF Generator THEN "closed" ELSE gen
    /\ EndHooks("stream", error)
    /\ UNCHANGED <<request, body, history, server, yielded, exc, response, result>>

\* Its cleanup raises: past _response_stream.
UnwindFails ==
    /\ pc = "unwind" /\ gen = "live"
    /\ gen' = "closed"
    /\ \/ Over("raise") /\ UNCHANGED history
       \/ Over("interrupt") /\ Interrupt
    /\ UNCHANGED <<request, body, run, server, yielded, exc, error, response>>

ServerIterates ==
    /\ pc = "idle" /\ response \in {"fresh", "open"}
    /\ Goto(IF response = "fresh" THEN "write" ELSE "next", "stream")
    /\ UNCHANGED <<request, body, run, history, server, handler, exc, error,
                   response, result>>

\* Mutant: the end of a stream does not carry the error.
StatusOf_NoError == IF response = "last" THEN NoError ELSE error
StatusOf == error

\* The last item, or a list, is taken.
ServerFinishes ==
    /\ pc = "idle" /\ response \in {"list", "last"}
    /\ status' = StatusOf
    /\ Over("served")
    /\ UNCHANGED <<request, body, run, history, headers, chunks, handler, exc,
                   error, response>>

\* close(): a generator that is suspended raises GeneratorExit, but one that
\* has not begun just ends.
ServerCloses ==
    /\ pc = "idle"
    /\ IF response = "open"
       THEN /\ exc' = "closed" /\ error' = "gone"
            /\ Goto("unwind", "stream")
            /\ UNCHANGED result
       ELSE Over("closed") /\ UNCHANGED <<exc, error>>
    /\ UNCHANGED <<request, body, run, history, server, handler, response>>

Terminated == pc = "over" /\ UNCHANGED vars

Next ==
    \/ RouteFails \/ Route \/ OnStartReturns \/ OnStartRaises
    \/ ReadFails \/ Read \/ HandlerReturns \/ HandlerRaises
    \/ OnEndReturns \/ OnEndRaises \/ OnEndInterrupted \/ Ended
    \/ Encode \/ Start \/ StartFails \/ Drain \/ DrainFails \/ Last \/ LastFails
    \/ HandlerYields \/ HandlerEnds \/ GeneratorRaises
    \/ Write \/ WriteFails \/ Unwind \/ UnwindFails
    \/ ServerIterates \/ ServerFinishes \/ ServerCloses \/ Terminated

Spec == Init /\ [][Next]_vars

-----------------------------------------------------------------------------
(* Properties *)

RequestOK ==
    /\ shape \in Shapes /\ trailers \in BOOLEAN /\ http1 \in BOOLEAN
    /\ body \in {"left", "read"}
RunOK ==
    /\ started \in Seq(1..NHooks) /\ ended \in BOOLEAN /\ toEnd \in Seq(1..NHooks)
    /\ seen \in [1..NHooks -> Seq(Errors \cup {NoError})]
    /\ hookTrouble \in BOOLEAN /\ interrupts \in 0..MaxInterrupts
ResponseOK ==
    /\ headers \in {"none", "success", "error"} /\ chunks \in Nat
    /\ status \in Errors \cup {NoError, "pending"}
    /\ gen \in {"none", "live", "closed"} /\ yielded \in Nat
    /\ response \in {"none", "list", "fresh", "open", "last"}
FrameOK ==
    /\ pc \in Pcs /\ site \in Sites
    /\ exc \in Passing \cup {NoError} /\ error \in Errors \cup {NoError}
    /\ result \in {NoError, "served", "closed", "raise", "interrupt"}
\* Every variable has a value of its type.
TypeOK == RequestOK /\ RunOK /\ ResponseOK /\ FrameOK

\* start_response is not called again once it succeeded, which PEP 3333 makes a
\* fatal error, but for gRPC, when send_trailers raises.
StartOnce == pc = "start" /\ ~trailers => headers = "none"

\* Hooks end at most once, in the reverse of the order they started in, however
\* often and from wherever end() is called.
HooksUnwindInOrder ==
    \A i, j \in 1..NHooks :
        /\ Len(seen[i]) <= 1
        /\ i < j /\ seen[i] # <<>> => \A k \in DOMAIN started :
              started[k] = j => seen[j] # <<>>

AllEnded == \A k \in DOMAIN started : seen[started[k]] # <<>>
\* The handler's cleanup raised, or the response was closed unread.
Lost == (gen = "closed" /\ ~ended) \/ response = "fresh"

\* Every hook that started has ended before a status is written, so that it may
\* add trailers, and when the request is over, but for a KeyboardInterrupt, a
\* cleanup that raises and a response nobody read.
HooksAllEnd ==
    pc = "last" \/ (pc = "over" /\ result # "interrupt" /\ ~Lost) => AllEnded

\* Hooks end once, in reverse order, before the status, and all of them.
HooksCorrect == HooksUnwindInOrder /\ HooksAllEnd

\* When no hook raised, the client never gets a success that a hook was told is
\* a failure, and of a stream that has begun the two get the same outcome.  (Of
\* one response the hooks end before it is written: they miss its failure.)
HooksSeeOutcome ==
    Complete /\ ~hookTrouble => \A i \in 1..NHooks : seen[i] # <<>> =>
        IF Generator /\ response = "last"
        THEN seen[i][1] = status
        ELSE seen[i][1] # NoError => status # NoError

\* Over HTTP/1 an error that does not come from a hook is answered only when
\* the request's body has been read to its end, so that the connection is fit
\* for another request.
ErrorsDrainBody ==
    Complete /\ status # NoError /\ http1 /\ ~hookTrouble => body = "read"

\* One response to a request, and the connection is left fit for the next.
ResponseCorrect == StartOnce /\ ErrorsDrainBody

\* What the client has got: a Connect unary response is its headers.
Replies == chunks + (IF Unary /\ headers = "success" THEN 1 ELSE 0)

\* The client sees an RPC: see module Rpc.
Client == INSTANCE Rpc WITH
    Success <- NoError,
    Failures <- Errors \cup {"aborted"},
    single <- ~Generator,
    delivered <- Replies,
    outcome <- IF Complete THEN status
               ELSE IF pc = "over" THEN "aborted" ELSE "pending"

\* What the client sees of the request implements Rpc.
ImplementsRpc == Client!RpcSpec

\* What the source says of a stream that ends by an error: its handler cleans
\* up, then the hooks end.
HooksEndAfterCleanup ==
    pc = "over" /\ response = "open" /\ result = "raise" => AllEnded

\* What the source says of a response that the app server closes before its
\* end: the hooks are told that the client disconnected.
HooksEndOnClose == result = "closed" => AllEnded
=============================================================================
