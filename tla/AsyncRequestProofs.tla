------------------------- MODULE AsyncRequestProofs -------------------------
(***************************************************************************)
(* Proofs of safety properties of AsyncRequest, for any number of hooks,   *)
(* cancellations, chunks, messages and any deadline.  Each section has an  *)
(* inductive invariant, the proof that a step keeps it and the theorem.    *)
(***************************************************************************)
EXTENDS AsyncRequestTypes, FiniteSetTheorems

-----------------------------------------------------------------------------
(* The hooks end in the reverse of the order they started in *)

\* The started hooks are a prefix of the configured ones, and none of them,
\* nor any hook before the first end(), has ended.
InOrder == \A k \in 1..Len(started) : started[k] = k
SeenOnce ==
    \A i \in 1..NHooks : Len(seen[i]) <= 1 /\ (i <= Len(started) => seen[i] = <<>>)
NoneSeenYet == pc \in {"route", "on_start"} => \A i \in 1..NHooks : seen[i] = <<>>
OrderInv == InOrder /\ SeenOnce /\ NoneSeenYet

\* Popping a hook keeps the order.
LEMMA SeenWhenPopped ==
    ASSUME TInv, OrderInv, PopHook PROVE InOrder' /\ SeenOnce'
  <1>1. /\ Len(started) \in Nat \ {0} /\ Top \in 1..NHooks
        /\ started' \in Seq(1..NHooks)
        /\ Len(started') = Len(started) - 1
        /\ \A k \in 1..Len(started') : started'[k] = started[k]
    BY PopTyped DEF TInv, TypeOK
  <1>2. InOrder'
    BY <1>1 DEF OrderInv, InOrder
  <1>3. Top = Len(started)
    BY <1>1 DEF OrderInv, InOrder, Top
  <1>4. Len(Append(seen[Top], runErr)) = 1
    BY <1>1, <1>3 DEF OrderInv, SeenOnce
  <1>5. \A i \in 1..NHooks :
           seen'[i] = IF i = Top THEN Append(seen[Top], runErr) ELSE seen[i]
    BY <1>1 DEF PopHook, TInv, TypeOK, HistoryOK
  <1>6. SeenOnce'
    <2> SUFFICES ASSUME NEW i \in 1..NHooks
                 PROVE  Len(seen'[i]) <= 1 /\ (i <= Len(started') => seen'[i] = <<>>)
      BY DEF SeenOnce
    <2>1. CASE i = Top
      <3>1. seen'[i] = Append(seen[Top], runErr)
        BY <1>5, <2>1
      <3>2. ~(i <= Len(started'))
        BY <1>1, <1>3, <2>1
      <3> QED BY <1>4, <3>1, <3>2
    <2>2. CASE i # Top
      BY <1>1, <1>3, <1>5, <2>2 DEF OrderInv, SeenOnce
    <2> QED BY <2>1, <2>2
  <1> QED BY <1>2, <1>6

\* Every step keeps the order.
LEMMA OrderStep == TInv /\ OrderInv /\ [Next]_vars => OrderInv'
  <1> SUFFICES ASSUME TInv, OrderInv, [Next]_vars PROVE OrderInv'
    OBVIOUS
  <1> USE DEF OrderInv, InOrder, SeenOnce, NoneSeenYet, still, io, ending,
     request, world, receiver, timer, cancellation, run, history, sender,
     generators, frame
  <1>1. CASE RouteFails \/ Route \/ OnStartRaises
    BY <1>1 DEF RouteFails, Route, AfterStart, OnStartRaises, MaySwallow,
       Interrupted
  <1>2. CASE OnStartReturns
    <2>1. /\ started \in Seq(1..NHooks)
          /\ started' = Append(started, Len(started) + 1)
          /\ seen' = seen /\ pc = "on_start"
      BY <1>2 DEF OnStartReturns, TInv, TypeOK, RunOK
    <2>2. /\ Len(started') = Len(started) + 1
          /\ \A k \in 1..Len(started') :
               started'[k] = IF k = Len(started) + 1 THEN k ELSE started[k]
      BY <2>1
    <2> QED BY <2>1, <2>2 DEF TInv
  <1>3. CASE BeginUnary \/ BeginStream \/ BeginFails
    BY <1>3 DEF BeginUnary, BeginStream, BeginFails
  <1>4. CASE ReadDisconnect \/ ReadCancelled \/ ReadFails \/ ReadMore \/
           ReadLast
    BY <1>4 DEF ReadDisconnect, AfterReadError, ReadCancelled, ReadFails,
       ReadMore, ReadLast
  <1>5. CASE HandlerCalls \/ HandlerGetsChunk \/ HandlerGetsDisconnect
    BY <1>5 DEF HandlerCalls, HandlerGetsChunk, HandlerGetsDisconnect
  <1>6. CASE HandlerReturns \/ HandlerRaises \/ HandlerCancelled
    BY <1>6 DEF HandlerReturns, HandlerRuns, MaySwallow, HandlerRaises,
       HandlerStops, Interrupted, HandlerCancelled
  <1>7. CASE GeneratorEnds \/ GeneratorYields \/ CloseGenerator
    BY <1>7 DEF GeneratorEnds, HandlerRuns, MaySwallow, GeneratorYields,
       AfterYield, CloseGenerator
  <1>8. CASE LeaveWatch \/ WatchLeft \/ Catch \/ CatchNot
    BY <1>8 DEF LeaveWatch, WatchLeft, Catch, CatchNot
  <1>9. CASE OnEndReturns
    <2>1. InOrder' /\ SeenOnce'
      BY <1>9, SeenWhenPopped DEF OnEndReturns
    <2> QED BY <1>9, <2>1 DEF OnEndReturns, PopHook, RaiseFromEnd
  <1>10. CASE OnEndRaises
    <2>1. InOrder' /\ SeenOnce'
      BY <1>10, SeenWhenPopped DEF OnEndRaises
    <2> QED BY <1>10, <2>1 DEF OnEndRaises, PopHook, RaiseFromEnd
  <1>11. CASE OnEndCancelled
    <2>1. InOrder' /\ SeenOnce'
      BY <1>11, SeenWhenPopped DEF OnEndCancelled
    <2> QED BY <1>11, <2>1 DEF OnEndCancelled, PopHook, RaiseFromEnd
  <1>12. CASE OnEndInterrupted
    <2>1. InOrder' /\ SeenOnce'
      BY <1>12, SeenWhenPopped DEF OnEndInterrupted
    <2> QED BY <1>12, <2>1 DEF OnEndInterrupted, PopHook, RaiseFromEnd,
        TInv, TypeOK, RunOK
  <1>13. CASE EndCancelled
    BY <1>13 DEF EndCancelled, RaiseFromEnd, TInv, TypeOK, RunOK
  <1>14. CASE EndedMid \/ Ended
    BY <1>14 DEF EndedMid, Ended, AfterEnd
  <1>15. CASE ScopeExit
    BY <1>15 DEF ScopeExit, AfterScope
  <1>16. CASE Encode \/ UnaryEncode
    BY <1>16 DEF Encode, UnaryEncode
  <1>17. CASE Send
    BY <1>17, AfterSendTyped DEF Send, SendPcs
  <1>18. CASE StreamSendStops \/ UnarySendStops \/ StatusSendStops
    BY <1>18 DEF StreamSendStops, SendFails, SendCancelled, UnarySendStops,
       StatusSendStops
  <1>19. CASE Respond \/ Finish
    BY <1>19 DEF Respond, Finish
  <1>20. CASE Tick \/ ClientLeaves \/ ServerCancels \/ TimerFires \/
           WatchStarts \/ WatchSeesDisconnect \/ WatchFails
    BY <1>20 DEF Tick, ClientLeaves, ServerCancels, TimerFires, WatchStarts,
       WatchSeesDisconnect, WatchFails
  <1>21. CASE UNCHANGED vars
    BY <1>21 DEF vars
  <1> QED
    BY <1>1, <1>2, <1>3, <1>4, <1>5, <1>6, <1>7, <1>8, <1>9, <1>10, <1>11,
       <1>12, <1>13, <1>14, <1>15, <1>16, <1>17, <1>18, <1>19, <1>20, <1>21 DEF
       Next, Progress, Unforced, Terminated

\* The request starts without started hooks.
LEMMA OrderInit == Init => OrderInv
  BY NHooksAssumption DEF Init, OrderInv, InOrder, SeenOnce, NoneSeenYet

\* MetadataInterceptorsRun: each on_end runs at most once, after those of all
\* hooks that started later, whichever of the three calls of end() unwinds it.
THEOREM UnwindCorrect == Spec => []HooksUnwindInOrder
  <1>1. Spec => []OrderInv
    BY OrderInit, OrderStep, TypeInvariant, PTL DEF Spec
  <1>2. TInv /\ OrderInv => HooksUnwindInOrder
    <2> SUFFICES ASSUME TInv, OrderInv PROVE HooksUnwindInOrder
      OBVIOUS
    <2>1. Len(started) \in Nat /\ DOMAIN started = 1..Len(started)
      BY DEF TInv, TypeOK, RunOK
    <2>2. \A k \in DOMAIN started : started[k] \in 1..NHooks
      BY <2>1, ElementOfSeq DEF TInv, TypeOK, RunOK
    <2>3. \A k \in DOMAIN started : started[k] = k
      BY <2>1 DEF OrderInv, InOrder
    <2>4. \A i \in 1..NHooks : Len(seen[i]) <= 1
      BY DEF OrderInv, SeenOnce
    <2>5. \A i, j \in 1..NHooks :
            i < j /\ seen[i] # <<>> => \A k \in DOMAIN started : started[k] # j
      BY <2>1, <2>3, NHooksAssumption DEF OrderInv, SeenOnce
    <2>6. \A k \in DOMAIN started : seen[started[k]] = <<>>
      BY <2>1, <2>2, <2>3 DEF OrderInv, SeenOnce
    <2> QED BY <2>4, <2>5, <2>6 DEF HooksUnwindInOrder
  <1> QED BY <1>1, <1>2, TypeInvariant, PTL

-----------------------------------------------------------------------------
(* receive() has one reader *)

\* The watch reads only past the end of the body, the handler only before it.
ReceiverInv ==
    /\ watch = "receiving" => bodyDone
    /\ pc \in {"route", "on_start", "begin", "read", "handler_read"} => ~bodyDone

\* Every step keeps the receivers apart.
LEMMA ReceiverStep == TInv /\ ReceiverInv /\ [Next]_vars => ReceiverInv'
  <1> SUFFICES ASSUME TInv, ReceiverInv, [Next]_vars PROVE ReceiverInv'
    OBVIOUS
  <1> USE DEF ReceiverInv, still, io, ending, request, world, receiver, timer,
     cancellation, run, history, sender, generators, frame
  <1>1. CASE RouteFails \/ Route \/ OnStartRaises
    BY <1>1 DEF RouteFails, Route, AfterStart, OnStartRaises, MaySwallow,
       Deliver, Interrupted
  <1>2. CASE OnStartReturns
    BY <1>2 DEF OnStartReturns, MaySwallow, AfterStart
  <1>3. CASE BeginUnary \/ BeginStream \/ BeginFails
    BY <1>3 DEF BeginUnary, StartWatch, BeginStream, BeginFails
  <1>4. CASE ReadDisconnect \/ ReadCancelled \/ ReadFails \/ ReadMore \/
           ReadLast
    BY <1>4 DEF ReadDisconnect, NoCancel, TakeDisconnect, AfterReadError,
       ReadCancelled, Deliver, ReadFails, TakeChunk, ReadMore, ReadLast
  <1>5. CASE HandlerCalls \/ HandlerGetsChunk \/ HandlerGetsDisconnect
    BY <1>5 DEF HandlerCalls, NoCancel, HandlerGetsChunk, TakeChunk,
       HandlerGetsDisconnect, TakeDisconnect
  <1>6. CASE HandlerReturns \/ HandlerRaises \/ HandlerCancelled
    BY <1>6 DEF HandlerReturns, HandlerRuns, MaySwallow, HandlerRaises,
       HandlerStops, Interrupted, HandlerCancelled, Deliver
  <1>7. CASE GeneratorEnds \/ GeneratorYields \/ CloseGenerator
    BY <1>7 DEF GeneratorEnds, HandlerRuns, MaySwallow, GeneratorYields,
       AfterYield, CloseGenerator, NoCancel, Deliver
  <1>8. CASE LeaveWatch \/ WatchLeft \/ Catch \/ CatchNot
    BY <1>8 DEF LeaveWatch, WatchLeft, NoCancel, Deliver, Catch, CatchNot
  <1>9. CASE OnEndReturns
    BY <1>9 DEF OnEndReturns, PopHook, MaySwallow
  <1>10. CASE OnEndRaises
    BY <1>10 DEF OnEndRaises, PopHook, MaySwallow
  <1>11. CASE OnEndCancelled
    BY <1>11 DEF OnEndCancelled, PopHook, Deliver
  <1>12. CASE OnEndInterrupted
    BY <1>12 DEF OnEndInterrupted, PopHook, RaiseFromEnd, TInv, TypeOK, RunOK
  <1>13. CASE EndCancelled
    BY <1>13 DEF EndCancelled, RaiseFromEnd, TInv, TypeOK, RunOK
  <1>14. CASE EndedMid \/ Ended
    BY <1>14 DEF EndedMid, Ended, AfterEnd
  <1>15. CASE ScopeExit
    BY <1>15 DEF ScopeExit, AfterScope
  <1>16. CASE Encode \/ UnaryEncode
    BY <1>16 DEF Encode, UnaryEncode
  <1>17. CASE Send
    BY <1>17, AfterSendTyped DEF Send, SendPcs
  <1>18. CASE StreamSendStops \/ UnarySendStops \/ StatusSendStops
    BY <1>18 DEF StreamSendStops, SendFails, SendCancelled, NoCancel, Deliver,
       UnarySendStops, StatusSendStops
  <1>19. CASE Respond \/ Finish
    BY <1>19 DEF Respond, Finish
  <1>20. CASE Tick \/ ClientLeaves \/ ServerCancels \/ TimerFires \/
           WatchStarts \/ WatchSeesDisconnect \/ WatchFails
    BY <1>20 DEF Tick, ClientLeaves, ServerCancels, TimerFires, WatchStarts,
       WatchMayReceive, WatchSeesDisconnect, TakeDisconnect, Reschedule,
       MayReschedule, WatchFails
  <1>21. CASE UNCHANGED vars
    BY <1>21 DEF vars
  <1> QED
    BY <1>1, <1>2, <1>3, <1>4, <1>5, <1>6, <1>7, <1>8, <1>9, <1>10, <1>11,
       <1>12, <1>13, <1>14, <1>15, <1>16, <1>17, <1>18, <1>19, <1>20, <1>21 DEF
       Next, Progress, Unforced, Terminated

\* The request starts with its body unread.
LEMMA ReceiverInit == Init => ReceiverInv
  BY DEF Init, ReceiverInv

\* watch_for_disconnect and the body's reader never both wait in receive().
THEOREM ReceiverCorrect == Spec => []OneReceiver
  <1>1. Spec => []ReceiverInv
    BY ReceiverInit, ReceiverStep, TypeInvariant, PTL DEF Spec
  <1>2. ReceiverInv => OneReceiver
    BY DEF ReceiverInv, OneReceiver
  <1> QED BY <1>1, <1>2, PTL

-----------------------------------------------------------------------------
(* All hooks have ended when the status is sent *)

\* Only a generator's messages are sent before the hooks end, and only a
\* KeyboardInterrupt out of the last unwinding leaves some.
Unwound ==
    /\ pc \in SendPcs \cup {"unary_encode", "encode", "respond"}
          /\ (~Generator \/ pc \notin {"headers", "encode", "message"}) => started = <<>>
    /\ pc = "finish" /\ started # <<>> => leaving = "interrupt"
    /\ pc = "done" /\ started # <<>> => result = "interrupt"

\* Every step keeps Unwound.
LEMMA UnwoundStep == TInv /\ Unwound /\ [Next]_vars => Unwound'
  <1> SUFFICES ASSUME TInv, Unwound, [Next]_vars PROVE Unwound'
    OBVIOUS
  <1> USE DEF Unwound, Generator, SendPcs, BaseErrors, NoError, still, io,
     ending, request, world, receiver, timer, cancellation, run, history,
     sender, generators, frame
  <1>1. CASE RouteFails \/ Route \/ OnStartRaises
    BY <1>1 DEF RouteFails, Route, AfterStart, OnStartRaises, MaySwallow,
       Deliver, Interrupted
  <1>2. CASE OnStartReturns
    BY <1>2 DEF OnStartReturns, MaySwallow, AfterStart
  <1>3. CASE BeginUnary \/ BeginStream \/ BeginFails
    BY <1>3 DEF BeginUnary, StartWatch, ConnectUnary, BeginStream, Streams,
       ReadsStream, BeginFails
  <1>4. CASE ReadDisconnect \/ ReadCancelled \/ ReadFails \/ ReadMore \/
           ReadLast
    BY <1>4 DEF ReadDisconnect, NoCancel, TakeDisconnect, AfterReadError,
       Streams, ReadCancelled, Deliver, ReadFails, TakeChunk, ReadMore,
       ReadLast
  <1>5. CASE HandlerCalls \/ HandlerGetsChunk \/ HandlerGetsDisconnect
    BY <1>5 DEF HandlerCalls, NoCancel, HandlerGetsChunk, TakeChunk,
       HandlerGetsDisconnect, TakeDisconnect
  <1>6. CASE HandlerReturns \/ HandlerRaises \/ HandlerCancelled
    BY <1>6 DEF HandlerReturns, HandlerRuns, MaySwallow, ConnectUnary,
       HandlerRaises, HandlerStops, Interrupted, HandlerCancelled, Deliver
  <1>7. CASE GeneratorEnds \/ GeneratorYields \/ CloseGenerator
    BY <1>7 DEF GeneratorEnds, HandlerRuns, MaySwallow, GeneratorYields,
       AfterYield, CloseGenerator, NoCancel, Deliver
  <1>8. CASE LeaveWatch \/ WatchLeft \/ Catch \/ CatchNot
    BY <1>8 DEF LeaveWatch, WatchLeft, NoCancel, Deliver, Catch, CatchNot
  <1>9. CASE OnEndReturns
    BY <1>9 DEF OnEndReturns, PopHook, MaySwallow
  <1>10. CASE OnEndRaises
    BY <1>10 DEF OnEndRaises, PopHook, MaySwallow
  <1>11. CASE OnEndCancelled
    BY <1>11 DEF OnEndCancelled, PopHook, Deliver
  <1>12. CASE OnEndInterrupted
    BY <1>12 DEF OnEndInterrupted, PopHook, RaiseFromEnd, TInv, TypeOK, RunOK
  <1>13. CASE EndCancelled
    BY <1>13 DEF EndCancelled, RaiseFromEnd
  <1>14. CASE EndedMid \/ Ended
    BY <1>14 DEF EndedMid, Ended, AfterEnd, ConnectUnary
  <1>15. CASE ScopeExit
    BY <1>15 DEF ScopeExit, AfterScope
  <1>16. CASE Encode \/ UnaryEncode
    BY <1>16 DEF Encode, UnaryEncode
  <1>17. CASE Send
    BY <1>17 DEF Send, AfterSend
  <1>18. CASE StreamSendStops \/ UnarySendStops \/ StatusSendStops
    BY <1>18 DEF StreamSendStops, SendFails, SendCancelled, NoCancel, Deliver,
       UnarySendStops, StatusSendStops
  <1>19. CASE Respond
    BY <1>19 DEF Respond
  <1>20. CASE Finish
    BY <1>20 DEF Finish, Outcome, ClosedStream
  <1>21. CASE Tick \/ ClientLeaves \/ ServerCancels \/ TimerFires \/
           WatchStarts \/ WatchSeesDisconnect \/ WatchFails
    BY <1>21 DEF Tick, ClientLeaves, ServerCancels, TimerFires, WatchStarts,
       WatchMayReceive, WatchSeesDisconnect, TakeDisconnect, Reschedule,
       MayReschedule, WatchFails
  <1>22. CASE UNCHANGED vars
    BY <1>22 DEF vars
  <1> QED
    BY <1>1, <1>2, <1>3, <1>4, <1>5, <1>6, <1>7, <1>8, <1>9, <1>10, <1>11,
       <1>12, <1>13, <1>14, <1>15, <1>16, <1>17, <1>18, <1>19, <1>20, <1>21,
       <1>22 DEF Next, Progress, Unforced, Terminated

\* The request starts before any of these states.
LEMMA UnwoundInit == Init => Unwound
  BY DEF Init, Unwound, SendPcs

\* on_end can still change the metadata: every hook has ended before a status,
\* or the headers of a single response, are sent.
THEOREM StatusAfterHooks == Spec => []HooksEndBeforeStatus
  <1>1. Spec => []Unwound
    BY UnwoundInit, UnwoundStep, TypeInvariant, PTL DEF Spec
  <1>2. Unwound => HooksEndBeforeStatus
    BY DEF Unwound, HooksEndBeforeStatus, SendPcs
  <1> QED BY <1>1, <1>2, PTL

\* Every hook whose on_start returned is ended, however the request ends,
\* unless its app is interrupted.
THEOREM HooksEnd == Spec => []HooksAllEnd
  <1>1. Spec => []Unwound
    BY UnwoundInit, UnwoundStep, TypeInvariant, PTL DEF Spec
  <1>2. Unwound => HooksAllEnd
    BY DEF Unwound, HooksAllEnd
  <1> QED BY <1>1, <1>2, PTL

\* All of it together: hooks end once, in reverse order, before the status, and
\* none is left when the request is over, for any number of hooks.
THEOREM HooksAreCorrect == Spec => []HooksCorrect
  BY UnwindCorrect, StatusAfterHooks, HooksEnd, PTL DEF HooksCorrect

-----------------------------------------------------------------------------
(* Nothing is sent after a failed send *)

\* After a failed send a stream is on its way out of its generator and its
\* scope, a unary response out of its scope.
SilentInv ==
    sFailed => \/ pc \in {"close", "unwatch", "unwatching", "caught"} /\ Streams
               \/ pc \in {"scope_exit", "respond", "finish", "done"}
               \/ pc = "end" /\ (endSite = "out" \/ (endSite = "in" /\ Streams))
\* Only a stream has a request stream and is sent message by message.
StreamSends ==
    \/ requestStream # "none"
    \/ pc \in {"handler_read", "headers", "encode", "message", "close",
              "end_headers", "end_body", "end_trailers"}
    \/ pc = "end" /\ endSite = "mid"
    => Streams

\* Every step keeps the silence.
LEMMA SilentStep ==
    TInv /\ SilentInv /\ StreamSends /\ [Next]_vars => (SilentInv /\ StreamSends)'
  <1> SUFFICES ASSUME TInv, SilentInv, StreamSends, [Next]_vars
               PROVE  (SilentInv /\ StreamSends)'
    OBVIOUS
  <1> USE DEF SilentInv, StreamSends, Streams, Generator, SendPcs, still, io,
     ending, request, world, receiver, timer, cancellation, run, history,
     sender, generators, frame
  <1>1. CASE RouteFails \/ Route \/ OnStartRaises
    BY <1>1 DEF RouteFails, Route, AfterStart, OnStartRaises, MaySwallow,
       Deliver, Interrupted
  <1>2. CASE OnStartReturns
    BY <1>2 DEF OnStartReturns, MaySwallow, AfterStart
  <1>3. CASE BeginUnary \/ BeginStream \/ BeginFails
    BY <1>3 DEF BeginUnary, StartWatch, ConnectUnary, BeginStream, Streams,
       ReadsStream, BeginFails
  <1>4. CASE ReadDisconnect \/ ReadCancelled \/ ReadFails \/ ReadMore \/
           ReadLast
    BY <1>4 DEF ReadDisconnect, NoCancel, TakeDisconnect, AfterReadError,
       Streams, ReadCancelled, Deliver, ReadFails, TakeChunk, ReadMore,
       ReadLast
  <1>5. CASE HandlerCalls \/ HandlerGetsChunk \/ HandlerGetsDisconnect
    BY <1>5 DEF HandlerCalls, NoCancel, HandlerGetsChunk, TakeChunk,
       HandlerGetsDisconnect, TakeDisconnect
  <1>6. CASE HandlerReturns \/ HandlerRaises \/ HandlerCancelled
    BY <1>6 DEF HandlerReturns, HandlerRuns, MaySwallow, ConnectUnary,
       HandlerRaises, HandlerStops, Interrupted, HandlerCancelled, Deliver
  <1>7. CASE GeneratorEnds \/ GeneratorYields \/ CloseGenerator
    BY <1>7 DEF GeneratorEnds, HandlerRuns, MaySwallow, GeneratorYields,
       AfterYield, CloseGenerator, NoCancel, Deliver
  <1>8. CASE LeaveWatch \/ WatchLeft \/ Catch \/ CatchNot
    BY <1>8 DEF LeaveWatch, WatchLeft, NoCancel, Deliver, Catch, CatchNot
  <1>9. CASE OnEndReturns
    BY <1>9 DEF OnEndReturns, PopHook, MaySwallow
  <1>10. CASE OnEndRaises
    BY <1>10 DEF OnEndRaises, PopHook, MaySwallow
  <1>11. CASE OnEndCancelled
    BY <1>11 DEF OnEndCancelled, PopHook, Deliver
  <1>12. CASE OnEndInterrupted
    BY <1>12 DEF OnEndInterrupted, PopHook, RaiseFromEnd, TInv, TypeOK, RunOK
  <1>13. CASE EndCancelled
    BY <1>13 DEF EndCancelled, RaiseFromEnd, TInv, TypeOK, RunOK
  <1>14. CASE EndedMid \/ Ended
    BY <1>14 DEF EndedMid, Ended, AfterEnd, ConnectUnary
  <1>15. CASE ScopeExit
    BY <1>15 DEF ScopeExit, AfterScope
  <1>16. CASE Encode \/ UnaryEncode
    BY <1>16 DEF Encode, UnaryEncode
  <1>17. CASE Send
    BY <1>17 DEF Send, AfterSend
  <1>18. CASE StreamSendStops \/ UnarySendStops \/ StatusSendStops
    BY <1>18 DEF StreamSendStops, SendFails, SendCancelled, NoCancel, Deliver,
       UnarySendStops, StatusSendStops
  <1>19. CASE Respond
    BY <1>19 DEF Respond, CannotReplace
  <1>20. CASE Finish
    BY <1>20 DEF Finish, Outcome, ClosedStream
  <1>21. CASE Tick \/ ClientLeaves \/ ServerCancels \/ TimerFires \/
           WatchStarts \/ WatchSeesDisconnect \/ WatchFails
    BY <1>21 DEF Tick, ClientLeaves, ServerCancels, TimerFires, WatchStarts,
       WatchMayReceive, WatchSeesDisconnect, TakeDisconnect, Reschedule,
       MayReschedule, WatchFails
  <1>22. CASE UNCHANGED vars
    BY <1>22 DEF vars
  <1> QED
    BY <1>1, <1>2, <1>3, <1>4, <1>5, <1>6, <1>7, <1>8, <1>9, <1>10, <1>11,
       <1>12, <1>13, <1>14, <1>15, <1>16, <1>17, <1>18, <1>19, <1>20, <1>21,
       <1>22 DEF Next, Progress, Unforced, Terminated

\* The request starts without a failed send.
LEMMA SilentInit == Init => SilentInv /\ StreamSends
  BY DEF Init, SilentInv, StreamSends

\* It holds in every state.
LEMMA SilentAlways == Spec => [](SilentInv /\ StreamSends)
  BY SilentInit, SilentStep, TypeInvariant, PTL DEF Spec

\* _ResponseSender.failed keeps every later message, the status included, from
\* being sent, so the first failure is what the app server sees.
THEOREM SilentCorrect == Spec => []SilentAfterFailure
  <1>1. SilentInv => SilentAfterFailure
    BY DEF SilentInv, SilentAfterFailure, SendPcs
  <1> QED BY SilentAlways, <1>1, PTL

-----------------------------------------------------------------------------
(* A cancellation reaches the app server *)

\* A cancellation that was not swallowed is, until the coroutine is done, about
\* to be delivered, in flight, or noted by end() or for the end of the request.
CancelSuspended == mustCancel => Suspended
CancelPending ==
    cancels > 0 /\ ~swallowed /\ interrupts = 0 =>
        \/ mustCancel
        \/ exc = "cancel"
        \/ runCancel /\ pc = "end"
        \/ leaving = "cancel"
LeavingPastScope ==
    /\ leaving # NoError =>
           \/ pc \in {"respond", "end_headers", "end_body", "end_trailers",
                      "err_start", "err_body", "finish", "done"}
           \/ pc = "end" /\ endSite = "out"
    /\ pc = "done" /\ leaving = "cancel" => result = "cancel"
CancelInv == CancelSuspended /\ CancelPending /\ LeavingPastScope

\* Every step keeps track of a cancellation.
LEMMA CancelStep == TInv /\ CancelInv /\ [Next]_vars => CancelInv'
  <1> SUFFICES ASSUME TInv, CancelInv, [Next]_vars PROVE CancelInv'
    OBVIOUS
  <1> USE DEF CancelInv, CancelSuspended, CancelPending, LeavingPastScope,
     Suspended, AwaitPcs, SendPcs, BaseErrors, HandlerErrors, NoError,
     Generator, TInv, InFlight, Raising, still, io, ending, request, world,
     receiver, timer, cancellation, run, history, sender, generators, frame
  <1>1. CASE RouteFails
    BY <1>1 DEF RouteFails
  <1>2. CASE Route
    BY <1>2 DEF Route, AfterStart
  <1>3. CASE OnStartRaises
    BY <1>3 DEF OnStartRaises, Deliver, MaySwallow, Interrupted, TypeOK,
           HistoryOK, CancellationOK
  <1>4. CASE OnStartReturns
    BY <1>4 DEF OnStartReturns, MaySwallow, AfterStart
  <1>5. CASE BeginUnary
    BY <1>5 DEF BeginUnary, StartWatch, ConnectUnary
  <1>6. CASE BeginStream
    BY <1>6 DEF BeginStream, StartWatch, Streams, ReadsStream
  <1>7. CASE BeginFails
    BY <1>7 DEF BeginFails, Streams
  <1>8. CASE ReadDisconnect
    BY <1>8 DEF ReadDisconnect, NoCancel, TakeDisconnect, AfterReadError,
       Streams
  <1>9. CASE ReadCancelled
    BY <1>9 DEF ReadCancelled, Deliver, AfterReadError, Streams
  <1>10. CASE ReadFails
    BY <1>10 DEF ReadFails, NoCancel, TakeChunk, AfterReadError, Streams
  <1>11. CASE ReadMore
    BY <1>11 DEF ReadMore, NoCancel, TakeChunk
  <1>12. CASE ReadLast
    BY <1>12 DEF ReadLast, NoCancel, TakeChunk
  <1>13. CASE HandlerCalls
    BY <1>13 DEF HandlerCalls, NoCancel
  <1>14. CASE HandlerGetsChunk
    BY <1>14 DEF HandlerGetsChunk, NoCancel, TakeChunk
  <1>15. CASE HandlerGetsDisconnect
    BY <1>15 DEF HandlerGetsDisconnect, NoCancel, TakeDisconnect
  <1>16. CASE HandlerReturns
    BY <1>16 DEF HandlerReturns, HandlerRuns, MaySwallow, ConnectUnary
  <1>17. CASE HandlerRaises
    BY <1>17 DEF HandlerRaises, HandlerStops, HandlerRuns, MaySwallow, Interrupted, TypeOK,
           HistoryOK, CancellationOK
  <1>18. CASE HandlerCancelled
    BY <1>18 DEF HandlerCancelled, HandlerStops, HandlerRuns, Deliver
  <1>19. CASE GeneratorEnds
    BY <1>19 DEF GeneratorEnds, HandlerRuns, MaySwallow
  <1>20. CASE GeneratorYields
    BY <1>20 DEF GeneratorYields, HandlerRuns, MaySwallow, AfterYield
  <1>21. CASE CloseGenerator
    <2> USE <1>21 DEF CloseGenerator, NoCancel, MaySwallow, Deliver
    <2>1. /\ pc = "close" /\ pc' = "unwatch" /\ ~mustCancel'
          /\ UNCHANGED <<cancels, interrupts, runCancel, leaving, result>>
          /\ swallowed \in BOOLEAN /\ mustCancel \in BOOLEAN
      BY DEF TypeOK, CancellationOK
    <2>2. /\ exc = "cancel" => exc' = "cancel"
          /\ swallowed => swallowed'
          /\ mustCancel => swallowed' \/ exc' = "cancel"
      BY <2>1
    <2> HIDE <1>21 DEF CloseGenerator, NoCancel, MaySwallow, Deliver
    <2> QED BY <2>1, <2>2
  <1>22. CASE LeaveWatch
    BY <1>22 DEF LeaveWatch
  <1>23. CASE WatchLeft
    BY <1>23 DEF WatchLeft, NoCancel, Deliver
  <1>24. CASE Catch
    BY <1>24 DEF Catch
  <1>25. CASE CatchNot
    BY <1>25 DEF CatchNot
  <1>26. CASE OnEndReturns
    BY <1>26 DEF OnEndReturns, PopHook, MaySwallow
  <1>27. CASE OnEndRaises
    BY <1>27 DEF OnEndRaises, PopHook, MaySwallow
  <1>28. CASE OnEndCancelled
    BY <1>28 DEF OnEndCancelled, PopHook, Deliver
  <1>29. CASE OnEndInterrupted
    BY <1>29 DEF OnEndInterrupted, PopHook, MaySwallow, RaiseFromEnd, TypeOK, RunOK,
           HistoryOK
  <1>30. CASE EndCancelled
    BY <1>30 DEF EndCancelled, RaiseFromEnd, TypeOK, RunOK
  <1>31. CASE EndedMid
    BY <1>31 DEF EndedMid
  <1>32. CASE Ended
    BY <1>32 DEF Ended, AfterEnd, ConnectUnary
  <1>33. CASE ScopeExit
    BY <1>33 DEF ScopeExit, TimedOut, AfterScope
  <1>34. CASE Encode
    BY <1>34 DEF Encode
  <1>35. CASE UnaryEncode
    BY <1>35 DEF UnaryEncode
  <1>36. CASE Send
    BY <1>36 DEF Send, NoCancel, AfterSend
  <1>37. CASE StreamSendStops
    BY <1>37 DEF StreamSendStops, SendFails, SendCancelled, NoCancel, Deliver
  <1>38. CASE UnarySendStops
    BY <1>38 DEF UnarySendStops, SendFails, SendCancelled, NoCancel, Deliver
  <1>39. CASE StatusSendStops
    BY <1>39 DEF StatusSendStops, SendFails, SendCancelled, NoCancel, Deliver,
       AfterFailedStatus
  <1>40. CASE Respond
    BY <1>40 DEF Respond, CannotReplace
  <1>41. CASE Finish
    BY <1>41 DEF Finish, Outcome
  <1>42. CASE Tick
    BY <1>42 DEF Tick
  <1>43. CASE ClientLeaves
    BY <1>43 DEF ClientLeaves
  <1>44. CASE ServerCancels
    BY <1>44 DEF ServerCancels
  <1>45. CASE TimerFires
    BY <1>45 DEF TimerFires
  <1>46. CASE WatchStarts
    BY <1>46 DEF WatchStarts, WatchMayReceive
  <1>47. CASE WatchSeesDisconnect
    BY <1>47 DEF WatchSeesDisconnect, TakeDisconnect, Reschedule, MayReschedule
  <1>48. CASE WatchFails
    BY <1>48 DEF WatchFails
  <1>49. CASE UNCHANGED vars
    BY <1>49 DEF vars
  <1> QED
    BY <1>1, <1>2, <1>3, <1>4, <1>5, <1>6, <1>7, <1>8, <1>9, <1>10, <1>11,
       <1>12, <1>13, <1>14, <1>15, <1>16, <1>17, <1>18, <1>19, <1>20, <1>21,
       <1>22, <1>23, <1>24, <1>25, <1>26, <1>27, <1>28, <1>29, <1>30, <1>31,
       <1>32, <1>33, <1>34, <1>35, <1>36, <1>37, <1>38, <1>39, <1>40, <1>41,
       <1>42, <1>43, <1>44, <1>45, <1>46, <1>47, <1>48, <1>49 DEF Next,
       Progress, Unforced, Terminated

\* The request starts without a cancellation.
LEMMA CancelInit == Init => CancelInv
  BY DEF Init, CancelInv, CancelSuspended, CancelPending, LeavingPastScope, NoError

\* A cancellation of the task that user code does not swallow leaves
\* _handle_request, whatever the hooks, the sends and the deadline do after it.
THEOREM CancellationCorrect == Spec => []CancellationWins
  <1>1. Spec => []CancelInv
    BY CancelInit, CancelStep, TypeInvariant, PTL DEF Spec
  <1>2. TInv /\ CancelInv => CancellationWins
    BY DEF TInv, InFlight, Raising, NoError, CancelInv, CancelSuspended, CancelPending,
           LeavingPastScope, CancellationWins, Suspended, AwaitPcs, SendPcs
  <1> QED BY <1>1, <1>2, TypeInvariant, PTL

-----------------------------------------------------------------------------
(* Nothing is left open *)

\* A message a generator yielded is sent before it runs on; the watch's task
\* ends with its scope, and is not there before the request's body is asked for.
OpenInv ==
    /\ gen = "live" => pc \in {"headers", "encode", "message", "close"}
    /\ watch \in {"waiting", "receiving"} =>
           \/ pc \in {"read", "handler", "handler_read", "headers", "encode",
                      "message", "close", "unwatch"}
           \/ pc = "end" /\ endSite = "mid"
    /\ pc \in {"route", "on_start", "begin"} \/ (pc = "read" /\ ConnectUnary)
           => watch = "off"
    /\ pc = "done" => requestStream # "open"

\* Every step keeps track of what is open.
LEMMA OpenStep == TInv /\ OpenInv /\ [Next]_vars => OpenInv'
  <1> SUFFICES ASSUME TInv, OpenInv, [Next]_vars PROVE OpenInv'
    OBVIOUS
  <1> USE DEF OpenInv, ConnectUnary, Streams, still, io, ending, request,
     world, receiver, timer, cancellation, run, history, sender, generators,
     frame
  <1>1. CASE RouteFails \/ Route \/ OnStartRaises
    BY <1>1 DEF RouteFails, Route, AfterStart, ScopeDeadline, OnStartRaises,
       MaySwallow, Deliver, Interrupted
  <1>2. CASE OnStartReturns
    BY <1>2 DEF OnStartReturns, MaySwallow, AfterStart
  <1>3. CASE BeginUnary \/ BeginStream \/ BeginFails
    BY <1>3, BoundAssumption DEF BeginUnary, StartWatch, ConnectUnary,
       BeginStream, Streams, ReadsStream, TInv, TypeOK, RequestOK, BeginFails
  <1>4. CASE ReadDisconnect \/ ReadCancelled \/ ReadFails \/ ReadMore \/
     ReadLast
    BY <1>4 DEF ReadDisconnect, NoCancel, TakeDisconnect, AfterReadError,
       Streams, ReadCancelled, Deliver, ReadFails, TakeChunk, ReadMore,
       ReadLast
  <1>5. CASE HandlerCalls \/ HandlerGetsChunk \/ HandlerGetsDisconnect
    BY <1>5 DEF HandlerCalls, NoCancel, HandlerGetsChunk, TakeChunk,
       HandlerGetsDisconnect, TakeDisconnect
  <1>6. CASE HandlerReturns \/ HandlerRaises \/ HandlerCancelled
    BY <1>6 DEF HandlerReturns, HandlerRuns, MaySwallow, ConnectUnary,
       HandlerRaises, HandlerStops, Interrupted, HandlerCancelled, Deliver
  <1>7. CASE GeneratorEnds \/ GeneratorYields \/ CloseGenerator
    BY <1>7 DEF GeneratorEnds, HandlerRuns, MaySwallow, GeneratorYields,
       AfterYield, CloseGenerator, NoCancel, Deliver
  <1>8. CASE LeaveWatch \/ WatchLeft \/ Catch \/ CatchNot
    BY <1>8 DEF LeaveWatch, WatchLeft, NoCancel, Deliver, Catch, CatchNot
  <1>9. CASE OnEndReturns \/ OnEndRaises \/ OnEndCancelled
    BY <1>9 DEF OnEndReturns, PopHook, MaySwallow, OnEndRaises, OnEndCancelled,
       Deliver
  <1>10. CASE OnEndInterrupted
    BY <1>10 DEF OnEndInterrupted, PopHook, MaySwallow, RaiseFromEnd, TInv,
       TypeOK, RunOK
  <1>11. CASE EndCancelled
    BY <1>11 DEF EndCancelled, RaiseFromEnd, TInv, TypeOK, RunOK
  <1>12. CASE EndedMid \/ Ended
    BY <1>12 DEF EndedMid, Ended, AfterEnd, ConnectUnary
  <1>13. CASE ScopeExit
    BY <1>13 DEF ScopeExit, TimedOut, TimeoutError, AfterScope
  <1>14. CASE Encode \/ UnaryEncode
    BY <1>14 DEF Encode, UnaryEncode
  <1>15. CASE Send
    BY <1>15 DEF Send, NoCancel, AfterSend, GeneratorAfter, SendPcs
  <1>16. CASE StreamSendStops \/ UnarySendStops \/ StatusSendStops
    BY <1>16 DEF StreamSendStops, SendFails, SendCancelled, NoCancel, Deliver,
       UnarySendStops, SendPcs, StatusSendStops, AfterFailedStatus
  <1>17. CASE Respond \/ Finish
    BY <1>17 DEF Respond, CannotReplace, Finish, Outcome, ClosedStream
  <1>18. CASE Tick \/ ClientLeaves \/ ServerCancels \/ TimerFires \/
     WatchStarts \/ WatchSeesDisconnect \/ WatchFails
    BY <1>18 DEF Tick, ClientLeaves, ServerCancels, TimerFires, WatchStarts,
       WatchMayReceive, WatchSeesDisconnect, TakeDisconnect, Reschedule,
       MayReschedule, WatchFails
  <1>19. CASE UNCHANGED vars
    BY <1>19 DEF vars
  <1> QED
    BY <1>1, <1>2, <1>3, <1>4, <1>5, <1>6, <1>7, <1>8, <1>9, <1>10, <1>11,
       <1>12, <1>13, <1>14, <1>15, <1>16, <1>17, <1>18, <1>19 DEF Next,
       Progress, Unforced, Terminated

\* Nothing is open when the request starts.
LEMMA OpenInit == Init => OpenInv
  BY DEF Init, OpenInv

\* However a request ends, the handler's generator and the request's stream are
\* closed and the watch's task is over.
THEOREM NothingOpen == Spec => []NothingLeftOpen
  <1>1. Spec => []OpenInv
    BY OpenInit, OpenStep, TypeInvariant, PTL DEF Spec
  <1>2. OpenInv => NothingLeftOpen
    BY DEF OpenInv, NothingLeftOpen
  <1> QED BY <1>1, <1>2, PTL

-----------------------------------------------------------------------------
(* Timeouts *)

\* What the code of an error says of the clock and the client.
Honest(e) ==
    /\ e = "deadline" => deadline # NoTime /\ now >= deadline
    /\ e = "gone" => clientGone /\ (deadline = NoTime \/ goneAt < deadline)
\* The scope's deadline is the request's until the watch, having seen the client
\* leave, moves it to that moment; the scope only expires past it.
TimeInv ==
    /\ disconnected => clientGone
    /\ clientGone => goneAt \in Nat /\ goneAt <= now
    /\ when \notin {NoTime, deadline} => disconnected /\ goneAt <= when
    /\ pc = "route" => scope = "entered"
    /\ scope = "expiring" => when # NoTime /\ when <= now
    /\ Honest(error) /\ Honest(runErr) /\ Honest(exc)

\* Every step keeps the errors honest.
LEMMA TimeStep == TInv /\ TimeInv /\ [Next]_vars => TimeInv'
  <1> SUFFICES ASSUME TInv, TimeInv, [Next]_vars PROVE TimeInv'
    OBVIOUS
  <1> USE TimeAssumption DEF TInv, TypeOK, RequestOK, WorldOK, TimerOK,
     TimeInv, Honest, NoError, HandlerErrors, BaseErrors, still, io, ending,
     request, world, receiver, timer, cancellation, run, history, sender,
     generators, frame
  <1>1. CASE OnStartRaises
    BY <1>1 DEF OnStartRaises, MaySwallow, Deliver, Interrupted
  <1>2. CASE RouteFails
    BY <1>2 DEF RouteFails
  <1>3. CASE Route
    BY <1>3 DEF Route, AfterStart, ScopeDeadline
  <1>4. CASE OnStartReturns
    BY <1>4 DEF OnStartReturns, MaySwallow, AfterStart
  <1>5. CASE BeginStream \/ BeginFails
    BY <1>5 DEF BeginStream, StartWatch, BeginFails
  <1>6. CASE BeginUnary
    BY <1>6 DEF BeginUnary, StartWatch
  <1>7. CASE ReadCancelled \/ ReadFails \/ ReadMore \/ ReadLast
    BY <1>7 DEF ReadCancelled, Deliver, AfterReadError, ReadFails, NoCancel,
       TakeChunk, ReadMore, ReadLast
  <1>8. CASE ReadDisconnect
    BY <1>8 DEF ReadDisconnect, NoCancel, TakeDisconnect, AfterReadError
  <1>9. CASE HandlerCalls \/ HandlerGetsChunk \/ HandlerGetsDisconnect
    BY <1>9 DEF HandlerCalls, NoCancel, HandlerGetsChunk, TakeChunk,
       HandlerGetsDisconnect, TakeDisconnect
  <1>10. CASE HandlerReturns \/ HandlerRaises \/ HandlerCancelled
    BY <1>10 DEF HandlerReturns, HandlerRuns, MaySwallow, HandlerRaises,
       HandlerStops, Interrupted, HandlerCancelled, Deliver
  <1>11. CASE GeneratorEnds \/ GeneratorYields \/ CloseGenerator
    BY <1>11 DEF GeneratorEnds, HandlerRuns, MaySwallow, GeneratorYields,
       AfterYield, CloseGenerator, NoCancel, Deliver
  <1>12. CASE LeaveWatch \/ WatchLeft \/ Catch \/ CatchNot
    BY <1>12 DEF LeaveWatch, WatchLeft, NoCancel, Deliver, Catch, CatchNot
  <1>13. CASE OnEndReturns \/ OnEndRaises \/ OnEndCancelled
    BY <1>13 DEF OnEndReturns, PopHook, MaySwallow, OnEndRaises,
       OnEndCancelled, Deliver
  <1>14. CASE OnEndInterrupted
    BY <1>14 DEF OnEndInterrupted, PopHook, MaySwallow, RaiseFromEnd, RunOK
  <1>15. CASE EndCancelled
    BY <1>15 DEF EndCancelled, RaiseFromEnd, RunOK
  <1>16. CASE EndedMid \/ Ended
    BY <1>16 DEF EndedMid, Ended, AfterEnd
  <1>17. CASE ScopeExit
    BY <1>17 DEF ScopeExit, TimedOut, TimeoutError, AfterScope, InFlight
  <1>18. CASE Encode \/ UnaryEncode
    BY <1>18 DEF Encode, UnaryEncode
  <1>19. CASE Send
    BY <1>19 DEF Send, NoCancel, AfterSend, SendPcs
  <1>20. CASE StreamSendStops \/ UnarySendStops \/ StatusSendStops
    BY <1>20 DEF StreamSendStops, SendFails, SendCancelled, NoCancel, Deliver,
       UnarySendStops, StatusSendStops
  <1>21. CASE Respond
    BY <1>21 DEF Respond
  <1>22. CASE Finish
    BY <1>22 DEF Finish
  <1>23. CASE Tick \/ ClientLeaves \/ ServerCancels \/ WatchStarts \/
     WatchFails
    BY <1>23 DEF Tick, ClientLeaves, ServerCancels, WatchStarts, WatchFails
  <1>24. CASE TimerFires
    BY <1>24 DEF TimerFires, Suspended, AwaitPcs, SendPcs
  <1>25. CASE WatchSeesDisconnect
    BY <1>25 DEF WatchSeesDisconnect, TakeDisconnect, Reschedule, MayReschedule
  <1>26. CASE UNCHANGED vars
    BY <1>26 DEF vars
  <1> QED
    BY <1>1, <1>2, <1>3, <1>4, <1>5, <1>6, <1>7, <1>8, <1>9, <1>10, <1>11,
       <1>12, <1>13, <1>14, <1>15, <1>16, <1>17, <1>18, <1>19, <1>20, <1>21,
       <1>22, <1>23, <1>24, <1>25, <1>26 DEF Next, Progress, Unforced,
       Terminated

\* The request starts with its client there and no error.
LEMMA TimeInit == Init => TimeInv
  BY DEF Init, TimeInv, Honest, NoError

\* DEADLINE_EXCEEDED is only said past the request's deadline, CANCELED for a
\* disconnect only if the client left before it, whichever timer fired first.
THEOREM TimeoutIsHonest == Spec => []HonestTimeout
  <1>1. Spec => []TimeInv
    BY TimeInit, TimeStep, TypeInvariant, PTL DEF Spec
  <1>2. TimeInv => HonestTimeout
    BY DEF TimeInv, Honest, HonestTimeout
  <1> QED BY <1>1, <1>2, PTL

-----------------------------------------------------------------------------
(* The watch *)

\* Past the scope only the hooks are still told and the status written, and the
\* watch, which OpenInv keeps before that, has not raised.
ScopeInv ==
    /\ watch # "raised"
    /\ scope \in {"expired", "exited"} =>
           \/ pc \in {"respond", "end_headers", "end_body", "end_trailers",
                      "err_start", "err_body", "finish", "done"}
           \/ pc = "end" /\ endSite = "out"

\* Every step leaves the scope behind for good, and the watch before it.
LEMMA ScopeStep == TInv /\ OpenInv /\ ScopeInv /\ [Next]_vars => ScopeInv'
  <1> SUFFICES ASSUME TInv, OpenInv, ScopeInv, [Next]_vars PROVE ScopeInv'
    OBVIOUS
  <1> USE DEF ScopeInv, still, io, ending, request, world, receiver, timer,
     cancellation, run, history, sender, generators, frame
  <1>1. CASE RouteFails \/ Route \/ OnStartReturns \/ OnStartRaises \/
     BeginUnary \/ BeginStream \/ BeginFails
    BY <1>1 DEF RouteFails, Route, AfterStart, OnStartReturns, OnStartRaises,
       MaySwallow, Deliver, Interrupted, BeginUnary, StartWatch, BeginStream, BeginFails
  <1>2. CASE ReadDisconnect \/ ReadCancelled \/ ReadFails \/ ReadMore \/
     ReadLast \/ HandlerCalls \/ HandlerGetsChunk \/ HandlerGetsDisconnect
    BY <1>2 DEF ReadDisconnect, TakeDisconnect, ReadCancelled, Deliver, ReadFails,
       TakeChunk, ReadMore, ReadLast, HandlerCalls, HandlerGetsChunk,
       HandlerGetsDisconnect
  <1>3. CASE HandlerReturns \/ HandlerRaises \/ HandlerCancelled \/
     GeneratorEnds \/ GeneratorYields \/ CloseGenerator
    BY <1>3 DEF HandlerReturns, HandlerRuns, MaySwallow, HandlerRaises,
       HandlerStops, Interrupted, HandlerCancelled, Deliver, GeneratorEnds,
       GeneratorYields, CloseGenerator
  <1>4. CASE LeaveWatch \/ WatchLeft \/ Catch \/ CatchNot
    BY <1>4 DEF LeaveWatch, WatchLeft, Deliver, Catch, CatchNot
  <1>5. CASE OnEndReturns \/ OnEndRaises \/ OnEndCancelled
    BY <1>5 DEF OnEndReturns, PopHook, MaySwallow, OnEndRaises, OnEndCancelled,
       Deliver
  <1>6. CASE OnEndInterrupted
    BY <1>6 DEF OnEndInterrupted, PopHook, MaySwallow, RaiseFromEnd, TInv,
       TypeOK, RunOK
  <1>7. CASE EndCancelled
    BY <1>7 DEF EndCancelled, RaiseFromEnd, TInv, TypeOK, RunOK
  <1>8. CASE EndedMid \/ Ended
    BY <1>8 DEF EndedMid, Ended, AfterEnd
  <1>9. CASE ScopeExit
    BY <1>9 DEF ScopeExit, AfterScope
  <1>10. CASE Encode \/ UnaryEncode
    BY <1>10 DEF Encode, UnaryEncode
  <1>11. CASE Send
    BY <1>11 DEF Send, NoCancel, AfterSend, SendPcs
  <1>12. CASE StreamSendStops \/ UnarySendStops \/ StatusSendStops
    BY <1>12 DEF StreamSendStops, SendFails, SendCancelled, Deliver,
       UnarySendStops, StatusSendStops
  <1>13. CASE Respond \/ Finish
    BY <1>13 DEF Respond, Finish
  <1>14. CASE Tick \/ TimerFires \/ WatchStarts \/ ClientLeaves \/
     ServerCancels \/ WatchFails
    BY <1>14 DEF Tick, TimerFires, WatchStarts, ClientLeaves, ServerCancels,
       WatchFails
  <1>15. CASE WatchSeesDisconnect
    <2>1. scope \in {"entered", "expiring"}
      BY <1>15 DEF WatchSeesDisconnect, OpenInv, TInv, TypeOK, TimerOK
    <2> QED
      BY <1>15, <2>1 DEF WatchSeesDisconnect, Reschedule, MayReschedule
  <1>16. CASE UNCHANGED vars
    BY <1>16 DEF vars
  <1> QED
    BY <1>1, <1>2, <1>3, <1>4, <1>5, <1>6, <1>7, <1>8, <1>9, <1>10, <1>11,
       <1>12, <1>13, <1>14, <1>15, <1>16 DEF Next, Progress, Unforced,
       Terminated

\* The scope is entered when the request starts.
LEMMA ScopeInit == Init => ScopeInv
  BY DEF Init, ScopeInv

\* watch_for_disconnect never reschedules a scope that asyncio would refuse: it
\* looks at one that expires itself, and is over before the scope is left.
THEOREM RescheduleCorrect == Spec => []NoLateReschedule
  <1>1. Spec => []OpenInv
    BY OpenInit, OpenStep, TypeInvariant, PTL DEF Spec
  <1>2. Spec => []ScopeInv
    BY <1>1, ScopeInit, ScopeStep, TypeInvariant, PTL DEF Spec
  <1>3. ScopeInv => NoLateReschedule
    BY DEF ScopeInv, NoLateReschedule
  <1> QED BY <1>2, <1>3, PTL

\* The watch takes nothing from the body's reader and reschedules in time.
THEOREM WatchIsCorrect == Spec => []WatchCorrect
  <1>1. OneReceiver /\ NoLateReschedule => WatchCorrect
    BY DEF WatchCorrect
  <1> QED BY <1>1, ReceiverCorrect, RescheduleCorrect, PTL

-----------------------------------------------------------------------------
(* The messages on the wire *)

MessageTypes == StartTypes \cup {"chunk", "last", "trailers"}
HasStart == Has("start")
HasStartTrailers == Has("start_trailers")
HasLast == Has("last")
HasTrailers == Has("trailers")
WireHas == <<HasStart, HasStartTrailers, HasLast, HasTrailers, Complete>>

\* Complete in terms of the single messages, before and after a step.
LEMMA CompleteMessages ==
    /\ Complete <=> IF HasStartTrailers THEN HasTrailers ELSE HasLast
    /\ Complete' <=> IF HasStartTrailers' THEN HasTrailers' ELSE HasLast'
  BY DEF Complete, LastMessage, HasStartTrailers, HasTrailers, HasLast

\* Without a new message nothing changes on the wire.
LEMMA WireKept ==
    wire' = wire => /\ HasStart' <=> HasStart
                    /\ HasStartTrailers' <=> HasStartTrailers
                    /\ HasLast' <=> HasLast
                    /\ HasTrailers' <=> HasTrailers
                    /\ Complete' <=> Complete
  BY DEF HasStart, HasStartTrailers, HasLast, HasTrailers, Complete, LastMessage, Has

\* Nothing was sent on an empty wire.
LEMMA WireEmpty ==
    wire = <<>> => ~HasStart /\ ~HasStartTrailers /\ ~HasLast /\ ~HasTrailers
  BY DEF HasStart, HasStartTrailers, HasLast, HasTrailers, Has

\* A message that is accepted joins those that are there.
LEMMA HasAppended ==
    ASSUME NEW T, wire \in Seq(T), NEW m \in T, wire' = Append(wire, m), NEW t
    PROVE  Has(t)' <=> Has(t) \/ t = m
  <1>1. PICK n \in Nat : Len(wire) = n /\ DOMAIN wire = 1..n
    OBVIOUS
  <1>2. /\ DOMAIN wire' = 1..(n + 1)
        /\ \A i \in 1..(n + 1) : wire'[i] = IF i = n + 1 THEN m ELSE wire[i]
    BY <1>1
  <1>3. (\E i \in DOMAIN wire' : wire'[i] = t) <=> (\E i \in 1..(n + 1) : wire'[i] = t)
    BY <1>2
  <1>4. (\E i \in 1..(n + 1) : wire'[i] = t) <=> (\E i \in 1..n : wire[i] = t) \/ t = m
    BY <1>2
  <1> QED BY <1>1, <1>3, <1>4 DEF Has

StartPcs == {"unary_start", "headers", "end_headers", "err_start"}
LastPcs == {"unary_body", "end_body", "err_body"}
\* What the app server accepts, where, and what it changes.
Grown ==
    /\ pc \in StartPcs =>
          wire = <<>> /\ ~HasStart /\ ~HasStartTrailers /\ ~HasLast /\ ~HasTrailers
    /\ pc \in LastPcs \cup {"message"} => wire # <<>> /\ ~HasLast
    /\ pc = "end_trailers" => HasStartTrailers /\ HasLast /\ ~HasTrailers
    /\ wire' # <<>>
    /\ HasStart' <=> \/ HasStart \/ pc = "unary_start"
                     \/ pc \in {"headers", "end_headers"} /\ ~trailers
    /\ HasStartTrailers' <=>
          HasStartTrailers \/ (pc \in {"headers", "end_headers"} /\ trailers)
    /\ HasLast' <=> HasLast \/ pc \in LastPcs
    /\ HasTrailers' <=> HasTrailers \/ pc = "end_trailers"
    /\ status' = IF \/ pc \in {"unary_body", "end_trailers", "err_body"}
                    \/ pc = "end_body" /\ ~HasStartTrailers
                 THEN error ELSE status

\* Accepting the message of an await is Grown.
LEMMA WireGrown ==
    ASSUME SenderOK, pc \in SendPcs, Accept(MessageType(pc), StatusAfter(pc))
    PROVE  Grown
  <1> DEFINE m == MessageType(pc)
  <1>1. m \in MessageTypes
    BY DEF MessageType, SendPcs, StartTypes, MessageTypes
  <1>2. wire \in Seq(MessageTypes) /\ wire' = Append(wire, m)
    BY DEF SenderOK, MessageTypes, Accept
  <1>3. \A t \in MessageTypes : Has(t)' <=> Has(t) \/ t = m
    BY <1>1, <1>2, HasAppended
  <1>4. wire' # <<>>
    BY <1>1, <1>2, AppendProperties
  <1>5. /\ HasStart' <=> HasStart \/ m = "start"
        /\ HasStartTrailers' <=> HasStartTrailers \/ m = "start_trailers"
        /\ HasLast' <=> HasLast \/ m = "last"
        /\ HasTrailers' <=> HasTrailers \/ m = "trailers"
    BY <1>1, <1>2, HasAppended DEF MessageTypes, StartTypes, HasStart, HasStartTrailers,
       HasLast, HasTrailers
  <1>6. /\ pc \in StartPcs => wire = <<>>
        /\ pc \in LastPcs \cup {"message"} => wire # <<>> /\ ~HasLast
        /\ pc = "end_trailers" => HasStartTrailers /\ HasLast /\ ~HasTrailers
    <2>1. /\ m \in StartTypes => wire = <<>>
          /\ m \in {"chunk", "last"} => wire # <<>> /\ ~HasLast
          /\ m = "trailers" => LastMessage = "trailers" /\ HasLast /\ ~Complete
      BY DEF Accept, Legal, StartTypes, HeadersSent, HasLast
    <2>2. LastMessage = "trailers" => HasStartTrailers
      BY DEF LastMessage, HasStartTrailers
    <2>3. HasStartTrailers /\ ~Complete => ~HasTrailers
      BY CompleteMessages
    <2> QED BY <2>1, <2>2, <2>3 DEF MessageType, StartPcs, LastPcs, StartTypes
  <1>7. status' = IF \/ pc \in {"unary_body", "end_trailers", "err_body"}
                     \/ pc = "end_body" /\ ~HasStartTrailers
                  THEN error ELSE status
    BY DEF Accept, StatusAfter, HasStartTrailers
  <1> QED BY <1>4, <1>5, <1>6, <1>7, WireEmpty DEF Grown, MessageType, SendPcs, LastPcs

-----------------------------------------------------------------------------
(* A coroutine that returns has answered *)

\* SAFE in A1

PastScope == {"respond", "end_headers", "end_body", "end_trailers", "err_start",
              "err_body"}
\* The request can no longer succeed.
Troubled ==
    \/ pc \in {"close", "unwatch", "unwatching", "caught"} /\ exc # NoError
    \/ pc = "scope_exit" /\ (exc # NoError \/ error # NoError)
    \/ pc = "end" /\ runErr # NoError
    \/ pc \in PastScope \cup {"finish", "done"} /\ error # NoError
    \/ pc \in {"finish", "done"} /\ leaving # NoError
LeavesScope ==
    \/ pc \in {"scope_exit", "respond"}
    \/ pc = "end" /\ endSite = "out"

\* Trailers and an error's status have a response of their own each.
TrailersStart ==
    /\ trailers => Streams
    /\ HasStartTrailers => trailers
    /\ pc = "err_body" => ~HasStartTrailers
\* A unary response is written in the scope, and only when nothing went wrong.
UnaryAnswers ==
    /\ pc \in {"unary_encode", "unary_start", "unary_body"} => error = NoError /\ ConnectUnary
    /\ LeavesScope /\ ~Troubled /\ requestStream = "none" => Complete /\ status = NoError
\* A stream has its request stream unless routing it failed.
StreamRouted ==
    Streams /\ requestStream = "none" =>
        \/ pc \in {"route", "err_start", "err_body", "finish", "done"}
        \/ LeavesScope /\ Troubled
\* The last message is sent with the error, and without one it is sent.
Answered ==
    /\ responded => pc \in {"finish", "done"} /\ Complete /\ status = error
    /\ pc = "finish" /\ leaving = NoError /\ error = NoError => responded
    /\ pc # "done" => result = NoError
    /\ ReturnMeansComplete
FailureTroubles == sFailed => Troubled
AnswerInv ==
    /\ TrailersStart /\ UnaryAnswers /\ StreamRouted /\ Answered
    /\ FailureTroubles

\* Every step keeps track of the answer.
LEMMA AnswerStep == TInv /\ AnswerInv /\ SilentInv /\ [Next]_vars => AnswerInv'
  <1> SUFFICES ASSUME TInv, AnswerInv, SilentInv, [Next]_vars PROVE AnswerInv'
    OBVIOUS
  <1> USE WireKept, CompleteMessages DEF AnswerInv, FailureTroubles,
     TrailersStart, UnaryAnswers, StreamRouted, Answered, ReturnMeansComplete,
     Troubled, LeavesScope, PastScope, TInv, InFlight, Raising, TypeOK,
     SilentInv, SilentAfterFailure, Streams, ConnectUnary, Generator,
     ReadsStream, NoError, BaseErrors, HandlerErrors, still, io, ending,
     request, world, receiver, timer, cancellation, run, history, sender,
     generators, frame
  <1>1. CASE OnStartRaises
    BY <1>1 DEF OnStartRaises, MaySwallow, Deliver, Interrupted
  <1>2. CASE RouteFails
    <2> USE <1>2 DEF RouteFails
    <2>1. TrailersStart'
      OBVIOUS
    <2>2. UnaryAnswers'
      OBVIOUS
    <2>3. StreamRouted'
      OBVIOUS
    <2>4. Answered'
      OBVIOUS
    <2>5. FailureTroubles'
      OBVIOUS
    <2> QED BY <2>1, <2>2, <2>3, <2>4, <2>5
  <1>3. CASE Route
    <2> USE <1>3 DEF Route, AfterStart, ScopeDeadline
    <2>1. TrailersStart'
      OBVIOUS
    <2>2. UnaryAnswers'
      OBVIOUS
    <2>3. StreamRouted'
      OBVIOUS
    <2>4. Answered'
      OBVIOUS
    <2>5. FailureTroubles'
      OBVIOUS
    <2> QED BY <2>1, <2>2, <2>3, <2>4, <2>5
  <1>4. CASE OnStartReturns
    BY <1>4 DEF OnStartReturns, MaySwallow, AfterStart
  <1>5. CASE BeginUnary \/ BeginStream \/ BeginFails
    BY <1>5 DEF BeginUnary, StartWatch, ConnectUnary, BeginStream, Streams,
       ReadsStream, BeginFails
  <1>6. CASE ReadDisconnect \/ ReadCancelled \/ ReadFails \/ ReadMore \/
     ReadLast
    BY <1>6 DEF ReadDisconnect, NoCancel, TakeDisconnect, AfterReadError,
       Streams, ReadCancelled, Deliver, ReadFails, TakeChunk, ReadMore,
       ReadLast
  <1>7. CASE HandlerCalls \/ HandlerGetsChunk \/ HandlerGetsDisconnect
    BY <1>7 DEF HandlerCalls, NoCancel, HandlerGetsChunk, TakeChunk,
       HandlerGetsDisconnect, TakeDisconnect
  <1>8. CASE HandlerReturns \/ HandlerRaises \/ HandlerCancelled
    BY <1>8 DEF HandlerReturns, HandlerRuns, MaySwallow, ConnectUnary,
       HandlerRaises, HandlerStops, Interrupted, HandlerCancelled, Deliver
  <1>9. CASE GeneratorEnds \/ GeneratorYields \/ CloseGenerator
    BY <1>9 DEF GeneratorEnds, HandlerRuns, MaySwallow, GeneratorYields,
       AfterYield, CloseGenerator, NoCancel, Deliver
  <1>10. CASE LeaveWatch \/ CatchNot
    BY <1>10 DEF LeaveWatch, CatchNot
  <1>11. CASE WatchLeft
    <2> USE <1>11 DEF WatchLeft, NoCancel, Deliver
    <2>1. TrailersStart'
      OBVIOUS
    <2>2. UnaryAnswers'
      OBVIOUS
    <2>3. StreamRouted'
      OBVIOUS
    <2>4. Answered'
      OBVIOUS
    <2>5. FailureTroubles'
      OBVIOUS
    <2> QED BY <2>1, <2>2, <2>3, <2>4, <2>5
  <1>12. CASE Catch
    <2> USE <1>12 DEF Catch
    <2>1. TrailersStart'
      OBVIOUS
    <2>2. UnaryAnswers'
      OBVIOUS
    <2>3. StreamRouted'
      OBVIOUS
    <2>4. Answered'
      OBVIOUS
    <2>5. FailureTroubles'
      OBVIOUS
    <2> QED BY <2>1, <2>2, <2>3, <2>4, <2>5
  <1>13. CASE OnEndReturns \/ OnEndRaises \/ OnEndCancelled
    BY <1>13 DEF OnEndReturns, PopHook, MaySwallow, OnEndRaises,
       OnEndCancelled, Deliver, RunOK
  <1>14. CASE OnEndInterrupted
    BY <1>14 DEF OnEndInterrupted, PopHook, MaySwallow, RaiseFromEnd, RunOK
  <1>15. CASE EndCancelled
    BY <1>15 DEF EndCancelled, RaiseFromEnd, RunOK
  <1>16. CASE EndedMid
    <2> USE <1>16 DEF EndedMid
    <2>1. TrailersStart'
      OBVIOUS
    <2>2. UnaryAnswers'
      OBVIOUS
    <2>3. StreamRouted'
      OBVIOUS
    <2>4. Answered'
      OBVIOUS
    <2>5. FailureTroubles'
      OBVIOUS
    <2> QED BY <2>1, <2>2, <2>3, <2>4, <2>5
  <1>17. CASE Ended
    <2> USE <1>17 DEF Ended, AfterEnd, ConnectUnary, RunOK
    <2>1. TrailersStart'
      OBVIOUS
    <2>2. UnaryAnswers'
      OBVIOUS
    <2>3. StreamRouted'
      OBVIOUS
    <2>4. Answered'
      OBVIOUS
    <2>5. FailureTroubles'
      OBVIOUS
    <2> QED BY <2>1, <2>2, <2>3, <2>4, <2>5
  <1>18. CASE ScopeExit
    <2> USE <1>18 DEF ScopeExit, TimedOut, TimeoutError, AfterScope
    <2>1. TrailersStart'
      OBVIOUS
    <2>2. UnaryAnswers'
      OBVIOUS
    <2>3. StreamRouted'
      OBVIOUS
    <2>4. Answered'
      OBVIOUS
    <2>5. FailureTroubles'
      OBVIOUS
    <2> QED BY <2>1, <2>2, <2>3, <2>4, <2>5
  <1>19. CASE Encode
    BY <1>19 DEF Encode
  <1>20. CASE UnaryEncode
    <2> USE <1>20 DEF UnaryEncode
    <2>1. TrailersStart'
      OBVIOUS
    <2>2. UnaryAnswers'
      OBVIOUS
    <2>3. StreamRouted'
      OBVIOUS
    <2>4. Answered'
      OBVIOUS
    <2>5. FailureTroubles'
      OBVIOUS
    <2> QED BY <2>1, <2>2, <2>3, <2>4, <2>5
  <1>21. CASE Send
    <2>1. /\ Grown /\ pc \in SendPcs /\ pc' = AfterSend[pc]
          /\ responded' = (responded \/ pc' = "finish")
          /\ UNCHANGED <<sFailed, still, run, requestStream, exc, error, leaving, result>>
      BY <1>21, WireGrown DEF Send
    <2>2. ~responded /\ result = NoError /\ pc' # "done" /\ ~sFailed /\ exc = NoError
      BY <2>1 DEF SendPcs, AfterSend
    <2> USE DEF Grown, SendPcs, StartPcs, LastPcs, AfterSend
    <2>3. TrailersStart'
      BY <2>1
    <2>4. UnaryAnswers'
      BY <2>1
    <2>5. StreamRouted'
      BY <2>1
    <2>6. Answered'
      <3>1. pc' = "finish" => /\ pc \in {"end_body", "end_trailers", "err_body"}
                              /\ pc = "end_body" => ~trailers
        BY <2>1
      <3>2. pc' = "finish" => Complete' /\ status' = error'
        BY <2>1, <3>1
      <3> QED BY <2>1, <2>2, <3>2
    <2>7. FailureTroubles'
      BY <2>1, <2>2
    <2> QED BY <2>3, <2>4, <2>5, <2>6, <2>7
  <1>22. CASE StreamSendStops
    <2> USE <1>22, WireGrown DEF StreamSendStops, SendFails, SendCancelled,
       NoCancel, Deliver, SenderOK, Grown, StartPcs, LastPcs, SendPcs
    <2>1. TrailersStart'
      OBVIOUS
    <2>2. UnaryAnswers'
      OBVIOUS
    <2>3. StreamRouted'
      OBVIOUS
    <2>4. Answered'
      OBVIOUS
    <2>5. FailureTroubles'
      OBVIOUS
    <2> QED BY <2>1, <2>2, <2>3, <2>4, <2>5
  <1>23. CASE UnarySendStops
    <2> USE <1>23, WireGrown DEF UnarySendStops, SendFails, SendCancelled,
       NoCancel, Deliver, SenderOK, Grown, StartPcs, LastPcs, SendPcs
    <2>1. TrailersStart'
      OBVIOUS
    <2>2. UnaryAnswers'
      OBVIOUS
    <2>3. StreamRouted'
      OBVIOUS
    <2>4. Answered'
      OBVIOUS
    <2>5. FailureTroubles'
      OBVIOUS
    <2> QED BY <2>1, <2>2, <2>3, <2>4, <2>5
  <1>24. CASE StatusSendStops
    <2> USE <1>24, WireGrown DEF StatusSendStops, SendFails, SendCancelled,
       NoCancel, Deliver, AfterFailedStatus, SenderOK, Grown, StartPcs,
       LastPcs, SendPcs
    <2>1. TrailersStart'
      OBVIOUS
    <2>2. UnaryAnswers'
      OBVIOUS
    <2>3. StreamRouted'
      OBVIOUS
    <2>4. Answered'
      OBVIOUS
    <2>5. FailureTroubles'
      OBVIOUS
    <2> QED BY <2>1, <2>2, <2>3, <2>4, <2>5
  <1>25. CASE Respond
    <2> USE <1>25 DEF Respond, CannotReplace
    <2>1. TrailersStart'
      OBVIOUS
    <2>2. UnaryAnswers'
      OBVIOUS
    <2>3. StreamRouted'
      OBVIOUS
    <2>4. Answered'
      OBVIOUS
    <2>5. FailureTroubles'
      OBVIOUS
    <2> QED BY <2>1, <2>2, <2>3, <2>4, <2>5
  <1>26. CASE Finish
    <2> USE <1>26 DEF Finish, Outcome, ClosedStream, FrameOK, PlainErrors,
       StatusErrors
    <2>1. TrailersStart'
      OBVIOUS
    <2>2. UnaryAnswers'
      OBVIOUS
    <2>3. StreamRouted'
      OBVIOUS
    <2>4. Answered'
      OBVIOUS
    <2>5. FailureTroubles'
      OBVIOUS
    <2> QED BY <2>1, <2>2, <2>3, <2>4, <2>5
  <1>27. CASE Tick \/ ClientLeaves \/ ServerCancels \/ TimerFires \/
     WatchStarts \/ WatchSeesDisconnect \/ WatchFails
    BY <1>27 DEF Tick, ClientLeaves, ServerCancels, TimerFires, WatchStarts,
       WatchMayReceive, WatchSeesDisconnect, TakeDisconnect, Reschedule,
       MayReschedule, WatchFails
  <1>28. CASE UNCHANGED vars
    BY <1>28 DEF vars
  <1> QED
    BY <1>1, <1>2, <1>3, <1>4, <1>5, <1>6, <1>7, <1>8, <1>9, <1>10, <1>11,
       <1>12, <1>13, <1>14, <1>15, <1>16, <1>17, <1>18, <1>19, <1>20, <1>21,
       <1>22, <1>23, <1>24, <1>25, <1>26, <1>27, <1>28 DEF Next, Progress,
       Unforced, Terminated

\* The request starts without an answer.
LEMMA AnswerInit == Init => AnswerInv
  <1> SUFFICES ASSUME Init PROVE AnswerInv
    OBVIOUS
  <1> USE DEF Init, Troubled, LeavesScope, PastScope, NoError
  <1>1. TrailersStart
    <2>1. ~HasStartTrailers
      BY WireEmpty
    <2> QED BY <2>1 DEF TrailersStart
  <1>2. UnaryAnswers /\ StreamRouted /\ Answered /\ FailureTroubles
    BY DEF UnaryAnswers, StreamRouted, Answered, FailureTroubles, ReturnMeansComplete
  <1> QED BY <1>1, <1>2 DEF AnswerInv

\* It holds in every state.
LEMMA AnswerAlways == Spec => []AnswerInv
  BY AnswerInit, AnswerStep, SilentAlways, TypeInvariant, PTL DEF Spec

\* Without a sender's failure or an error a coroutine that returns has sent its
\* client a complete response with the error the request ended with.
THEOREM ReturnsComplete == Spec => []ReturnMeansComplete
  <1>1. AnswerInv => ReturnMeansComplete
    BY DEF AnswerInv, Answered
  <1> QED BY AnswerAlways, <1>1, PTL

\* What the client and the app server are told of the end of a request is true:
\* completeness, cancellation, and which of deadline and disconnect it was.
THEOREM EndsHonestly == Spec => []EndIsHonest
  BY ReturnsComplete, CancellationCorrect, TimeoutIsHonest, PTL DEF EndIsHonest

-----------------------------------------------------------------------------
(* The messages are sent in order *)

\* Nothing was sent yet: of a stream's handler only a generator's messages.
NothingYet ==
    \/ pc \in {"route", "on_start", "begin", "read", "unary_encode"} \cup StartPcs
    \/ pc \in {"handler", "handler_read"} /\ ~Generator
    \/ pc = "end" /\ endSite = "mid"
    \/ pc \in {"unwatch", "unwatching", "caught"} /\ ConnectUnary
    \/ pc = "end" /\ endSite = "in" /\ ConnectUnary
Started ==
    /\ sStarted <=> wire # <<>>
    /\ NothingYet => wire = <<>>
    /\ pc \in {"encode", "message", "end_trailers"} \cup LastPcs => wire # <<>>
\* The last message ends the stream, or a unary response in its scope.
Finished ==
    /\ HasLast => \/ pc \in {"end_trailers", "finish", "done"}
                  \/ ConnectUnary /\ LeavesScope
    /\ HasTrailers => pc \in {"finish", "done"}
    /\ pc = "end_trailers" => HasStartTrailers /\ HasLast
    /\ trailers /\ wire # <<>> =>
           HasStartTrailers \/ pc \in {"err_body", "finish", "done"}
OrderOnWire == Started /\ Finished

\* Every step keeps the order, if a cancelled send was not accepted.
LEMMA WireStep == ~LateAccept /\ TInv /\ OrderOnWire /\ AnswerInv /\ SilentInv
   /\ StreamSends /\ [Next]_vars => OrderOnWire'
  <1> SUFFICES ASSUME ~LateAccept, TInv, OrderOnWire, AnswerInv, SilentInv,
     StreamSends, [Next]_vars PROVE OrderOnWire'
    OBVIOUS
  <1> USE WireKept DEF OrderOnWire, Started, Finished, NothingYet, StartPcs,
     LastPcs, AnswerInv, TrailersStart, UnaryAnswers, LeavesScope, TInv,
     SilentInv, StreamSends, Streams, ConnectUnary, Generator, ReadsStream,
     NoError, still, io, ending, request, world, receiver, timer, cancellation,
     run, history, sender, generators, frame
  <1>1. CASE RouteFails \/ OnStartRaises
    BY <1>1 DEF RouteFails, OnStartRaises, MaySwallow, Deliver, Interrupted
  <1>2. CASE Route
    <2> USE <1>2 DEF Route, AfterStart, ScopeDeadline
    <2>1. Started'
      OBVIOUS
    <2>2. Finished'
      OBVIOUS
    <2> QED BY <2>1, <2>2
  <1>3. CASE OnStartReturns
    BY <1>3 DEF OnStartReturns, MaySwallow, AfterStart
  <1>4. CASE BeginUnary \/ BeginStream \/ BeginFails
    BY <1>4 DEF BeginUnary, StartWatch, ConnectUnary, BeginStream, Streams,
       ReadsStream, BeginFails
  <1>5. CASE ReadDisconnect \/ ReadCancelled \/ ReadFails \/ ReadMore \/
     ReadLast
    BY <1>5 DEF ReadDisconnect, NoCancel, TakeDisconnect, AfterReadError,
       Streams, ReadCancelled, Deliver, ReadFails, TakeChunk, ReadMore,
       ReadLast
  <1>6. CASE HandlerCalls \/ HandlerGetsChunk \/ HandlerGetsDisconnect
    BY <1>6 DEF HandlerCalls, NoCancel, HandlerGetsChunk, TakeChunk,
       HandlerGetsDisconnect, TakeDisconnect
  <1>7. CASE HandlerRaises \/ HandlerCancelled
    BY <1>7 DEF HandlerRaises, HandlerStops, HandlerRuns, MaySwallow,
       Interrupted, HandlerCancelled, Deliver
  <1>8. CASE HandlerReturns
    <2> USE <1>8 DEF HandlerReturns, HandlerRuns, MaySwallow, ConnectUnary
    <2>1. Started'
      OBVIOUS
    <2>2. Finished'
      OBVIOUS
    <2> QED BY <2>1, <2>2
  <1>9. CASE GeneratorEnds \/ GeneratorYields \/ CloseGenerator
    BY <1>9 DEF GeneratorEnds, HandlerRuns, MaySwallow, GeneratorYields,
       AfterYield, CloseGenerator, NoCancel, Deliver
  <1>10. CASE LeaveWatch \/ WatchLeft \/ Catch \/ CatchNot
    BY <1>10 DEF LeaveWatch, WatchLeft, NoCancel, Deliver, Catch, CatchNot
  <1>11. CASE OnEndReturns \/ OnEndRaises \/ OnEndCancelled
    BY <1>11 DEF OnEndReturns, PopHook, MaySwallow, OnEndRaises,
       OnEndCancelled, Deliver, TypeOK, RunOK
  <1>12. CASE OnEndInterrupted
    BY <1>12 DEF OnEndInterrupted, PopHook, MaySwallow, RaiseFromEnd, TypeOK,
       RunOK
  <1>13. CASE EndCancelled
    BY <1>13 DEF EndCancelled, RaiseFromEnd, TypeOK, RunOK
  <1>14. CASE EndedMid
    BY <1>14 DEF EndedMid, TypeOK, RunOK
  <1>15. CASE Ended
    <2> USE <1>15 DEF Ended, AfterEnd, ConnectUnary, TypeOK, RunOK
    <2>1. Started'
      OBVIOUS
    <2>2. Finished'
      OBVIOUS
    <2> QED BY <2>1, <2>2
  <1>16. CASE ScopeExit
    BY <1>16 DEF ScopeExit, TimedOut, AfterScope
  <1>17. CASE Encode \/ UnaryEncode
    BY <1>17 DEF Encode, UnaryEncode
  <1>18. CASE Send
    <2>0. pc \in SendPcs /\ Grown
      BY <1>18, WireGrown DEF Send, TypeOK
    <2>1. /\ Grown /\ pc \in SendPcs /\ pc' = AfterSend[pc]
          /\ sStarted' <=> sStarted \/ pc \in StartPcs
          /\ UNCHANGED <<request, requestStream, exc, error, endSite>>
      <3>1. MessageType(pc) \in StartTypes <=> pc \in StartPcs
        BY <2>0 DEF MessageType, StartTypes, SendPcs
      <3> QED BY <1>18, <2>0, <3>1 DEF Send
    <2> USE DEF Grown, SendPcs, StartPcs, LastPcs, AfterSend
    <2>2. Started'
      BY <2>1
    <2>3. (HasLast => \/ pc \in {"end_trailers", "finish", "done"}
                      \/ ConnectUnary /\ LeavesScope)'
      <3>1. HasLast' => pc \in {"end_trailers"} \cup LastPcs
        BY <2>1
      <3>2. pc = "unary_body" => ConnectUnary /\ pc' = "scope_exit"
        BY <2>1
      <3> QED BY <2>1, <3>1, <3>2
    <2>4. Finished'
      BY <2>1, <2>3
    <2> QED BY <2>2, <2>4
  <1>19. CASE StreamSendStops
    <2> USE <1>19, WireGrown DEF StreamSendStops, SendFails, SendCancelled,
       NoCancel, Deliver, SenderOK, Grown, StartPcs, LastPcs, SendPcs
    <2>1. Started'
      OBVIOUS
    <2>2. Finished'
      OBVIOUS
    <2> QED BY <2>1, <2>2
  <1>20. CASE UnarySendStops
    <2> USE <1>20, WireGrown DEF UnarySendStops, SendFails, SendCancelled,
       NoCancel, Deliver, SenderOK, Grown, StartPcs, LastPcs, SendPcs
    <2>1. Started'
      OBVIOUS
    <2>2. Finished'
      OBVIOUS
    <2> QED BY <2>1, <2>2
  <1>21. CASE StatusSendStops
    <2> USE <1>21, WireGrown DEF StatusSendStops, SendFails, SendCancelled,
       NoCancel, Deliver, AfterFailedStatus, SenderOK, Grown, StartPcs,
       LastPcs, SendPcs
    <2>1. Started'
      OBVIOUS
    <2>2. Finished'
      OBVIOUS
    <2> QED BY <2>1, <2>2
  <1>22. CASE Finish
    BY <1>22 DEF Finish, Outcome, ClosedStream
  <1>23. CASE Respond
    <2> USE <1>23, WireEmpty DEF Respond, CannotReplace, InFlight, Raising
    <2>1. Started'
      OBVIOUS
    <2>2. Finished'
      OBVIOUS
    <2> QED BY <2>1, <2>2
  <1>24. CASE Tick \/ ClientLeaves \/ ServerCancels \/ TimerFires \/
     WatchStarts \/ WatchSeesDisconnect \/ WatchFails
    BY <1>24 DEF Tick, ClientLeaves, ServerCancels, TimerFires, WatchStarts,
       WatchMayReceive, WatchSeesDisconnect, TakeDisconnect, Reschedule,
       MayReschedule, WatchFails
  <1>25. CASE UNCHANGED vars
    BY <1>25 DEF vars
  <1> QED
    BY <1>1, <1>2, <1>3, <1>4, <1>5, <1>6, <1>7, <1>8, <1>9, <1>10, <1>11,
       <1>12, <1>13, <1>14, <1>15, <1>16, <1>17, <1>18, <1>19, <1>20, <1>21,
       <1>22, <1>23, <1>24, <1>25 DEF Next, Progress, Unforced, Terminated

\* The request starts without a message.
LEMMA WireInit == Init => OrderOnWire
  <1> SUFFICES ASSUME Init PROVE OrderOnWire
    OBVIOUS
  <1>1. ~HasStart /\ ~HasStartTrailers /\ ~HasLast /\ ~HasTrailers
    BY WireEmpty DEF Init
  <1> QED BY <1>1 DEF Init, OrderOnWire, Started, Finished, LastPcs

\* What is sent at an await is what the app server accepts there.
LEMMA OrderIsLegal == OrderOnWire /\ TrailersStart => SendsInOrder
  <1> SUFFICES ASSUME OrderOnWire, TrailersStart, pc \in SendPcs
               PROVE  Legal(MessageType(pc))
    BY DEF SendsInOrder
  <1> USE DEF OrderOnWire, Started, Finished, SendPcs
  <1>1. CASE pc \in StartPcs
    <2>1. MessageType(pc) \in StartTypes /\ wire = <<>>
      BY <1>1 DEF StartPcs, MessageType, StartTypes, NothingYet
    <2> QED BY <2>1 DEF Legal, StartTypes
  <1>2. CASE pc \in LastPcs \cup {"message"}
    <2>1. MessageType(pc) \in {"chunk", "last"} /\ wire # <<>> /\ ~Has("last")
      BY <1>2 DEF LastPcs, MessageType, LeavesScope, HasLast
    <2> QED BY <2>1 DEF Legal, StartTypes, HeadersSent
  <1>3. CASE pc = "end_trailers"
    <2>1. MessageType(pc) = "trailers" /\ Has("last") /\ LastMessage = "trailers"
      BY <1>3 DEF MessageType, HasLast, HasStartTrailers, LastMessage
    <2>2. ~Complete
      BY <1>3, CompleteMessages
    <2> QED BY <2>1, <2>2 DEF Legal, StartTypes
  <1> QED BY <1>1, <1>2, <1>3 DEF StartPcs, LastPcs

\* Unless an app server accepts a message and still reports it as not sent, the
\* application never sends a message out of order, and none after a failure.
THEOREM WireInOrder == ASSUME ~LateAccept PROVE Spec => []WireOrder
  <1>1. Spec => []OrderOnWire
    BY WireInit, WireStep, AnswerAlways, SilentAlways, TypeInvariant, PTL DEF Spec
  <1>2. Spec => []SendsInOrder
    BY <1>1, OrderIsLegal, AnswerAlways, PTL DEF AnswerInv
  <1> QED BY <1>2, SilentCorrect, PTL DEF WireOrder

-----------------------------------------------------------------------------
(* What the hooks were told *)

\* The outcome the hooks of end() in and past the scope are told.
Told(e) ==
    \/ pc = "end" /\ endSite # "mid" /\ e = runErr
    \/ pc = "scope_exit" /\ exc = NoError /\ e = error
    \/ pc \in PastScope \cup {"unary_encode", "unary_start", "unary_body", "finish", "done"}
       /\ e = error
\* A hook of a single response may have been told of its success before.
SeenTold ==
    ~hookTrouble => \A i \in 1..NHooks :
        seen[i] # <<>> => (~Generator /\ seen[i][1] = NoError) \/ Told(seen[i][1])
SawSuccess ==
    ~hookTrouble => \A i \in 1..NHooks : seen[i] # <<>> => seen[i][1] = NoError
\* A run that a hook failed or that was cancelled in a hook has hook trouble.
TroubleNoted ==
    pc = "end" => /\ runCancel => hookTrouble
                  /\ endSite = "mid" => ~Generator /\ (runErr = NoError \/ hookTrouble)
\* The last message was preceded by a start that the sender knows of.
LastSent ==
    /\ pc \in {"encode", "message", "end_trailers"} \cup LastPcs => sStarted
    /\ HasLast => /\ sStarted
                  /\ \/ pc \in {"end_trailers", "finish", "done"}
                     \/ ConnectUnary /\ LeavesScope
    /\ HasTrailers => pc \in {"finish", "done"}
    /\ trailers /\ wire # <<>> =>
           HasStartTrailers \/ pc \in {"err_body", "finish", "done"}
\* A complete response has the final error, or was a unary success, which
\* all hooks have been told of.
OutcomeTold ==
    Complete => \/ pc \in {"finish", "done"} /\ status = error
                \/ ConnectUnary /\ status = NoError /\ started = <<>> /\ SawSuccess
HookInv == SeenTold /\ TroubleNoted /\ LastSent /\ OutcomeTold

\* The hook that is popped is told the error of the run, the others keep theirs.
LEMMA PopTold ==
    ASSUME TInv, OrderInv, PopHook
    PROVE  \A i \in 1..NHooks : seen'[i] # <<>> =>
               \/ seen[i] # <<>> /\ seen'[i] = seen[i]
               \/ seen'[i][1] = runErr
  <1>1. Top = Len(started) /\ Top \in 1..NHooks
    BY PopTyped DEF TInv, TypeOK, OrderInv, InOrder, Top
  <1>2. \A i \in 1..NHooks :
           seen'[i] = IF i = Top THEN Append(seen[Top], runErr) ELSE seen[i]
    BY <1>1 DEF PopHook, TInv, TypeOK, HistoryOK
  <1>3. seen[Top] = <<>>
    BY <1>1 DEF OrderInv, SeenOnce
  <1>4. Append(seen[Top], runErr)[1] = runErr
    BY <1>3
  <1> QED BY <1>2, <1>4

\* Every step keeps track of what the hooks were told.
LEMMA HookStep == TInv /\ HookInv /\ OrderInv /\ Unwound /\ AnswerInv /\
   StreamSends /\ [Next]_vars => HookInv'
  <1> SUFFICES ASSUME TInv, HookInv, OrderInv, Unwound, AnswerInv, StreamSends,
     [Next]_vars PROVE HookInv'
    OBVIOUS
  <1> USE WireKept, CompleteMessages, WireEmpty DEF HookInv, SeenTold, Told,
     SawSuccess, TroubleNoted, LastSent, OutcomeTold, PastScope, LastPcs,
     AnswerInv, TrailersStart, UnaryAnswers, LeavesScope, TInv, InFlight,
     Raising, Unwound, StreamSends, Streams, ConnectUnary, Generator,
     ReadsStream, NoError, BaseErrors, still, io, ending, request, world,
     receiver, timer, cancellation, run, history, sender, generators, frame
  <1>1. CASE RouteFails
    BY <1>1 DEF RouteFails
  <1>2. CASE Route
    BY <1>2 DEF Route, AfterStart, ScopeDeadline
  <1>3. CASE OnStartRaises
    BY <1>3 DEF OnStartRaises, MaySwallow, Deliver, Interrupted
  <1>4. CASE OnStartReturns
    BY <1>4 DEF OnStartReturns, MaySwallow, AfterStart
  <1>5. CASE BeginUnary \/ BeginStream \/ BeginFails
    BY <1>5 DEF BeginUnary, StartWatch, ConnectUnary, BeginStream, Streams,
       ReadsStream, BeginFails
  <1>6. CASE ReadDisconnect \/ ReadCancelled \/ ReadFails \/ ReadMore \/
     ReadLast
    BY <1>6 DEF ReadDisconnect, NoCancel, TakeDisconnect, AfterReadError,
       Streams, ReadCancelled, Deliver, ReadFails, TakeChunk, ReadMore,
       ReadLast
  <1>7. CASE HandlerCalls \/ HandlerGetsChunk \/ HandlerGetsDisconnect
    BY <1>7 DEF HandlerCalls, NoCancel, HandlerGetsChunk, TakeChunk,
       HandlerGetsDisconnect, TakeDisconnect
  <1>8. CASE HandlerCancelled
    BY <1>8 DEF HandlerCancelled, HandlerStops, HandlerRuns, Deliver
  <1>9. CASE HandlerReturns
    BY <1>9 DEF HandlerReturns, HandlerRuns, MaySwallow, ConnectUnary
  <1>10. CASE HandlerRaises
    BY <1>10 DEF HandlerRaises, Interrupted, HandlerStops, HandlerRuns, MaySwallow
  <1>11. CASE GeneratorEnds \/ GeneratorYields \/ CloseGenerator
    BY <1>11 DEF GeneratorEnds, HandlerRuns, MaySwallow, GeneratorYields,
       AfterYield, CloseGenerator, NoCancel, Deliver
  <1>12. CASE LeaveWatch \/ WatchLeft \/ Catch \/ CatchNot
    BY <1>12 DEF LeaveWatch, WatchLeft, NoCancel, Deliver, Catch, CatchNot
  <1>13. CASE OnEndReturns
    <2>1. pc = "end" /\ UNCHANGED <<wire, status, sStarted, request, endSite, error>>
      BY <1>13 DEF OnEndReturns, PopHook
    <2>2. SeenTold'
      BY <2>1, <1>13, PopTold DEF OnEndReturns, PopHook, Deliver, MaySwallow, RaiseFromEnd
    <2>3. ~Complete
      BY <2>1, <1>13, CompleteMessages DEF OnEndReturns, PopHook
    <2>4. (TroubleNoted /\ LastSent /\ OutcomeTold)'
      BY <2>1, <2>3, <1>13 DEF OnEndReturns, PopHook, RaiseFromEnd, TypeOK, RunOK, HistoryOK
    <2> QED BY <2>2, <2>4
  <1>14. CASE OnEndRaises
    <2>1. pc = "end" /\ UNCHANGED <<wire, status, sStarted, request, endSite, error>>
      BY <1>14 DEF OnEndRaises, PopHook
    <2>2. SeenTold'
      BY <2>1, <1>14, PopTold DEF OnEndRaises, PopHook, Deliver, MaySwallow, RaiseFromEnd
    <2>3. ~Complete
      BY <2>1, <1>14, CompleteMessages DEF OnEndRaises, PopHook
    <2>4. (TroubleNoted /\ LastSent /\ OutcomeTold)'
      BY <2>1, <2>3, <1>14 DEF OnEndRaises, PopHook, RaiseFromEnd, TypeOK, RunOK, HistoryOK
    <2> QED BY <2>2, <2>4
  <1>15. CASE OnEndCancelled
    <2>1. pc = "end" /\ UNCHANGED <<wire, status, sStarted, request, endSite, error>>
      BY <1>15 DEF OnEndCancelled, PopHook
    <2>2. SeenTold'
      BY <2>1, <1>15, PopTold DEF OnEndCancelled, PopHook, Deliver, MaySwallow, RaiseFromEnd
    <2>3. ~Complete
      BY <2>1, <1>15, CompleteMessages DEF OnEndCancelled, PopHook
    <2>4. (TroubleNoted /\ LastSent /\ OutcomeTold)'
      BY <2>1, <2>3, <1>15 DEF OnEndCancelled, PopHook, RaiseFromEnd, TypeOK, RunOK, HistoryOK
    <2> QED BY <2>2, <2>4
  <1>16. CASE OnEndInterrupted
    <2>1. pc = "end" /\ UNCHANGED <<wire, status, sStarted, request, endSite, error>>
      BY <1>16 DEF OnEndInterrupted, PopHook
    <2>2. SeenTold'
      BY <2>1, <1>16, PopTold DEF OnEndInterrupted, PopHook, Deliver, MaySwallow, RaiseFromEnd
    <2>3. ~Complete
      BY <2>1, <1>16, CompleteMessages DEF OnEndInterrupted, PopHook
    <2>4. (TroubleNoted /\ LastSent /\ OutcomeTold)'
      BY <2>1, <2>3, <1>16 DEF OnEndInterrupted, PopHook, RaiseFromEnd, TypeOK, RunOK, HistoryOK
    <2> QED BY <2>2, <2>4
  <1>17. CASE EndCancelled
    BY <1>17 DEF EndCancelled, RaiseFromEnd, TypeOK, RunOK
  <1>18. CASE EndedMid
    BY <1>18 DEF EndedMid, TypeOK, RunOK
  <1>19. CASE Ended
    BY <1>19 DEF Ended, AfterEnd, ConnectUnary, TypeOK, RunOK
  <1>20. CASE ScopeExit
    BY <1>20 DEF ScopeExit, TimedOut, AfterScope
  <1>21. CASE Encode \/ UnaryEncode
    BY <1>21 DEF Encode, UnaryEncode
  <1>22. CASE Send
    <2>0. pc \in SendPcs /\ Grown
      BY <1>22, WireGrown DEF Send, TypeOK
    <2>1. /\ Grown /\ pc \in SendPcs /\ pc' = AfterSend[pc]
          /\ sStarted' <=> sStarted \/ pc \in StartPcs
          /\ UNCHANGED <<request, run, history, requestStream, exc, error>>
      <3>1. MessageType(pc) \in StartTypes <=> pc \in StartPcs
        BY <2>0 DEF MessageType, StartTypes, SendPcs, StartPcs
      <3> QED BY <1>22, <2>0, <3>1 DEF Send
    <2> USE DEF Grown, SendPcs, StartPcs, LastPcs, AfterSend
    <2>2. SeenTold'
      BY <2>1
    <2>3. TroubleNoted'
      BY <2>1
    <2>4. LastSent'
      BY <2>1
    <2>5. OutcomeTold'
      <3>1. CASE pc = "unary_body"
        BY <2>1, <3>1
      <3>2. CASE pc # "unary_body"
        BY <2>1, <3>2
      <3> QED BY <3>1, <3>2
    <2> QED BY <2>2, <2>3, <2>4, <2>5
  <1>23. CASE StreamSendStops
    <2>1. /\ pc \in SendPcs /\ pc \in {"headers", "message"} /\ pc' = "close"
          /\ Grown \/ UNCHANGED <<wire, status>>
          /\ UNCHANGED <<sStarted, request, run, history, requestStream>>
          /\ pc' = "finish" => UNCHANGED error
          /\ pc' = "scope_exit" => exc' # NoError \/ error = NoError
      BY <1>23, WireGrown DEF StreamSendStops, SendFails, SendCancelled, SendPcs, TypeOK
    <2> USE DEF Grown, SendPcs, StartPcs, LastPcs
    <2>2. SeenTold'
      BY <2>1
    <2>3. TroubleNoted'
      BY <2>1
    <2>4. LastSent'
      BY <2>1
    <2>5. OutcomeTold'
      <3>1. CASE Grown
        BY <2>1, <3>1
      <3>2. CASE UNCHANGED <<wire, status>>
        BY <2>1, <3>2
      <3> QED BY <2>1, <3>1, <3>2
    <2> QED BY <2>2, <2>3, <2>4, <2>5
  <1>24. CASE UnarySendStops
    <2>1. /\ pc \in SendPcs /\ pc \in {"unary_start", "unary_body"} /\ pc' = "scope_exit"
          /\ Grown \/ UNCHANGED <<wire, status>>
          /\ UNCHANGED <<sStarted, request, run, history, requestStream>>
          /\ pc' = "finish" => UNCHANGED error
          /\ pc' = "scope_exit" => exc' # NoError \/ error = NoError
      BY <1>24, WireGrown DEF UnarySendStops, SendFails, SendCancelled, SendPcs, TypeOK
    <2> USE DEF Grown, SendPcs, StartPcs, LastPcs
    <2>2. SeenTold'
      BY <2>1
    <2>3. TroubleNoted'
      BY <2>1
    <2>4. LastSent'
      BY <2>1
    <2>5. OutcomeTold'
      <3>1. CASE Grown
        BY <2>1, <3>1
      <3>2. CASE UNCHANGED <<wire, status>>
        BY <2>1, <3>2
      <3> QED BY <2>1, <3>1, <3>2
    <2> QED BY <2>2, <2>3, <2>4, <2>5
  <1>25. CASE StatusSendStops
    <2>1. /\ pc \in SendPcs /\ pc \in PastScope /\ pc' = "finish"
          /\ Grown \/ UNCHANGED <<wire, status>>
          /\ UNCHANGED <<sStarted, request, run, history, requestStream>>
          /\ pc' = "finish" => UNCHANGED error
          /\ pc' = "scope_exit" => exc' # NoError \/ error = NoError
      BY <1>25, WireGrown DEF StatusSendStops, SendFails, SendCancelled, SendPcs, TypeOK
    <2> USE DEF Grown, SendPcs, StartPcs, LastPcs
    <2>2. SeenTold'
      BY <2>1
    <2>3. TroubleNoted'
      BY <2>1
    <2>4. LastSent'
      BY <2>1
    <2>5. OutcomeTold'
      <3>1. CASE Grown
        BY <2>1, <3>1
      <3>2. CASE UNCHANGED <<wire, status>>
        BY <2>1, <3>2
      <3> QED BY <2>1, <3>1, <3>2
    <2> QED BY <2>2, <2>3, <2>4, <2>5
  <1>26. CASE Finish
    BY <1>26 DEF Finish, Outcome, ClosedStream
  <1>27. CASE Respond
    <2> USE <1>27 DEF Respond, CannotReplace
    <2>1. SeenTold'
      OBVIOUS
    <2>2. TroubleNoted'
      OBVIOUS
    <2>3. LastSent'
      OBVIOUS
    <2>4. OutcomeTold'
      OBVIOUS
    <2> QED BY <2>1, <2>2, <2>3, <2>4
  <1>28. CASE Tick \/ ClientLeaves \/ ServerCancels \/ TimerFires \/
     WatchStarts \/ WatchSeesDisconnect \/ WatchFails
    BY <1>28 DEF Tick, ClientLeaves, ServerCancels, TimerFires, WatchStarts,
       WatchMayReceive, WatchSeesDisconnect, TakeDisconnect, Reschedule,
       MayReschedule, WatchFails
  <1>29. CASE UNCHANGED vars
    BY <1>29 DEF vars
  <1> QED
    BY <1>1, <1>2, <1>3, <1>4, <1>5, <1>6, <1>7, <1>8, <1>9, <1>10, <1>11,
       <1>12, <1>13, <1>14, <1>15, <1>16, <1>17, <1>18, <1>19, <1>20, <1>21,
       <1>22, <1>23, <1>24, <1>25, <1>26, <1>27, <1>28, <1>29 DEF Next,
       Progress, Unforced, Terminated

\* The request starts without a hook that ended.
LEMMA HookInit == Init => HookInv
  <1> SUFFICES ASSUME Init PROVE HookInv
    OBVIOUS
  <1>1. ~HasStartTrailers /\ ~HasLast /\ ~HasTrailers /\ ~Complete
    BY WireEmpty, CompleteMessages DEF Init
  <1> QED BY <1>1 DEF Init, HookInv, SeenTold, TroubleNoted, LastSent, OutcomeTold, LastPcs

\* Unless a hook itself fails, the hooks are told the outcome the client is told;
\* a single response's may miss that it could not be sent.
THEOREM HooksSeeTruth == Spec => []HooksSeeOutcome
  <1>1. Spec => []OrderInv
    BY OrderInit, OrderStep, TypeInvariant, PTL DEF Spec
  <1>2. Spec => []Unwound
    BY UnwoundInit, UnwoundStep, TypeInvariant, PTL DEF Spec
  <1>3. Spec => []HookInv
    BY <1>1, <1>2, HookInit, HookStep, AnswerAlways, SilentAlways, TypeInvariant, PTL DEF Spec
  <1>4. HookInv => HooksSeeOutcome
    <2> SUFFICES ASSUME HookInv, pc = "done", Complete, ~hookTrouble,
                        NEW i \in 1..NHooks, seen[i] # <<>>
                 PROVE  seen[i][1] = status \/ (~Generator /\ seen[i][1] = NoError)
      BY DEF HooksSeeOutcome
    <2>1. (~Generator /\ seen[i][1] = NoError) \/ seen[i][1] = error
      BY DEF HookInv, SeenTold, Told
    <2>2. status = error \/ (status = NoError /\ seen[i][1] = NoError)
      BY DEF HookInv, OutcomeTold, SawSuccess
    <2> QED BY <2>1, <2>2
  <1> QED BY <1>3, <1>4, PTL

-----------------------------------------------------------------------------
(* The client sees an RPC *)

\* Number of messages does not change without a new one.
LEMMA ChunksKept == wire' = wire => Chunks' = Chunks
  BY DEF Chunks

\* The number of messages is one, and grows with the chunks that are accepted.
LEMMA ChunksGrown ==
    ASSUME SenderOK, pc \in SendPcs, Accept(MessageType(pc), StatusAfter(pc))
    PROVE  Chunks' = IF pc = "message" THEN Chunks + 1 ELSE Chunks
  <1> DEFINE m == MessageType(pc)
             C == {i \in DOMAIN wire : wire[i] = "chunk"}
  <1>1. /\ m \in MessageTypes
        /\ m = "chunk" <=> pc = "message"
    BY DEF MessageType, SendPcs, StartTypes, MessageTypes
  <1>2. wire \in Seq(MessageTypes) /\ wire' = Append(wire, m)
    BY DEF SenderOK, MessageTypes, Accept
  <1>3. PICK n \in Nat : Len(wire) = n /\ DOMAIN wire = 1..n
    BY <1>2
  <1>4. /\ DOMAIN wire' = 1..(n + 1)
        /\ \A i \in 1..(n + 1) : wire'[i] = IF i = n + 1 THEN m ELSE wire[i]
    BY <1>1, <1>2, <1>3
  <1>5. IsFiniteSet(C) /\ (n + 1) \notin C
    BY <1>3, FS_Interval, FS_Subset
  <1>6. CASE pc = "message"
    <2>1. {i \in DOMAIN wire' : wire'[i] = "chunk"} = C \cup {n + 1}
      BY <1>1, <1>3, <1>4, <1>6
    <2> QED BY <1>5, <1>6, <2>1, FS_AddElement DEF Chunks
  <1>7. CASE pc # "message"
    <2>1. {i \in DOMAIN wire' : wire'[i] = "chunk"} = C
      BY <1>1, <1>3, <1>4, <1>7
    <2> QED BY <1>7, <2>1 DEF Chunks
  <1> QED BY <1>6, <1>7

\* There are no messages on an empty wire, and never less.
LEMMA ChunksTyped == SenderOK => Chunks \in Nat /\ (wire = <<>> => Chunks = 0)
  <1> SUFFICES ASSUME SenderOK PROVE Chunks \in Nat /\ (wire = <<>> => Chunks = 0)
    OBVIOUS
  <1>1. PICK n \in Nat : Len(wire) = n /\ DOMAIN wire = 1..n
    BY DEF SenderOK
  <1>2. IsFiniteSet({i \in DOMAIN wire : wire[i] = "chunk"})
    BY <1>1, FS_Interval, FS_Subset
  <1>3. wire = <<>> => {i \in DOMAIN wire : wire[i] = "chunk"} = {}
    OBVIOUS
  <1> QED BY <1>2, <1>3, FS_CardinalityType, FS_EmptySet DEF Chunks

\* What a step does to what the client sees.
ClientSees ==
    /\ UNCHANGED shape /\ (pc = "done" => pc' = "done")
    /\ \/ UNCHANGED <<wire, status>> /\ (pc' = "done" => pc \in {"finish", "done"})
       \/ /\ pc \in SendPcs /\ Grown /\ pc' # "done"
          /\ Chunks' = IF pc = "message" THEN Chunks + 1 ELSE Chunks

\* Every step keeps what the client sees or is an accepted message.
LEMMA ClientStep == TInv /\ [Next]_vars => ClientSees
  <1> SUFFICES ASSUME TInv, [Next]_vars PROVE ClientSees
    OBVIOUS
  <1> USE DEF ClientSees, still, io, ending, request, world, receiver, timer,
     cancellation, run, history, sender, generators, frame
  <1>1. CASE RouteFails \/ Route \/ OnStartRaises
    BY <1>1 DEF RouteFails, Route, AfterStart, ScopeDeadline, OnStartRaises
  <1>2. CASE OnStartReturns
    BY <1>2 DEF OnStartReturns, AfterStart
  <1>3. CASE BeginUnary \/ BeginStream \/ BeginFails
    BY <1>3 DEF BeginUnary, StartWatch, ConnectUnary, BeginStream, Streams,
       ReadsStream, BeginFails
  <1>4. CASE ReadDisconnect \/ ReadCancelled \/ ReadFails \/ ReadMore \/
     ReadLast
    BY <1>4 DEF ReadDisconnect, TakeDisconnect, AfterReadError, Streams,
       ReadCancelled, ReadFails, ReadMore, ReadLast
  <1>5. CASE HandlerCalls \/ HandlerGetsChunk \/ HandlerGetsDisconnect
    BY <1>5 DEF HandlerCalls, HandlerGetsChunk, HandlerGetsDisconnect,
       TakeDisconnect
  <1>6. CASE HandlerReturns \/ HandlerRaises \/ HandlerCancelled
    BY <1>6 DEF HandlerReturns, HandlerRuns, ConnectUnary, HandlerRaises,
       HandlerStops, HandlerCancelled
  <1>7. CASE GeneratorEnds \/ GeneratorYields \/ CloseGenerator
    BY <1>7 DEF GeneratorEnds, HandlerRuns, GeneratorYields, AfterYield,
       CloseGenerator
  <1>8. CASE LeaveWatch \/ WatchLeft \/ Catch \/ CatchNot
    BY <1>8 DEF LeaveWatch, WatchLeft, Catch, CatchNot
  <1>9. CASE OnEndReturns \/ OnEndRaises \/ OnEndCancelled
    BY <1>9 DEF OnEndReturns, PopHook, OnEndRaises, OnEndCancelled
  <1>10. CASE OnEndInterrupted
    BY <1>10 DEF OnEndInterrupted, PopHook, RaiseFromEnd, TInv, TypeOK, RunOK
  <1>11. CASE EndCancelled
    BY <1>11 DEF EndCancelled, RaiseFromEnd, TInv, TypeOK, RunOK
  <1>12. CASE EndedMid \/ Ended
    BY <1>12 DEF EndedMid, Ended, AfterEnd, ConnectUnary
  <1>13. CASE ScopeExit
    BY <1>13 DEF ScopeExit, TimedOut, AfterScope
  <1>14. CASE Encode \/ UnaryEncode
    BY <1>14 DEF Encode, UnaryEncode
  <1>15. CASE Send
    <2>1. pc \in SendPcs /\ Accept(MessageType(pc), StatusAfter(pc)) /\ pc' = AfterSend[pc]
      BY <1>15 DEF Send
    <2>2. pc' # "done"
      BY <2>1 DEF AfterSend, SendPcs
    <2> QED BY <1>15, <2>1, <2>2, WireGrown, ChunksGrown DEF Send, SendPcs, TInv, TypeOK
  <1>16. CASE StreamSendStops
    <2>1. /\ pc \in SendPcs /\ pc' # "done"
          /\ UNCHANGED <<wire, status>> \/ Accept(MessageType(pc), StatusAfter(pc))
          /\ UNCHANGED shape
      BY <1>16 DEF StreamSendStops, SendFails, SendCancelled, SendPcs
    <2> QED BY <2>1, WireGrown, ChunksGrown DEF SendPcs, TInv, TypeOK
  <1>17. CASE UnarySendStops
    <2>1. /\ pc \in SendPcs /\ pc' # "done"
          /\ UNCHANGED <<wire, status>> \/ Accept(MessageType(pc), StatusAfter(pc))
          /\ UNCHANGED shape
      BY <1>17 DEF UnarySendStops, SendFails, SendCancelled, SendPcs
    <2> QED BY <2>1, WireGrown, ChunksGrown DEF SendPcs, TInv, TypeOK
  <1>18. CASE StatusSendStops
    <2>1. /\ pc \in SendPcs /\ pc' # "done"
          /\ UNCHANGED <<wire, status>> \/ Accept(MessageType(pc), StatusAfter(pc))
          /\ UNCHANGED shape
      BY <1>18 DEF StatusSendStops, SendFails, SendCancelled, SendPcs
    <2> QED BY <2>1, WireGrown, ChunksGrown DEF SendPcs, TInv, TypeOK
  <1>19. CASE Respond
    BY <1>19 DEF Respond, CannotReplace
  <1>20. CASE Finish
    BY <1>20 DEF Finish, Outcome, ClosedStream
  <1>21. CASE Tick \/ ClientLeaves \/ ServerCancels \/ TimerFires \/
     WatchStarts \/ WatchSeesDisconnect \/ WatchFails
    BY <1>21 DEF Tick, ClientLeaves, ServerCancels, TimerFires, WatchStarts,
       WatchMayReceive, WatchSeesDisconnect, TakeDisconnect, Reschedule,
       MayReschedule, WatchFails
  <1>22. CASE UNCHANGED vars
    BY <1>22 DEF vars
  <1> QED
    BY <1>1, <1>2, <1>3, <1>4, <1>5, <1>6, <1>7, <1>8, <1>9, <1>10, <1>11,
       <1>12, <1>13, <1>14, <1>15, <1>16, <1>17, <1>18, <1>19, <1>20, <1>21,
       <1>22 DEF Next, Progress, Unforced, Terminated

\* A method with a single response has sent it when nothing went wrong, and
\* neither before its handler has returned nor twice.
Delivered ==
    /\ HasTrailers => HasLast
    /\ ConnectUnary => Chunks = 0
    /\ ~Generator /\ Streams =>
        /\ \/ pc \in {"route", "on_start", "begin", "read", "handler", "handler_read",
                     "headers", "encode", "message"}
           \/ pc = "end" /\ endSite = "mid"
           => Chunks = 0
        /\ \/ pc \in {"unwatch", "unwatching", "caught", "scope_exit"} \cup PastScope
           \/ pc = "end" /\ endSite # "mid"
           => Troubled \/ Chunks = 1
    /\ pc = "close" => exc # NoError
    /\ pc = "unary_body" => HasStart
    /\ pc \in {"err_start", "err_body"} => error # NoError

\* Every step keeps track of the messages.
LEMMA DeliveredStep == TInv /\ Delivered /\ AnswerInv /\ StreamSends /\
   [Next]_vars => Delivered'
  <1> SUFFICES ASSUME TInv, Delivered, AnswerInv, StreamSends, [Next]_vars
     PROVE Delivered'
    OBVIOUS
  <1> USE WireKept, ChunksKept DEF Delivered, Troubled, PastScope, AnswerInv,
     UnaryAnswers, TInv, InFlight, Raising, StreamSends, Streams, ConnectUnary,
     Generator, ReadsStream, NoError, BaseErrors, HandlerErrors, still, io,
     ending, request, world, receiver, timer, cancellation, run, history,
     sender, generators, frame
  <1>1. CASE RouteFails
    BY <1>1 DEF RouteFails
  <1>2. CASE Route
    BY <1>2 DEF Route, AfterStart, ScopeDeadline
  <1>3. CASE OnStartRaises
    BY <1>3 DEF OnStartRaises, MaySwallow, Deliver, Interrupted
  <1>4. CASE OnStartReturns
    BY <1>4 DEF OnStartReturns, MaySwallow, AfterStart
  <1>5. CASE BeginUnary \/ BeginStream \/ BeginFails
    BY <1>5 DEF BeginUnary, StartWatch, ConnectUnary, BeginStream, Streams,
       ReadsStream, BeginFails
  <1>6. CASE ReadDisconnect \/ ReadCancelled \/ ReadFails \/ ReadMore \/
     ReadLast
    BY <1>6 DEF ReadDisconnect, NoCancel, TakeDisconnect, AfterReadError,
       Streams, ReadCancelled, Deliver, ReadFails, TakeChunk, ReadMore,
       ReadLast
  <1>7. CASE HandlerCalls \/ HandlerGetsChunk \/ HandlerGetsDisconnect
    BY <1>7 DEF HandlerCalls, NoCancel, HandlerGetsChunk, TakeChunk,
       HandlerGetsDisconnect, TakeDisconnect
  <1>8. CASE HandlerCancelled
    BY <1>8 DEF HandlerCancelled, HandlerStops, HandlerRuns, Deliver
  <1>9. CASE HandlerReturns
    BY <1>9 DEF HandlerReturns, HandlerRuns, MaySwallow, ConnectUnary
  <1>10. CASE HandlerRaises
    BY <1>10 DEF HandlerRaises, Interrupted, HandlerStops, HandlerRuns, MaySwallow
  <1>11. CASE GeneratorEnds \/ GeneratorYields \/ CloseGenerator
    BY <1>11 DEF GeneratorEnds, HandlerRuns, MaySwallow, GeneratorYields,
       AfterYield, CloseGenerator, NoCancel, Deliver
  <1>12. CASE LeaveWatch \/ Catch \/ CatchNot
    BY <1>12 DEF LeaveWatch, Catch, CatchNot
  <1>13. CASE WatchLeft
    BY <1>13 DEF WatchLeft, NoCancel, Deliver
  <1>14. CASE OnEndReturns \/ OnEndRaises \/ OnEndCancelled
    BY <1>14 DEF OnEndReturns, PopHook, MaySwallow, OnEndRaises,
       OnEndCancelled, Deliver, TypeOK, RunOK
  <1>15. CASE OnEndInterrupted
    BY <1>15 DEF OnEndInterrupted, PopHook, MaySwallow, RaiseFromEnd, TypeOK,
       RunOK
  <1>16. CASE EndCancelled
    BY <1>16 DEF EndCancelled, RaiseFromEnd, TypeOK, RunOK
  <1>17. CASE EndedMid
    BY <1>17 DEF EndedMid, TypeOK, RunOK
  <1>18. CASE Ended
    BY <1>18 DEF Ended, AfterEnd, ConnectUnary, TypeOK, RunOK
  <1>19. CASE ScopeExit
    BY <1>19 DEF ScopeExit, TimedOut, TimeoutError, AfterScope
  <1>20. CASE Encode
    BY <1>20 DEF Encode
  <1>21. CASE UnaryEncode
    BY <1>21 DEF UnaryEncode
  <1>22. CASE Send
    <2>1. /\ pc \in SendPcs /\ Grown /\ pc' = AfterSend[pc]
          /\ Chunks' = IF pc = "message" THEN Chunks + 1 ELSE Chunks
          /\ UNCHANGED <<request, run, requestStream, exc, error, leaving>>
      BY <1>22, WireGrown, ChunksGrown DEF Send, TypeOK
    <2> QED BY <2>1 DEF Grown, SendPcs, StartPcs, LastPcs, AfterSend
  <1>23. CASE StreamSendStops
    <2>1. /\ pc \in SendPcs /\ pc' = "close"
          /\ UNCHANGED wire \/ (Grown /\ Chunks' = IF pc = "message" THEN Chunks + 1 ELSE Chunks)
          /\ UNCHANGED <<request, run, requestStream>>
          /\ pc' = "close" => exc' # NoError
          /\ pc' = "scope_exit" => pc \in {"unary_start", "unary_body"}
          /\ pc \in {"message", "headers"} => pc' = "close"
      BY <1>23, WireGrown, ChunksGrown DEF StreamSendStops, SendFails, SendCancelled, SendPcs, TypeOK
    <2> QED BY <2>1 DEF Grown, SendPcs, StartPcs, LastPcs
  <1>24. CASE UnarySendStops
    <2>1. /\ pc \in SendPcs /\ pc' = "scope_exit"
          /\ UNCHANGED wire \/ (Grown /\ Chunks' = IF pc = "message" THEN Chunks + 1 ELSE Chunks)
          /\ UNCHANGED <<request, run, requestStream>>
          /\ pc' = "close" => exc' # NoError
          /\ pc' = "scope_exit" => pc \in {"unary_start", "unary_body"}
          /\ pc \in {"message", "headers"} => pc' = "close"
      BY <1>24, WireGrown, ChunksGrown DEF UnarySendStops, SendFails, SendCancelled, SendPcs, TypeOK
    <2> QED BY <2>1 DEF Grown, SendPcs, StartPcs, LastPcs
  <1>25. CASE StatusSendStops
    <2>1. /\ pc \in SendPcs /\ pc' = "finish"
          /\ UNCHANGED wire \/ (Grown /\ Chunks' = IF pc = "message" THEN Chunks + 1 ELSE Chunks)
          /\ UNCHANGED <<request, run, requestStream>>
          /\ pc' = "close" => exc' # NoError
          /\ pc' = "scope_exit" => pc \in {"unary_start", "unary_body"}
          /\ pc \in {"message", "headers"} => pc' = "close"
      BY <1>25, WireGrown, ChunksGrown DEF StatusSendStops, SendFails, SendCancelled, SendPcs, TypeOK
    <2> QED BY <2>1 DEF Grown, SendPcs, StartPcs, LastPcs
  <1>26. CASE Finish
    BY <1>26 DEF Finish, Outcome, ClosedStream
  <1>27. CASE Respond
    BY <1>27 DEF Respond, CannotReplace
  <1>28. CASE Tick \/ ClientLeaves \/ ServerCancels \/ TimerFires \/
     WatchStarts \/ WatchSeesDisconnect \/ WatchFails
    BY <1>28 DEF Tick, ClientLeaves, ServerCancels, TimerFires, WatchStarts,
       WatchMayReceive, WatchSeesDisconnect, TakeDisconnect, Reschedule,
       MayReschedule, WatchFails
  <1>29. CASE UNCHANGED vars
    BY <1>29 DEF vars
  <1> QED
    BY <1>1, <1>2, <1>3, <1>4, <1>5, <1>6, <1>7, <1>8, <1>9, <1>10, <1>11,
       <1>12, <1>13, <1>14, <1>15, <1>16, <1>17, <1>18, <1>19, <1>20, <1>21,
       <1>22, <1>23, <1>24, <1>25, <1>26, <1>27, <1>28, <1>29 DEF Next,
       Progress, Unforced, Terminated

\* The request starts without a message.
LEMMA DeliveredInit == Init => Delivered
  <1> SUFFICES ASSUME Init PROVE Delivered
    OBVIOUS
  <1>1. ~HasTrailers /\ Chunks = 0
    BY WireEmpty, ChunksTyped, TypeInit DEF Init, TInv, TypeOK
  <1> QED BY <1>1 DEF Init, Delivered, PastScope

\* The client of a new request is one of a new RPC.
LEMMA ClientInit == Init => Client!RpcInit
  <1> SUFFICES ASSUME Init PROVE Client!RpcInit
    OBVIOUS
  <1>1. Chunks = 0 /\ ~Complete /\ ~Has("start")
    BY WireEmpty, ChunksTyped, CompleteMessages, TypeInit DEF Init, TInv, TypeOK, HasStart
  <1>2. Replies = 0
    BY <1>1 DEF Replies
  <1>3. (~Generator) \in BOOLEAN
    OBVIOUS
  <1> QED BY <1>1, <1>2, <1>3 DEF Init, Client!RpcInit

\* Every step is one the client of an RPC sees, or none.
LEMMA ClientNext ==
    TInv /\ Delivered /\ AnswerInv /\ StreamSends /\ [Next]_vars
        => [Client!RpcNext]_(Client!rpcVars)
  <1> SUFFICES ASSUME TInv, Delivered, AnswerInv, StreamSends, [Next]_vars
               PROVE  [Client!RpcNext]_(Client!rpcVars)
    OBVIOUS
  <1> DEFINE outcome == IF Complete THEN status
                        ELSE IF pc = "done" THEN "aborted" ELSE "pending"
  <1>1. ClientSees
    BY ClientStep
  <1>2. /\ Chunks \in Nat
        /\ Replies = Chunks + (IF ConnectUnary /\ HasStart THEN 1 ELSE 0)
        /\ Replies' = Chunks' + (IF ConnectUnary' /\ HasStart' THEN 1 ELSE 0)
    BY ChunksTyped, ChunksKept DEF Replies, HasStart, TInv, TypeOK
  <1>3. ConnectUnary' = ConnectUnary /\ Generator' = Generator
    BY <1>1 DEF ClientSees, ConnectUnary, Generator
  <1>4. CASE UNCHANGED <<wire, status>>
    <2>1. Replies' = Replies /\ (Complete' <=> Complete)
      BY <1>2, <1>3, <1>4, WireKept, ChunksKept
    <2>2. CASE pc' = "done" /\ pc # "done" /\ ~Complete
      <3>1. Client!Fail
        BY <1>3, <2>1, <2>2 DEF Client!Fail
      <3> QED BY <3>1 DEF Client!RpcNext
    <2>3. CASE ~(pc' = "done" /\ pc # "done" /\ ~Complete)
      BY <1>1, <1>3, <1>4, <2>1, <2>3 DEF ClientSees, Client!rpcVars
    <2> QED BY <2>2, <2>3
  <1>5. CASE ~UNCHANGED <<wire, status>>
    <2>1. /\ pc \in SendPcs /\ Grown /\ pc' # "done"
          /\ Chunks' = IF pc = "message" THEN Chunks + 1 ELSE Chunks
      BY <1>1, <1>5 DEF ClientSees
    <2>2. ~Complete /\ pc # "done" /\ outcome = "pending"
      BY <2>1, CompleteMessages DEF Grown, StartPcs, LastPcs, SendPcs, Delivered
    <2>3. CASE pc \in StartPcs \cup {"message"}
      <3>1. ~Complete' /\ outcome' = "pending"
        BY <2>1, <2>2, <2>3, CompleteMessages DEF Grown, StartPcs, LastPcs, Delivered
      <3>2. CASE pc = "message"
        <4>1. Streams /\ ~ConnectUnary /\ (~Generator => Chunks = 0)
          BY <3>2 DEF StreamSends, Streams, ConnectUnary, Delivered
        <4>2. Client!Deliver
          BY <1>2, <1>3, <2>1, <2>2, <3>1, <3>2, <4>1 DEF Client!Deliver
        <4> QED BY <4>2 DEF Client!RpcNext
      <3>3. CASE pc = "unary_start"
        <4>1. ConnectUnary /\ Chunks = 0 /\ ~HasStart /\ HasStart'
          BY <2>1, <3>3 DEF Grown, StartPcs, AnswerInv, UnaryAnswers, Delivered
        <4>2. Client!Deliver
          BY <1>2, <1>3, <2>1, <2>2, <3>1, <3>3, <4>1 DEF Client!Deliver
        <4> QED BY <4>2 DEF Client!RpcNext
      <3>4. CASE pc \in {"headers", "end_headers", "err_start"}
        <4>1. ConnectUnary => (HasStart' <=> HasStart)
          BY <2>1, <3>4 DEF Grown, StreamSends, Streams, ConnectUnary
        <4>2. Replies' = Replies
          BY <1>2, <1>3, <2>1, <3>4, <4>1
        <4> QED BY <1>3, <2>2, <3>1, <4>2 DEF Client!rpcVars
      <3> QED BY <2>3, <3>2, <3>3, <3>4 DEF StartPcs
    <2>4. CASE pc \in LastPcs \cup {"end_trailers"}
      <3>1. Replies' = Replies
        BY <1>2, <1>3, <2>1, <2>4 DEF Grown, LastPcs
      <3>2. CASE ~Complete'
        BY <1>3, <2>1, <2>2, <3>1, <3>2 DEF Client!rpcVars
      <3>3. CASE Complete'
        <4>1. status' = error /\ outcome' = error /\ error \in Errors \cup {NoError}
          BY <2>1, <2>2, <2>4, <3>3, CompleteMessages
             DEF Grown, LastPcs, TInv, TypeOK, FrameOK
        <4>2. CASE error # NoError
          <5>1. Client!Fail
            BY <1>3, <2>2, <3>1, <4>1, <4>2 DEF Client!Fail
          <5> QED BY <5>1 DEF Client!RpcNext
        <4>3. CASE error = NoError /\ ConnectUnary
          <5>1. Replies = 1
            BY <1>2, <2>4, <4>3 DEF LastPcs, Delivered, StreamSends, Streams, ConnectUnary
          <5>2. Client!Succeed
            BY <1>3, <2>2, <3>1, <4>1, <4>3, <5>1 DEF Client!Succeed
          <5> QED BY <5>2 DEF Client!RpcNext
        <4>4. CASE error = NoError /\ ~ConnectUnary
          <5>1. ~Generator => Replies = 1
            BY <1>2, <2>4, <4>4 DEF LastPcs, Delivered, Streams, ConnectUnary, Troubled,
               PastScope, AnswerInv, UnaryAnswers
          <5>2. Client!Succeed
            BY <1>3, <2>2, <3>1, <4>1, <4>4, <5>1 DEF Client!Succeed
          <5> QED BY <5>2 DEF Client!RpcNext
        <4> QED BY <4>2, <4>3, <4>4
      <3> QED BY <3>2, <3>3
    <2> QED BY <2>1, <2>3, <2>4 DEF SendPcs, StartPcs, LastPcs
  <1> QED BY <1>4, <1>5

\* What a client is sent over _handle_request is an RPC: a single response is
\* delivered once and before its success, and the outcome is told once.
THEOREM ClientSeesRpc == Spec => ImplementsRpc
  <1>1. Spec => []Delivered
    BY DeliveredInit, DeliveredStep, AnswerAlways, SilentAlways, TypeInvariant, PTL DEF Spec
  <1> QED
    BY <1>1, ClientInit, ClientNext, AnswerAlways, SilentAlways, TypeInvariant, PTL
       DEF Spec, ImplementsRpc, Client!RpcSpec
=============================================================================
