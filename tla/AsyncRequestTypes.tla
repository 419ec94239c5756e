--------------------------- MODULE AsyncRequestTypes ---------------------------
(***************************************************************************)
(* Proof that the variables of AsyncRequest keep their types.  Inductive   *)
(* invariant: TInv, which adds where an exception may be in flight and     *)
(* that the hooks start one by one.                                        *)
(***************************************************************************)
EXTENDS AsyncRequestProperties, SequenceTheorems, TLAPS

Raising == {"close", "unwatch", "unwatching", "caught", "scope_exit"}
\* An exception is only in flight on the way out of the scope, and
\* `except Exception` lets none but BaseErrors reach its end.
InFlight ==
    /\ pc \notin Raising => exc = NoError
    /\ pc = "scope_exit" => exc \in BaseErrors \cup {NoError}
\* start() has more hooks to start while it is in one of them.
Starting ==
    /\ pc = "route" => started = <<>>
    /\ pc = "on_start" => Len(started) < NHooks
TInv == TypeOK /\ InFlight /\ Starting

\* What the app server accepts has the type of the wire.
LEMMA AcceptTyped ==
    ASSUME SenderOK, error \in Errors \cup {NoError}, pc \in SendPcs,
           Accept(MessageType(pc), StatusAfter(pc))
    PROVE  /\ wire' \in Seq(StartTypes \cup {"chunk", "last", "trailers"})
           /\ status' \in Errors \cup {NoError}
  <1>1. MessageType(pc) \in StartTypes \cup {"chunk", "last", "trailers"}
    BY DEF MessageType, SendPcs, StartTypes
  <1>2. StatusAfter(pc) \in Errors \cup {NoError}
    BY DEF StatusAfter, SenderOK
  <1>3. wire' = Append(wire, MessageType(pc)) /\ status' = StatusAfter(pc)
    BY DEF Accept
  <1> QED BY <1>1, <1>2, <1>3 DEF SenderOK

\* A send that fails or is cancelled leaves the sender well typed.
LEMMA SendTyped ==
    ASSUME SenderOK, error \in Errors \cup {NoError}, pc \in SendPcs,
           SendFails \/ SendCancelled
    PROVE  SenderOK'
  <1>1. CASE SendFails
    BY <1>1 DEF SendFails, SenderOK
  <1>2. CASE SendCancelled
    <2>1. CASE UNCHANGED <<wire, status>>
      BY <1>2, <2>1 DEF SendCancelled, SenderOK
    <2>2. CASE Accept(MessageType(pc), StatusAfter(pc))
      BY <1>2, <2>2, AcceptTyped DEF SendCancelled, SenderOK
    <2> QED BY <1>2, <2>1, <2>2 DEF SendCancelled
  <1> QED BY <1>1, <1>2

\* Where a send that returned continues.
LEMMA AfterSendTyped ==
    ASSUME pc \in SendPcs
    PROVE  AfterSend[pc] \in SendPcs \cup {"scope_exit", "encode", "handler",
                                           "unwatch", "finish"}
  BY DEF AfterSend, SendPcs

\* A sequence without its last element.
LEMMA DropLast ==
    ASSUME NEW S, NEW s \in Seq(S), s # <<>>
    PROVE  /\ Len(s) \in Nat \ {0} /\ s[Len(s)] \in S
           /\ SubSeq(s, 1, Len(s) - 1) \in Seq(S)
           /\ Len(SubSeq(s, 1, Len(s) - 1)) = Len(s) - 1
           /\ \A k \in 1..(Len(s) - 1) : SubSeq(s, 1, Len(s) - 1)[k] = s[k]
  <1>1. PICK n \in Nat \ {0} : Len(s) = n
    BY EmptySeq
  <1>2. \A k \in 1..n : s[k] \in S
    BY <1>1, ElementOfSeq
  <1>3. SubSeq(s, 1, n - 1) \in Seq(S)
    BY <1>1, <1>2
  <1>4. Len(SubSeq(s, 1, n - 1)) = n - 1
    BY <1>1, <1>2
  <1>5. \A k \in 1..(n - 1) : SubSeq(s, 1, n - 1)[k] = s[k]
    BY <1>1, <1>2
  <1> QED BY <1>1, <1>2, <1>3, <1>4, <1>5

\* Popping a hook shortens the sequence of started hooks by its last one.
LEMMA PopTyped ==
    ASSUME RunOK, HistoryOK, PopHook
    PROVE  /\ Len(started) \in Nat \ {0} /\ Top \in 1..NHooks
           /\ started' \in Seq(1..NHooks)
           /\ Len(started') = Len(started) - 1
           /\ \A k \in 1..Len(started') : started'[k] = started[k]
           /\ seen' \in [1..NHooks -> Seq(Errors \cup {NoError})]
  <1>1. /\ started # <<>> /\ started' = SubSeq(started, 1, Len(started) - 1)
        /\ seen' = [seen EXCEPT ![Top] = Append(@, runErr)]
    BY DEF PopHook
  <1>2. started \in Seq(1..NHooks) /\ runErr \in Errors \cup {NoError}
    BY DEF RunOK
  <1>3. /\ Len(started) \in Nat \ {0} /\ Top \in 1..NHooks
        /\ started' \in Seq(1..NHooks)
        /\ Len(started') = Len(started) - 1
        /\ \A k \in 1..Len(started') : started'[k] = started[k]
    BY <1>1, <1>2, DropLast DEF Top
  <1>4. Append(seen[Top], runErr) \in Seq(Errors \cup {NoError})
    BY <1>2, <1>3 DEF HistoryOK
  <1>5. seen' \in [1..NHooks -> Seq(Errors \cup {NoError})]
    BY <1>1, <1>3, <1>4 DEF HistoryOK
  <1> QED BY <1>3, <1>5

\* Every step keeps TInv.
LEMMA TypeStep == TInv /\ [Next]_vars => TInv'
  <1> SUFFICES ASSUME TInv, [Next]_vars PROVE TInv'
    OBVIOUS
  <1> USE BoundAssumption, NHooksAssumption, TimeAssumption
     DEF TInv, TypeOK, InFlight, Raising, Starting, RequestOK, WorldOK,
     ReceiverOK, TimerOK, CancellationOK, RunOK, HistoryOK, SenderOK,
     GeneratorsOK, FrameOK, AwaitPcs, SendPcs, CodePcs, BaseErrors,
     HandlerErrors, Errors, StatusErrors, PlainErrors, StartTypes, NoError,
     still, io, ending, request, world, receiver, timer, cancellation, run,
     history, sender, generators, frame
  <1>1. CASE RouteFails
    BY <1>1 DEF RouteFails
  <1>2. CASE Route
    <2> USE <1>2 DEF Route, AfterStart, ScopeDeadline
    <2>1. (RequestOK /\ WorldOK /\ ReceiverOK /\ TimerOK)'
      OBVIOUS
    <2>2. (CancellationOK /\ GeneratorsOK /\ SenderOK)'
      OBVIOUS
    <2>3. (RunOK /\ HistoryOK)'
      OBVIOUS
    <2>4. (FrameOK /\ InFlight /\ Starting)'
      OBVIOUS
    <2> QED BY <2>1, <2>2, <2>3, <2>4
  <1>3. CASE OnStartReturns
    <2> USE <1>3 DEF OnStartReturns, MaySwallow, AfterStart
    <2>1. (RequestOK /\ WorldOK /\ ReceiverOK /\ TimerOK)'
      OBVIOUS
    <2>2. (CancellationOK /\ GeneratorsOK /\ SenderOK)'
      OBVIOUS
    <2>3. (RunOK /\ HistoryOK)'
      OBVIOUS
    <2>4. (FrameOK /\ InFlight /\ Starting)'
      OBVIOUS
    <2> QED BY <2>1, <2>2, <2>3, <2>4
  <1>4. CASE OnStartRaises
    <2> USE <1>4 DEF OnStartRaises, MaySwallow, Deliver, Interrupted
    <2>1. (RequestOK /\ WorldOK /\ ReceiverOK /\ TimerOK)'
      OBVIOUS
    <2>2. CancellationOK'
      OBVIOUS
    <2>3. (GeneratorsOK /\ SenderOK)'
      OBVIOUS
    <2>4. (RunOK /\ HistoryOK)'
      OBVIOUS
    <2>5. (FrameOK /\ InFlight /\ Starting)'
      OBVIOUS
    <2> QED BY <2>1, <2>2, <2>3, <2>4, <2>5
  <1>5. CASE BeginUnary
    <2> USE <1>5 DEF BeginUnary, StartWatch, ConnectUnary
    <2>1. (RequestOK /\ WorldOK)'
      OBVIOUS
    <2>2. ReceiverOK'
      OBVIOUS
    <2>3. TimerOK'
      OBVIOUS
    <2>4. (CancellationOK /\ GeneratorsOK /\ SenderOK)'
      OBVIOUS
    <2>5. (RunOK /\ HistoryOK)'
      OBVIOUS
    <2>6. (FrameOK /\ InFlight /\ Starting)'
      OBVIOUS
    <2> QED BY <2>1, <2>2, <2>3, <2>4, <2>5, <2>6
  <1>6. CASE BeginStream
    BY <1>6 DEF BeginStream, StartWatch, Streams, ReadsStream
  <1>7. CASE BeginFails
    BY <1>7 DEF BeginFails, Streams
  <1>8. CASE ReadDisconnect
    BY <1>8 DEF ReadDisconnect, NoCancel, TakeDisconnect, AfterReadError,
       Streams
  <1>9. CASE ReadCancelled
    <2> USE <1>9 DEF ReadCancelled, Deliver, AfterReadError, Streams
    <2>1. (RequestOK /\ WorldOK /\ ReceiverOK /\ TimerOK)'
      OBVIOUS
    <2>2. (CancellationOK /\ GeneratorsOK /\ SenderOK)'
      OBVIOUS
    <2>3. (RunOK /\ HistoryOK)'
      OBVIOUS
    <2>4. (FrameOK /\ InFlight /\ Starting)'
      OBVIOUS
    <2> QED BY <2>1, <2>2, <2>3, <2>4
  <1>10. CASE HandlerGetsDisconnect
    BY <1>10 DEF HandlerGetsDisconnect, NoCancel, TakeDisconnect
  <1>11. CASE HandlerCancelled
    <2> USE <1>11 DEF HandlerCancelled, HandlerStops, HandlerRuns, Deliver
    <2>1. (RequestOK /\ WorldOK /\ ReceiverOK /\ TimerOK)'
      OBVIOUS
    <2>2. (CancellationOK /\ GeneratorsOK /\ SenderOK)'
      OBVIOUS
    <2>3. (RunOK /\ HistoryOK)'
      OBVIOUS
    <2>4. (FrameOK /\ InFlight /\ Starting)'
      OBVIOUS
    <2> QED BY <2>1, <2>2, <2>3, <2>4
  <1>12. CASE CloseGenerator
    <2> USE <1>12 DEF CloseGenerator, NoCancel, MaySwallow, Deliver
    <2>1. (RequestOK /\ WorldOK /\ ReceiverOK /\ TimerOK)'
      OBVIOUS
    <2>2. (CancellationOK /\ GeneratorsOK /\ SenderOK)'
      OBVIOUS
    <2>3. (RunOK /\ HistoryOK)'
      OBVIOUS
    <2>4. (FrameOK /\ InFlight /\ Starting)'
      OBVIOUS
    <2> QED BY <2>1, <2>2, <2>3, <2>4
  <1>13. CASE LeaveWatch
    BY <1>13 DEF LeaveWatch
  <1>14. CASE WatchLeft
    <2> USE <1>14 DEF WatchLeft, NoCancel, Deliver
    <2>1. (RequestOK /\ WorldOK /\ ReceiverOK /\ TimerOK)'
      OBVIOUS
    <2>2. CancellationOK'
      OBVIOUS
    <2>3. (GeneratorsOK /\ SenderOK)'
      OBVIOUS
    <2>4. (RunOK /\ HistoryOK)'
      OBVIOUS
    <2>5. (FrameOK /\ InFlight /\ Starting)'
      OBVIOUS
    <2> QED BY <2>1, <2>2, <2>3, <2>4, <2>5
  <1>15. CASE Catch
    <2> USE <1>15 DEF Catch
    <2>1. (RequestOK /\ WorldOK /\ ReceiverOK /\ TimerOK)'
      OBVIOUS
    <2>2. (CancellationOK /\ GeneratorsOK /\ SenderOK)'
      OBVIOUS
    <2>3. (RunOK /\ HistoryOK)'
      OBVIOUS
    <2>4. (FrameOK /\ InFlight /\ Starting)'
      OBVIOUS
    <2> QED BY <2>1, <2>2, <2>3, <2>4
  <1>16. CASE CatchNot
    BY <1>16 DEF CatchNot
  <1>17. CASE OnEndReturns
    <2> USE <1>17 DEF OnEndReturns, PopHook, MaySwallow
    <2>1. (RequestOK /\ WorldOK /\ ReceiverOK /\ TimerOK)'
      OBVIOUS
    <2>2. (CancellationOK /\ GeneratorsOK /\ SenderOK)'
      OBVIOUS
    <2>3. (RunOK /\ HistoryOK)'
      BY PopTyped
    <2>4. (FrameOK /\ InFlight /\ Starting)'
      OBVIOUS
    <2> QED BY <2>1, <2>2, <2>3, <2>4
  <1>18. CASE OnEndRaises
    <2> USE <1>18 DEF OnEndRaises, PopHook, MaySwallow
    <2>1. (RequestOK /\ WorldOK /\ ReceiverOK /\ TimerOK)'
      OBVIOUS
    <2>2. (CancellationOK /\ GeneratorsOK /\ SenderOK)'
      OBVIOUS
    <2>3. (RunOK /\ HistoryOK)'
      BY PopTyped
    <2>4. (FrameOK /\ InFlight /\ Starting)'
      OBVIOUS
    <2> QED BY <2>1, <2>2, <2>3, <2>4
  <1>19. CASE OnEndCancelled
    <2> USE <1>19 DEF OnEndCancelled, PopHook, Deliver
    <2>1. (RequestOK /\ WorldOK /\ ReceiverOK /\ TimerOK)'
      OBVIOUS
    <2>2. (CancellationOK /\ GeneratorsOK /\ SenderOK)'
      OBVIOUS
    <2>3. (RunOK /\ HistoryOK)'
      BY PopTyped
    <2>4. (FrameOK /\ InFlight /\ Starting)'
      OBVIOUS
    <2> QED BY <2>1, <2>2, <2>3, <2>4
  <1>20. CASE OnEndInterrupted
    <2> USE <1>20 DEF OnEndInterrupted, PopHook, MaySwallow, RaiseFromEnd
    <2>1. (RequestOK /\ WorldOK /\ ReceiverOK /\ TimerOK)'
      OBVIOUS
    <2>2. (CancellationOK /\ GeneratorsOK /\ SenderOK)'
      OBVIOUS
    <2>3. RunOK'
      BY PopTyped
    <2>4. (interrupts \in 0..MaxInterrupts)'
      OBVIOUS
    <2>5. HistoryOK'
      BY <2>4, PopTyped
    <2>6. (FrameOK /\ InFlight /\ Starting)'
      OBVIOUS
    <2> QED BY <2>1, <2>2, <2>3, <2>4, <2>5, <2>6
  <1>21. CASE EndCancelled
    BY <1>21 DEF EndCancelled, RaiseFromEnd
  <1>22. CASE EndedMid
    BY <1>22 DEF EndedMid
  <1>23. CASE Ended
    BY <1>23 DEF Ended, AfterEnd, ConnectUnary
  <1>24. CASE ScopeExit
    <2> USE <1>24 DEF ScopeExit, TimedOut, TimeoutError, AfterScope
    <2>1. (RequestOK /\ WorldOK /\ ReceiverOK /\ TimerOK)'
      OBVIOUS
    <2>2. (CancellationOK /\ GeneratorsOK /\ SenderOK)'
      OBVIOUS
    <2>3. (RunOK /\ HistoryOK)'
      OBVIOUS
    <2>4. (FrameOK /\ InFlight /\ Starting)'
      OBVIOUS
    <2> QED BY <2>1, <2>2, <2>3, <2>4
  <1>25. CASE Send
    <2> USE <1>25 DEF Send, NoCancel, GeneratorAfter
    <2>1. (RequestOK /\ WorldOK /\ ReceiverOK /\ TimerOK)'
      OBVIOUS
    <2>2. (CancellationOK /\ GeneratorsOK)'
      OBVIOUS
    <2>3. SenderOK'
      BY AcceptTyped
    <2>4. (RunOK /\ HistoryOK)'
      OBVIOUS
    <2>5. (pc \in AwaitPcs \cup CodePcs /\ InFlight /\ Starting)'
      BY AfterSendTyped
    <2>6. (responded \in BOOLEAN)'
      OBVIOUS
    <2>7. FrameOK'
      BY <2>5, <2>6
    <2> QED BY <2>1, <2>2, <2>3, <2>4, <2>5, <2>6, <2>7
  <1>26. CASE StreamSendStops
    <2> USE <1>26 DEF StreamSendStops, SendFails, SendCancelled, NoCancel, Deliver
    <2>1. (RequestOK /\ WorldOK /\ ReceiverOK /\ TimerOK)'
      BY SMTT(60)
    <2>2. (CancellationOK /\ GeneratorsOK)'
      OBVIOUS
    <2>3. SenderOK'
      BY SendTyped
    <2>4. (RunOK /\ HistoryOK)'
      OBVIOUS
    <2>5. (FrameOK /\ InFlight /\ Starting)'
      OBVIOUS
    <2> QED BY <2>1, <2>2, <2>3, <2>4, <2>5
  <1>27. CASE Encode
    BY <1>27 DEF Encode
  <1>28. CASE UnaryEncode
    BY <1>28 DEF UnaryEncode
  <1>29. CASE UnarySendStops
    <2> USE <1>29 DEF UnarySendStops, SendFails, SendCancelled, NoCancel, Deliver
    <2>1. (RequestOK /\ WorldOK /\ ReceiverOK /\ TimerOK)'
      BY SMTT(60)
    <2>2. (CancellationOK /\ GeneratorsOK)'
      OBVIOUS
    <2>3. SenderOK'
      BY SendTyped
    <2>4. (RunOK /\ HistoryOK)'
      OBVIOUS
    <2>5. (FrameOK /\ InFlight /\ Starting)'
      OBVIOUS
    <2> QED BY <2>1, <2>2, <2>3, <2>4, <2>5
  <1>30. CASE Respond
    <2> USE <1>30 DEF Respond, CannotReplace
    <2>1. (RequestOK /\ WorldOK /\ ReceiverOK /\ TimerOK)'
      OBVIOUS
    <2>2. (CancellationOK /\ GeneratorsOK /\ SenderOK)'
      OBVIOUS
    <2>3. (RunOK /\ HistoryOK)'
      OBVIOUS
    <2>4. (pc \in AwaitPcs \cup CodePcs)'
      OBVIOUS
    <2>5. (responded \in BOOLEAN)'
      OBVIOUS
    <2>6. FrameOK'
      BY <2>4, <2>5
    <2>7. (InFlight /\ Starting)'
      OBVIOUS
    <2> QED BY <2>1, <2>2, <2>3, <2>4, <2>5, <2>6, <2>7
  <1>31. CASE StatusSendStops
    <2> USE <1>31 DEF StatusSendStops, SendFails, SendCancelled, NoCancel, Deliver,
       AfterFailedStatus
    <2>1. (RequestOK /\ WorldOK /\ ReceiverOK /\ TimerOK)'
      BY SMTT(60)
    <2>2. (CancellationOK /\ GeneratorsOK)'
      OBVIOUS
    <2>3. SenderOK'
      BY SendTyped
    <2>4. (RunOK /\ HistoryOK)'
      OBVIOUS
    <2>5. (FrameOK /\ InFlight /\ Starting)'
      OBVIOUS
    <2> QED BY <2>1, <2>2, <2>3, <2>4, <2>5
  <1>32. CASE Finish
    BY <1>32 DEF Finish, Outcome, ClosedStream
  <1>33. CASE Tick
    <2> USE <1>33 DEF Tick
    <2>1. (RequestOK /\ WorldOK /\ ReceiverOK /\ TimerOK)'
      OBVIOUS
    <2>2. (CancellationOK /\ GeneratorsOK /\ SenderOK)'
      OBVIOUS
    <2>3. (RunOK /\ HistoryOK)'
      OBVIOUS
    <2>4. (FrameOK /\ InFlight /\ Starting)'
      OBVIOUS
    <2> QED BY <2>1, <2>2, <2>3, <2>4
  <1>34. CASE TimerFires
    BY <1>34 DEF TimerFires
  <1>35. CASE WatchStarts
    BY <1>35 DEF WatchStarts, WatchMayReceive
  <1>36. CASE WatchSeesDisconnect
    <2> USE <1>36 DEF WatchSeesDisconnect, TakeDisconnect, Reschedule, MayReschedule
    <2>1. (RequestOK /\ WorldOK /\ ReceiverOK)'
      OBVIOUS
    <2>2. TimerOK'
      OBVIOUS
    <2>3. (CancellationOK /\ GeneratorsOK /\ SenderOK)'
      OBVIOUS
    <2>4. (RunOK /\ HistoryOK)'
      OBVIOUS
    <2>5. (FrameOK /\ InFlight /\ Starting)'
      OBVIOUS
    <2> QED BY <2>1, <2>2, <2>3, <2>4, <2>5
  <1>37. CASE ReadFails
    <2> USE <1>37 DEF ReadFails, NoCancel, TakeChunk, AfterReadError, Streams
    <2>1. (RequestOK /\ WorldOK /\ ReceiverOK /\ TimerOK)'
      OBVIOUS
    <2>2. (CancellationOK /\ GeneratorsOK /\ SenderOK)'
      OBVIOUS
    <2>3. (RunOK /\ HistoryOK)'
      OBVIOUS
    <2>4. (FrameOK /\ InFlight /\ Starting)'
      OBVIOUS
    <2> QED BY <2>1, <2>2, <2>3, <2>4
  <1>38. CASE ReadMore
    <2> USE <1>38 DEF ReadMore, NoCancel, TakeChunk
    <2>1. (RequestOK /\ WorldOK /\ ReceiverOK /\ TimerOK)'
      OBVIOUS
    <2>2. (CancellationOK /\ GeneratorsOK /\ SenderOK)'
      OBVIOUS
    <2>3. (RunOK /\ HistoryOK)'
      OBVIOUS
    <2>4. (FrameOK /\ InFlight /\ Starting)'
      OBVIOUS
    <2> QED BY <2>1, <2>2, <2>3, <2>4
  <1>39. CASE ReadLast
    <2> USE <1>39 DEF ReadLast, NoCancel, TakeChunk
    <2>1. (RequestOK /\ WorldOK /\ ReceiverOK /\ TimerOK)'
      OBVIOUS
    <2>2. (CancellationOK /\ GeneratorsOK /\ SenderOK)'
      OBVIOUS
    <2>3. (RunOK /\ HistoryOK)'
      OBVIOUS
    <2>4. (FrameOK /\ InFlight /\ Starting)'
      OBVIOUS
    <2> QED BY <2>1, <2>2, <2>3, <2>4
  <1>40. CASE HandlerCalls
    BY <1>40 DEF HandlerCalls, NoCancel
  <1>41. CASE HandlerGetsChunk
    <2> USE <1>41 DEF HandlerGetsChunk, NoCancel, TakeChunk
    <2>1. (RequestOK /\ WorldOK /\ ReceiverOK /\ TimerOK)'
      OBVIOUS
    <2>2. (CancellationOK /\ GeneratorsOK /\ SenderOK)'
      OBVIOUS
    <2>3. (RunOK /\ HistoryOK)'
      OBVIOUS
    <2>4. (FrameOK /\ InFlight /\ Starting)'
      OBVIOUS
    <2> QED BY <2>1, <2>2, <2>3, <2>4
  <1>42. CASE HandlerReturns
    <2> USE <1>42 DEF HandlerReturns, HandlerRuns, MaySwallow, ConnectUnary
    <2>1. (RequestOK /\ WorldOK /\ ReceiverOK /\ TimerOK)'
      OBVIOUS
    <2>2. (CancellationOK /\ GeneratorsOK /\ SenderOK)'
      OBVIOUS
    <2>3. (RunOK /\ HistoryOK)'
      OBVIOUS
    <2>4. (FrameOK /\ InFlight /\ Starting)'
      OBVIOUS
    <2> QED BY <2>1, <2>2, <2>3, <2>4
  <1>43. CASE HandlerRaises
    <2> USE <1>43 DEF HandlerRaises, HandlerStops, HandlerRuns, MaySwallow,
       Interrupted
    <2>1. (RequestOK /\ WorldOK /\ ReceiverOK /\ TimerOK)'
      OBVIOUS
    <2>2. (CancellationOK /\ GeneratorsOK /\ SenderOK)'
      OBVIOUS
    <2>3. RunOK'
      OBVIOUS
    <2>4. HistoryOK'
      <3>1. CASE UNCHANGED history
        BY <3>1
      <3>2. CASE Interrupted
        BY <3>2
      <3> QED BY <3>1, <3>2
    <2>5. (FrameOK /\ InFlight /\ Starting)'
      OBVIOUS
    <2> QED BY <2>1, <2>2, <2>3, <2>4, <2>5
  <1>44. CASE GeneratorEnds
    <2> USE <1>44 DEF GeneratorEnds, HandlerRuns, MaySwallow
    <2>1. (RequestOK /\ WorldOK /\ ReceiverOK /\ TimerOK)'
      OBVIOUS
    <2>2. (CancellationOK /\ GeneratorsOK /\ SenderOK)'
      OBVIOUS
    <2>3. (RunOK /\ HistoryOK)'
      OBVIOUS
    <2>4. (FrameOK /\ InFlight /\ Starting)'
      OBVIOUS
    <2> QED BY <2>1, <2>2, <2>3, <2>4
  <1>45. CASE GeneratorYields
    <2> USE <1>45 DEF GeneratorYields, HandlerRuns, MaySwallow, AfterYield
    <2>1. (RequestOK /\ WorldOK /\ ReceiverOK /\ TimerOK)'
      OBVIOUS
    <2>2. CancellationOK'
      OBVIOUS
    <2>3. GeneratorsOK'
      <3>1. gen' = "live" /\ requestStream' \in {"closed", requestStream}
        OBVIOUS
      <3>2. yielded' \in 0..MaxMessages
        BY BoundAssumption
      <3> QED BY <3>1, <3>2
    <2>4. SenderOK'
      OBVIOUS
    <2>5. (RunOK /\ HistoryOK)'
      OBVIOUS
    <2>6. (FrameOK /\ InFlight /\ Starting)'
      OBVIOUS
    <2> QED BY <2>1, <2>2, <2>3, <2>4, <2>5, <2>6
  <1>46. CASE ClientLeaves
    BY <1>46 DEF ClientLeaves
  <1>47. CASE ServerCancels
    <2> USE <1>47 DEF ServerCancels
    <2>1. (RequestOK /\ WorldOK /\ ReceiverOK /\ TimerOK)'
      OBVIOUS
    <2>2. (CancellationOK /\ GeneratorsOK /\ SenderOK)'
      OBVIOUS
    <2>3. (RunOK /\ HistoryOK)'
      OBVIOUS
    <2>4. (FrameOK /\ InFlight /\ Starting)'
      OBVIOUS
    <2> QED BY <2>1, <2>2, <2>3, <2>4
  <1>48. CASE WatchFails
    BY <1>48 DEF WatchFails
  <1>99. CASE UNCHANGED vars
    BY <1>99 DEF vars
  <1> QED
    BY <1>1, <1>2, <1>3, <1>4, <1>5, <1>6, <1>7, <1>8, <1>9, <1>10, <1>11,
       <1>12, <1>13, <1>14, <1>15, <1>16, <1>17, <1>18, <1>19, <1>20, <1>21,
       <1>22, <1>23, <1>24, <1>25, <1>26, <1>27, <1>28, <1>29, <1>30, <1>31,
       <1>32, <1>33, <1>34, <1>35, <1>36, <1>37, <1>38, <1>39, <1>40, <1>41,
       <1>42, <1>43, <1>44, <1>45, <1>46, <1>47, <1>48, <1>99 DEF Next,
       Progress, Unforced, Terminated

\* The request starts in TInv.
LEMMA TypeInit == Init => TInv
  <1> SUFFICES ASSUME Init PROVE TInv
    OBVIOUS
  <1>1. RequestOK
    BY DEF Init, RequestOK
  <1>2. /\ clientGone \in BOOLEAN /\ mustCancel \in BOOLEAN /\ swallowed \in BOOLEAN
        /\ runCancel \in BOOLEAN /\ sStarted \in BOOLEAN /\ sFailed \in BOOLEAN
        /\ hookTrouble \in BOOLEAN
    BY DEF Init
  <1>3. WorldOK
    <2>1. now = 0 /\ goneAt = NoTime /\ unread \in 0..MaxChunks
      BY BoundAssumption DEF Init
    <2> QED BY <1>2, <2>1, TimeAssumption DEF WorldOK
  <1>4. ReceiverOK /\ TimerOK
    <2>1. /\ bodyDone = FALSE /\ disconnected = FALSE /\ watch = "off"
          /\ scope = "entered" /\ when = NoTime
      BY DEF Init
    <2> QED BY <2>1 DEF ReceiverOK, TimerOK
  <1>5. CancellationOK /\ GeneratorsOK
    <2>1. cancels = 0 /\ gen = "none" /\ requestStream = "none" /\ yielded = 0
      BY DEF Init
    <2> QED BY <1>2, <2>1, BoundAssumption DEF CancellationOK, GeneratorsOK
  <1>6. RunOK /\ SenderOK
    <2>1. /\ started = <<>> /\ runErr = NoError /\ endSite = "in"
          /\ wire = <<>> /\ status = NoError
      BY DEF Init
    <2> QED BY <1>2, <2>1 DEF RunOK, SenderOK
  <1>7. HistoryOK
    <2>1. seen = [i \in 1..NHooks |-> <<>>] /\ interrupts = 0
      BY DEF Init
    <2> QED BY <1>2, <2>1, BoundAssumption DEF HistoryOK
  <1>8. FrameOK /\ InFlight /\ Starting
    <2>1. /\ pc = "route" /\ exc = NoError /\ error = NoError /\ leaving = NoError
          /\ responded = FALSE /\ result = NoError /\ started = <<>>
      BY DEF Init
    <2> QED BY <2>1 DEF FrameOK, CodePcs, InFlight, Raising, Starting
  <1> QED BY <1>1, <1>3, <1>4, <1>5, <1>6, <1>7, <1>8 DEF TInv, TypeOK

\* The inductive invariant of the types.
THEOREM TypeInvariant == Spec => []TInv
  BY TypeInit, TypeStep, PTL DEF Spec

\* Whatever the client, the hooks, the handler and the app server do, the
\* state of _handle_request stays well typed.
THEOREM TypeCorrect == Spec => []TypeOK
  <1>1. TInv => TypeOK
    BY DEF TInv
  <1> QED BY <1>1, TypeInvariant, PTL
=============================================================================
