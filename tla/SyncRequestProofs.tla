-------------------------- MODULE SyncRequestProofs --------------------------
(***************************************************************************)
(* Proofs about SyncRequest, for any number of hooks, messages and         *)
(* interrupts: its types, that hooks end once, in order and in time and    *)
(* see what the client sees, that there is one response, and that it is an *)
(* RPC to the client.                                                      *)
(***************************************************************************)
EXTENDS SyncRequest, SequenceTheorems, TLAPS

\* From where a call is made.
SiteInv ==
    /\ pc = "start" => site \in {"unary", "call", "first", "failed", "empty"}
    /\ pc = "drain" => site \in {"call", "failed", "stream"}
    /\ pc = "end" => site \in {"unary", "mid", "empty", "failed", "interrupted",
                               "stream"}

\* The hooks started are 1..k, in this order; only in on_start is one missing.
StartedInv ==
    /\ Len(started) <= NHooks
    /\ \A k \in DOMAIN started : started[k] = k
    /\ pc \in {"route", "on_start", "read", "handler"} => ~ended
    /\ pc = "route" => started = <<>>
    /\ pc = "on_start" => Len(started) < NHooks

\* Those still to end are the first of them; the others have seen one error.
HasEnded(i) == ended /\ Len(toEnd) < i /\ i <= Len(started)
SeenInv ==
    /\ Len(toEnd) <= Len(started)
    /\ \A k \in DOMAIN toEnd : toEnd[k] = k
    /\ ~ended => toEnd = <<>> /\ pc # "end"
    /\ toEnd # <<>> => pc = "end" \/ (pc = "over" /\ result = "interrupt")
    /\ \A i \in 1..NHooks : Len(seen[i]) = IF HasEnded(i) THEN 1 ELSE 0

\* No hook that started has still to end.
Settled == toEnd = <<>> /\ (ended \/ started = <<>>)

\* Where the hooks must be settled: no path to a status or to the end of the
\* request avoids end().
Due ==
    \/ pc \in {"encode", "last"}
    \/ pc \in {"start", "drain"} /\ site \in {"call", "unary", "failed"}
    \/ pc = "idle" /\ response \notin {"fresh", "open"}
    \/ pc = "over" /\ result # "interrupt" /\ ~Lost
SettledInv == Due => Settled

\* TypeOK is not inductive without the two others.
TypeInv == TypeOK /\ SiteInv /\ StartedInv

-----------------------------------------------------------------------------
(* Types *)

\* The bounds are numbers.
LEMMA Bounds == NHooks \in Nat /\ MaxMessages \in Nat /\ MaxInterrupts \in Nat
  BY BoundAssumption

\* The next hook to end, and the hooks that remain.
LEMMA Popped ==
    ASSUME RunOK, toEnd # <<>>
    PROVE  /\ Len(toEnd) \in Nat \ {0} /\ Hook \in 1..NHooks
           /\ Rest \in Seq(1..NHooks) /\ Len(Rest) = Len(toEnd) - 1
           /\ \A k \in 1..Len(Rest) : Rest[k] = toEnd[k]
  <1>1. toEnd \in Seq(1..NHooks)
    BY DEF RunOK
  <1>2. PICK n \in Nat \ {0} : Len(toEnd) = n
    BY <1>1, EmptySeq
  <1>3. \A k \in 1..n : toEnd[k] \in 1..NHooks
    BY <1>1, <1>2, ElementOfSeq
  <1>4. SubSeq(toEnd, 1, n - 1) \in Seq(1..NHooks)
    BY <1>1, <1>2, <1>3
  <1>5. Len(SubSeq(toEnd, 1, n - 1)) = n - 1
    BY <1>1, <1>2
  <1>6. \A k \in 1..(n - 1) : SubSeq(toEnd, 1, n - 1)[k] = toEnd[k]
    BY <1>1, <1>2
  <1> QED BY <1>2, <1>3, <1>4, <1>5, <1>6 DEF Hook, Rest

\* The initial state is typed.
LEMMA TypeInit == Init => TypeInv
  <1> SUFFICES ASSUME Init PROVE TypeInv
    OBVIOUS
  <1>1. RequestOK /\ ResponseOK /\ FrameOK
    BY DEF Init, RequestOK, ResponseOK, FrameOK, Pcs, Sites, Unary, NoError
  <1>2. started = <<>> /\ toEnd = <<>> /\ interrupts = 0
        /\ seen = [i \in 1..NHooks |-> <<>>]
    BY DEF Init
  <1>3. /\ started \in Seq(1..NHooks) /\ toEnd \in Seq(1..NHooks)
        /\ seen \in [1..NHooks -> Seq(Errors \cup {NoError})]
        /\ interrupts \in 0..MaxInterrupts
    BY <1>2, Bounds
  <1>4. RunOK
    BY <1>3 DEF Init, RunOK
  <1>5. SiteInv /\ StartedInv
    BY Bounds DEF Init, SiteInv, StartedInv
  <1> QED BY <1>1, <1>4, <1>5 DEF TypeInv, TypeOK

\* The steps other than a hook's, and what they may do to the hooks: nothing,
\* or call end().
Others ==
    \/ RouteFails \/ Route \/ OnStartRaises
    \/ ReadFails \/ Read \/ HandlerReturns \/ HandlerRaises
    \/ Ended
    \/ Encode \/ Start \/ StartFails
    \/ Drain \/ DrainFails \/ Last \/ LastFails
    \/ HandlerYields \/ HandlerEnds \/ GeneratorRaises
    \/ Write \/ WriteFails \/ Unwind \/ UnwindFails
    \/ ServerIterates \/ ServerFinishes \/ ServerCloses
Kept ==
    /\ UNCHANGED <<started, seen, hookTrouble>>
    /\ \/ UNCHANGED <<ended, toEnd>>
       \/ ended' = TRUE /\ toEnd' = ToEnd /\ pc' = "end"
    /\ pc' = "end" => ended' = TRUE \/ pc = "end"
    /\ pc # "over" /\ (pc = "end" => toEnd = <<>>)
NoneStarts ==
    /\ pc' # "route"
    /\ pc' = "on_start" => pc = "route" /\ 0 < NHooks
    /\ pc' \in {"read", "handler"} => pc \in {"route", "read", "handler"}

\* Those steps do no more.
LEMMA OthersKeep == SiteInv /\ Others => Kept /\ NoneStarts
  <1> SUFFICES ASSUME SiteInv, Others PROVE Kept /\ NoneStarts
    OBVIOUS
  <1> USE DEF request, run, history, server, handler, frame, Goto, EndHooks, Raise,
     Interrupt, RaiseInterrupt, RaiseToCall, Over, Errors, HandlerErrors, Passing,
     NoError, AfterStart, AfterUnary, AfterStreamError
  <1>1. CASE RouteFails \/ Route \/ OnStartRaises
    <2>1. Kept
      BY <1>1 DEF Kept, SiteInv, RouteFails, Route, OnStartRaises
    <2>2. NoneStarts
      BY <1>1 DEF NoneStarts, SiteInv, RouteFails, Route, OnStartRaises
    <2> QED BY <2>1, <2>2
  <1>2. CASE ReadFails \/ Read \/ HandlerReturns \/ HandlerRaises
    <2>1. Kept
      BY <1>2 DEF Kept, SiteInv, ReadFails, Read, HandlerReturns, HandlerRaises
    <2>2. NoneStarts
      BY <1>2 DEF NoneStarts, SiteInv, ReadFails, Read, HandlerReturns, HandlerRaises
    <2> QED BY <2>1, <2>2
  <1>3. CASE Ended
    <2>1. Kept
      BY <1>3 DEF Kept, SiteInv, Ended
    <2>2. NoneStarts
      BY <1>3 DEF NoneStarts, SiteInv, Ended
    <2> QED BY <2>1, <2>2
  <1>4. CASE Encode \/ Start \/ StartFails
    <2>1. Kept
      BY <1>4 DEF Kept, SiteInv, Encode, Start, StartFails
    <2>2. NoneStarts
      BY <1>4 DEF NoneStarts, SiteInv, Encode, Start, StartFails
    <2> QED BY <2>1, <2>2
  <1>5. CASE Drain \/ DrainFails \/ Last \/ LastFails
    <2>1. Kept
      BY <1>5 DEF Kept, SiteInv, Drain, DrainFails, Last, LastFails
    <2>2. NoneStarts
      BY <1>5 DEF NoneStarts, SiteInv, Drain, DrainFails, Last, LastFails
    <2> QED BY <2>1, <2>2
  <1>6. CASE HandlerYields \/ HandlerEnds \/ GeneratorRaises
    <2>1. Kept
      BY <1>6 DEF Kept, SiteInv, HandlerYields, HandlerEnds, GeneratorRaises
    <2>2. NoneStarts
      BY <1>6 DEF NoneStarts, SiteInv, HandlerYields, HandlerEnds, GeneratorRaises
    <2> QED BY <2>1, <2>2
  <1>7. CASE Write \/ WriteFails \/ Unwind \/ UnwindFails
    <2>1. Kept
      BY <1>7 DEF Kept, SiteInv, Write, WriteFails, Unwind, UnwindFails
    <2>2. NoneStarts
      BY <1>7 DEF NoneStarts, SiteInv, Write, WriteFails, Unwind, UnwindFails
    <2> QED BY <2>1, <2>2
  <1>8. CASE ServerIterates \/ ServerFinishes \/ ServerCloses
    <2>1. Kept
      BY <1>8 DEF Kept, SiteInv, ServerIterates, ServerFinishes, ServerCloses
    <2>2. NoneStarts
      BY <1>8 DEF NoneStarts, SiteInv, ServerIterates, ServerFinishes, ServerCloses
    <2> QED BY <2>1, <2>2
  <1> QED
    BY <1>1, <1>2, <1>3, <1>4, <1>5, <1>6, <1>7, <1>8 DEF Others

\* Those steps keep the types.
LEMMA OthersTyped ==
    ASSUME TypeInv, Others
    PROVE  /\ RequestOK' /\ ResponseOK' /\ FrameOK' /\ SiteInv'
           /\ interrupts' \in 0..MaxInterrupts
  <1> USE DEF request, run, history, server, handler, frame, Goto, EndHooks, Raise,
     Interrupt, RaiseInterrupt, RaiseToCall, Over, Errors, HandlerErrors, Passing,
     NoError, AfterStart, AfterUnary, AfterStreamError
  <1> USE Bounds DEF TypeInv, TypeOK
  <1>1. CASE RouteFails \/ Route \/ OnStartRaises
    <2> USE <1>1 DEF RouteFails, Route, OnStartRaises
    <2>1. RequestOK'
      BY DEF RequestOK, HandlerMayRead
    <2>2. ResponseOK'
      BY DEF ResponseOK, StatusOf, FrameOK, SiteInv
    <2>3. FrameOK'
      BY DEF FrameOK, SiteInv, Pcs, Sites, Unary
    <2>4. SiteInv'
      BY DEF SiteInv, Unary
    <2>5. interrupts' \in 0..MaxInterrupts
      <3>1. \/ interrupts' = interrupts
            \/ interrupts < MaxInterrupts /\ interrupts' = interrupts + 1
        OBVIOUS
      <3>2. interrupts \in 0..MaxInterrupts
        BY DEF RunOK
      <3> QED BY <3>1, <3>2
    <2> QED BY <2>1, <2>2, <2>3, <2>4, <2>5
  <1>2. CASE ReadFails \/ Read \/ HandlerReturns \/ HandlerRaises
    <2> USE <1>2 DEF ReadFails, Read, HandlerReturns, HandlerRaises
    <2>1. RequestOK'
      BY DEF RequestOK, HandlerMayRead
    <2>2. ResponseOK'
      BY DEF ResponseOK, StatusOf, FrameOK, SiteInv
    <2>3. FrameOK'
      BY DEF FrameOK, SiteInv, Pcs, Sites, Unary
    <2>4. SiteInv'
      BY DEF SiteInv, Unary
    <2>5. interrupts' \in 0..MaxInterrupts
      BY DEF RunOK
    <2> QED BY <2>1, <2>2, <2>3, <2>4, <2>5
  <1>3. CASE Ended
    <2> USE <1>3 DEF Ended
    <2>1. RequestOK'
      BY DEF RequestOK, HandlerMayRead
    <2>2. ResponseOK'
      BY DEF ResponseOK, StatusOf, FrameOK, SiteInv
    <2>3. FrameOK'
      BY DEF FrameOK, SiteInv, Pcs, Sites, Unary
    <2>4. SiteInv'
      BY DEF SiteInv, Unary
    <2>5. interrupts' \in 0..MaxInterrupts
      BY DEF RunOK
    <2> QED BY <2>1, <2>2, <2>3, <2>4, <2>5
  <1>4. CASE Encode \/ Start \/ StartFails
    <2> USE <1>4 DEF Encode, Start, StartFails
    <2>1. RequestOK'
      BY DEF RequestOK, HandlerMayRead
    <2>2. ResponseOK'
      BY DEF ResponseOK, StatusOf, FrameOK, SiteInv
    <2>3. FrameOK'
      BY DEF FrameOK, SiteInv, Pcs, Sites, Unary
    <2>4. SiteInv'
      BY DEF SiteInv, Unary
    <2>5. interrupts' \in 0..MaxInterrupts
      BY DEF RunOK
    <2> QED BY <2>1, <2>2, <2>3, <2>4, <2>5
  <1>5. CASE Drain \/ DrainFails \/ Last \/ LastFails
    <2> USE <1>5 DEF Drain, DrainFails, Last, LastFails
    <2>1. RequestOK'
      BY DEF RequestOK, HandlerMayRead
    <2>2. ResponseOK'
      BY DEF ResponseOK, StatusOf, FrameOK, SiteInv
    <2>3. FrameOK'
      BY DEF FrameOK, SiteInv, Pcs, Sites, Unary
    <2>4. SiteInv'
      BY DEF SiteInv, Unary
    <2>5. interrupts' \in 0..MaxInterrupts
      BY DEF RunOK
    <2> QED BY <2>1, <2>2, <2>3, <2>4, <2>5
  <1>6. CASE HandlerYields \/ HandlerEnds \/ GeneratorRaises
    <2> USE <1>6 DEF HandlerYields, HandlerEnds, GeneratorRaises
    <2>1. RequestOK'
      BY DEF RequestOK, HandlerMayRead
    <2>2. ResponseOK'
      BY DEF ResponseOK, StatusOf, FrameOK, SiteInv
    <2>3. FrameOK'
      BY DEF FrameOK, SiteInv, Pcs, Sites, Unary
    <2>4. SiteInv'
      BY DEF SiteInv, Unary
    <2>5. interrupts' \in 0..MaxInterrupts
      BY DEF RunOK
    <2> QED BY <2>1, <2>2, <2>3, <2>4, <2>5
  <1>7. CASE Write \/ WriteFails \/ Unwind \/ UnwindFails
    <2> USE <1>7 DEF Write, WriteFails, Unwind, UnwindFails
    <2>1. RequestOK'
      BY DEF RequestOK, HandlerMayRead
    <2>2. ResponseOK'
      BY DEF ResponseOK, StatusOf, FrameOK, SiteInv
    <2>3. FrameOK'
      BY DEF FrameOK, SiteInv, Pcs, Sites, Unary
    <2>4. SiteInv'
      BY DEF SiteInv, Unary
    <2>5. interrupts' \in 0..MaxInterrupts
      BY DEF RunOK
    <2> QED BY <2>1, <2>2, <2>3, <2>4, <2>5
  <1>8. CASE ServerIterates \/ ServerFinishes \/ ServerCloses
    <2> USE <1>8 DEF ServerIterates, ServerFinishes, ServerCloses
    <2>1. RequestOK'
      BY DEF RequestOK, HandlerMayRead
    <2>2. ResponseOK'
      BY DEF ResponseOK, StatusOf, FrameOK, SiteInv
    <2>3. FrameOK'
      BY DEF FrameOK, SiteInv, Pcs, Sites, Unary
    <2>4. SiteInv'
      BY DEF SiteInv, Unary
    <2>5. interrupts' \in 0..MaxInterrupts
      BY DEF RunOK
    <2> QED BY <2>1, <2>2, <2>3, <2>4, <2>5
  <1> QED
    BY <1>1, <1>2, <1>3, <1>4, <1>5, <1>6, <1>7, <1>8 DEF Others

\* A hook that starts is added to the others.
LEMMA StartTyped ==
    ASSUME TypeInv, OnStartReturns
    PROVE  /\ started' \in Seq(1..NHooks) /\ Len(started') = Len(started) + 1
           /\ UNCHANGED <<ended, toEnd, seen, hookTrouble, interrupts>>
           /\ TypeInv'
  <1>1. /\ started' = Append(started, Len(started) + 1)
        /\ pc = "on_start"
        /\ UNCHANGED <<ended, toEnd, seen, hookTrouble, interrupts>>
    BY DEF OnStartReturns, history
  <1>2. /\ started \in Seq(1..NHooks) /\ Len(started) \in Nat
        /\ Len(started) + 1 \in 1..NHooks
        /\ \A k \in 1..Len(started) : started[k] = k
    BY <1>1, Bounds DEF TypeInv, TypeOK, RunOK, StartedInv
  <1>3. ~ended
    BY <1>1 DEF TypeInv, StartedInv
  <1>4. started' \in Seq(1..NHooks) /\ Len(started') = Len(started) + 1
    BY <1>1, <1>2
  <1>5. \A k \in 1..Len(started') : started'[k] = k
    BY <1>1, <1>2
  <1>6. RunOK'
    BY <1>1, <1>4 DEF TypeInv, TypeOK, RunOK
  <1>7. /\ pc' \in {"on_start", "handler", "read"}
        /\ pc' = "on_start" => Len(started') < NHooks
    BY DEF OnStartReturns, AfterStart, Goto
  <1>8. StartedInv'
    <2>1. Len(started') <= NHooks
      BY <1>2, <1>4
    <2>2. \A k \in DOMAIN started' : started'[k] = k
      BY <1>4, <1>5
    <2> QED BY <1>1, <1>3, <1>7, <2>1, <2>2 DEF StartedInv
  <1>9. RequestOK' /\ ResponseOK'
    BY DEF OnStartReturns, TypeInv, TypeOK, RequestOK, ResponseOK, request, server,
       handler
  <1>10. FrameOK' /\ SiteInv'
    BY <1>7 DEF OnStartReturns, TypeInv, TypeOK, FrameOK, SiteInv, Pcs, Sites, Goto
  <1> QED BY <1>1, <1>4, <1>6, <1>8, <1>9, <1>10 DEF TypeInv, TypeOK

\* The steps of end()'s loop, and what they do to the hooks.
EndSteps == OnEndReturns \/ OnEndRaises \/ OnEndInterrupted

\* A hook that ends is taken from those that have still to.
LEMMA EndTyped ==
    ASSUME TypeInv, EndSteps
    PROVE  /\ toEnd # <<>> /\ toEnd' = Rest /\ pc = "end" /\ pc' \in {"end", "over"}
           /\ seen' = [seen EXCEPT ![Hook] = Append(@, error)]
           /\ UNCHANGED <<started, ended>>
           /\ TypeInv'
  <1> USE DEF EndSteps, OnEndReturns, OnEndRaises, OnEndInterrupted, OnEnd
  <1>1. /\ toEnd # <<>> /\ toEnd' = Rest /\ pc = "end" /\ pc' \in {"end", "over"}
        /\ seen' = [seen EXCEPT ![Hook] = Append(@, error)]
        /\ UNCHANGED <<started, ended>>
    BY DEF AfterHookError, Goto, Over
  <1>2. RunOK'
    <2>1. seen' \in [1..NHooks -> Seq(Errors \cup {NoError})]
      BY <1>1, Popped DEF TypeInv, TypeOK, RunOK, FrameOK
    <2>2. toEnd' \in Seq(1..NHooks)
      BY <1>1, Popped DEF TypeInv, TypeOK
    <2>3. interrupts' \in 0..MaxInterrupts
      BY Bounds DEF TypeInv, TypeOK, RunOK
    <2>4. hookTrouble' \in BOOLEAN
      BY DEF TypeInv, TypeOK, RunOK
    <2> QED BY <1>1, <2>1, <2>2, <2>3, <2>4 DEF TypeInv, TypeOK, RunOK
  <1>3. StartedInv'
    BY <1>1 DEF TypeInv, StartedInv
  <1>4. RequestOK' /\ ResponseOK'
    BY DEF TypeInv, TypeOK, RequestOK, ResponseOK, request, server, handler
  <1>5. FrameOK' /\ SiteInv'
    BY DEF TypeInv, TypeOK, FrameOK, SiteInv, Pcs, Sites, Goto, Over, Errors,
       Passing, NoError
  <1> QED BY <1>1, <1>2, <1>3, <1>4, <1>5 DEF TypeInv, TypeOK

\* Every step keeps the types.
LEMMA TypeStep == TypeInv /\ [Next]_vars => TypeInv'
  <1> SUFFICES ASSUME TypeInv, [Next]_vars PROVE TypeInv'
    OBVIOUS
  <1>1. CASE OnStartReturns
    BY <1>1, StartTyped
  <1>2. CASE EndSteps
    BY <1>2, EndTyped
  <1>3. CASE Others
    <2>1. RunOK'
      <3>1. ToEnd \in Seq(1..NHooks)
        <4>1. CASE ended
          BY <4>1 DEF ToEnd
        <4>2. CASE ~ended
          BY <4>2 DEF ToEnd, TypeInv, TypeOK, RunOK
        <4> QED BY <4>1, <4>2
      <3> QED BY <1>3, <3>1, OthersKeep, OthersTyped DEF Kept, TypeInv, TypeOK, RunOK
    <2>2. StartedInv'
      <3>1. /\ started' = started
            /\ ended' = ended \/ pc' = "end"
        BY <1>3, OthersKeep DEF Kept, TypeInv
      <3>2. pc' = "on_start" => Len(started') < NHooks
        BY <1>3, <3>1, OthersKeep DEF NoneStarts, TypeInv, StartedInv
      <3> QED BY <1>3, <3>1, <3>2, OthersKeep DEF NoneStarts, TypeInv, StartedInv
    <2> QED BY <1>3, <2>1, <2>2, OthersTyped DEF TypeInv, TypeOK
  <1>4. CASE UNCHANGED vars
    BY <1>4 DEF vars, request, run, history, server, handler, frame, TypeInv, TypeOK,
       RequestOK, RunOK, StartedInv, ResponseOK, FrameOK, SiteInv
  <1> QED
    BY <1>1, <1>2, <1>3, <1>4 DEF Next, Terminated, Others, EndSteps

\* Type correctness of a request to the WSGI application.
THEOREM TypeCorrect == Spec => []TypeOK
  <1>1. TypeInv => TypeOK
    BY DEF TypeInv
  <1> QED BY <1>1, TypeInit, TypeStep, PTL DEF Spec
-----------------------------------------------------------------------------
(* The hooks end once, in the reverse of the order they started in *)

\* A hook that ends is the last of those that have still to.
LEMMA SeenAtEnd ==
    ASSUME TypeInv, SeenInv, EndSteps PROVE SeenInv'
  <1>1. /\ toEnd # <<>> /\ toEnd' = Rest /\ pc = "end" /\ pc' \in {"end", "over"}
        /\ seen' = [seen EXCEPT ![Hook] = Append(@, error)]
        /\ UNCHANGED <<started, ended>>
    BY EndTyped
  <1>2. /\ Len(toEnd) \in Nat \ {0} /\ Hook \in 1..NHooks
        /\ Rest \in Seq(1..NHooks) /\ Len(Rest) = Len(toEnd) - 1
        /\ \A k \in 1..Len(Rest) : Rest[k] = toEnd[k]
    BY <1>1, Popped DEF TypeInv, TypeOK
  <1>3. /\ started \in Seq(1..NHooks) /\ toEnd \in Seq(1..NHooks)
        /\ seen \in [1..NHooks -> Seq(Errors \cup {NoError})]
        /\ error \in Errors \cup {NoError} /\ Len(started) \in Nat
    BY DEF TypeInv, TypeOK, RunOK, FrameOK
  <1>4. ended
    BY <1>1 DEF SeenInv
  <1>5. Hook = Len(toEnd)
    BY <1>2, <1>3 DEF SeenInv, Hook
  <1>6. /\ Len(toEnd') <= Len(started')
        /\ \A k \in DOMAIN toEnd' : toEnd'[k] = k
    <2>1. Len(toEnd) <= Len(started)
      BY DEF SeenInv
    <2>2. \A k \in 1..Len(toEnd) : toEnd[k] = k
      BY <1>3 DEF SeenInv
    <2> QED BY <1>1, <1>2, <1>3, <2>1, <2>2
  <1>7. ASSUME NEW i \in 1..NHooks
        PROVE  Len(seen'[i]) = IF HasEnded(i)' THEN 1 ELSE 0
    <2>1. Len(seen[i]) = IF HasEnded(i) THEN 1 ELSE 0
      BY DEF SeenInv
    <2>2. CASE i = Hook
      <3>1. ~HasEnded(i)
        BY <1>2, <1>5, <2>2 DEF HasEnded
      <3>2. HasEnded(i)'
        <4>1. Len(toEnd') < i /\ i <= Len(started')
          BY <1>1, <1>2, <1>3, <1>5, <2>2 DEF SeenInv
        <4> QED BY <1>1, <1>4, <4>1 DEF HasEnded
      <3>3. /\ seen'[i] = Append(seen[i], error)
            /\ seen[i] \in Seq(Errors \cup {NoError})
        BY <1>1, <1>3, <2>2
      <3>4. Len(seen'[i]) = Len(seen[i]) + 1
        BY <1>3, <3>3
      <3> QED BY <2>1, <3>1, <3>2, <3>4
    <2>3. CASE i # Hook
      <3>1. seen'[i] = seen[i]
        BY <1>1, <1>3, <2>3
      <3>2. Len(toEnd') < i <=> Len(toEnd) < i
        BY <1>1, <1>2, <1>5, <2>3
      <3>3. HasEnded(i)' <=> HasEnded(i)
        BY <1>1, <3>2 DEF HasEnded
      <3> QED BY <2>1, <3>1, <3>3
    <2> QED BY <2>2, <2>3
  <1>8. pc' = "end" \/ (pc' = "over" /\ result' = "interrupt")
    BY <1>1 DEF EndSteps, OnEndReturns, OnEndRaises, OnEndInterrupted, Over, Goto
  <1> QED BY <1>1, <1>4, <1>6, <1>7, <1>8 DEF SeenInv

\* Every step keeps the order.
LEMMA SeenStep == TypeInv /\ SeenInv /\ [Next]_vars => SeenInv'
  <1> SUFFICES ASSUME TypeInv, SeenInv, [Next]_vars PROVE SeenInv'
    OBVIOUS
  <1>1. CASE OnStartReturns
    <2>1. /\ pc = "on_start" /\ pc' # "end"
          /\ Len(started') = Len(started) + 1 /\ Len(started) \in Nat
          /\ UNCHANGED <<ended, toEnd, seen>>
      BY <1>1, StartTyped DEF OnStartReturns, Goto, AfterStart, TypeInv, TypeOK,
         RunOK
    <2>2. ~ended
      BY <2>1 DEF TypeInv, StartedInv
    <2>3. toEnd = <<>>
      BY <2>2 DEF SeenInv
    <2>4. \A i \in 1..NHooks : ~HasEnded(i) /\ ~HasEnded(i)'
      BY <2>1, <2>2 DEF HasEnded
    <2> QED BY <2>1, <2>3, <2>4 DEF SeenInv
  <1>2. CASE EndSteps
    BY <1>2, SeenAtEnd
  <1>3. CASE Others
    <2>1. Kept
      BY <1>3, OthersKeep DEF TypeInv
    <2>2. toEnd = <<>>
      BY <2>1 DEF Kept, SeenInv
    <2>3. CASE UNCHANGED <<ended, toEnd>>
      <3>1. \A i \in 1..NHooks : HasEnded(i)' <=> HasEnded(i)
        BY <2>1, <2>3 DEF Kept, HasEnded
      <3> QED BY <2>1, <2>2, <2>3, <3>1 DEF Kept, SeenInv
    <2>4. CASE ended /\ ended' = TRUE /\ toEnd' = ToEnd /\ pc' = "end"
      <3>1. toEnd' = toEnd
        BY <2>2, <2>4 DEF ToEnd
      <3>2. \A i \in 1..NHooks : HasEnded(i)' <=> HasEnded(i)
        BY <2>1, <2>4, <3>1 DEF Kept, HasEnded
      <3> QED BY <2>1, <2>2, <2>4, <3>1, <3>2 DEF Kept, SeenInv
    <2>5. CASE ~ended /\ ended' = TRUE /\ toEnd' = ToEnd /\ pc' = "end"
      <3>1. toEnd' = started /\ started' = started /\ seen' = seen
        BY <2>1, <2>5 DEF ToEnd, Kept
      <3>2. \A k \in DOMAIN started : started[k] = k
        BY DEF TypeInv, StartedInv
      <3>3. Len(started) \in Nat
        BY DEF TypeInv, TypeOK, RunOK
      <3>4. \A i \in 1..NHooks : ~HasEnded(i)
        BY <2>5 DEF HasEnded
      <3>5. \A i \in 1..NHooks : ~HasEnded(i)'
        <4>1. \A i \in 1..NHooks : ~(Len(toEnd') < i /\ i <= Len(started'))
          BY <3>1, <3>3
        <4> QED BY <4>1 DEF HasEnded
      <3>6. Len(toEnd') <= Len(started')
        BY <3>1, <3>3
      <3> QED BY <2>5, <3>1, <3>2, <3>4, <3>5, <3>6 DEF SeenInv
    <2> QED BY <2>1, <2>3, <2>4, <2>5 DEF Kept
  <1>4. CASE UNCHANGED vars
    BY <1>4 DEF vars, run, history, frame, SeenInv, HasEnded
  <1> QED
    BY <1>1, <1>2, <1>3, <1>4 DEF Next, Terminated, Others, EndSteps

\* No hook has ended at first.
LEMMA SeenInit == Init => SeenInv
  <1> SUFFICES ASSUME Init PROVE SeenInv
    OBVIOUS
  <1>1. /\ started = <<>> /\ toEnd = <<>> /\ pc = "route"
        /\ ended = FALSE /\ \A i \in 1..NHooks : seen[i] = <<>>
    BY DEF Init
  <1>2. \A i \in 1..NHooks : ~HasEnded(i)
    BY <1>1 DEF HasEnded
  <1> QED BY <1>1, <1>2 DEF SeenInv

\* MetadataInterceptorsRunSync: each on_end runs at most once, after those of all
\* hooks that started later, however often end() is called.
THEOREM UnwindCorrect == Spec => []HooksUnwindInOrder
  <1>1. TypeInv /\ SeenInv => HooksUnwindInOrder
    <2> SUFFICES ASSUME TypeInv, SeenInv, NEW i \in 1..NHooks, NEW j \in 1..NHooks
                 PROVE  /\ Len(seen[i]) <= 1
                        /\ i < j /\ seen[i] # <<>> => \A k \in DOMAIN started :
                              started[k] = j => seen[j] # <<>>
      BY DEF HooksUnwindInOrder
    <2>1. seen[i] \in Seq(Errors \cup {NoError}) /\ Len(started) \in Nat
          /\ DOMAIN started = 1..Len(started) /\ Len(toEnd) \in Nat
      BY DEF TypeInv, TypeOK, RunOK
    <2>2. /\ Len(seen[i]) = IF HasEnded(i) THEN 1 ELSE 0
          /\ Len(seen[j]) = IF HasEnded(j) THEN 1 ELSE 0
      BY DEF SeenInv
    <2>3. Len(seen[i]) <= 1
      BY <2>2
    <2>4. ASSUME i < j, seen[i] # <<>>, NEW k \in DOMAIN started, started[k] = j
          PROVE  seen[j] # <<>>
      <3>1. HasEnded(i)
        BY <2>1, <2>2, <2>4, EmptySeq
      <3>2. j \in 1..Len(started)
        BY <2>1, <2>4 DEF TypeInv, StartedInv
      <3>3. Len(toEnd) < j
        BY <2>1, <2>4, <3>1 DEF HasEnded
      <3>4. HasEnded(j)
        BY <3>1, <3>2, <3>3 DEF HasEnded
      <3>5. Len(seen[j]) = 1
        BY <2>2, <3>4
      <3> QED BY <3>5, EmptySeq
    <2> QED BY <2>3, <2>4
  <1> QED BY <1>1, TypeInit, TypeStep, SeenInit, SeenStep, PTL DEF Spec
-----------------------------------------------------------------------------
(* The hooks end in time *)

\* The other steps reach what is due only from where hooks are settled.
LEMMA SettledOthers ==
    ASSUME TypeInv, SeenInv, SettledInv, Others, Due' PROVE Settled'
  <1>1. Kept /\ toEnd = <<>>
    BY OthersKeep DEF TypeInv, Kept, SeenInv
  <1>2. pc' # "end"
    BY DEF Due
  <1>3. /\ UNCHANGED <<started, ended, toEnd>>
        /\ Settled' <=> Settled
    BY <1>1, <1>2 DEF Kept, Settled
  <1>4. ended => Settled
    BY <1>1 DEF Settled
  <1>5. pc = "end" \/ pc = "route" => Settled
    BY <1>1 DEF Settled, SeenInv, TypeInv, StartedInv
  <1>6. Lost' <=> (gen' = "closed" /\ ~ended) \/ response' = "fresh"
    BY <1>3 DEF Lost
  <1>7. Settled
    <2> USE <1>2, <1>4, <1>5, <1>6 DEF TypeInv, SiteInv, SettledInv, Due, request,
       run, history, server, handler, frame, Goto, EndHooks, Raise, Interrupt,
       RaiseInterrupt, RaiseToCall, Over, NoError, AfterStart, AfterUnary,
       AfterStreamError, Unary, Generator, ReadsStream
    <2>1. CASE RouteFails \/ Route \/ OnStartRaises
      BY <2>1 DEF RouteFails, Route, OnStartRaises
    <2>2. CASE ReadFails \/ Read \/ HandlerReturns \/ HandlerRaises
      BY <2>2 DEF ReadFails, Read, HandlerReturns, HandlerRaises
    <2>3. CASE Ended
      BY <2>3 DEF Ended
    <2>4. CASE Encode \/ Start \/ StartFails
      BY <2>4 DEF Encode, Start, StartFails
    <2>5. CASE Drain \/ DrainFails \/ Last \/ LastFails
      BY <2>5 DEF Drain, DrainFails, Last, LastFails
    <2>6. CASE HandlerYields \/ HandlerEnds \/ GeneratorRaises
      BY <2>6 DEF HandlerYields, HandlerEnds, GeneratorRaises
    <2>7. CASE Write \/ WriteFails \/ Unwind \/ UnwindFails
      BY <2>7 DEF Write, WriteFails, Unwind, UnwindFails
    <2>8. CASE ServerIterates \/ ServerFinishes \/ ServerCloses
      BY <2>8 DEF ServerIterates, ServerFinishes, ServerCloses
    <2> QED
      BY <2>1, <2>2, <2>3, <2>4, <2>5, <2>6, <2>7, <2>8 DEF Others
  <1> QED BY <1>3, <1>7

\* Every step keeps the hooks settled where they must be.
LEMMA SettledStep ==
    TypeInv /\ SeenInv /\ SettledInv /\ [Next]_vars => SettledInv'
  <1> SUFFICES ASSUME TypeInv, SeenInv, SettledInv, [Next]_vars, Due'
               PROVE  Settled'
    BY DEF SettledInv
  <1>1. CASE OnStartReturns
    BY <1>1 DEF OnStartReturns, AfterStart, Goto, Due
  <1>2. CASE EndSteps
    <2>1. pc' = "end" \/ (pc' = "over" /\ result' = "interrupt")
      BY <1>2, EndTyped DEF EndSteps, OnEndReturns, OnEndRaises,
         OnEndInterrupted, Over, Goto
    <2> QED BY <2>1 DEF Due
  <1>3. CASE Others
    BY <1>3, SettledOthers
  <1>4. CASE UNCHANGED vars
    BY <1>4 DEF vars, run, handler, frame, SettledInv, Due, Settled, Lost
  <1> QED
    BY <1>1, <1>2, <1>3, <1>4 DEF Next, Terminated, Others, EndSteps

\* MetadataInterceptorsRunSync: every hook that started has ended before a status
\* is written and when the request is over, but for the named exceptions.
THEOREM HooksEnd == Spec => []HooksAllEnd
  <1>1. Init => SettledInv
    BY DEF Init, SettledInv, Due
  <1>2. TypeInv /\ SeenInv /\ SettledInv => HooksAllEnd
    <2> SUFFICES ASSUME TypeInv, SeenInv, Settled, NEW k \in DOMAIN started
                 PROVE  seen[started[k]] # <<>>
      BY DEF HooksAllEnd, AllEnded, SettledInv, Due
    <2>1. /\ started \in Seq(1..NHooks) /\ Len(started) \in Nat
          /\ DOMAIN started = 1..Len(started)
      BY DEF TypeInv, TypeOK, RunOK
    <2>2. started # <<>> /\ started[k] = k /\ k \in 1..NHooks
      BY <2>1, Bounds DEF TypeInv, StartedInv
    <2>3. ended /\ Len(toEnd) = 0
      BY <2>2 DEF Settled
    <2>4. HasEnded(k)
      BY <2>1, <2>3 DEF HasEnded
    <2>5. Len(seen[k]) = 1
      BY <2>2, <2>4 DEF SeenInv
    <2>6. seen[k] # <<>>
      BY <2>5, EmptySeq
    <2> QED BY <2>2, <2>6
  <1> QED BY <1>1, <1>2, TypeInit, TypeStep, SeenInit, SeenStep, SettledStep,
      PTL DEF Spec

\* Both together, for any number of hooks, messages and interrupts.
THEOREM HooksAreCorrect == Spec => []HooksCorrect
  BY UnwindCorrect, HooksEnd, PTL DEF HooksCorrect

-----------------------------------------------------------------------------
(* Where the thread is, and whether there is an error to answer *)

StreamPcs == {"next", "write", "unwind"}

\* What a call is made for tells where it is made from.
PlaceInv ==
    /\ pc \in {"route", "on_start", "read", "handler", "first"} => site = "call"
    /\ pc = "encode" => site = "unary"
    /\ pc = "last" => site \in {"empty", "failed", "stream"}
    /\ pc \in StreamPcs => site = "stream"
    /\ pc = "idle" =>
          /\ site = "stream" <=> response \in {"open", "last"}
          /\ site = "first" <=> response = "fresh"
          /\ site \in {"call", "unary", "empty", "failed", "first", "stream"}
          /\ site = "unary" => headers = "success"
    /\ site = "unary" => Unary
    /\ site = "empty" => Generator
    /\ site = "mid" => ~Generator
    /\ pc \in {"route", "on_start", "read", "handler", "first"}
       \/ (pc = "end" /\ site = "mid") => yielded = 0
    /\ Unary => /\ site \in {"call", "unary"} /\ ~trailers
                /\ pc \notin {"first", "last"} \cup StreamPcs

\* Until here nothing has failed ...
Right ==
    \/ pc \in {"route", "on_start", "read", "handler", "first", "next", "write",
               "encode"}
    \/ pc = "start" /\ site \in {"unary", "first", "empty"}
    \/ pc = "idle" /\ (response \in {"fresh", "open"} \/ site = "unary")
    \/ ~hookTrouble /\ pc \in {"end", "last", "idle"} /\ site = "empty"
\* ... and from here something has.
Wrong ==
    \/ pc = "drain"
    \/ pc \in {"start", "idle"} /\ site = "call"
    \/ pc \in {"start", "end", "last", "idle"} /\ site = "failed"
    \/ pc = "end" /\ site = "interrupted"
    \/ exc # NoError
ErrorInv ==
    /\ Right => error = NoError
    /\ Wrong => error # NoError
    /\ exc # NoError => \/ pc \in {"unwind", "over"}
                        \/ pc = "end" /\ site \in {"unary", "interrupted", "stream"}
FlowInv == SiteInv /\ PlaceInv /\ ErrorInv

\* It holds at first.
LEMMA FlowInit == Init => FlowInv
  BY DEF Init, FlowInv, SiteInv, PlaceInv, ErrorInv, Right, Wrong, NoError, Unary,
     Generator, StreamPcs

\* Every step tells where it leads.
LEMMA PlaceStep ==
    FlowInv /\ [Next]_vars => PlaceInv'
  <1> SUFFICES ASSUME FlowInv, [Next]_vars
               PROVE  PlaceInv'
    OBVIOUS
  <1> USE DEF request, run, history, server, handler, frame, Goto, EndHooks, Raise,
     Interrupt, RaiseInterrupt, RaiseToCall, Over, NoError, AfterStart, AfterUnary,
     AfterStreamError, Errors, HandlerErrors, Unary, Generator, ReadsStream,
     FlowInv, SiteInv, PlaceInv, StreamPcs
  <1>1. CASE OnStartReturns
    BY <1>1 DEF OnStartReturns
  <1>2. CASE EndSteps
    BY <1>2 DEF EndSteps, OnEndReturns, OnEndRaises, OnEndInterrupted,
       OnEnd, AfterHookError
  <1>3. CASE RouteFails \/ Route \/ OnStartRaises
    BY <1>3 DEF RouteFails, Route, OnStartRaises
  <1>4. CASE ReadFails \/ Read \/ HandlerReturns \/ HandlerRaises
    BY <1>4 DEF ReadFails, Read, HandlerReturns, HandlerRaises
  <1>5. CASE Ended
    BY <1>5 DEF Ended
  <1>6. CASE Encode \/ Start \/ StartFails
    BY <1>6 DEF Encode, Start, StartFails
  <1>7. CASE Drain \/ DrainFails \/ Last \/ LastFails
    BY <1>7 DEF Drain, DrainFails, Last, LastFails
  <1>8. CASE HandlerYields \/ HandlerEnds \/ GeneratorRaises
    BY <1>8 DEF HandlerYields, HandlerEnds, GeneratorRaises
  <1>9. CASE Write \/ WriteFails \/ Unwind \/ UnwindFails
    BY <1>9 DEF Write, WriteFails, Unwind, UnwindFails
  <1>10. CASE ServerIterates \/ ServerFinishes \/ ServerCloses
    BY <1>10 DEF ServerIterates, ServerFinishes, ServerCloses
  <1>11. CASE UNCHANGED vars
    BY <1>11 DEF vars
  <1> QED
    BY <1>1, <1>2, <1>3, <1>4, <1>5, <1>6, <1>7, <1>8, <1>9, <1>10, <1>11
    DEF Next, Terminated, Others, EndSteps

\* Every step knows whether something failed.
LEMMA ErrorStep ==
    FlowInv /\ [Next]_vars => ErrorInv'
  <1> SUFFICES ASSUME FlowInv, [Next]_vars
               PROVE  ErrorInv'
    OBVIOUS
  <1> USE DEF request, run, history, server, handler, frame, Goto, EndHooks, Raise,
     Interrupt, RaiseInterrupt, RaiseToCall, Over, NoError, AfterStart, AfterUnary,
     AfterStreamError, Errors, HandlerErrors, Unary, Generator, ReadsStream,
     FlowInv, SiteInv, PlaceInv, StreamPcs, ErrorInv, Right, Wrong
  <1>1. CASE OnStartReturns
    BY <1>1 DEF OnStartReturns
  <1>2. CASE EndSteps
    BY <1>2 DEF EndSteps, OnEndReturns, OnEndRaises, OnEndInterrupted,
       OnEnd, AfterHookError
  <1>3. CASE RouteFails \/ Route \/ OnStartRaises
    BY <1>3 DEF RouteFails, Route, OnStartRaises
  <1>4. CASE ReadFails \/ Read \/ HandlerReturns \/ HandlerRaises
    BY <1>4 DEF ReadFails, Read, HandlerReturns, HandlerRaises
  <1>5. CASE Ended
    BY <1>5 DEF Ended
  <1>6. CASE Encode \/ Start \/ StartFails
    BY <1>6 DEF Encode, Start, StartFails
  <1>7. CASE Drain \/ DrainFails \/ Last \/ LastFails
    BY <1>7 DEF Drain, DrainFails, Last, LastFails
  <1>8. CASE HandlerYields \/ HandlerEnds \/ GeneratorRaises
    BY <1>8 DEF HandlerYields, HandlerEnds, GeneratorRaises
  <1>9. CASE Write \/ WriteFails \/ Unwind \/ UnwindFails
    BY <1>9 DEF Write, WriteFails, Unwind, UnwindFails
  <1>10. CASE ServerIterates \/ ServerFinishes \/ ServerCloses
    BY <1>10 DEF ServerIterates, ServerFinishes, ServerCloses
  <1>11. CASE UNCHANGED vars
    BY <1>11 DEF vars
  <1> QED
    BY <1>1, <1>2, <1>3, <1>4, <1>5, <1>6, <1>7, <1>8, <1>9, <1>10, <1>11
    DEF Next, Terminated, Others, EndSteps

\* Together they are inductive.
LEMMA FlowStep == TypeInv /\ FlowInv /\ [Next]_vars => FlowInv'
  BY TypeStep, PlaceStep, ErrorStep DEF FlowInv, TypeInv

-----------------------------------------------------------------------------
(* One response, and a connection fit for the next request *)

\* From a response that has begun no step leads to another, but when the gRPC
\* trailers fail.
BegunInv == headers # "none" /\ ~trailers =>
    \/ pc \in {"idle", "last", "over"} \/ site = "stream"
    \/ pc = "end" /\ site = "empty"

\* An error that is about to be answered was raised, and the body drained.
Answering ==
    \/ pc = "start" /\ site \in {"call", "failed"}
    \/ pc \in {"last", "idle"}
    \/ pc \in {"unwind", "end"} /\ site = "stream" /\ exc = NoError
    \/ Complete
DrainInv == Answering /\ http1 /\ ~hookTrouble /\ error # NoError => body = "read"

\* A status is the last thing the app server gets, and it tells the error.
DoneInv == Complete => pc = "over" /\ status = error /\ response \in {"list", "last"}

\* No step starts a second response.
LEMMA BegunStep ==
    FlowInv /\ BegunInv /\ [Next]_vars => BegunInv'
  <1> SUFFICES ASSUME FlowInv /\ BegunInv, [Next]_vars
               PROVE  BegunInv'
    OBVIOUS
  <1> USE DEF request, run, history, server, handler, frame, Goto, EndHooks, Raise,
     Interrupt, RaiseInterrupt, RaiseToCall, Over, NoError, AfterStart, AfterUnary,
     AfterStreamError, Errors, HandlerErrors, Unary, Generator, ReadsStream,
     FlowInv, SiteInv, PlaceInv, StreamPcs, ErrorInv, Right, Wrong, BegunInv
  <1>1. CASE OnStartReturns
    BY <1>1 DEF OnStartReturns
  <1>2. CASE EndSteps
    BY <1>2 DEF EndSteps, OnEndReturns, OnEndRaises, OnEndInterrupted,
       OnEnd, AfterHookError
  <1>3. CASE RouteFails \/ Route \/ OnStartRaises
    BY <1>3 DEF RouteFails, Route, OnStartRaises
  <1>4. CASE ReadFails \/ Read \/ HandlerReturns \/ HandlerRaises
    BY <1>4 DEF ReadFails, Read, HandlerReturns, HandlerRaises
  <1>5. CASE Ended
    BY <1>5 DEF Ended
  <1>6. CASE Encode \/ Start \/ StartFails
    BY <1>6 DEF Encode, Start, StartFails
  <1>7. CASE Drain \/ DrainFails \/ Last \/ LastFails
    BY <1>7 DEF Drain, DrainFails, Last, LastFails
  <1>8. CASE HandlerYields \/ HandlerEnds \/ GeneratorRaises
    BY <1>8 DEF HandlerYields, HandlerEnds, GeneratorRaises
  <1>9. CASE Write \/ WriteFails \/ Unwind \/ UnwindFails
    BY <1>9 DEF Write, WriteFails, Unwind, UnwindFails
  <1>10. CASE ServerIterates \/ ServerFinishes \/ ServerCloses
    BY <1>10 DEF ServerIterates, ServerFinishes, ServerCloses
  <1>11. CASE UNCHANGED vars
    BY <1>11 DEF vars
  <1> QED
    BY <1>1, <1>2, <1>3, <1>4, <1>5, <1>6, <1>7, <1>8, <1>9, <1>10, <1>11
    DEF Next, Terminated, Others, EndSteps

\* Only the last item writes a status.
LEMMA DoneStep ==
    FlowInv /\ DoneInv /\ [Next]_vars => DoneInv'
  <1> SUFFICES ASSUME FlowInv /\ DoneInv, [Next]_vars
               PROVE  DoneInv'
    OBVIOUS
  <1> USE DEF request, run, history, server, handler, frame, Goto, EndHooks, Raise,
     Interrupt, RaiseInterrupt, RaiseToCall, Over, NoError, AfterStart, AfterUnary,
     AfterStreamError, Errors, HandlerErrors, Unary, Generator, ReadsStream,
     FlowInv, SiteInv, PlaceInv, StreamPcs, ErrorInv, Right, Wrong,
     DoneInv, Complete, StatusOf
  <1>1. CASE OnStartReturns
    BY <1>1 DEF OnStartReturns
  <1>2. CASE EndSteps
    BY <1>2 DEF EndSteps, OnEndReturns, OnEndRaises, OnEndInterrupted,
       OnEnd, AfterHookError
  <1>3. CASE RouteFails \/ Route \/ OnStartRaises
    BY <1>3 DEF RouteFails, Route, OnStartRaises
  <1>4. CASE ReadFails \/ Read \/ HandlerReturns \/ HandlerRaises
    BY <1>4 DEF ReadFails, Read, HandlerReturns, HandlerRaises
  <1>5. CASE Ended
    BY <1>5 DEF Ended
  <1>6. CASE Encode \/ Start \/ StartFails
    BY <1>6 DEF Encode, Start, StartFails
  <1>7. CASE Drain \/ DrainFails \/ Last \/ LastFails
    BY <1>7 DEF Drain, DrainFails, Last, LastFails
  <1>8. CASE HandlerYields \/ HandlerEnds \/ GeneratorRaises
    BY <1>8 DEF HandlerYields, HandlerEnds, GeneratorRaises
  <1>9. CASE Write \/ WriteFails \/ Unwind \/ UnwindFails
    BY <1>9 DEF Write, WriteFails, Unwind, UnwindFails
  <1>10. CASE ServerIterates \/ ServerFinishes \/ ServerCloses
    BY <1>10 DEF ServerIterates, ServerFinishes, ServerCloses
  <1>11. CASE UNCHANGED vars
    BY <1>11 DEF vars
  <1> QED
    BY <1>1, <1>2, <1>3, <1>4, <1>5, <1>6, <1>7, <1>8, <1>9, <1>10, <1>11
    DEF Next, Terminated, Others, EndSteps

\* Every step to an answer finds the body drained.
LEMMA DrainStep ==
    FlowInv /\ DoneInv /\ DrainInv /\ [Next]_vars => DrainInv'
  <1> SUFFICES ASSUME FlowInv /\ DoneInv /\ DrainInv, [Next]_vars
               PROVE  DrainInv'
    OBVIOUS
  <1> USE DEF request, run, history, server, handler, frame, Goto, EndHooks, Raise,
     Interrupt, RaiseInterrupt, RaiseToCall, Over, NoError, AfterStart, AfterUnary,
     AfterStreamError, Errors, HandlerErrors, Unary, Generator, ReadsStream,
     FlowInv, SiteInv, PlaceInv, StreamPcs, ErrorInv, Right, Wrong,
     DoneInv, Complete, StatusOf, DrainInv, Answering, HandlerMayRead
  <1>1. CASE OnStartReturns
    BY <1>1 DEF OnStartReturns
  <1>2. CASE EndSteps
    BY <1>2 DEF EndSteps, OnEndReturns, OnEndRaises, OnEndInterrupted,
       OnEnd, AfterHookError
  <1>3. CASE RouteFails \/ Route \/ OnStartRaises
    BY <1>3 DEF RouteFails, Route, OnStartRaises
  <1>4. CASE ReadFails \/ Read \/ HandlerReturns \/ HandlerRaises
    BY <1>4 DEF ReadFails, Read, HandlerReturns, HandlerRaises
  <1>5. CASE Ended
    BY <1>5 DEF Ended
  <1>6. CASE Encode \/ Start \/ StartFails
    BY <1>6 DEF Encode, Start, StartFails
  <1>7. CASE Drain \/ DrainFails \/ Last \/ LastFails
    BY <1>7 DEF Drain, DrainFails, Last, LastFails
  <1>8. CASE HandlerYields \/ HandlerEnds \/ GeneratorRaises
    BY <1>8 DEF HandlerYields, HandlerEnds, GeneratorRaises
  <1>9. CASE Write \/ WriteFails \/ Unwind \/ UnwindFails
    BY <1>9 DEF Write, WriteFails, Unwind, UnwindFails
  <1>10. CASE ServerIterates \/ ServerFinishes \/ ServerCloses
    BY <1>10 DEF ServerIterates, ServerFinishes, ServerCloses
  <1>11. CASE UNCHANGED vars
    BY <1>11 DEF vars
  <1> QED
    BY <1>1, <1>2, <1>3, <1>4, <1>5, <1>6, <1>7, <1>8, <1>9, <1>10, <1>11
    DEF Next, Terminated, Others, EndSteps

\* ConnectWSGIApplication: start_response is called again only when the gRPC
\* trailers fail, and an error is answered over HTTP/1 when the body is read.
THEOREM ResponseIsCorrect == Spec => []ResponseCorrect
  <1>1. Init => BegunInv /\ DoneInv /\ DrainInv
    BY DEF Init, BegunInv, DoneInv, DrainInv, Answering, Complete
  <1>2. FlowInv /\ BegunInv /\ DoneInv /\ DrainInv => ResponseCorrect
    BY DEF FlowInv, SiteInv, BegunInv, DoneInv, DrainInv, Answering, Complete,
       ResponseCorrect, StartOnce, ErrorsDrainBody
  <1> QED BY <1>1, <1>2, TypeInit, TypeStep, FlowInit, FlowStep, BegunStep,
      DoneStep, DrainStep, PTL DEF Spec

-----------------------------------------------------------------------------
(* The hooks see what the client sees *)

\* A stream is under way: its hooks are still to end.
Streaming ==
    /\ Generator
    /\ \/ pc \in {"first"} \cup StreamPcs
       \/ pc = "drain" /\ site = "stream"
       \/ pc = "start" /\ site \in {"first", "empty"}
       \/ pc = "idle" /\ response \in {"fresh", "open"}
StreamInv ==
    /\ Streaming => ~ended
    /\ response = "last" => site = "stream" /\ pc \in {"idle", "over"}

\* A hook that saw an error was right, and one of a stream saw the error.
Told(i) ==
    seen[i] # <<>> /\ ~hookTrouble =>
        /\ seen[i][1] # NoError => error # NoError
        /\ Generator /\ site = "stream" => seen[i][1] = error
ToldInv == \A i \in 1..NHooks : Told(i)

\* A stream's hooks end with it.
LEMMA StreamStep ==
    TypeInv /\ FlowInv /\ StreamInv /\ [Next]_vars => StreamInv'
  <1> SUFFICES ASSUME TypeInv /\ FlowInv /\ StreamInv, [Next]_vars
               PROVE  StreamInv'
    OBVIOUS
  <1> USE DEF request, run, history, server, handler, frame, Goto, EndHooks, Raise,
     Interrupt, RaiseInterrupt, RaiseToCall, Over, NoError, AfterStart, AfterUnary,
     AfterStreamError, Errors, HandlerErrors, Unary, Generator, ReadsStream,
     FlowInv, SiteInv, PlaceInv, StreamPcs, ErrorInv, Right, Wrong,
     StreamInv, Streaming, TypeInv, StartedInv
  <1>1. CASE OnStartReturns
    BY <1>1 DEF OnStartReturns
  <1>2. CASE EndSteps
    BY <1>2 DEF EndSteps, OnEndReturns, OnEndRaises, OnEndInterrupted,
       OnEnd, AfterHookError
  <1>3. CASE RouteFails \/ Route \/ OnStartRaises
    BY <1>3 DEF RouteFails, Route, OnStartRaises
  <1>4. CASE ReadFails \/ Read \/ HandlerReturns \/ HandlerRaises
    BY <1>4 DEF ReadFails, Read, HandlerReturns, HandlerRaises
  <1>5. CASE Ended
    BY <1>5 DEF Ended
  <1>6. CASE Encode \/ Start \/ StartFails
    BY <1>6 DEF Encode, Start, StartFails
  <1>7. CASE Drain \/ DrainFails \/ Last \/ LastFails
    BY <1>7 DEF Drain, DrainFails, Last, LastFails
  <1>8. CASE HandlerYields \/ HandlerEnds \/ GeneratorRaises
    BY <1>8 DEF HandlerYields, HandlerEnds, GeneratorRaises
  <1>9. CASE Write \/ WriteFails \/ Unwind \/ UnwindFails
    BY <1>9 DEF Write, WriteFails, Unwind, UnwindFails
  <1>10. CASE ServerIterates \/ ServerFinishes \/ ServerCloses
    BY <1>10 DEF ServerIterates, ServerFinishes, ServerCloses
  <1>11. CASE UNCHANGED vars
    BY <1>11 DEF vars
  <1> QED
    BY <1>1, <1>2, <1>3, <1>4, <1>5, <1>6, <1>7, <1>8, <1>9, <1>10, <1>11
    DEF Next, Terminated, Others, EndSteps

\* Once the hooks have ended an error stays one, and a stream keeps its error.
LEMMA ErrorStays ==
    ASSUME FlowInv, StreamInv, Others, ended, ~hookTrouble
    PROVE  /\ error # NoError => error' # NoError
           /\ Generator' /\ site' = "stream" =>
                error' = error /\ Generator /\ site = "stream"
  <1> USE DEF request, run, history, server, handler, frame, Goto, EndHooks, Raise,
     Interrupt, RaiseInterrupt, RaiseToCall, Over, NoError, AfterStart, AfterUnary,
     AfterStreamError, Errors, HandlerErrors, Unary, Generator, ReadsStream,
     FlowInv, SiteInv, PlaceInv, StreamPcs, ErrorInv, Right, Wrong,
     StreamInv, Streaming
  <1>1. CASE RouteFails \/ Route \/ OnStartRaises
    BY <1>1 DEF RouteFails, Route, OnStartRaises
  <1>2. CASE ReadFails \/ Read \/ HandlerReturns \/ HandlerRaises
    BY <1>2 DEF ReadFails, Read, HandlerReturns, HandlerRaises
  <1>3. CASE Ended
    BY <1>3 DEF Ended
  <1>4. CASE Encode \/ Start \/ StartFails
    BY <1>4 DEF Encode, Start, StartFails
  <1>5. CASE Drain \/ DrainFails \/ Last \/ LastFails
    BY <1>5 DEF Drain, DrainFails, Last, LastFails
  <1>6. CASE HandlerYields \/ HandlerEnds \/ GeneratorRaises
    BY <1>6 DEF HandlerYields, HandlerEnds, GeneratorRaises
  <1>7. CASE Write \/ WriteFails \/ Unwind \/ UnwindFails
    BY <1>7 DEF Write, WriteFails, Unwind, UnwindFails
  <1>8. CASE ServerIterates \/ ServerFinishes \/ ServerCloses
    BY <1>8 DEF ServerIterates, ServerFinishes, ServerCloses
  <1> QED BY <1>1, <1>2, <1>3, <1>4, <1>5, <1>6, <1>7, <1>8 DEF Others

\* A hook that ends sees the error of the moment, and it is its only one.
LEMMA HookTold ==
    ASSUME TypeInv, SeenInv, ToldInv, EndSteps PROVE ToldInv'
  <1>1. /\ toEnd # <<>> /\ pc = "end" /\ ended
        /\ seen' = [seen EXCEPT ![Hook] = Append(@, error)]
    BY EndTyped DEF SeenInv
  <1>2. /\ toEnd \in Seq(1..NHooks) /\ error \in Errors \cup {NoError}
        /\ seen \in [1..NHooks -> Seq(Errors \cup {NoError})]
    BY DEF TypeInv, TypeOK, RunOK, FrameOK
  <1>3. Hook \in 1..NHooks /\ Len(toEnd) \in Nat \ {0}
    BY <1>1, Popped DEF TypeInv, TypeOK
  <1>4. Hook = Len(toEnd)
    BY <1>2, <1>3 DEF SeenInv, Hook
  <1>5. Len(seen[Hook]) = 0
    <2>1. ~HasEnded(Hook)
      BY <1>3, <1>4 DEF HasEnded
    <2> QED BY <1>3, <2>1 DEF SeenInv
  <1>6. seen'[Hook][1] = error
    <2>1. seen'[Hook] = Append(seen[Hook], error)
      BY <1>1, <1>2, <1>3
    <2>2. seen[Hook] \in Seq(Errors \cup {NoError})
      BY <1>2, <1>3
    <2> QED BY <1>2, <1>5, <2>1, <2>2
  <1>7. ~hookTrouble' =>
          ~hookTrouble /\ error' = error /\ site' = site /\ shape' = shape
    BY DEF EndSteps, OnEndReturns, OnEndRaises, OnEndInterrupted, OnEnd, request
  <1>8. \A i \in 1..NHooks : i # Hook => seen'[i] = seen[i]
    BY <1>1, <1>2
  <1> QED
    <2> SUFFICES ASSUME NEW i \in 1..NHooks PROVE Told(i)'
      BY DEF ToldInv
    <2>1. CASE i = Hook
      BY <1>6, <1>7, <2>1 DEF Told
    <2>2. CASE i # Hook
      BY <1>7, <1>8, <2>2 DEF Told, ToldInv, Generator
    <2> QED BY <2>1, <2>2

\* Every step keeps what the hooks saw true.
LEMMA ToldStep ==
    TypeInv /\ SeenInv /\ FlowInv /\ StreamInv /\ ToldInv /\ [Next]_vars => ToldInv'
  <1> SUFFICES ASSUME TypeInv, SeenInv, FlowInv, StreamInv, ToldInv, [Next]_vars
               PROVE  ToldInv'
    OBVIOUS
  <1>1. CASE OnStartReturns
    BY <1>1 DEF OnStartReturns, history, request, Goto, FlowInv, PlaceInv, ToldInv,
       Told, Generator
  <1>2. CASE EndSteps
    BY <1>2, HookTold
  <1>3. CASE Others
    <2>1. UNCHANGED <<seen, hookTrouble>>
      BY <1>3, OthersKeep DEF TypeInv, Kept
    <2> SUFFICES ASSUME NEW i \in 1..NHooks, seen[i] # <<>>, ~hookTrouble
                 PROVE  Told(i)'
      BY <2>1 DEF ToldInv, Told
    <2>2. ended
      <3>1. seen[i] \in Seq(Errors \cup {NoError})
        BY DEF TypeInv, TypeOK, RunOK
      <3>2. Len(seen[i]) # 0
        BY <3>1, EmptySeq
      <3> QED BY <3>2 DEF SeenInv, HasEnded
    <2>3. /\ error # NoError => error' # NoError
          /\ Generator' /\ site' = "stream" =>
               error' = error /\ Generator /\ site = "stream"
      BY <1>3, <2>2, ErrorStays
    <2> QED BY <2>1, <2>3 DEF ToldInv, Told
  <1>4. CASE UNCHANGED vars
    BY <1>4 DEF vars, request, history, frame, ToldInv, Told, Generator
  <1> QED
    BY <1>1, <1>2, <1>3, <1>4 DEF Next, Terminated, Others, EndSteps

\* MetadataInterceptorsRunSync: unless a hook raised, a client that gets a
\* success and a hook that is told of a failure exclude each other, and of a
\* stream that has begun the two get the same outcome.
THEOREM HooksSeeTruth == Spec => []HooksSeeOutcome
  <1>1. Init => DoneInv /\ StreamInv /\ ToldInv
    BY DEF Init, DoneInv, StreamInv, Streaming, StreamPcs, ToldInv, Told, Complete
  <1>2. DoneInv /\ StreamInv /\ ToldInv => HooksSeeOutcome
    BY DEF DoneInv, StreamInv, ToldInv, Told, HooksSeeOutcome
  <1> QED BY <1>1, <1>2, TypeInit, TypeStep, SeenInit, SeenStep, FlowInit, FlowStep,
      DoneStep, StreamStep, ToldStep, PTL DEF Spec
-----------------------------------------------------------------------------
(* The client sees an RPC *)

\* A single response is yielded once, and written once.
SingleInv == ~Generator =>
    /\ chunks <= yielded /\ yielded <= 1
    /\ Unary => yielded = 0
    /\ (pc = "start" /\ site = "first") \/ pc = "write"
          \/ (pc = "idle" /\ response = "fresh") => chunks = 0 /\ yielded = 1
    /\ pc = "next" \/ (pc = "idle" /\ response = "open") => chunks = 1
    /\ pc \in {"unwind", "end", "last", "idle"} /\ site = "stream" /\ error = NoError
       => chunks = 1

\* No step writes a second single response.
LEMMA SingleStep ==
    TypeInv /\ FlowInv /\ SingleInv /\ [Next]_vars => SingleInv'
  <1> SUFFICES ASSUME TypeInv /\ FlowInv /\ SingleInv, [Next]_vars
               PROVE  SingleInv'
    OBVIOUS
  <1> USE DEF request, run, history, server, handler, frame, Goto, EndHooks, Raise,
     Interrupt, RaiseInterrupt, RaiseToCall, Over, NoError, AfterStart, AfterUnary,
     AfterStreamError, Errors, HandlerErrors, Unary, Generator, ReadsStream,
     FlowInv, SiteInv, PlaceInv, StreamPcs, ErrorInv, Right, Wrong,
     SingleInv, TypeInv, TypeOK, ResponseOK
  <1>1. CASE OnStartReturns
    BY <1>1 DEF OnStartReturns
  <1>2. CASE EndSteps
    BY <1>2 DEF EndSteps, OnEndReturns, OnEndRaises, OnEndInterrupted,
       OnEnd, AfterHookError
  <1>3. CASE RouteFails \/ Route \/ OnStartRaises
    BY <1>3 DEF RouteFails, Route, OnStartRaises
  <1>4. CASE ReadFails \/ Read \/ HandlerReturns \/ HandlerRaises
    BY <1>4 DEF ReadFails, Read, HandlerReturns, HandlerRaises
  <1>5. CASE Ended
    BY <1>5 DEF Ended
  <1>6. CASE Encode \/ Start \/ StartFails
    BY <1>6 DEF Encode, Start, StartFails
  <1>7. CASE Drain \/ DrainFails \/ Last \/ LastFails
    BY <1>7 DEF Drain, DrainFails, Last, LastFails
  <1>8. CASE HandlerYields \/ HandlerEnds \/ GeneratorRaises
    BY <1>8 DEF HandlerYields, HandlerEnds, GeneratorRaises
  <1>9. CASE Write \/ WriteFails \/ Unwind \/ UnwindFails
    BY <1>9 DEF Write, WriteFails, Unwind, UnwindFails
  <1>10. CASE ServerIterates \/ ServerFinishes \/ ServerCloses
    BY <1>10 DEF ServerIterates, ServerFinishes, ServerCloses
  <1>11. CASE UNCHANGED vars
    BY <1>11 DEF vars
  <1> QED
    BY <1>1, <1>2, <1>3, <1>4, <1>5, <1>6, <1>7, <1>8, <1>9, <1>10, <1>11
    DEF Next, Terminated, Others, EndSteps

\* What a step may show the app server.
Shows ==
    \/ UNCHANGED <<headers, chunks, status>> /\ (pc = "over" => pc' = "over")
    \/ /\ pc = "start" /\ headers = "none" /\ pc' # "over"
       /\ headers' = IF site = "call" THEN "error" ELSE "success"
       /\ UNCHANGED <<chunks, status>>
    \/ /\ pc = "write" /\ pc' # "over"
       /\ chunks' = chunks + 1 /\ UNCHANGED <<headers, status>>
    \/ /\ pc = "idle" /\ response \in {"list", "last"} /\ pc' = "over"
       /\ status' = error /\ UNCHANGED <<headers, chunks>>

\* Every step shows it no more.
LEMMA ClientStep ==
    SiteInv /\ [Next]_vars => shape' = shape /\ Shows
  <1> SUFFICES ASSUME SiteInv, [Next]_vars PROVE shape' = shape /\ Shows
    OBVIOUS
  <1> USE DEF request, run, history, server, handler, frame, Goto, EndHooks, Raise,
     Interrupt, RaiseInterrupt, RaiseToCall, Over, NoError, AfterStart, AfterUnary,
     AfterStreamError, Shows, SiteInv, StatusOf
  <1>1. CASE OnStartReturns
    BY <1>1 DEF OnStartReturns
  <1>2. CASE EndSteps
    BY <1>2 DEF EndSteps, OnEndReturns, OnEndRaises, OnEndInterrupted,
       OnEnd, AfterHookError
  <1>3. CASE RouteFails \/ Route \/ OnStartRaises
    BY <1>3 DEF RouteFails, Route, OnStartRaises
  <1>4. CASE ReadFails \/ Read \/ HandlerReturns \/ HandlerRaises
    BY <1>4 DEF ReadFails, Read, HandlerReturns, HandlerRaises
  <1>5. CASE Ended
    BY <1>5 DEF Ended
  <1>6. CASE Encode \/ Start \/ StartFails
    BY <1>6 DEF Encode, Start, StartFails
  <1>7. CASE Drain \/ DrainFails \/ Last \/ LastFails
    BY <1>7 DEF Drain, DrainFails, Last, LastFails
  <1>8. CASE HandlerYields \/ HandlerEnds \/ GeneratorRaises
    BY <1>8 DEF HandlerYields, HandlerEnds, GeneratorRaises
  <1>9. CASE Write \/ WriteFails \/ Unwind \/ UnwindFails
    BY <1>9 DEF Write, WriteFails, Unwind, UnwindFails
  <1>10. CASE ServerIterates \/ ServerFinishes \/ ServerCloses
    BY <1>10 DEF ServerIterates, ServerFinishes, ServerCloses
  <1>11. CASE UNCHANGED vars
    BY <1>11 DEF vars
  <1> QED
    BY <1>1, <1>2, <1>3, <1>4, <1>5, <1>6, <1>7, <1>8, <1>9, <1>10, <1>11
    DEF Next, Terminated, Others, EndSteps

\* At first the client has nothing.
LEMMA ClientInit == Init => Client!RpcInit
  <1> SUFFICES ASSUME Init PROVE Client!RpcInit
    OBVIOUS
  <1>1. Replies = 0 /\ status = "pending" /\ pc # "over"
    BY DEF Init, Replies
  <1> QED BY <1>1 DEF Client!RpcInit, Complete, Generator

\* Every step gives the client a message or an outcome, or nothing.
LEMMA ClientNext ==
    TypeInv /\ FlowInv /\ BegunInv /\ DoneInv /\ SingleInv /\ [Next]_vars
        => [Client!RpcNext]_(Client!rpcVars)
  <1> SUFFICES ASSUME TypeInv, FlowInv, BegunInv, DoneInv, SingleInv, [Next]_vars
               PROVE  [Client!RpcNext]_(Client!rpcVars)
    OBVIOUS
  <1> DEFINE outcome == IF Complete THEN status
                        ELSE IF pc = "over" THEN "aborted" ELSE "pending"
  <1>1. shape' = shape /\ Shows
    BY ClientStep DEF FlowInv
  <1>2. chunks \in Nat /\ error \in Errors \cup {NoError}
    BY DEF TypeInv, TypeOK, ResponseOK, FrameOK
  <1>3. (Unary' <=> Unary) /\ (Generator' <=> Generator)
    BY <1>1 DEF Unary, Generator
  <1>4. /\ Replies = chunks + (IF Unary /\ headers = "success" THEN 1 ELSE 0)
        /\ Replies' = chunks' + (IF Unary /\ headers' = "success" THEN 1 ELSE 0)
    BY <1>3 DEF Replies
  <1>5. pc # "over" => ~Complete /\ outcome = "pending"
    BY DEF DoneInv
  <1>6. CASE UNCHANGED <<headers, chunks, status>> /\ (pc = "over" => pc' = "over")
    <2>1. Replies' = Replies /\ (Complete' <=> Complete)
      BY <1>4, <1>6 DEF Complete
    <2>2. CASE pc' = "over" /\ pc # "over"
      <3>1. Client!Fail
        BY <1>3, <1>5, <2>1, <2>2 DEF Client!Fail
      <3> QED BY <3>1 DEF Client!RpcNext
    <2>3. CASE ~(pc' = "over" /\ pc # "over")
      BY <1>3, <1>6, <2>1, <2>3 DEF Client!rpcVars
    <2> QED BY <2>2, <2>3
  <1>7. CASE /\ pc = "start" /\ headers = "none" /\ pc' # "over"
             /\ headers' = IF site = "call" THEN "error" ELSE "success"
             /\ UNCHANGED <<chunks, status>>
    <2>1. outcome = "pending" /\ outcome' = "pending"
      BY <1>5, <1>7 DEF Complete
    <2>2. CASE Unary /\ site # "call"
      <3>1. chunks = 0
        BY <1>2, <2>2 DEF SingleInv, Unary, Generator, TypeInv, TypeOK, ResponseOK
      <3>2. Client!Deliver
        BY <1>3, <1>4, <1>7, <2>1, <2>2, <3>1 DEF Client!Deliver
      <3> QED BY <3>2 DEF Client!RpcNext
    <2>3. CASE ~Unary \/ site = "call"
      <3>1. Replies' = Replies
        BY <1>4, <1>7, <2>3
      <3> QED BY <1>3, <2>1, <3>1 DEF Client!rpcVars
    <2> QED BY <2>2, <2>3
  <1>8. CASE /\ pc = "write" /\ pc' # "over"
             /\ chunks' = chunks + 1 /\ UNCHANGED <<headers, status>>
    <2>1. outcome = "pending" /\ outcome' = "pending"
      BY <1>5, <1>8 DEF Complete
    <2>2. ~Unary /\ (~Generator => chunks = 0)
      BY <1>8 DEF FlowInv, PlaceInv, StreamPcs, SingleInv
    <2>3. Client!Deliver
      BY <1>2, <1>3, <1>4, <1>8, <2>1, <2>2 DEF Client!Deliver
    <2> QED BY <2>3 DEF Client!RpcNext
  <1>9. CASE /\ pc = "idle" /\ response \in {"list", "last"} /\ pc' = "over"
             /\ status' = error /\ UNCHANGED <<headers, chunks>>
    <2>1. outcome = "pending" /\ outcome' = error
      BY <1>2, <1>5, <1>9 DEF Complete, Errors, HandlerErrors, NoError
    <2>2. Replies' = Replies
      BY <1>4, <1>9
    <2>3. CASE error = NoError
      <3>1. ~Generator => Replies = 1
        <4>1. site \in {"unary", "empty", "stream"}
          BY <1>9, <2>3 DEF FlowInv, PlaceInv, ErrorInv, Wrong
        <4>2. CASE site = "unary"
          <5>1. Unary /\ headers = "success"
            BY <1>9, <4>2 DEF FlowInv, PlaceInv
          <5>2. chunks = 0
            BY <1>2, <5>1 DEF SingleInv, Unary, Generator, TypeInv, TypeOK, ResponseOK
          <5> QED BY <1>4, <5>1, <5>2
        <4>3. CASE site = "empty"
          BY <4>3 DEF FlowInv, PlaceInv
        <4>4. CASE site = "stream"
          <5>1. ~Unary /\ (~Generator => chunks = 1)
            BY <1>9, <2>3, <4>4 DEF FlowInv, PlaceInv, SingleInv
          <5> QED BY <1>4, <5>1
        <4> QED BY <4>1, <4>2, <4>3, <4>4
      <3>2. Client!Succeed
        BY <1>3, <2>1, <2>2, <2>3, <3>1 DEF Client!Succeed
      <3> QED BY <3>2 DEF Client!RpcNext
    <2>4. CASE error # NoError
      <3>1. Client!Fail
        BY <1>2, <1>3, <2>1, <2>2, <2>4 DEF Client!Fail
      <3> QED BY <3>1 DEF Client!RpcNext
    <2> QED BY <2>3, <2>4
  <1> QED BY <1>1, <1>6, <1>7, <1>8, <1>9 DEF Shows

\* ConnectWSGIApplication: what the client sees of a request is an RPC, with a
\* single response exactly when a call with a single response succeeds.
THEOREM ClientSeesRpc == Spec => ImplementsRpc
  <1>1. Init => BegunInv /\ DoneInv /\ SingleInv
    BY DEF Init, BegunInv, DoneInv, SingleInv, Complete, NoError
  <1> QED
    BY <1>1, TypeInit, TypeStep, FlowInit, FlowStep, BegunStep, DoneStep, SingleStep,
       ClientInit, ClientNext, PTL DEF Spec, ImplementsRpc, Client!RpcSpec
=============================================================================
