-------------------------- MODULE HealthWatchProofs --------------------------
(***************************************************************************)
(* Proofs about HealthWatch, for any number of watches, setters, services, *)
(* statuses and calls of set_status: its types, the exactness of the table *)
(* of watches, that no wakeup is lost and that a watch never succeeds.     *)
(***************************************************************************)
EXTENDS HealthWatch, TLAPS

\* _watchers maps some services to non-empty sets of watches.
Table ==
    /\ DOMAIN watchers \subseteq Services
    /\ watchers \in [DOMAIN watchers -> (SUBSET Watches) \ {{}}]
\* The types of the other variables.
RestOK ==
    /\ statuses \in [Services -> Statuses \cup {NoStatus}]
    /\ callbacks \in [Setters -> SUBSET Watches]
    /\ service \in [Watches -> Services]
    /\ event \in [Watches -> BOOLEAN]
    /\ scheduled \in [Watches -> Nat]
    /\ read \in [Watches -> Statuses \cup {Unknown, NoStatus}]
    /\ last \in [Watches -> Statuses \cup {Unknown, NoStatus}]
    /\ pc \in [Watches -> Inside \cup {"new", "called", "started", "over"}]
ClockOK ==
    /\ sets \in [Setters -> 0..MaxSets]
    /\ now \in 0..MaxTime
    /\ endTime \in [Watches -> Nat \cup {NoTime}]
    /\ timeout \in [Watches -> Nat \cup {NoTime}]
    /\ deadline \in [Watches -> Nat \cup {NoTime}]
    /\ outcome \in [Watches -> {"none", "returned", "closed", "deadline", "ok"}]
TInv == Table /\ RestOK

\* The table's entries are open watches, and every open watch has its entry.
Entries ==
    \A w \in Watches : \A s \in DOMAIN watchers :
        w \in watchers[s] => pc[w] \in Inside /\ s = service[w]
Entered ==
    \A w \in Watches :
        pc[w] \in Inside => service[w] \in DOMAIN watchers /\ w \in watchers[service[w]]
RInv == Entries /\ Entered

\* Somebody is about to wake w, or has.
Wakeable(w) == event[w] \/ scheduled[w] > 0 \/ \E t \in Setters : w \in callbacks[t]
\* From its reset on a watch that is not about to be woken knows the status.
WInv ==
    \A w \in Watches :
        /\ pc[w] \in {"yielded", "wait"} =>
               last[w] = Watched(service[w]) \/ Wakeable(w)
        /\ pc[w] = "send" => read[w] = Watched(service[w]) \/ Wakeable(w)

\* A wait ends no earlier than its call's timeout, whatever time passed between
\* the arrival, the reading of the timeout and the generator's first step.
LateInv ==
    \A w \in Watches :
        /\ pc[w] \in {"new", "called"} => timeout[w] = NoTime
        /\ pc[w] \in {"new", "called", "started"} => deadline[w] = NoTime
        /\ timeout[w] # NoTime => endTime[w] # NoTime /\ now + timeout[w] >= endTime[w]
        /\ deadline[w] # NoTime => endTime[w] # NoTime /\ deadline[w] >= endTime[w]
        /\ outcome[w] = "returned" => deadline[w] # NoTime /\ now >= deadline[w]
        /\ outcome[w] # "ok"

\* Every step keeps the types.
LEMMA RestStep == TInv /\ [Next]_vars => RestOK'
  <1> SUFFICES ASSUME TInv, [Next]_vars PROVE RestOK'
    OBVIOUS
  <1> USE StatusAssumption, ActorAssumption DEF TInv, Table, RestOK, Watched,
     Inside, checker, setter, waiter, clock, Goto, Registered
  <1>1. ASSUME NEW t \in Setters, SetStatus(t) PROVE RestOK'
    BY <1>1 DEF SetStatus, ToNotify
  <1>2. ASSUME NEW t \in Setters, NEW w \in Watches, Notify(t, w) PROVE RestOK'
    <2>1. CASE w \in SyncWatches
      BY <1>2, <2>1 DEF Notify
    <2>2. CASE w \notin SyncWatches
      BY <1>2, <2>2 DEF Notify
    <2> QED BY <2>1, <2>2
  <1>3. ASSUME NEW w \in Watches, Arrive(w) PROVE RestOK'
    BY <1>3 DEF Arrive
  <1>4. ASSUME NEW w \in Watches, Call(w) PROVE RestOK'
    BY <1>4 DEF Call, Remaining
  <1>5. ASSUME NEW w \in Watches, Register(w) PROVE RestOK'
    BY <1>5 DEF Register
  <1>6. ASSUME NEW w \in Watches, Reset(w) PROVE RestOK'
    BY <1>6 DEF Reset
  <1>7. ASSUME NEW w \in Watches, Check(w) PROVE RestOK'
    BY <1>7 DEF Check
  <1>8. ASSUME NEW w \in Watches, SendOrSkip(w) PROVE RestOK'
    BY <1>8 DEF SendOrSkip
  <1>9. ASSUME NEW w \in Watches, Resume(w) PROVE RestOK'
    BY <1>9 DEF Resume, EventAtWait
  <1>10. ASSUME NEW w \in Watches, Wake(w) PROVE RestOK'
    BY <1>10 DEF Wake
  <1>11. ASSUME NEW w \in Watches, WaitEnds(w) PROVE RestOK'
    BY <1>11 DEF WaitEnds, AfterGenerator
  <1>12. ASSUME NEW w \in Watches, Close(w) PROVE RestOK'
    BY <1>12 DEF Close, AfterGenerator
  <1>13. ASSUME NEW w \in Watches, Deregister(w) PROVE RestOK'
    BY <1>13 DEF Deregister, WatchedWithout, Remaining
  <1>14. ASSUME NEW w \in Watches, LoopRuns(w) PROVE RestOK'
    BY <1>14 DEF LoopRuns
  <1>15. CASE Tick
    BY <1>15 DEF Tick
  <1>16. CASE UNCHANGED vars
    BY <1>16 DEF vars
  <1> QED BY <1>1, <1>2, <1>3, <1>4, <1>5, <1>6, <1>7, <1>8, <1>9, <1>10,
       <1>11, <1>12, <1>13, <1>14, <1>15, <1>16 DEF Next, Runs

\* Every step keeps the type of the table.
LEMMA TableStep == TInv /\ [Next]_vars => Table'
  <1> SUFFICES ASSUME TInv, [Next]_vars PROVE Table'
    OBVIOUS
  <1> USE DEF TInv, Table, RestOK, checker, setter, waiter, clock, Goto,
     Registered
  <1>1. ASSUME NEW t \in Setters, SetStatus(t) PROVE Table'
    BY <1>1 DEF SetStatus, ToNotify
  <1>2. ASSUME NEW t \in Setters, NEW w \in Watches, Notify(t, w) PROVE Table'
    BY <1>2 DEF Notify
  <1>3. ASSUME NEW w \in Watches, Arrive(w) PROVE Table'
    BY <1>3 DEF Arrive
  <1>4. ASSUME NEW w \in Watches, Call(w) PROVE Table'
    BY <1>4 DEF Call, Remaining
  <1>5. ASSUME NEW w \in Watches, Register(w) PROVE Table'
    <2>1. service[w] \in Services /\ Registered(service[w]) \subseteq Watches
      OBVIOUS
    <2>2. DOMAIN watchers' = DOMAIN watchers \cup {service[w]}
      BY <1>5 DEF Register
    <2>3. \A s \in DOMAIN watchers' :
            watchers'[s] =
              IF s = service[w] THEN Registered(s) \cup {w} ELSE watchers[s]
      BY <1>5, <2>2 DEF Register
    <2>4. \A s \in DOMAIN watchers' : watchers'[s] \in (SUBSET Watches) \ {{}}
      <3> SUFFICES ASSUME NEW s \in DOMAIN watchers'
                   PROVE  watchers'[s] \in (SUBSET Watches) \ {{}}
        OBVIOUS
      <3>1. CASE s = service[w]
        <4>1. watchers'[s] = Registered(s) \cup {w}
          BY <2>3, <3>1
        <4> HIDE DEF Registered, TInv
        <4>2. w \in watchers'[s] /\ watchers'[s] \in SUBSET Watches
          BY <2>1, <3>1, <4>1
        <4>3. watchers'[s] # {}
          BY <4>2
        <4> QED BY <4>2, <4>3
      <3>2. CASE s # service[w]
        <4>1. s \in DOMAIN watchers /\ watchers'[s] = watchers[s]
          BY <2>2, <2>3, <3>2
        <4>2. watchers[s] \in (SUBSET Watches) \ {{}}
          BY <4>1
        <4> QED BY <4>1, <4>2
      <3> QED BY <3>1, <3>2
    <2>5. watchers' = [s \in DOMAIN watchers' |-> watchers'[s]]
      BY <1>5 DEF Register
    <2> QED BY <2>1, <2>2, <2>4, <2>5
  <1>6. ASSUME NEW w \in Watches, Reset(w) PROVE Table'
    BY <1>6 DEF Reset
  <1>7. ASSUME NEW w \in Watches, Check(w) PROVE Table'
    BY <1>7 DEF Check
  <1>8. ASSUME NEW w \in Watches, SendOrSkip(w) PROVE Table'
    BY <1>8 DEF SendOrSkip
  <1>9. ASSUME NEW w \in Watches, Resume(w) PROVE Table'
    BY <1>9 DEF Resume, EventAtWait
  <1>10. ASSUME NEW w \in Watches, Wake(w) PROVE Table'
    BY <1>10 DEF Wake
  <1>11. ASSUME NEW w \in Watches, WaitEnds(w) PROVE Table'
    BY <1>11 DEF WaitEnds, AfterGenerator
  <1>12. ASSUME NEW w \in Watches, Close(w) PROVE Table'
    BY <1>12 DEF Close, AfterGenerator
  <1>13. ASSUME NEW w \in Watches, Deregister(w) PROVE Table'
    BY <1>13 DEF Deregister, WatchedWithout, Remaining
  <1>14. ASSUME NEW w \in Watches, LoopRuns(w) PROVE Table'
    BY <1>14 DEF LoopRuns
  <1>15. CASE Tick
    BY <1>15 DEF Tick
  <1>16. CASE UNCHANGED vars
    BY <1>16 DEF vars
  <1> QED BY <1>1, <1>2, <1>3, <1>4, <1>5, <1>6, <1>7, <1>8, <1>9, <1>10,
       <1>11, <1>12, <1>13, <1>14, <1>15, <1>16 DEF Next, Runs

\* Every step keeps the table exact.
LEMMA EntriesStep == TInv /\ RInv /\ [Next]_vars => RInv'
  <1> SUFFICES ASSUME TInv, RInv, [Next]_vars PROVE RInv'
    OBVIOUS
  <1> USE DEF TInv, RInv, Table, RestOK, Entries, Entered, Inside, checker,
     setter, waiter, clock, Goto, Registered
  <1>1. ASSUME NEW t \in Setters, SetStatus(t) PROVE RInv'
    BY <1>1 DEF SetStatus, ToNotify
  <1>2. ASSUME NEW t \in Setters, NEW w \in Watches, Notify(t, w) PROVE RInv'
    BY <1>2 DEF Notify
  <1>3. ASSUME NEW w \in Watches, Arrive(w) PROVE RInv'
    BY <1>3 DEF Arrive
  <1>4. ASSUME NEW w \in Watches, Call(w) PROVE RInv'
    BY <1>4 DEF Call, Remaining
  <1>5. ASSUME NEW w \in Watches, Register(w) PROVE RInv'
    BY <1>5 DEF Register
  <1>6. ASSUME NEW w \in Watches, Reset(w) PROVE RInv'
    BY <1>6 DEF Reset
  <1>7. ASSUME NEW w \in Watches, Check(w) PROVE RInv'
    BY <1>7 DEF Check
  <1>8. ASSUME NEW w \in Watches, SendOrSkip(w) PROVE RInv'
    BY <1>8 DEF SendOrSkip
  <1>9. ASSUME NEW w \in Watches, Resume(w) PROVE RInv'
    BY <1>9 DEF Resume, EventAtWait
  <1>10. ASSUME NEW w \in Watches, Wake(w) PROVE RInv'
    BY <1>10 DEF Wake
  <1>11. ASSUME NEW w \in Watches, WaitEnds(w) PROVE RInv'
    BY <1>11 DEF WaitEnds, AfterGenerator
  <1>12. ASSUME NEW w \in Watches, Close(w) PROVE RInv'
    BY <1>12 DEF Close, AfterGenerator
  <1>13. ASSUME NEW w \in Watches, Deregister(w) PROVE RInv'
    BY <1>13 DEF Deregister, WatchedWithout, Remaining
  <1>14. ASSUME NEW w \in Watches, LoopRuns(w) PROVE RInv'
    BY <1>14 DEF LoopRuns
  <1>15. CASE Tick
    BY <1>15 DEF Tick
  <1>16. CASE UNCHANGED vars
    BY <1>16 DEF vars
  <1> QED BY <1>1, <1>2, <1>3, <1>4, <1>5, <1>6, <1>7, <1>8, <1>9, <1>10,
       <1>11, <1>12, <1>13, <1>14, <1>15, <1>16 DEF Next, Runs

\* Every step keeps the watches wakeable.
LEMMA WakeStep == TInv /\ RInv /\ WInv /\ [Next]_vars => WInv'
  <1> SUFFICES ASSUME TInv, RInv, WInv, [Next]_vars PROVE WInv'
    OBVIOUS
  <1> USE DEF TInv, RInv, WInv, Wakeable, RestOK, Entered, Inside, Watched,
     checker, setter, waiter, clock, Goto, Registered
  <1>1. ASSUME NEW t \in Setters, SetStatus(t) PROVE WInv'
    BY <1>1 DEF SetStatus, ToNotify
  <1>2. ASSUME NEW t \in Setters, NEW w \in Watches, Notify(t, w) PROVE WInv'
    BY <1>2 DEF Notify
  <1>3. ASSUME NEW w \in Watches, Arrive(w) PROVE WInv'
    BY <1>3 DEF Arrive
  <1>4. ASSUME NEW w \in Watches, Call(w) PROVE WInv'
    BY <1>4 DEF Call, Remaining
  <1>5. ASSUME NEW w \in Watches, Register(w) PROVE WInv'
    BY <1>5 DEF Register
  <1>6. ASSUME NEW w \in Watches, Reset(w) PROVE WInv'
    BY <1>6 DEF Reset
  <1>7. ASSUME NEW w \in Watches, Check(w) PROVE WInv'
    BY <1>7 DEF Check
  <1>8. ASSUME NEW w \in Watches, SendOrSkip(w) PROVE WInv'
    BY <1>8 DEF SendOrSkip
  <1>9. ASSUME NEW w \in Watches, Resume(w) PROVE WInv'
    BY <1>9 DEF Resume, EventAtWait
  <1>10. ASSUME NEW w \in Watches, Wake(w) PROVE WInv'
    BY <1>10 DEF Wake
  <1>11. ASSUME NEW w \in Watches, WaitEnds(w) PROVE WInv'
    BY <1>11 DEF WaitEnds, AfterGenerator
  <1>12. ASSUME NEW w \in Watches, Close(w) PROVE WInv'
    BY <1>12 DEF Close, AfterGenerator
  <1>13. ASSUME NEW w \in Watches, Deregister(w) PROVE WInv'
    BY <1>13 DEF Deregister, WatchedWithout, Remaining
  <1>14. ASSUME NEW w \in Watches, LoopRuns(w) PROVE WInv'
    BY <1>14 DEF LoopRuns
  <1>15. CASE Tick
    BY <1>15 DEF Tick
  <1>16. CASE UNCHANGED vars
    BY <1>16 DEF vars
  <1> QED BY <1>1, <1>2, <1>3, <1>4, <1>5, <1>6, <1>7, <1>8, <1>9, <1>10,
       <1>11, <1>12, <1>13, <1>14, <1>15, <1>16 DEF Next, Runs

\* Every step keeps the types of clocks, counts and outcomes.
LEMMA ClockStep == TInv /\ ClockOK /\ [Next]_vars => ClockOK'
  <1> SUFFICES ASSUME TInv, ClockOK, [Next]_vars PROVE ClockOK'
    OBVIOUS
  <1> USE ClockAssumption DEF TInv, RestOK, ClockOK, Inside, checker, setter,
     waiter, clock, Goto, Registered
  <1>1. ASSUME NEW t \in Setters, SetStatus(t) PROVE ClockOK'
    BY <1>1 DEF SetStatus, ToNotify
  <1>2. ASSUME NEW t \in Setters, NEW w \in Watches, Notify(t, w) PROVE ClockOK'
    BY <1>2 DEF Notify
  <1>3. ASSUME NEW w \in Watches, Arrive(w) PROVE ClockOK'
    BY <1>3 DEF Arrive
  <1>4. ASSUME NEW w \in Watches, Call(w) PROVE ClockOK'
    BY <1>4 DEF Call, Remaining
  <1>5. ASSUME NEW w \in Watches, Register(w) PROVE ClockOK'
    BY <1>5 DEF Register
  <1>6. ASSUME NEW w \in Watches, Reset(w) PROVE ClockOK'
    BY <1>6 DEF Reset
  <1>7. ASSUME NEW w \in Watches, Check(w) PROVE ClockOK'
    BY <1>7 DEF Check
  <1>8. ASSUME NEW w \in Watches, SendOrSkip(w) PROVE ClockOK'
    BY <1>8 DEF SendOrSkip
  <1>9. ASSUME NEW w \in Watches, Resume(w) PROVE ClockOK'
    BY <1>9 DEF Resume, EventAtWait
  <1>10. ASSUME NEW w \in Watches, Wake(w) PROVE ClockOK'
    BY <1>10 DEF Wake
  <1>11. ASSUME NEW w \in Watches, WaitEnds(w) PROVE ClockOK'
    BY <1>11 DEF WaitEnds, AfterGenerator
  <1>12. ASSUME NEW w \in Watches, Close(w) PROVE ClockOK'
    BY <1>12 DEF Close, AfterGenerator
  <1>13. ASSUME NEW w \in Watches, Deregister(w) PROVE ClockOK'
    BY <1>13 DEF Deregister, WatchedWithout, Remaining
  <1>14. ASSUME NEW w \in Watches, LoopRuns(w) PROVE ClockOK'
    BY <1>14 DEF LoopRuns
  <1>15. CASE Tick
    BY <1>15 DEF Tick
  <1>16. CASE UNCHANGED vars
    BY <1>16 DEF vars
  <1> QED BY <1>1, <1>2, <1>3, <1>4, <1>5, <1>6, <1>7, <1>8, <1>9, <1>10,
       <1>11, <1>12, <1>13, <1>14, <1>15, <1>16 DEF Next, Runs

\* Every step keeps the ends late enough.
LEMMA LateStep == TInv /\ ClockOK /\ LateInv /\ [Next]_vars => LateInv'
  <1> SUFFICES ASSUME TInv, ClockOK, LateInv, [Next]_vars PROVE LateInv'
    OBVIOUS
  <1> USE ClockAssumption DEF TInv, RestOK, ClockOK, LateInv, Inside, checker, setter,
     waiter, clock, Goto, Registered
  <1>1. ASSUME NEW t \in Setters, SetStatus(t) PROVE LateInv'
    BY <1>1 DEF SetStatus, ToNotify
  <1>2. ASSUME NEW t \in Setters, NEW w \in Watches, Notify(t, w) PROVE LateInv'
    BY <1>2 DEF Notify
  <1>3. ASSUME NEW w \in Watches, Arrive(w) PROVE LateInv'
    BY <1>3 DEF Arrive
  <1>4. ASSUME NEW w \in Watches, Call(w) PROVE LateInv'
    BY <1>4 DEF Call, Remaining
  <1>5. ASSUME NEW w \in Watches, Register(w) PROVE LateInv'
    BY <1>5 DEF Register
  <1>6. ASSUME NEW w \in Watches, Reset(w) PROVE LateInv'
    BY <1>6 DEF Reset
  <1>7. ASSUME NEW w \in Watches, Check(w) PROVE LateInv'
    BY <1>7 DEF Check
  <1>8. ASSUME NEW w \in Watches, SendOrSkip(w) PROVE LateInv'
    BY <1>8 DEF SendOrSkip
  <1>9. ASSUME NEW w \in Watches, Resume(w) PROVE LateInv'
    BY <1>9 DEF Resume, EventAtWait
  <1>10. ASSUME NEW w \in Watches, Wake(w) PROVE LateInv'
    BY <1>10 DEF Wake
  <1>11. ASSUME NEW w \in Watches, WaitEnds(w) PROVE LateInv'
    BY <1>11 DEF WaitEnds, AfterGenerator, TimedOut
  <1>12. ASSUME NEW w \in Watches, Close(w) PROVE LateInv'
    BY <1>12 DEF Close, AfterGenerator
  <1>13. ASSUME NEW w \in Watches, Deregister(w) PROVE LateInv'
    BY <1>13 DEF Deregister, WatchedWithout, Remaining
  <1>14. ASSUME NEW w \in Watches, LoopRuns(w) PROVE LateInv'
    BY <1>14 DEF LoopRuns
  <1>15. CASE Tick
    BY <1>15 DEF Tick
  <1>16. CASE UNCHANGED vars
    BY <1>16 DEF vars
  <1> QED BY <1>1, <1>2, <1>3, <1>4, <1>5, <1>6, <1>7, <1>8, <1>9, <1>10,
       <1>11, <1>12, <1>13, <1>14, <1>15, <1>16 DEF Next, Runs

\* Before any call, nothing is registered.
LEMMA InvInit == Init => TInv /\ ClockOK /\ RInv /\ WInv /\ LateInv
  <1> SUFFICES ASSUME Init PROVE TInv /\ ClockOK /\ RInv /\ WInv /\ LateInv
    OBVIOUS
  <1>1. Table
    BY DEF Init, Table
  <1>2. RestOK
    BY StatusAssumption DEF Init, RestOK
  <1>3. ClockOK
    BY ClockAssumption DEF Init, ClockOK
  <1>4. RInv
    BY DEF Init, RInv, Entries, Entered, Inside
  <1>5. WInv
    BY DEF Init, WInv
  <1>6. LateInv
    BY DEF Init, LateInv
  <1> QED BY <1>1, <1>2, <1>3, <1>4, <1>5, <1>6 DEF TInv

\* The inductive invariant.
THEOREM Invariant == Spec => [](TInv /\ ClockOK /\ RInv /\ WInv /\ LateInv)
  <1>1. TInv /\ [Next]_vars => TInv'
    BY RestStep, TableStep DEF TInv
  <1> QED BY <1>1, InvInit, ClockStep, EntriesStep, WakeStep, LateStep, PTL DEF Spec

\* StaticChecker and its watches stay well typed; in particular _watchers
\* keeps no empty set.
THEOREM TypeCorrect == Spec => []TypeOK
  <1>1. TInv /\ ClockOK => TypeOK
    <2> SUFFICES ASSUME TInv, ClockOK PROVE TypeOK
      OBVIOUS
    <2>1. watchers \in UNION {[S -> (SUBSET Watches) \ {{}}] : S \in SUBSET Services}
      BY DEF TInv, Table
    <2> QED BY <2>1 DEF TInv, RestOK, ClockOK, TypeOK
  <1> QED BY <1>1, Invariant, PTL

\* _notify registers a watch for exactly as long as its generator runs.
THEOREM WatchersCorrect == Spec => []WatchersExact
  <1>1. RInv => WatchersExact
    BY DEF RInv, Entries, Entered, WatchersExact, Registered
  <1> QED BY <1>1, Invariant, PTL

\* reset, check and wait against set_status and its callbacks: a watch only
\* sleeps on the current status or with a wakeup on its way.
THEOREM WakeupCorrect == Spec => []NoLostWakeup
  <1>1. TInv /\ WInv => NoLostWakeup
    <2> SUFFICES ASSUME TInv, WInv, NEW w \in Watches, pc[w] = "wait", ~event[w],
                        scheduled[w] = 0, \A t \in Setters : w \notin callbacks[t]
                 PROVE  last[w] = Watched(service[w])
      BY DEF NoLostWakeup
    <2>1. ~(scheduled[w] > 0)
      OBVIOUS
    <2>2. ~Wakeable(w)
      BY <2>1 DEF Wakeable
    <2> QED BY <2>2 DEF WInv
  <1> QED BY <1>1, Invariant, PTL

\* A watch on a thread whose wait ends is past the timeout of its call, so the
\* server answers DEADLINE_EXCEEDED; no watch ends with success.
THEOREM WatchNeverSucceeds == Spec => []NeverSucceeds
  <1>1. LateInv => NeverSucceeds
    BY DEF LateInv, NeverSucceeds
  <1> QED BY <1>1, Invariant, PTL
=============================================================================
