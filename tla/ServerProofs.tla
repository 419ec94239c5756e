----------------------------- MODULE ServerProofs ------------------------------
(* Proofs about the loops of a server that share no state: a request under
   trio, the lifespan of the application, and a chain of interceptors. Each has
   an inductive invariant over its own variables. *)
EXTENDS ServerLoops, SequenceTheorems, WellFoundedInduction, TLAPS

(* A request under trio. *)

\* The types of the request.
TrioTypes ==
  /\ kind \in {"unary", "stream"}
  /\ deadline \in Nat \cup {Never} /\ when \in Nat \cup {Never} /\ now \in Nat
  /\ outer \in BOOLEAN /\ clientGone \in BOOLEAN /\ bodyDone \in BOOLEAN
  /\ disconnected \in BOOLEAN /\ watch \in {"waiting", "over"}
  /\ pc \in {"handler", "send", "close", "leave", "hooks", "scope", "final", "done"}
  /\ pend \in {"none", "App", "Gone", "SendError", "Cancelled", "Group"}
  /\ gen \in {"open", "closed"} /\ limit \in Nat \cup {Never}
  /\ error \in {"none", "App", "Gone", "SendError", "Timeout", "Canceled", "Interrupted"}
  /\ raised \in {"none", "App", "SendError", "Cancelled", "Group"}
  /\ own \in {"none", "returned", "App", "Group"}
  /\ cancelledAt \in Nat \cup {Never}

\* Once the app server has cancelled, time passes only in a shielded cleanup, of
\* which there are two, each with its limit.
CleanupInv ==
  /\ outer => cancelledAt \in Nat
  /\ limit # Never => /\ pc \in {"close", "final"}
                      /\ now <= limit /\ limit <= now + Cleanup
  /\ outer /\ pc \in {"handler", "send"} => now = cancelledAt
  /\ outer /\ pc = "close" /\ limit = Never => now = cancelledAt
  /\ outer /\ pc = "close" /\ limit # Never => limit <= cancelledAt + Cleanup
  /\ outer /\ pc \in {"leave", "hooks", "scope"} => now <= cancelledAt + Cleanup
  /\ outer /\ pc = "final" /\ limit = Never => now <= cancelledAt + 2 * Cleanup
  /\ outer /\ pc = "final" /\ limit # Never => limit <= cancelledAt + 2 * Cleanup

\* The scope's deadline is the request's, or was moved up by a disconnect.
WhenInv == when = deadline \/ (disconnected /\ when \in Nat /\ when <= now)

\* The exception in flight, place by place: a cancellation only when there was
\* something to cancel, nothing only when the handler returned or was cancelled,
\* an error of the handler until the hooks have noted it.
PendInv ==
  /\ pend = "Gone" \/ error = "Gone" => disconnected
  /\ pc \in {"handler", "send"} => pend = "none" /\ own = "none"
  /\ pc = "close" => pend \in {"Gone", "SendError", "Cancelled"} /\ own = "none"
  /\ IsCancellation(pend) => Cancelling
  /\ pc \notin {"scope", "final", "done"} => error = "none"
  /\ pc \notin {"final", "done"} =>
       error \in {"none", "App", "Gone", "SendError"} /\ raised = "none"
  /\ pc \in {"leave", "hooks"} =>
       /\ own = "App" /\ ~Cancelling => pend = "App"
       /\ pend = "none" /\ own # "returned" => Cancelling
  /\ pc = "scope" =>
       /\ own = "App" /\ ~Cancelling => error = "App" /\ pend = "none"
       /\ error = "none" /\ own # "returned" => Cancelling
       /\ pend \in {"none", "Cancelled", "Group"}
  /\ own = "Group" /\ pc \in {"leave", "hooks", "scope"} => pend = "Group"

\* What is open, place by place.
OpenInv ==
  /\ pc \in {"leave", "hooks", "scope", "final", "done"} => gen = "closed"
  /\ pc \in {"hooks", "scope", "final", "done"} => watch = "over"

\* The invariant of the request.
TrioInv == TrioTypes /\ CleanupInv /\ WhenInv /\ PendInv /\ OpenInv /\ HonestStatus

\* It holds when the handler is called.
LEMMA TrioInitInv == Init => TrioInv
<1> SUFFICES ASSUME Init PROVE TrioInv
  OBVIOUS
<1> USE TrioAssumption DEF Init
<1>1. TrioTypes
  BY DEF TrioTypes
<1>2. CleanupInv /\ WhenInv /\ OpenInv
  BY DEF CleanupInv, WhenInv, OpenInv
<1>3. PendInv
  BY DEF PendInv, IsCancellation
<1>4. HonestStatus
  BY DEF HonestStatus
<1> QED BY <1>1, <1>2, <1>3, <1>4 DEF TrioInv

\* The cases of leaving the scope exclude each other.
LEMMA LeaveScopeIs ==
  LeaveScope =>
    \/ /\ Swallows(pend)
       /\ error' = IF error = "none" THEN TimeoutStatus ELSE error
       /\ limit' = Never /\ UNCHANGED raised
    \/ /\ pend = "Group" /\ ~outer
       /\ error' = "Interrupted" /\ limit' = Never /\ raised' = "App"
    \/ /\ ~Swallows(pend) /\ IsCancellation(pend) /\ (pend = "Cancelled" \/ outer)
       /\ error' = "Canceled" /\ limit' = Limit(pend) /\ raised' = pend
    \/ /\ ~Swallows(pend) /\ (IsCancellation(pend) => pend # "Cancelled" /\ ~outer)
       /\ ~(pend = "Group" /\ ~outer)
       /\ UNCHANGED <<error, limit, raised>>
  BY Zenon DEF LeaveScope

\* Every step of a task, of the app server, of the client and of the clock keeps it.
LEMMA TrioStep == TrioInv /\ [Next]_vars => TrioInv'
<1> SUFFICES ASSUME TrioInv, [Next]_vars PROVE TrioInv'
  OBVIOUS
<1> USE TrioAssumption DEF TrioInv, IsCancellation, Expired, Cancelling
<1>1. ASSUME Tick PROVE TrioInv'
  <2> USE <1>1 DEF Tick, Interrupted, Cut, Shielded, clock, fixed, receiver
  <2>2. TrioTypes'
    BY DEF TrioTypes
  <2>3. CleanupInv'
    BY DEF TrioTypes, CleanupInv
  <2>4. WhenInv' /\ OpenInv'
    BY DEF TrioTypes, WhenInv, OpenInv
  <2>5. PendInv'
    BY DEF TrioTypes, PendInv, WhenInv
  <2>6. HonestStatus'
    BY DEF TrioTypes, PendInv, WhenInv, HonestStatus
  <2> QED BY <2>2, <2>3, <2>4, <2>5, <2>6
<1>2. ASSUME Disconnect PROVE TrioInv'
  <2> USE <1>2 DEF Disconnect, fixed, receiver
  <2>2. TrioTypes'
    BY DEF TrioTypes
  <2>3. CleanupInv'
    BY DEF TrioTypes, CleanupInv
  <2>4. WhenInv' /\ OpenInv'
    BY DEF TrioTypes, WhenInv, OpenInv
  <2>5. PendInv'
    BY DEF TrioTypes, PendInv, WhenInv
  <2>6. HonestStatus'
    BY DEF TrioTypes, PendInv, WhenInv, HonestStatus
  <2> QED BY <2>2, <2>3, <2>4, <2>5, <2>6
<1>3. ASSUME AppServerCancels PROVE TrioInv'
  <2> USE <1>3 DEF AppServerCancels, fixed, receiver
  <2>2. TrioTypes'
    BY DEF TrioTypes
  <2>3. CleanupInv'
    BY DEF TrioTypes, CleanupInv
  <2>4. WhenInv' /\ OpenInv'
    BY DEF TrioTypes, WhenInv, OpenInv
  <2>5. PendInv'
    BY DEF TrioTypes, PendInv, WhenInv
  <2>6. HonestStatus'
    BY DEF TrioTypes, PendInv, WhenInv, HonestStatus
  <2> QED BY <2>2, <2>3, <2>4, <2>5, <2>6
<1>4. ASSUME WatchReceives PROVE TrioInv'
  <2> USE <1>4 DEF WatchReceives, WatchDue, Reschedule, fixed, clock
  <2>1. when' \in {when, now} /\ disconnected' \in BOOLEAN
    BY DEF TrioTypes
  <2>2. TrioTypes'
    BY <2>1 DEF TrioTypes
  <2>3. CleanupInv'
    BY DEF TrioTypes, CleanupInv
  <2>4. WhenInv' /\ OpenInv'
    BY DEF TrioTypes, WhenInv, OpenInv
  <2>5. PendInv'
    BY DEF TrioTypes, PendInv, WhenInv
  <2>6. HonestStatus'
    BY DEF TrioTypes, PendInv, WhenInv, HonestStatus
  <2> QED BY <2>2, <2>3, <2>4, <2>5, <2>6
<1>5. ASSUME HandlerEnds PROVE TrioInv'
  <2> USE <1>5 DEF HandlerEnds, Body, fixed, clock, receiver
  <2>2. TrioTypes'
    BY DEF TrioTypes
  <2>3. CleanupInv'
    BY DEF TrioTypes, CleanupInv
  <2>4. WhenInv' /\ OpenInv'
    BY DEF TrioTypes, WhenInv, OpenInv
  <2>5. PendInv'
    BY DEF TrioTypes, PendInv, WhenInv
  <2>6. HonestStatus'
    BY DEF TrioTypes, PendInv, WhenInv, HonestStatus
  <2> QED BY <2>2, <2>3, <2>4, <2>5, <2>6
<1>6. ASSUME HandlerCancelled PROVE TrioInv'
  <2> USE <1>6 DEF HandlerCancelled, Body, fixed, clock, receiver
  <2>2. TrioTypes'
    BY DEF TrioTypes
  <2>3. CleanupInv'
    BY DEF TrioTypes, CleanupInv
  <2>4. WhenInv' /\ OpenInv'
    BY DEF TrioTypes, WhenInv, OpenInv
  <2>5. PendInv'
    BY DEF TrioTypes, PendInv, WhenInv
  <2>6. HonestStatus'
    BY DEF TrioTypes, PendInv, WhenInv, HonestStatus
  <2> QED BY <2>2, <2>3, <2>4, <2>5, <2>6
<1>7. ASSUME Yields PROVE TrioInv'
  <2> USE <1>7 DEF Yields, Body, fixed, clock, receiver
  <2>2. TrioTypes'
    BY DEF TrioTypes
  <2>3. CleanupInv'
    BY DEF TrioTypes, CleanupInv
  <2>4. WhenInv' /\ OpenInv'
    BY DEF TrioTypes, WhenInv, OpenInv
  <2>5. PendInv'
    BY DEF TrioTypes, PendInv, WhenInv
  <2>6. HonestStatus'
    BY DEF TrioTypes, PendInv, WhenInv, HonestStatus
  <2> QED BY <2>2, <2>3, <2>4, <2>5, <2>6
<1>8. ASSUME SendEnds PROVE TrioInv'
  <2> USE <1>8 DEF SendEnds, Limit, Body, fixed, clock, receiver
  <2>2. TrioTypes'
    BY DEF TrioTypes
  <2>3. CleanupInv'
    BY DEF TrioTypes, CleanupInv
  <2>4. WhenInv' /\ OpenInv'
    BY DEF TrioTypes, WhenInv, OpenInv
  <2>5. PendInv'
    BY DEF TrioTypes, PendInv, WhenInv
  <2>6. HonestStatus'
    BY DEF TrioTypes, PendInv, WhenInv, HonestStatus
  <2> QED BY <2>2, <2>3, <2>4, <2>5, <2>6
<1>9. ASSUME Close PROVE TrioInv'
  <2> USE <1>9 DEF Close, AfterClose, Cut, Shielded, Body, fixed, clock, receiver
  <2>2. TrioTypes'
    BY DEF TrioTypes
  <2>3. CleanupInv'
    BY DEF TrioTypes, CleanupInv
  <2>4. WhenInv' /\ OpenInv'
    BY DEF TrioTypes, WhenInv, OpenInv
  <2>5. PendInv'
    BY DEF TrioTypes, PendInv, WhenInv
  <2>6. HonestStatus'
    BY DEF TrioTypes, PendInv, WhenInv, HonestStatus
  <2> QED BY <2>2, <2>3, <2>4, <2>5, <2>6
<1>10. ASSUME LeaveNursery PROVE TrioInv'
  <2> USE <1>10 DEF LeaveNursery, AfterNursery, fixed, clock
  <2>2. TrioTypes'
    BY DEF TrioTypes
  <2>3. CleanupInv'
    BY DEF TrioTypes, CleanupInv
  <2>4. WhenInv' /\ OpenInv'
    BY DEF TrioTypes, WhenInv, OpenInv
  <2>5. PendInv'
    BY DEF TrioTypes, PendInv, WhenInv
  <2>6. HonestStatus'
    BY DEF TrioTypes, PendInv, WhenInv, HonestStatus
  <2> QED BY <2>2, <2>3, <2>4, <2>5, <2>6
<1>11. ASSUME HooksInScope PROVE TrioInv'
  <2> USE <1>11 DEF HooksInScope, fixed, clock, receiver
  <2>2. TrioTypes'
    BY DEF TrioTypes
  <2>3. CleanupInv'
    BY DEF TrioTypes, CleanupInv
  <2>4. WhenInv' /\ OpenInv'
    BY DEF TrioTypes, WhenInv, OpenInv
  <2>5. PendInv'
    BY DEF TrioTypes, PendInv, WhenInv
  <2>6. HonestStatus'
    BY DEF TrioTypes, PendInv, WhenInv, HonestStatus
  <2> QED BY <2>2, <2>3, <2>4, <2>5, <2>6
<1>12. ASSUME LeaveScope PROVE TrioInv'
  <2>0. pc = "scope" /\ pc' = "final" /\ pend' = "none"
        /\ UNCHANGED <<kind, deadline, bodyDone, now, outer, clientGone, cancelledAt,
                      disconnected, watch, when, gen, own>>
    BY <1>12 DEF LeaveScope, fixed, clock, receiver
  <2>1. \/ /\ Swallows(pend)
           /\ error' = IF error = "none" THEN TimeoutStatus ELSE error
           /\ limit' = Never /\ UNCHANGED raised
        \/ /\ pend = "Group" /\ ~outer
           /\ error' = "Interrupted" /\ limit' = Never /\ raised' = "App"
        \/ /\ ~Swallows(pend) /\ IsCancellation(pend) /\ (pend = "Cancelled" \/ outer)
           /\ error' = "Canceled" /\ limit' = Limit(pend) /\ raised' = pend
        \/ /\ ~Swallows(pend) /\ (IsCancellation(pend) => pend # "Cancelled" /\ ~outer)
           /\ ~(pend = "Group" /\ ~outer)
           /\ UNCHANGED <<error, limit, raised>>
    BY <1>12, LeaveScopeIs
  <2> USE <2>0, <2>1 DEF Swallows, TimeoutStatus, Limit
  <2>2. TrioTypes'
    BY DEF TrioTypes
  <2>3. CleanupInv'
    BY DEF TrioTypes, CleanupInv
  <2>4. WhenInv' /\ OpenInv'
    BY DEF TrioTypes, WhenInv, OpenInv
  <2>5. PendInv'
    BY DEF TrioTypes, PendInv, WhenInv
  <2>6. HonestStatus'
    BY DEF TrioTypes, PendInv, WhenInv, HonestStatus
  <2> QED BY <2>2, <2>3, <2>4, <2>5, <2>6
<1>13. ASSUME Finish PROVE TrioInv'
  <2> USE <1>13 DEF Finish, Shielded, fixed, clock, receiver
  <2>2. TrioTypes'
    BY DEF TrioTypes
  <2>3. CleanupInv'
    BY DEF TrioTypes, CleanupInv
  <2>4. WhenInv' /\ OpenInv'
    BY DEF TrioTypes, WhenInv, OpenInv
  <2>5. PendInv'
    BY DEF TrioTypes, PendInv, WhenInv
  <2>6. HonestStatus'
    BY DEF TrioTypes, PendInv, WhenInv, HonestStatus
  <2> QED BY <2>2, <2>3, <2>4, <2>5, <2>6
<1>14. ASSUME Done PROVE TrioInv'
  <2> USE <1>14 DEF Done, vars, fixed, clock, receiver
  <2>2. TrioTypes'
    BY DEF TrioTypes
  <2>3. CleanupInv'
    BY DEF TrioTypes, CleanupInv
  <2>4. WhenInv' /\ OpenInv'
    BY DEF TrioTypes, WhenInv, OpenInv
  <2>5. PendInv'
    BY DEF TrioTypes, PendInv, WhenInv
  <2>6. HonestStatus'
    BY DEF TrioTypes, PendInv, WhenInv, HonestStatus
  <2> QED BY <2>2, <2>3, <2>4, <2>5, <2>6
<1>15. CASE UNCHANGED vars
  <2> USE <1>15 DEF vars, fixed, clock, receiver
  <2>2. TrioTypes'
    BY DEF TrioTypes
  <2>3. CleanupInv'
    BY DEF TrioTypes, CleanupInv
  <2>4. WhenInv' /\ OpenInv'
    BY DEF TrioTypes, WhenInv, OpenInv
  <2>5. PendInv'
    BY DEF TrioTypes, PendInv, WhenInv
  <2>6. HonestStatus'
    BY DEF TrioTypes, PendInv, WhenInv, HonestStatus
  <2> QED BY <2>2, <2>3, <2>4, <2>5, <2>6
<1> QED
  BY <1>1, <1>2, <1>3, <1>4, <1>5, <1>6, <1>7, <1>8, <1>9, <1>10, <1>11, <1>12, <1>13,
     <1>14, <1>15 DEF Next, Step

\* The invariant says what is promised.
LEMMA TrioIs == TrioInv => TrioSafe
<1> SUFFICES ASSUME TrioInv PROVE BoundedCleanup /\ NothingLeft
  BY DEF TrioInv, TrioSafe
<1>1. BoundedCleanup
  BY TrioAssumption DEF TrioInv, TrioTypes, CleanupInv, BoundedCleanup
<1>2. NothingLeft
  BY DEF TrioInv, OpenInv, NothingLeft
<1> QED BY <1>1, <1>2

\* A cancelled request under trio delays the app server by at most twice the time of
\* a cleanup, its status says what happened, and nothing of it is left, for any
\* deadline, cleanup time and clock.
THEOREM TrioIsSafe == LoopsSpec => []TrioSafe
<1>1. LoopsInit => TrioInv
  BY TrioInitInv DEF LoopsInit
<1>2. TrioInv /\ [LoopsNext]_allVars => TrioInv'
  <2>1. [LoopsNext]_allVars => [Next]_vars
    BY DEF LoopsNext, LifespanRuns, ChainRuns, TrioRuns, allVars
  <2> QED BY <2>1, TrioStep
<1> QED BY <1>1, <1>2, TrioIs, PTL DEF LoopsSpec

-----------------------------------------------------------------------------
(* The application's lifespan. *)

\* What the app server knows at each place of a lifespan, and what the generator
\* is there.
LifespanInv ==
  /\ service \in {"instance", "generator"}
  /\ generator \in {"new", "yielded", "closed"} /\ endpoints \in BOOLEAN
  /\ iter \in BOOLEAN
  /\ service = "instance" => generator = "yielded"
  /\ \/ lifespanPc = "off" /\ server = "lifespan" /\ generator # "closed"
     \/ /\ lifespanPc = "off" /\ server = "plain"
        /\ endpoints => service = "instance"
     \/ lifespanPc = "receive" /\ server = "lifespan"
     \/ lifespanPc = "anext" /\ server = "starting" /\ iter /\ service = "generator"
     \/ /\ lifespanPc = "resolve" /\ server = "starting" /\ generator = "yielded"
        /\ iter = (service = "generator")
     \/ /\ lifespanPc = "receive" /\ server = "startup.complete" /\ endpoints
        /\ generator = "yielded" /\ iter = (service = "generator")
     \/ lifespanPc = "aclose" /\ server = "stopping" /\ service = "generator"
     \/ lifespanPc = "ended" /\ server = "startup.failed" /\ generator = "closed"
     \/ /\ lifespanPc = "ended" /\ server = "shutdown.complete"
        /\ service = "generator" => generator = "closed"
     \/ lifespanPc = "ended" /\ server = "raised" /\ generator = "yielded"
     \/ lifespanPc = "ended" /\ server \in {"cancelled", "shutdown.failed"}
  /\ served \in {"none", "yielded"}

\* Every step of _handle_lifespan, of the generator, of the app server and of requests
\* keeps it.
LEMMA LifespanStep == LifespanInv /\ [Lifespan!Next]_lifespanVars => LifespanInv'
<1> SUFFICES ASSUME LifespanInv, [Lifespan!Next]_lifespanVars PROVE LifespanInv'
  OBVIOUS
<1> USE DEF LifespanInv, Lifespan!Answer
<1>1. CASE Lifespan!Begin
  BY <1>1 DEF Lifespan!Begin
<1>2. CASE Lifespan!Startup
  BY <1>2 DEF Lifespan!Startup
<1>3. CASE Lifespan!Yields
  BY <1>3 DEF Lifespan!Yields
<1>4. CASE Lifespan!YieldsNot
  BY <1>4 DEF Lifespan!YieldsNot, Lifespan!StartupFails
<1>5. CASE Lifespan!Resolve
  BY <1>5 DEF Lifespan!Resolve
<1>6. CASE Lifespan!Shutdown
  BY <1>6 DEF Lifespan!Shutdown
<1>7. CASE Lifespan!Closes
  BY <1>7 DEF Lifespan!Closes
<1>8. CASE Lifespan!Cancelled
  BY <1>8 DEF Lifespan!Cancelled
<1>9. CASE Lifespan!Request
  BY <1>9 DEF Lifespan!Request, Lifespan!Requests, Lifespan!MayResolve
<1>10. CASE Lifespan!RequestFails
  BY <1>10 DEF Lifespan!RequestFails, Lifespan!vars
<1>11. CASE UNCHANGED lifespanVars
  BY <1>11 DEF lifespanVars
<1> QED
  BY <1>1, <1>2, <1>3, <1>4, <1>5, <1>6, <1>7, <1>8, <1>9, <1>10, <1>11
  DEF Lifespan!Next

\* The app server is told the truth about the lifespan and requests find a service,
\* for any number of lifespans.
THEOREM LifespanIsHonest == LoopsSpec => []LifespanHonest
<1>1. LoopsInit => LifespanInv
  BY DEF LoopsInit, Lifespan!Init, LifespanInv
<1>2. LifespanInv /\ [LoopsNext]_allVars => LifespanInv'
  <2>1. [LoopsNext]_allVars => [Lifespan!Next]_lifespanVars
    BY DEF LoopsNext, LifespanRuns, ChainRuns, TrioRuns, allVars
  <2> QED BY <2>1, LifespanStep
<1>3. LifespanInv => LifespanHonest
  BY DEF LifespanInv, LifespanHonest, Lifespan!LifespanHonest
<1> QED BY <1>1, <1>2, <1>3, PTL DEF LoopsSpec

-----------------------------------------------------------------------------
(* A chain of interceptors. *)

\* The layers that have hooks, what may be raised in them, and what an on_end leaves.
Metas == {i \in Chain!Layers : Chain!IsMetadata(i)}
Failed == {"App", "Cancelled"}
Record == [by : Chain!Layers, saw : {"none", "App", "Canceled", "Group"},
           raised : Failed \cup {"none"}]

\* The types of a chain; nothing but a throw or a raise carries an exception.
ChainTypes ==
  /\ mode \in {"unary", "stream"} /\ side \in {"client", "server"}
  /\ list \in Seq(Chain!Kinds) /\ Len(list) <= MaxInterceptors
  /\ at \in Chain!Layers \cup {Chain!Consumer, Chain!Handler}
  /\ op \in {"idle", "next", "throw", "close", "item", "stop", "raise", "closed", "end"}
  /\ err \in Failed \cup {"none", "Group"}
  /\ op \notin {"throw", "raise"} => err = "none"
  /\ layerGen \in [Chain!Places -> {"new", "suspended", "done"}]
  /\ phase \in [Chain!Places -> {"start", "inner", "throwing", "closing"}]
  /\ layerPend \in [Chain!Places -> Failed \cup {"none", "GeneratorExit", "Group"}]
  /\ sent \in Nat /\ entered \in Seq(Chain!Layers) /\ ended \in Seq(Record)
  /\ thrown \in BOOLEAN

\* The layers entered are the first of the chain, in order, and every layer around
\* the one that runs is among them.
EnteredInv ==
  /\ \A j, k \in DOMAIN entered : j < k => entered[j] < entered[k]
  /\ \A i \in Chain!Entered, j \in Chain!Layers : j < i => j \in Chain!Entered
  /\ \A i \in Chain!Layers : i < at => i \in Chain!Entered
  /\ sent > 0 => Chain!Layers \subseteq Chain!Entered

\* The hooks ended are the last of those that started, and none of them is around the
\* layer that runs.
EndedInv ==
  /\ Chain!Unwound
  /\ \A i \in Chain!Layers : i < at => i \notin Chain!Ended

\* The call is on its way in for the first time; or between two items, every layer and
\* the handler suspended; or on its way out, all inside it over.
HandlerRests == plain \/ layerGen[Chain!Handler] \in {"new", "done"}
Fresh ==
  /\ ended = <<>> /\ sent = 0 /\ layerGen[Chain!Handler] = "new"
  /\ \A i \in Chain!Layers : IF i < at THEN layerGen[i] = "suspended"
                             ELSE layerGen[i] = "new" /\ i \notin Chain!Entered
Alive ==
  /\ mode = "stream" /\ ended = <<>> /\ Chain!Layers \subseteq Chain!Entered
  /\ \A i \in Chain!Layers \cup {Chain!Handler} : layerGen[i] = "suspended"
InnerEnded == HandlerRests /\ \A i \in Chain!Started : i > at => i \in Chain!Ended

\* The layer that runs was entered and its hook has yet to end.
Here == at \in Chain!Layers => at \in Chain!Entered /\ at \notin Chain!Ended

\* An answer after which the layer it comes from is over.
Final == op \in {"stop", "raise", "closed"} \/ (op = "item" /\ mode = "unary")

\* Which of the three it is, by what is on its way.
PlaceInv ==
  \/ op = "idle" /\ at = Chain!Consumer /\ Fresh
  \/ op = "next" /\ at # Chain!Consumer /\ (Fresh \/ Alive)
  \/ op \in {"throw", "close"} /\ at # Chain!Consumer /\ Alive
  \/ op = "item" /\ at # Chain!Handler /\ Alive
  \/ Final /\ at # Chain!Handler /\ InnerEnded /\ Here
  \/ op = "end" /\ at \in Metas /\ InnerEnded /\ Here

\* A call of a unary method is neither thrown into nor closed.
ModeInv == mode = "unary" => \A i \in Chain!Places : phase[i] \in {"start", "inner"}

NestInv == EnteredInv /\ EndedInv /\ PlaceInv

\* No cancellation was thrown that a hook could see; a layer that one was thrown into
\* or that was closed; one that holds a cancellation, of which only the innermost may
\* have closed what is inside it.
Unstruck == thrown => Metas = {}
Closing(i) == phase[i] = "closing" /\ layerPend[i] = "GeneratorExit"
Throwing(i) == phase[i] = "throwing" /\ layerPend[i] = "Cancelled"
Struck(i) ==
  /\ layerPend[i] = "Cancelled"
  /\ phase[i] = "throwing" \/ (phase[i] = "closing" /\ \A j \in Metas : j <= i)

\* What the layers that wait, those around the one that runs, wait for: when the next
\* item is asked for; when an item is on its way, to whoever asked or out of a stream
\* that was thrown into; when a cancellation is on its way in, or a close.
Calm == Unstruck /\ \A i \in Metas : i \in Chain!Entered => phase[i] = "inner"
Yielded == Calm \/ \A i \in Metas : i <= at /\ Throwing(i)
Thrown ==
  err = "Cancelled" /\ \A i \in Metas : IF i < at THEN Throwing(i) ELSE phase[i] = "inner"
Closed ==
  \/ Unstruck /\ \A i \in Metas : IF i < at THEN Closing(i) ELSE phase[i] = "inner"
  \/ \A i \in Metas : i < at /\ Struck(i)

\* The same when a final answer is on its way out, and when on_end is about to run.
\* After a cancellation every hook that has ended left with an exception.
Answered ==
  \/ /\ Unstruck /\ err # "Group"
     /\ \/ \A i \in Metas : i <= at => phase[i] = "inner"
        \/ \A i \in Metas : i <= at => Closing(i)
  \/ /\ \A i \in Metas : i <= at => Struck(i)
     /\ err = "Group" => \A i \in Metas : i <= at => Throwing(i)
     /\ ended # <<>> => op = "raise" /\ err \in Failed
Unwinding ==
  /\ layerPend[at] # "Group"
  /\ \/ /\ Unstruck
        /\ \/ \A i \in Metas : i < at => phase[i] = "inner"
           \/ \A i \in Metas : i < at => Closing(i)
     \/ /\ \A i \in Metas : i < at => Struck(i)
        /\ layerPend[at] \in Failed

PhaseInv ==
  /\ op \in {"idle", "next"} => Calm
  /\ op = "item" /\ mode = "stream" => Yielded
  /\ op = "throw" => Thrown
  /\ op = "close" => Closed
  /\ Final => Answered
  /\ op = "end" => Unwinding

\* The hook that ended last, and what the one around it is to see.
Last == ended[Len(ended)]
Expected == IF Last.raised = "none" THEN Last.saw ELSE Chain!Reported(Last.raised)

\* Every on_end saw what the one before it left, and so will the next, or the consumer.
SawInv ==
  /\ \A k \in 2..Len(ended) :
       ended[k].saw = IF ended[k - 1].raised = "none"
                      THEN ended[k - 1].saw ELSE Chain!Reported(ended[k - 1].raised)
  /\ ended # <<>> =>
       /\ Final => /\ Chain!Reported(err) = Expected
                   /\ Last.raised # "none" => op = "raise" /\ err = Last.raised
       /\ op = "end" => Chain!Reported(layerPend[at]) = Expected

ChainInv == ChainTypes /\ NestInv /\ ModeInv /\ PhaseInv /\ SawInv

\* A set of numbers has a least one.
LEMMA Least ==
  ASSUME NEW T \in SUBSET Nat, T # {}
  PROVE  \E x \in T : \A y \in T : x <= y
<1> DEFINE R == OpToRel(<, Nat)
<1>1. IsWellFoundedOn(R, Nat)
  BY NatLessThanWellFounded
<1>2. \A x, y \in Nat : y < x => <<y, x>> \in R
  BY DEF OpToRel
<1> HIDE DEF R
<1>3. PICK x \in T : \A y \in T : ~(<<y, x>> \in R)
  BY <1>1, WFMin
<1>4. ASSUME NEW y \in T PROVE x <= y
  <2>1. x \in Nat /\ y \in Nat
    OBVIOUS
  <2>2. ~(y < x)
    BY <1>2, <1>3, <2>1
  <2> QED BY <2>1, <2>2
<1> QED BY <1>4

\* A bounded set of numbers has a greatest one.
LEMMA Greatest ==
  ASSUME NEW n \in Nat, NEW T \in SUBSET (0..n), T # {}
  PROVE  \E x \in T : \A y \in T : y <= x
<1> DEFINE U == {k \in 0..n : n - k \in T}
<1>1. U \in SUBSET Nat /\ U # {}
  <2>1. PICK x \in T : TRUE
    OBVIOUS
  <2>2. n - x \in U
    OBVIOUS
  <2>3. U \subseteq Nat
    OBVIOUS
  <2> HIDE DEF U
  <2> QED BY <2>2, <2>3
<1>2. PICK u \in U : \A v \in U : u <= v
  BY <1>1, Least
<1>3. PICK x \in T : u = n - x /\ x = n - u
  OBVIOUS
<1>4. ASSUME NEW y \in T PROVE y <= x
  <2>1. n - y \in U
    OBVIOUS
  <2> QED BY <1>2, <1>3, <2>1
<1> QED BY <1>4

\* The places of a chain.
LEMMA Shape ==
  ASSUME ChainTypes
  PROVE  /\ Len(list) \in Nat /\ Chain!Layers \subseteq 1..Len(list)
         /\ Chain!Handler = Len(list) + 1 /\ Chain!Consumer = 0
         /\ Chain!Handler \in Chain!Places /\ Chain!Layers \subseteq Chain!Places
         /\ Metas \subseteq Chain!Layers /\ at \in 0..(Len(list) + 1)
<1>1. Len(list) \in Nat /\ Len(list) <= MaxInterceptors /\ MaxInterceptors \in Nat
  BY ChainAssumption DEF ChainTypes
<1>2. Chain!Layers \subseteq 1..Len(list) /\ Metas \subseteq Chain!Layers
  BY DEF Chain!Layers, Chain!Applied, Metas
<1> QED BY <1>1, <1>2
  DEF ChainTypes, Chain!Handler, Chain!Consumer, Chain!Places

\* Which of the layers are around the one inside another.
LEMMA InsideIs ==
  ASSUME ChainTypes, at # Chain!Handler
  PROVE  /\ Chain!Inside(at) \in Chain!Layers \cup {Chain!Handler}
         /\ Chain!Inside(at) > at /\ Chain!Inside(at) # Chain!Consumer
         /\ \A j \in Chain!Layers : j < Chain!Inside(at) <=> j <= at
<1> DEFINE T == {k \in Chain!Layers \cup {Chain!Handler} : k > at}
<1>1. T \in SUBSET Nat /\ Chain!Handler \in T
  BY Shape DEF ChainTypes
<1>2. PICK x \in T : \A y \in T : x <= y
  BY <1>1, Least
<1>3. x > at /\ \A j \in Chain!Layers : j > at => x <= j
  BY <1>2
<1> DEFINE P(k) == k > at /\ \A j \in Chain!Layers : j > at => k <= j
<1>4. Chain!Inside(at) = CHOOSE k \in Chain!Layers \cup {Chain!Handler} : P(k)
  BY DEF Chain!Inside
<1>5. \E k \in Chain!Layers \cup {Chain!Handler} : P(k)
  BY <1>3
<1>6. Chain!Inside(at) \in Chain!Layers \cup {Chain!Handler} /\ P(Chain!Inside(at))
  <2> HIDE DEF P
  <2> QED BY <1>4, <1>5
<1>7. Chain!Inside(at) \in Nat /\ at \in Nat /\ Chain!Layers \subseteq Nat
  BY <1>6, Shape
<1> QED BY <1>6, <1>7, Shape

\* Which of them are around the one outside another.
LEMMA OutsideIs ==
  ASSUME ChainTypes, at # Chain!Consumer
  PROVE  /\ Chain!Outside(at) \in Chain!Layers \cup {Chain!Consumer}
         /\ Chain!Outside(at) < at /\ Chain!Outside(at) # Chain!Handler
         /\ \A j \in Chain!Layers : j <= Chain!Outside(at) <=> j < at
<1> DEFINE T == {k \in Chain!Layers \cup {Chain!Consumer} : k < at}
<1>1. T \in SUBSET (0..Len(list)) /\ Chain!Consumer \in T
  BY Shape
<1>2. PICK x \in T : \A y \in T : y <= x
  BY <1>1, Shape, Greatest
<1>3. x < at /\ \A j \in Chain!Layers : j < at => j <= x
  BY <1>2
<1> DEFINE P(k) == k < at /\ \A j \in Chain!Layers : j < at => j <= k
<1>4. Chain!Outside(at) = CHOOSE k \in Chain!Layers \cup {Chain!Consumer} : P(k)
  BY DEF Chain!Outside
<1>5. \E k \in Chain!Layers \cup {Chain!Consumer} : P(k)
  BY <1>3
<1>6. Chain!Outside(at) \in Chain!Layers \cup {Chain!Consumer} /\ P(Chain!Outside(at))
  <2> HIDE DEF P
  <2> QED BY <1>4, <1>5
<1>7. Chain!Outside(at) \in Nat /\ at \in Nat /\ Chain!Layers \subseteq Nat
  BY <1>6, Shape
<1> QED BY <1>6, <1>7, Shape

\* A server hoists metadata interceptors only, and no more than there are.
LEMMA HoistedIs ==
  ASSUME ChainTypes
  PROVE  /\ Chain!Hoisted \in 0..Len(list)
         /\ \A i \in 1..Chain!Hoisted : Chain!IsMetadata(i)
<1> DEFINE fronts == {n \in 0..Len(list) : \A i \in 1..n : list[i] = "metadata"}
<1>1. fronts \in SUBSET (0..Len(list)) /\ 0 \in fronts
  BY Shape
<1>2. \E n \in fronts : \A k \in fronts : k <= n
  BY <1>1, Shape, Greatest
<1>3. Chain!LeadingMetadata(list) = CHOOSE n \in fronts : \A k \in fronts : k <= n
  BY DEF Chain!LeadingMetadata
<1>4. Chain!LeadingMetadata(list) \in fronts
  <2> HIDE DEF fronts
  <2> QED BY <1>2, <1>3
<1>5. CASE side = "server"
  BY <1>4, <1>5 DEF Chain!Hoisted, Chain!IsMetadata
<1>6. CASE side # "server"
  BY <1>6, Shape DEF Chain!Hoisted
<1> QED BY <1>5, <1>6

\* The chain stays as it was built.
LEMMA Fixed ==
  ASSUME UNCHANGED Chain!fixed
  PROVE  /\ Chain!Layers' = Chain!Layers /\ Chain!Handler' = Chain!Handler
         /\ Metas' = Metas /\ Chain!Consumer' = Chain!Consumer
         /\ Chain!Places' = Chain!Places /\ Chain!Kinds' = Chain!Kinds
         /\ mode' = mode /\ side' = side /\ list' = list /\ plain' = plain
         /\ Record' = Record
<1> QED BY DEF Chain!fixed, Chain!Layers, Chain!Handler, Metas, Chain!Consumer,
   Chain!Places, Chain!Kinds, Chain!Applied, Chain!Hoisted, Chain!IsMetadata, Record

\* The conversions of an exception, case by case.
LEMMA ReportedIs ==
  ASSUME NEW e
  PROVE  /\ e = "Cancelled" => Chain!Reported(e) = "Canceled"
         /\ e \in {"none", "GeneratorExit"} => Chain!Reported(e) = "none"
         /\ e \notin {"Cancelled", "none", "GeneratorExit"} => Chain!Reported(e) = e
<1>1. "Cancelled" # "none" /\ "Cancelled" # "GeneratorExit"
  BY SMT
<1> QED BY <1>1, Zenon DEF Chain!Reported

\* The outcome of a layer, for each exception its body may end with.
LEMMA OutcomeIs ==
  ASSUME NEW e
  PROVE  /\ e = "none" =>
              Chain!Outcome(e) = <<IF mode = "unary" THEN "item" ELSE "stop", "none">>
         /\ e = "GeneratorExit" => Chain!Outcome(e) = <<"closed", "none">>
         /\ e \notin {"none", "GeneratorExit"} => Chain!Outcome(e) = <<"raise", e>>
<1>1. "none" # "GeneratorExit"
  BY SMT
<1> QED BY <1>1, Zenon DEF Chain!Outcome

\* What a layer's body ends with, for each thing it may wait for.
LEMMA LeavingIs ==
  ASSUME NEW i, NEW r, r = IF op = "raise" THEN err ELSE "none"
  PROVE  /\ phase[i] = "inner" => Chain!Leaving(i) = r
         /\ phase[i] = "throwing" => Chain!Leaving(i) = Chain!AfterThrow(layerPend[i], r)
         /\ phase[i] \notin {"inner", "throwing"} =>
              Chain!Leaving(i) = IF r = "none" THEN layerPend[i] ELSE r
<1>1. "inner" # "throwing"
  BY SMT
<1> QED BY <1>1, Zenon DEF Chain!Leaving

\* Every step keeps the types.
LEMMA TypesStep == ChainTypes /\ [Chain!Next]_chainVars => ChainTypes'
<1> SUFFICES ASSUME ChainTypes, [Chain!Next]_chainVars PROVE ChainTypes'
  OBVIOUS
<1> USE Shape, Fixed DEF ChainTypes, Chain!Goes, Chain!Failures, Failed,
   Chain!history, Chain!layer
<1>in. at # Chain!Handler =>
         Chain!Inside(at) \in Chain!Layers \cup {Chain!Consumer, Chain!Handler}
  BY InsideIs
<1>out. at # Chain!Consumer =>
          Chain!Outside(at) \in Chain!Layers \cup {Chain!Consumer, Chain!Handler}
  BY OutsideIs
<1>h. Chain!Consumer # Chain!Handler /\ Chain!Handler \notin Chain!Layers
      /\ Chain!Consumer \notin Chain!Layers
  OBVIOUS
<1>1. ASSUME Chain!Asks PROVE ChainTypes'
  BY <1>1, <1>in, <1>h DEF Chain!Asks
<1>2. ASSUME Chain!Closes PROVE ChainTypes'
  BY <1>2, <1>in, <1>h DEF Chain!Closes
<1>3. ASSUME Chain!Throws PROVE ChainTypes'
  BY <1>3, <1>in, <1>h DEF Chain!Throws
<1>4. ASSUME Chain!Message PROVE ChainTypes'
  <2>1. Append(entered, at) \in Seq(Chain!Layers)
    BY <1>4, AppendProperties DEF Chain!Message
  <2> QED BY <1>4, <1>in, <1>out, <1>h, <2>1 DEF Chain!Message
<1>5. ASSUME Chain!OnStart PROVE ChainTypes'
  <2>1. Append(entered, at) \in Seq(Chain!Layers)
    BY <1>5, AppendProperties DEF Chain!OnStart, Chain!InLayer
  <2> QED BY <1>5, <1>in, <1>out, <1>h, <2>1 DEF Chain!OnStart, Chain!InLayer
<1>6. ASSUME Chain!NextItem PROVE ChainTypes'
  BY <1>6, <1>in, <1>h DEF Chain!NextItem, Chain!InLayer
<1>7. ASSUME Chain!AtYield PROVE ChainTypes'
  <2>1. layerPend' \in [Chain!Places -> Failed \cup {"none", "GeneratorExit", "Group"}]
    BY <1>7 DEF Chain!AtYield, Chain!InLayer
  <2>2. phase' \in [Chain!Places -> {"start", "inner", "throwing", "closing"}]
    BY <1>7 DEF Chain!AtYield, Chain!InLayer
  <2> QED BY <1>7, <1>in, <1>h, <2>1, <2>2 DEF Chain!AtYield, Chain!InLayer
<1>8. ASSUME Chain!Yield PROVE ChainTypes'
  BY <1>8, <1>out, <1>h DEF Chain!Yield, Chain!InLayer
<1>9. ASSUME Chain!YieldedAgain PROVE ChainTypes'
  BY <1>9, <1>in, <1>h DEF Chain!YieldedAgain, Chain!InLayer
<1>10. ASSUME Chain!InnerEnds PROVE ChainTypes'
  <2> DEFINE r == IF op = "raise" THEN err ELSE "none"
  <2>1. r \in Failed \cup {"none", "Group"}
    BY err \in Failed \cup {"none", "Group"}
  <2>2. Chain!AfterThrow(layerPend[at], r) \in {layerPend[at], r}
    BY DEF Chain!AfterThrow
  <2>3. Chain!Leaving(at) \in {layerPend[at], r}
    BY <2>2, LeavingIs
  <2>4. Chain!Leaving(at) \in Failed \cup {"none", "GeneratorExit", "Group"}
    BY <1>10, <2>1, <2>3 DEF Chain!InnerEnds, Chain!InLayer
  <2> QED BY <1>10, <2>4, <1>h DEF Chain!InnerEnds, Chain!InLayer
<1>11. ASSUME Chain!OnEnd PROVE ChainTypes'
  <2>1. PICK e \in Chain!Failures \cup {"none"} :
          LET leaves == IF e = "none" THEN layerPend[at] ELSE e IN
          /\ ended' = Append(ended, [by |-> at, saw |-> Chain!Reported(layerPend[at]),
                                     raised |-> e])
          /\ Chain!Goes(Chain!Outside(at), Chain!Outcome(leaves)[1],
                        Chain!Outcome(leaves)[2])
    BY <1>11 DEF Chain!OnEnd
  <2>2. layerPend[at] \in Failed \cup {"none", "GeneratorExit", "Group"}
    BY <1>11 DEF Chain!OnEnd, Chain!InLayer
  <2>3. Chain!Reported(layerPend[at]) \in {"none", "App", "Canceled", "Group"}
    BY <2>2, ReportedIs
  <2>4. [by |-> at, saw |-> Chain!Reported(layerPend[at]), raised |-> e] \in Record
    BY <1>11, <2>3 DEF Chain!OnEnd, Chain!InLayer, Record
  <2>5. ended' \in Seq(Record)
    BY <2>1, <2>4, AppendProperties
  <2> DEFINE leaves == IF e = "none" THEN layerPend[at] ELSE e
  <2>6. leaves \in Failed \cup {"none", "GeneratorExit", "Group"}
    BY <2>2
  <2>7. /\ Chain!Outcome(leaves)[1] \in {"item", "stop", "closed", "raise"}
        /\ Chain!Outcome(leaves)[2] \in Failed \cup {"none", "Group"}
        /\ Chain!Outcome(leaves)[1] # "raise" => Chain!Outcome(leaves)[2] = "none"
    <3> HIDE DEF leaves
    <3>1. CASE leaves = "none"
      <4>1. Chain!Outcome(leaves) = <<IF mode = "unary" THEN "item" ELSE "stop", "none">>
        BY <3>1, OutcomeIs
      <4> QED BY <4>1
    <3>2. CASE leaves = "GeneratorExit"
      <4>1. Chain!Outcome(leaves) = <<"closed", "none">>
        BY <3>2, OutcomeIs
      <4> QED BY <4>1
    <3>3. CASE leaves \notin {"none", "GeneratorExit"}
      <4>1. Chain!Outcome(leaves) = <<"raise", leaves>>
        BY <3>3, OutcomeIs
      <4> QED BY <2>6, <3>3, <4>1
    <3> QED BY <3>1, <3>2, <3>3
  <2>8. /\ at' = Chain!Outside(at) /\ op' = Chain!Outcome(leaves)[1]
        /\ err' = Chain!Outcome(leaves)[2]
    BY <2>1
  <2> HIDE DEF leaves
  <2> QED BY <1>11, <1>out, <1>h, <2>5, <2>7, <2>8 DEF Chain!OnEnd, Chain!InLayer
<1>12. ASSUME Chain!HandlerNext PROVE ChainTypes'
  <2>1. /\ sent' \in Nat
        /\ layerGen' \in [Chain!Places -> {"new", "suspended", "done"}]
    BY <1>12 DEF Chain!HandlerNext, Chain!Running
  <2>2. /\ op' \in {"item", "stop", "raise"} /\ err' \in Failed \cup {"none"}
        /\ op' # "raise" => err' = "none"
    BY <1>12 DEF Chain!HandlerNext
  <2> QED BY <1>12, <1>out, <1>h, <2>1, <2>2 DEF Chain!HandlerNext, Chain!Running
<1>13. ASSUME Chain!HandlerThrown PROVE ChainTypes'
  BY <1>13, <1>out, <1>h DEF Chain!HandlerThrown, Chain!Running
<1>14. ASSUME Chain!HandlerClosed PROVE ChainTypes'
  BY <1>14, <1>out, <1>h DEF Chain!HandlerClosed, Chain!Running
<1>15. ASSUME UNCHANGED chainVars PROVE ChainTypes'
  BY <1>15 DEF chainVars, Chain!fixed
<1>16. Chain!Done => UNCHANGED chainVars
  BY DEF Chain!Done, Chain!vars, Chain!control, Chain!fixed, chainVars
<1> QED
  BY <1>1, <1>2, <1>3, <1>4, <1>5, <1>6, <1>7, <1>8, <1>9, <1>10, <1>11, <1>12, <1>13,
     <1>14, <1>15, <1>16 DEF Chain!Next

\* The layers entered, when one more is.
LEMMA Enters ==
  ASSUME ChainTypes, UNCHANGED Chain!fixed, at \in Chain!Layers,
         entered' = Append(entered, at)
  PROVE  /\ Chain!Entered' = Chain!Entered \cup {at}
         /\ Chain!Started' = Chain!Started \cup {i \in {at} : Chain!IsMetadata(i)}
         /\ (\A i \in Chain!Entered : i < at) =>
              ((\A j, k \in DOMAIN entered : j < k => entered[j] < entered[k])
               => (\A j, k \in DOMAIN entered : j < k => entered[j] < entered[k])')
<1> DEFINE n == Len(entered)
<1>1. /\ n \in Nat /\ DOMAIN entered = 1..n /\ DOMAIN entered' = 1..(n + 1)
      /\ entered'[n + 1] = at /\ \A k \in 1..n : entered'[k] = entered[k]
  BY AppendProperties DEF ChainTypes
<1>2. \A k \in 1..n : entered[k] \in Chain!Entered
  BY <1>1 DEF Chain!Entered
<1>3. Chain!Entered' = Chain!Entered \cup {at}
  <2> HIDE DEF n
  <2>1. Chain!Entered' \subseteq Chain!Entered \cup {at}
    BY <1>1 DEF Chain!Entered
  <2>2. at \in Chain!Entered'
    BY <1>1 DEF Chain!Entered
  <2>3. Chain!Entered \subseteq Chain!Entered'
    BY <1>1 DEF Chain!Entered
  <2> QED BY <2>1, <2>2, <2>3
<1>4. Chain!Started' = Chain!Started \cup {i \in {at} : Chain!IsMetadata(i)}
  BY <1>3, Fixed DEF Chain!Started, Chain!IsMetadata
<1> HIDE DEF n
<1> QED BY <1>1, <1>2, <1>3, <1>4

\* The hooks ended, when one more is, all those inside it having ended.
LEMMA Ends ==
  ASSUME ChainTypes, UNCHANGED Chain!fixed, UNCHANGED entered, Chain!Unwound,
         at \in Chain!Started, at \notin Chain!Ended,
         \A i \in Chain!Started : i > at => i \in Chain!Ended,
         \A i \in Chain!Ended : i > at,
         NEW r, r.by = at, ended' = Append(ended, r)
  PROVE  /\ Chain!Ended' = Chain!Ended \cup {at}
         /\ Chain!Unwound'
<1> DEFINE n == Len(ended)
<1>1. /\ n \in Nat /\ DOMAIN ended = 1..n /\ DOMAIN ended' = 1..(n + 1)
      /\ ended'[n + 1] = r /\ \A k \in 1..n : ended'[k] = ended[k]
  BY AppendProperties DEF ChainTypes
<1> HIDE DEF n
<1>2. Chain!Ended' = Chain!Ended \cup {at}
  <2>1. Chain!Ended' \subseteq Chain!Ended \cup {at}
    BY <1>1 DEF Chain!Ended
  <2>2. at \in Chain!Ended'
    BY <1>1 DEF Chain!Ended
  <2>3. Chain!Ended \subseteq Chain!Ended'
    BY <1>1 DEF Chain!Ended
  <2> QED BY <2>1, <2>2, <2>3
<1>3. Chain!Started' = Chain!Started
  BY Fixed DEF Chain!Started, Chain!Entered, Chain!IsMetadata
<1>4. \A k \in 1..n : ended[k].by \in Chain!Ended
  BY <1>1 DEF Chain!Ended
<1>5. \A i \in Chain!Ended : \E k \in 1..n : ended[k].by = i
  BY <1>1 DEF Chain!Ended
<1>6. (Chain!Ended \subseteq Chain!Started)'
  BY <1>2, <1>3 DEF Chain!Unwound
<1>7. ASSUME NEW k \in 1..(n + 1), NEW i \in Chain!Started, i > ended'[k].by
      PROVE  \E j \in 1..(k - 1) : ended'[j].by = i
  <2>1. CASE k = n + 1
    BY <1>1, <1>5, <1>7, <2>1
  <2>2. CASE k # n + 1
    <3>1. k \in 1..n /\ i > ended[k].by
      BY <1>1, <1>7, <2>2
    <3>2. PICK j \in 1..(k - 1) : ended[j].by = i
      BY <1>1, <3>1 DEF Chain!Unwound
    <3> QED BY <1>1, <3>1, <3>2
  <2> QED BY <2>1, <2>2
<1>8. (\A j, k \in DOMAIN ended : j < k => ended[j].by > ended[k].by)'
  BY <1>1, <1>4 DEF Chain!Unwound
<1> QED BY <1>1, <1>2, <1>3, <1>6, <1>7, <1>8 DEF Chain!Unwound

\* A step that neither enters a layer nor ends a hook.
LEMMA Quiet ==
  ASSUME ChainTypes, NestInv, UNCHANGED Chain!fixed, UNCHANGED <<entered, ended>>,
         \A i \in Chain!Layers : i < at' => i \in Chain!Entered /\ i \notin Chain!Ended,
         sent' > 0 => Chain!Layers \subseteq Chain!Entered
  PROVE  EnteredInv' /\ EndedInv'
<1>1. Chain!Entered' = Chain!Entered /\ Chain!Ended' = Chain!Ended
  BY DEF Chain!Entered, Chain!Ended
<1>2. Chain!Started' = Chain!Started
  BY <1>1, Fixed DEF Chain!Started, Chain!IsMetadata
<1>3. EnteredInv'
  BY <1>1, Fixed DEF NestInv, EnteredInv
<1>4. EndedInv'
  BY <1>1, <1>2, Fixed DEF NestInv, EndedInv, Chain!Unwound
<1> QED BY <1>3, <1>4

\* Where a request leads.
LEMMA Inwards ==
  ASSUME ChainTypes, UNCHANGED Chain!fixed, at # Chain!Handler, at' = Chain!Inside(at)
  PROVE  /\ at' # Chain!Consumer' /\ at' \in Chain!Layers \cup {Chain!Handler}
         /\ \A j \in Chain!Layers : j < at' <=> j <= at
  BY InsideIs, Fixed

\* Where an answer leads.
LEMMA Outwards ==
  ASSUME ChainTypes, UNCHANGED Chain!fixed, at # Chain!Consumer, at' = Chain!Outside(at)
  PROVE  /\ at' # Chain!Handler' /\ at' \in Chain!Layers \cup {Chain!Consumer}
         /\ at' < at
         /\ \A j \in Chain!Layers : j <= at' <=> j < at
  BY OutsideIs, Fixed

\* The empty history.
LEMMA Empty ==
  /\ ended = <<>> => Chain!Ended = {}
  /\ entered = <<>> => Chain!Entered = {}
  BY DEF Chain!Ended, Chain!Entered

\* The consumer's steps keep the layers in their places.
LEMMA ConsumerNests ==
  ASSUME ChainTypes, NestInv, Chain!Asks \/ Chain!Closes \/ Chain!Throws
  PROVE  NestInv'
<1> USE DEF Chain!Goes
<1>1. /\ UNCHANGED Chain!fixed /\ UNCHANGED <<entered, ended, sent, layerGen>>
      /\ at = Chain!Consumer /\ mode' = mode /\ plain' = plain
  BY DEF Chain!Asks, Chain!Closes, Chain!Throws, Chain!history, Chain!layer, Chain!fixed
<1>2. at # Chain!Handler /\ \A i \in Chain!Layers : i > at
  BY <1>1, Shape
<1>3. CASE op' = "closed"
  <2>1. op = "idle" /\ at' = at
    BY <1>1, <1>3 DEF Chain!Asks, Chain!Closes, Chain!Throws
  <2>2. Fresh /\ Chain!Entered \cap Chain!Layers = {}
    <3>1. Fresh
      BY <2>1 DEF NestInv, PlaceInv, Final
    <3> QED BY <1>2, <3>1, Shape DEF Fresh
  <2>3. Chain!Started \subseteq Chain!Layers
    BY DEF Chain!Started, Chain!Entered, ChainTypes
  <2>4. Chain!Started' = {}
    <3>1. Chain!Started = {}
      BY <2>2, <2>3 DEF Chain!Started
    <3> QED BY <1>1, <3>1, Fixed DEF Chain!Started, Chain!Entered, Chain!IsMetadata
  <2>5. EnteredInv' /\ EndedInv'
    BY <1>1, <1>2, <2>1, <2>2, Quiet, Shape DEF Fresh
  <2>6. PlaceInv'
    BY <1>1, <1>2, <1>3, <2>1, <2>2, <2>4, Fixed, Shape
    DEF PlaceInv, Final, InnerEnded, Here, HandlerRests, Fresh
  <2> QED BY <2>5, <2>6 DEF NestInv
<1>4. CASE op' # "closed"
  <2>1. /\ at' = Chain!Inside(at)
        /\ \/ op = "idle" /\ op' = "next"
           \/ op = "item" /\ mode = "stream" /\ op' \in {"next", "throw", "close"}
    BY <1>4 DEF Chain!Asks, Chain!Closes, Chain!Throws
  <2>2. /\ at' # Chain!Consumer' /\ at' \in Chain!Layers \cup {Chain!Handler}
        /\ \A j \in Chain!Layers : ~(j < at')
    BY <1>1, <1>2, <2>1, Inwards, Shape
  <2>3. EnteredInv' /\ EndedInv'
    BY <1>1, <2>2, Quiet DEF NestInv, EnteredInv
  <2>4. CASE op = "idle"
    <3>1. Fresh
      BY <2>4 DEF NestInv, PlaceInv, Final
    <3>2. Fresh'
      BY <1>1, <1>2, <2>2, <3>1, Fixed, Shape DEF Fresh, Chain!Entered
    <3> QED BY <2>1, <2>2, <2>3, <2>4, <3>2 DEF NestInv, PlaceInv
  <2>5. CASE op = "item" /\ mode = "stream"
    <3>1. Alive
      BY <2>5 DEF NestInv, PlaceInv, Final
    <3>2. Alive'
      BY <1>1, <3>1, Fixed DEF Alive, Chain!Entered
    <3> QED BY <2>1, <2>2, <2>3, <2>5, <3>2 DEF NestInv, PlaceInv
  <2> QED BY <2>1, <2>4, <2>5
<1> QED BY <1>3, <1>4

\* A step inwards, past a layer that is entered with it or was before.
LEMMA InwardsNests ==
  ASSUME ChainTypes, NestInv, UNCHANGED Chain!fixed, UNCHANGED <<ended, sent>>,
         at \in Chain!Layers, at' = Chain!Inside(at), op' = op,
         layerGen' = [layerGen EXCEPT ![at] = "suspended"],
         op \in {"next", "throw", "close"},
         entered' = IF layerGen[at] = "new" THEN Append(entered, at) ELSE entered
  PROVE  NestInv'
<1>1. /\ at # Chain!Handler /\ at # Chain!Consumer /\ at \in Chain!Places
      /\ Chain!Handler # at
  BY Shape
<1>2. /\ at' # Chain!Consumer' /\ at' \in Chain!Layers \cup {Chain!Handler}
      /\ \A j \in Chain!Layers : j < at' <=> j <= at
  BY <1>1, Inwards
<1>3. (Fresh /\ op = "next") \/ Alive
  BY DEF NestInv, PlaceInv, Final
<1>4. ended = <<>> /\ Chain!Ended = {} /\ Chain!Ended' = {}
  BY <1>3, Empty DEF Fresh, Alive, Chain!Ended
<1>5. CASE Fresh /\ op = "next"
  <2>1. layerGen[at] = "new" /\ entered' = Append(entered, at)
    BY <1>5, Shape DEF Fresh
  <2>2. \A i \in Chain!Entered : i \in Chain!Layers /\ i < at
    <3>1. Chain!Entered \subseteq Chain!Layers
      BY DEF Chain!Entered, ChainTypes
    <3> QED BY <1>5, <3>1, Shape DEF Fresh
  <2>3. /\ Chain!Entered' = Chain!Entered \cup {at}
        /\ (\A j, k \in DOMAIN entered : j < k => entered[j] < entered[k])'
    BY <2>1, <2>2, Enters DEF NestInv, EnteredInv
  <2>4. EnteredInv'
    <3>1. \A i \in Chain!Layers : i < at => i \in Chain!Entered
      BY DEF NestInv, EnteredInv
    <3>2. sent' = 0
      BY <1>5 DEF Fresh
    <3> QED BY <1>2, <2>2, <2>3, <3>1, <3>2, Fixed, Shape DEF EnteredInv
  <2>5. EndedInv'
    <3>1. ended' = <<>>
      BY <1>4
    <3> QED BY <1>4, <3>1 DEF EndedInv, Chain!Unwound
  <2>6. Fresh'
    BY <1>1, <1>2, <1>4, <1>5, <2>3, Fixed, Shape DEF Fresh, ChainTypes
  <2> QED BY <1>2, <1>5, <2>4, <2>5, <2>6 DEF NestInv, PlaceInv
<1>6. CASE Alive
  <2>1. layerGen[at] = "suspended" /\ UNCHANGED entered
    BY <1>6 DEF Alive
  <2>2. EnteredInv' /\ EndedInv'
    BY <1>2, <1>4, <1>6, <2>1, Quiet DEF NestInv, EnteredInv, Alive
  <2>3. Alive'
    BY <1>1, <1>6, <2>1, Fixed DEF Alive, Chain!Entered, ChainTypes
  <2> QED BY <1>2, <2>2, <2>3 DEF NestInv, PlaceInv
<1> QED BY <1>3, <1>5, <1>6

\* An answer on its way out, or the end of the layer it reaches.
LEMMA OutwardsNests ==
  ASSUME ChainTypes, NestInv, UNCHANGED Chain!fixed, UNCHANGED <<entered, ended>>,
         sent' > 0 => Chain!Layers \subseteq Chain!Entered,
         at # Chain!Consumer, at' = Chain!Outside(at), HandlerRests', Final',
         \A i \in Chain!Started : i >= at => i \in Chain!Ended
  PROVE  NestInv'
<1>1. /\ at' # Chain!Handler' /\ at' \in Chain!Layers \cup {Chain!Consumer}
      /\ at' < at /\ \A j \in Chain!Layers : j <= at' <=> j < at
  BY Outwards
<1>2. \A j \in Chain!Layers : j < at => j \in Chain!Entered /\ j \notin Chain!Ended
  BY DEF NestInv, EnteredInv, EndedInv
<1>3. \A j \in Chain!Layers : j < at' => j <= at'
  BY <1>1, Shape
<1>4. EnteredInv' /\ EndedInv'
  BY <1>1, <1>2, <1>3, Quiet
<1>5. Chain!Started \subseteq Chain!Layers
  BY DEF Chain!Started, Chain!Entered, ChainTypes
<1>6. UNCHANGED <<Chain!Entered, Chain!Ended, Chain!Started>>
  BY Fixed DEF Chain!Started, Chain!Entered, Chain!Ended, Chain!IsMetadata
<1>7. \A i \in Chain!Started : i > at' => i \in Chain!Ended
  BY <1>1, <1>5, Shape
<1>8. at' \in Chain!Layers => at' <= at'
  BY <1>1, Shape
<1>9. InnerEnded' /\ Here'
  BY <1>1, <1>2, <1>6, <1>7, <1>8, Fixed DEF InnerEnded, Here
<1> QED BY <1>1, <1>4, <1>9 DEF NestInv, PlaceInv

\* An item of a stream on its way out.
LEMMA ItemNests ==
  ASSUME ChainTypes, NestInv, UNCHANGED Chain!fixed, UNCHANGED <<entered, ended>>,
         at # Chain!Consumer, at' = Chain!Outside(at), op' = "item", mode = "stream",
         Chain!Layers \subseteq Chain!Entered, ended = <<>>,
         \A i \in Chain!Layers : layerGen[i] = "suspended",
         at = Chain!Handler \/ layerGen[Chain!Handler] = "suspended",
         layerGen' = [layerGen EXCEPT ![at] = "suspended"]
  PROVE  NestInv'
<1>1. /\ at' # Chain!Handler' /\ at' \in Chain!Layers \cup {Chain!Consumer}
  BY Outwards
<1>2. Chain!Ended = {}
  BY Empty
<1>3. EnteredInv' /\ EndedInv'
  BY <1>2, Quiet
<1>4. Alive'
  <2>1. at \in Chain!Layers \cup {Chain!Handler}
    BY DEF ChainTypes
  <2> QED BY <2>1, Fixed, Shape DEF Alive, Chain!Entered, ChainTypes
<1> QED BY <1>1, <1>3, <1>4 DEF NestInv, PlaceInv

\* A message interceptor passes everything through.
LEMMA MessageNests == ASSUME ChainTypes, NestInv, Chain!Message PROVE NestInv'
<1> USE DEF Chain!Message
<1>1. /\ UNCHANGED Chain!fixed /\ UNCHANGED <<ended, sent>> /\ at \in Chain!Layers
      /\ layerGen' = [layerGen EXCEPT ![at] = "suspended"] /\ op' = op
      /\ mode' = mode /\ plain' = plain
  BY DEF Chain!fixed
<1>2. at # Chain!Consumer /\ at # Chain!Handler /\ at \in Chain!Places
  BY <1>1, Shape
<1>3. CASE op \in {"next", "throw", "close"}
  BY <1>1, <1>3, InwardsNests
<1>4. CASE op \notin {"next", "throw", "close"}
  <2>1. at' = Chain!Outside(at) /\ UNCHANGED entered
    BY <1>4
  <2>2. at \notin Metas
    BY DEF Metas
  <2>3. CASE op = "item" /\ mode = "stream"
    <3>1. Alive
      BY <2>3 DEF NestInv, PlaceInv, Final
    <3> QED BY <1>1, <1>2, <2>1, <2>3, <3>1, ItemNests DEF Alive
  <2>4. CASE ~(op = "item" /\ mode = "stream")
    <3>1. Final /\ InnerEnded /\ Here
      BY <1>2, <1>4, <2>2, <2>4 DEF NestInv, PlaceInv, ChainTypes, Alive
    <3>2. at \notin Chain!Started
      BY DEF Chain!Started
    <3>3. \A i \in Chain!Started : i >= at => i \in Chain!Ended
      <4>1. Chain!Started \subseteq Chain!Layers
        BY DEF Chain!Started, Chain!Entered, ChainTypes
      <4> QED BY <3>1, <3>2, <4>1, Shape DEF InnerEnded
    <3>4. HandlerRests' /\ Final'
      BY <1>1, <1>2, <3>1, Fixed DEF InnerEnded, HandlerRests, Final, ChainTypes
    <3>5. sent' > 0 => Chain!Layers \subseteq Chain!Entered
      BY <1>1 DEF NestInv, EnteredInv
    <3> QED BY <1>1, <1>2, <2>1, <3>3, <3>4, <3>5, OutwardsNests
  <2> QED BY <2>3, <2>4
<1> QED BY <1>3, <1>4

\* A metadata layer: its hook starts, it passes on what it is asked and given.
LEMMA LayerNests ==
  ASSUME ChainTypes, NestInv, ModeInv,
         \/ Chain!OnStart \/ Chain!NextItem \/ Chain!AtYield \/ Chain!Yield
         \/ Chain!YieldedAgain \/ Chain!InnerEnds
  PROVE  NestInv'
<1> USE DEF Chain!Goes, Chain!history, Chain!layer
<1>0. UNCHANGED Chain!fixed /\ mode' = mode /\ plain' = plain /\ sent' = sent
      /\ ended' = ended
  BY DEF Chain!OnStart, Chain!NextItem, Chain!AtYield, Chain!Yield, Chain!YieldedAgain,
     Chain!InnerEnds, Chain!fixed
<1>a. /\ at \in Chain!Layers /\ Chain!IsMetadata(at) /\ at # Chain!Consumer
      /\ at # Chain!Handler /\ at \in Chain!Places
  BY Shape DEF Chain!OnStart, Chain!NextItem, Chain!AtYield, Chain!Yield,
     Chain!YieldedAgain, Chain!InnerEnds, Chain!InLayer
<1>b. sent' > 0 => Chain!Layers \subseteq Chain!Entered
  BY <1>0 DEF NestInv, EnteredInv
<1>c. layerGen[at] = "suspended" =>
         layerGen = [layerGen EXCEPT ![at] = "suspended"]
  BY <1>a DEF ChainTypes
<1>1. ASSUME Chain!OnStart PROVE NestInv'
  <2>1. CASE entered' = Append(entered, at) /\ op' = "next"
    BY <1>0, <1>1, <1>a, <2>1, InwardsNests DEF Chain!OnStart
  <2>2. CASE entered' = entered /\ op' = "raise"
    <3>1. Fresh
      BY <1>1, <1>a DEF Chain!OnStart, NestInv, PlaceInv, Alive, Final
    <3>2. \A i \in Chain!Started : i >= at => i \in Chain!Ended
      <4>1. Chain!Started \subseteq Chain!Layers \cap Chain!Entered
        BY DEF Chain!Started, Chain!Entered, ChainTypes
      <4> QED BY <3>1, <4>1, Shape DEF Fresh
    <3>3. HandlerRests' /\ Final'
      BY <1>1, <1>a, <2>2, <3>1, <1>0, Fixed, Shape
      DEF Chain!OnStart, Fresh, HandlerRests, Final, ChainTypes
    <3>4. at' = Chain!Outside(at)
      BY <1>1, <2>2 DEF Chain!OnStart
    <3> QED BY <1>0, <1>a, <1>b, <2>2, <3>2, <3>3, <3>4, OutwardsNests
  <2> QED BY <1>1, <2>1, <2>2 DEF Chain!OnStart
<1>2. ASSUME Chain!NextItem PROVE NestInv'
  BY <1>0, <1>2, <1>a, <1>c, InwardsNests DEF Chain!NextItem
<1>3. ASSUME Chain!AtYield PROVE NestInv'
  <2>1. Alive
    BY <1>3 DEF Chain!AtYield, NestInv, PlaceInv, Final
  <2>2. layerGen[at] = "suspended"
    BY <1>a, <2>1 DEF Alive
  <2> QED BY <1>0, <1>3, <1>a, <1>c, <2>2, InwardsNests DEF Chain!AtYield
<1>4. ASSUME Chain!Yield PROVE NestInv'
  <2>1. Alive
    BY <1>4 DEF Chain!Yield, NestInv, PlaceInv, Final
  <2> QED BY <1>0, <1>4, <1>a, <1>c, <2>1, ItemNests DEF Chain!Yield, Alive
<1>5. ASSUME Chain!YieldedAgain PROVE NestInv'
  <2>1. op = "item" /\ at' = Chain!Inside(at) /\ op' = "close" /\
        UNCHANGED <<layerGen, entered>>
    BY <1>5 DEF Chain!YieldedAgain
  <2>2. CASE Alive
    <3>1. /\ at' # Chain!Consumer' /\ at' \in Chain!Layers \cup {Chain!Handler}
          /\ \A j \in Chain!Layers : j < at' <=> j <= at
      BY <1>0, <1>a, <2>1, Inwards
    <3>2. Chain!Ended = {}
      BY <2>2, Empty DEF Alive
    <3>3. EnteredInv' /\ EndedInv'
      BY <1>0, <1>b, <2>1, <2>2, <3>2, Quiet DEF Alive
    <3>4. Alive'
      BY <1>0, <2>1, <2>2, Fixed DEF Alive, Chain!Entered
    <3> QED BY <2>1, <3>1, <3>3, <3>4 DEF NestInv, PlaceInv
  <2>3. CASE ~Alive
    BY <1>5, <1>a, <2>1, <2>3 DEF Chain!YieldedAgain, NestInv, PlaceInv, Final, ModeInv
  <2> QED BY <2>2, <2>3
<1>6. ASSUME Chain!InnerEnds PROVE NestInv'
  <2>1. Final
    BY <1>6 DEF Chain!InnerEnds, Final
  <2>2. InnerEnded /\ Here
    BY <1>a, <2>1 DEF NestInv, PlaceInv, Final, Alive
  <2>3. UNCHANGED <<at, layerGen, entered, ended>> /\ op' = "end"
    BY <1>6 DEF Chain!InnerEnds
  <2>4. EnteredInv' /\ EndedInv'
    BY <1>0, <1>b, <2>3, Quiet DEF NestInv, EnteredInv, EndedInv
  <2>5. InnerEnded' /\ Here' /\ at' \in Metas'
    BY <1>0, <1>a, <2>2, <2>3, Fixed
    DEF InnerEnded, Here, HandlerRests, Metas, Chain!Started, Chain!Entered, Chain!Ended,
        Chain!IsMetadata
  <2> QED BY <2>3, <2>4, <2>5 DEF NestInv, PlaceInv
<1> QED BY <1>1, <1>2, <1>3, <1>4, <1>5, <1>6

\* on_end is called, and what it makes of the outcome goes on its way.
LEMMA OnEndNests == ASSUME ChainTypes, NestInv, Chain!OnEnd PROVE NestInv'
<1> USE DEF Chain!Goes
<1>0. /\ UNCHANGED Chain!fixed /\ mode' = mode /\ plain' = plain /\ sent' = sent
      /\ entered' = entered /\ op = "end"
  BY DEF Chain!OnEnd, Chain!fixed
<1>a. /\ at \in Chain!Layers /\ Chain!IsMetadata(at) /\ at # Chain!Consumer
      /\ at # Chain!Handler /\ at \in Chain!Places
  BY Shape DEF Chain!OnEnd, Chain!InLayer
<1>1. InnerEnded /\ Here
  BY <1>0 DEF NestInv, PlaceInv, Final
<1>2. PICK e \in Chain!Failures \cup {"none"} :
          LET leaves == IF e = "none" THEN layerPend[at] ELSE e IN
          /\ ended' = Append(ended, [by |-> at, saw |-> Chain!Reported(layerPend[at]),
                                     raised |-> e])
          /\ Chain!Goes(Chain!Outside(at), Chain!Outcome(leaves)[1],
                        Chain!Outcome(leaves)[2])
  BY DEF Chain!OnEnd
<1> DEFINE leaves == IF e = "none" THEN layerPend[at] ELSE e
           r == [by |-> at, saw |-> Chain!Reported(layerPend[at]), raised |-> e]
<1>3. at' = Chain!Outside(at) /\ op' = Chain!Outcome(leaves)[1]
  BY <1>2
<1>4. ended' = Append(ended, r) /\ r.by = at
  BY <1>2
<1>5. Final'
  <2> HIDE DEF leaves
  <2>1. CASE leaves = "none"
    <3>1. Chain!Outcome(leaves) = <<IF mode = "unary" THEN "item" ELSE "stop", "none">>
      BY <2>1, OutcomeIs
    <3> QED BY <1>0, <1>3, <3>1 DEF Final
  <2>2. CASE leaves = "GeneratorExit"
    <3>1. Chain!Outcome(leaves) = <<"closed", "none">>
      BY <2>2, OutcomeIs
    <3> QED BY <1>0, <1>3, <3>1 DEF Final
  <2>3. CASE leaves \notin {"none", "GeneratorExit"}
    <3>1. Chain!Outcome(leaves) = <<"raise", leaves>>
      BY <2>3, OutcomeIs
    <3> QED BY <1>0, <1>3, <3>1 DEF Final
  <2> QED BY <2>1, <2>2, <2>3
<1> HIDE DEF r, leaves
<1>6. Chain!Started \subseteq Chain!Layers \cap Chain!Entered
  BY DEF Chain!Started, Chain!Entered, ChainTypes
<1>7. at \in Chain!Started /\ at \notin Chain!Ended /\ Chain!Unwound
  BY <1>1, <1>a DEF Here, Chain!Started, NestInv, EndedInv
<1>8. \A i \in Chain!Ended : i \in Chain!Layers /\ i > at
  <2>1. Chain!Ended \subseteq Chain!Started
    BY <1>7 DEF Chain!Unwound
  <2>2. \A i \in Chain!Layers : i <= at => i \notin Chain!Ended
    BY <1>7, <1>a, Shape DEF NestInv, EndedInv
  <2> QED BY <1>6, <2>1, <2>2, Shape
<1>9. Chain!Ended' = Chain!Ended \cup {at} /\ Chain!Unwound'
  <2>1. \A i \in Chain!Started : i > at => i \in Chain!Ended
    BY <1>1 DEF InnerEnded
  <2> QED BY <1>0, <1>4, <1>7, <1>8, <2>1, Ends
<1>10. /\ at' # Chain!Handler' /\ at' \in Chain!Layers \cup {Chain!Consumer}
       /\ at' < at /\ \A j \in Chain!Layers : j <= at' <=> j < at
  BY <1>0, <1>3, <1>a, Outwards
<1>11. Chain!Started' = Chain!Started /\ Chain!Entered' = Chain!Entered
  BY <1>0, Fixed DEF Chain!Started, Chain!Entered, Chain!IsMetadata
<1>12. \A i \in Chain!Layers : i <= at' => i \in Chain!Entered /\ i \notin Chain!Ended'
  BY <1>8, <1>9, <1>10, Shape DEF NestInv, EnteredInv
<1>13. \A i \in Chain!Layers : i < at' => i <= at'
  BY <1>10, Shape
<1>14. EnteredInv'
  BY <1>0, <1>11, <1>12, <1>13, Fixed DEF EnteredInv, NestInv
<1>15. EndedInv'
  BY <1>0, <1>9, <1>12, <1>13, Fixed DEF EndedInv
<1>16. InnerEnded'
  <2>1. \A i \in Chain!Started : i > at' => i = at \/ i > at
    BY <1>6, <1>10, Shape
  <2>2. HandlerRests'
    BY <1>0, <1>1, <1>a, Fixed, Shape DEF InnerEnded, HandlerRests, ChainTypes,
       Chain!OnEnd
  <2> QED BY <1>1, <1>9, <1>11, <2>1, <2>2 DEF InnerEnded
<1>17. Here'
  <2>1. at' \in Chain!Layers => at' <= at'
    BY Shape
  <2> QED BY <1>0, <1>11, <1>12, <2>1, Fixed DEF Here
<1> QED BY <1>5, <1>10, <1>14, <1>15, <1>16, <1>17 DEF NestInv, PlaceInv

\* The handler.
LEMMA HandlerNests ==
  ASSUME ChainTypes, NestInv,
         Chain!HandlerNext \/ Chain!HandlerThrown \/ Chain!HandlerClosed
  PROVE  NestInv'
<1> USE DEF Chain!Goes
<1>0. /\ UNCHANGED Chain!fixed /\ mode' = mode /\ plain' = plain
      /\ UNCHANGED <<entered, ended>> /\ at = Chain!Handler
      /\ at' = Chain!Outside(at) /\ op \in {"next", "throw", "close"}
  BY DEF Chain!HandlerNext, Chain!HandlerThrown, Chain!HandlerClosed, Chain!fixed,
     Chain!Running, Chain!history
<1>a. /\ at # Chain!Consumer /\ at \in Chain!Places /\ at \in Nat
      /\ \A i \in Chain!Layers : i < at
  BY <1>0, Shape
<1>1. (Fresh /\ op = "next") \/ Alive
  BY <1>0 DEF NestInv, PlaceInv, Final
<1>2. /\ Chain!Layers \subseteq Chain!Entered /\ ended = <<>>
      /\ \A i \in Chain!Layers : layerGen[i] = "suspended"
  BY <1>1, <1>a DEF Fresh, Alive, NestInv, EnteredInv
<1>3. \A i \in Chain!Started : i >= at => i \in Chain!Ended
  <2>1. Chain!Started \subseteq Chain!Layers
    BY DEF Chain!Started, Chain!Entered, ChainTypes
  <2> QED BY <1>a, <2>1, Shape
<1>4. CASE op' = "item" /\ mode = "stream"
  <2>1. layerGen' = [layerGen EXCEPT ![at] = "suspended"]
    <3>1. CASE Chain!HandlerNext
      BY <1>4, <3>1 DEF Chain!HandlerNext
    <3>2. CASE Chain!HandlerThrown
      <4>1. layerGen[at] = "suspended" /\ layerGen' = layerGen
        BY <1>0, <1>1, <1>4, <3>2 DEF Chain!HandlerThrown, Alive
      <4> QED BY <1>a, <4>1 DEF ChainTypes
    <3>3. CASE Chain!HandlerClosed
      BY <1>4, <3>3 DEF Chain!HandlerClosed
    <3> QED BY <3>1, <3>2, <3>3
  <2> QED BY <1>0, <1>2, <1>4, <1>a, <2>1, ItemNests
<1>5. CASE ~(op' = "item" /\ mode = "stream")
  <2>1. Final' /\ HandlerRests'
    <3>1. CASE Chain!HandlerNext
      <4>1. layerGen'[at] = "done"
        BY <1>5, <1>a, <3>1 DEF Chain!HandlerNext, ChainTypes
      <4>2. op' \in {"stop", "raise"} \/ (op' = "item" /\ mode = "unary")
        BY <1>5, <3>1 DEF Chain!HandlerNext, ChainTypes
      <4> QED BY <1>0, <4>1, <4>2, Fixed DEF Final, HandlerRests
    <3>2. CASE Chain!HandlerThrown
      <4>1. mode = "stream"
        BY <1>0, <1>1, <3>2 DEF Chain!HandlerThrown, Alive
      <4>2. plain \/ layerGen'[at] = "done"
        BY <1>5, <1>a, <3>2, <4>1 DEF Chain!HandlerThrown, ChainTypes
      <4>3. op' \in {"stop", "raise"}
        BY <1>5, <3>2, <4>1 DEF Chain!HandlerThrown
      <4> QED BY <1>0, <4>2, <4>3, Fixed DEF Final, HandlerRests
    <3>3. CASE Chain!HandlerClosed
      <4>2. plain \/ layerGen'[at] = "done"
        BY <1>a, <3>3 DEF Chain!HandlerClosed, ChainTypes
      <4>3. op' \in {"closed", "raise"}
        BY <3>3 DEF Chain!HandlerClosed
      <4> QED BY <1>0, <4>2, <4>3, Fixed DEF Final, HandlerRests
    <3> QED BY <1>0, <3>1, <3>2, <3>3
        DEF Chain!HandlerNext, Chain!HandlerThrown, Chain!HandlerClosed
  <2> QED BY <1>0, <1>2, <1>3, <1>a, <2>1, OutwardsNests
<1> QED BY <1>4, <1>5

\* Every step keeps the layers in their places.
LEMMA NestStep ==
  ChainTypes /\ NestInv /\ ModeInv /\ [Chain!Next]_chainVars => NestInv' /\ ModeInv'
<1> SUFFICES ASSUME ChainTypes, NestInv, ModeInv, [Chain!Next]_chainVars
             PROVE  NestInv' /\ ModeInv'
  OBVIOUS
<1>1. CASE UNCHANGED chainVars
  <2>1. UNCHANGED Chain!fixed
    BY <1>1 DEF chainVars, Chain!fixed
  <2>2. UNCHANGED <<Chain!Entered, Chain!Ended, Chain!Started>>
    BY <1>1, <2>1, Fixed
    DEF chainVars, Chain!Started, Chain!Entered, Chain!Ended, Chain!IsMetadata
  <2>3. EnteredInv' /\ EndedInv'
    BY <1>1, <2>1, <2>2, Fixed
    DEF chainVars, NestInv, EnteredInv, EndedInv, Chain!Unwound
  <2>4. Fresh = Fresh' /\ Alive = Alive' /\ InnerEnded = InnerEnded' /\ Here = Here'
        /\ Final = Final'
    BY <1>1, <2>1, <2>2, Fixed
    DEF chainVars, Fresh, Alive, InnerEnded, Here, Final, HandlerRests
  <2>5. PlaceInv'
    BY <1>1, <2>1, <2>4, Fixed DEF chainVars, NestInv, PlaceInv
  <2> QED BY <1>1, <2>1, <2>3, <2>5, Fixed DEF chainVars, NestInv, ModeInv
<1>2. CASE Chain!Next /\ ~UNCHANGED chainVars
  <2>1. ~Chain!Done
    BY <1>2 DEF Chain!Done, Chain!vars, Chain!control, Chain!fixed, Chain!history,
       Chain!layer, chainVars
  <2>2. NestInv'
    BY <1>2, <2>1, ConsumerNests, MessageNests, LayerNests, OnEndNests, HandlerNests
    DEF Chain!Next
  <2>3. ModeInv'
    <3>1. UNCHANGED Chain!fixed
      BY <1>2, <2>1 DEF Chain!Next, Chain!Asks, Chain!Closes, Chain!Throws,
         Chain!Message, Chain!OnStart, Chain!NextItem, Chain!AtYield, Chain!Yield,
         Chain!YieldedAgain, Chain!InnerEnds, Chain!OnEnd, Chain!HandlerNext,
         Chain!HandlerThrown, Chain!HandlerClosed, Chain!fixed
    <3>2. CASE phase' = phase
      BY <3>1, <3>2, Fixed DEF ModeInv
    <3>3. CASE phase' # phase
      <4>1. Chain!OnStart \/ Chain!AtYield \/ Chain!YieldedAgain
        BY <1>2, <2>1, <3>3 DEF Chain!Next, Chain!Asks, Chain!Closes, Chain!Throws,
         Chain!Message, Chain!NextItem, Chain!Yield,
         Chain!InnerEnds, Chain!OnEnd, Chain!HandlerNext,
         Chain!HandlerThrown, Chain!HandlerClosed, Chain!layer
      <4>2. CASE Chain!OnStart
        BY <3>1, <3>3, <4>2, Fixed DEF Chain!OnStart, ModeInv, ChainTypes
      <4>3. CASE Chain!AtYield
        <5>1. mode = "stream"
          BY <4>3 DEF Chain!AtYield, NestInv, PlaceInv, Alive, Final
        <5> QED BY <3>1, <5>1, Fixed DEF ModeInv
      <4>4. CASE Chain!YieldedAgain
        <5>1. at \in Chain!Places
          BY <4>4, Shape DEF Chain!YieldedAgain, Chain!InLayer
        <5> QED BY <3>1, <4>4, <5>1, Fixed DEF ModeInv, Chain!YieldedAgain
      <4> QED BY <4>1, <4>2, <4>3, <4>4
    <3> QED BY <3>2, <3>3
  <2> QED BY <2>2, <2>3
<1> QED BY <1>1, <1>2

\* What holds of the layers that wait depends on what is on its way.
LEMMA PhaseCases ==
  /\ op \in {"idle", "next"} => (PhaseInv <=> Calm)
  /\ op = "item" /\ mode = "stream" => (PhaseInv <=> Yielded)
  /\ op = "throw" => (PhaseInv <=> Thrown)
  /\ op = "close" => (PhaseInv <=> Closed)
  /\ Final => (PhaseInv <=> Answered)
  /\ op = "end" => (PhaseInv <=> Unwinding)
BY DEF PhaseInv, Final

\* The same after a step.
LEMMA PhaseCasesNext ==
  /\ op' \in {"idle", "next"} => (PhaseInv' <=> Calm')
  /\ op' = "item" /\ mode' = "stream" => (PhaseInv' <=> Yielded')
  /\ op' = "throw" => (PhaseInv' <=> Thrown')
  /\ op' = "close" => (PhaseInv' <=> Closed')
  /\ Final' => (PhaseInv' <=> Answered')
  /\ op' = "end" => (PhaseInv' <=> Unwinding')
BY DEF PhaseInv, Final

\* What a consumer's step means to the layers that wait.
LEMMA ConsumerPhases ==
  ASSUME ChainTypes, NestInv, PhaseInv, SawInv, Chain!Asks \/ Chain!Closes \/ Chain!Throws
  PROVE  PhaseInv' /\ SawInv'
<1> USE DEF Chain!Goes
<1>1. /\ UNCHANGED Chain!fixed
      /\ UNCHANGED <<entered, ended, sent, layerGen, phase, layerPend>>
      /\ at = Chain!Consumer /\ mode' = mode /\ op \in {"idle", "item"}
      /\ op = "idle" \/ mode = "stream"
  BY DEF Chain!Asks, Chain!Closes, Chain!Throws, Chain!history, Chain!layer, Chain!fixed
<1>2. at # Chain!Handler /\ \A i \in Metas : ~(i <= at)
  BY <1>1, Shape
<1>3. ended = <<>>
  BY <1>1 DEF NestInv, PlaceInv, Fresh, Alive, Final
<1>4. SawInv'
  BY <1>1, <1>3 DEF SawInv
<1>5. Calm \/ Metas = {}
  BY <1>1, <1>2, PhaseCases DEF Yielded
<1>6. op = "item" => Chain!Layers \subseteq Chain!Entered
  BY <1>1 DEF NestInv, PlaceInv, Alive, Final
<1>7. Chain!Entered' = Chain!Entered
  BY <1>1 DEF Chain!Entered
<1>8. op # "item" => Calm
  BY <1>1, PhaseCases
<1>9. CASE op' = "closed"
  <2>1. at' = at /\ thrown' = thrown /\ err' = "none" /\ op = "idle"
    BY <1>9 DEF Chain!Asks, Chain!Closes, Chain!Throws, Chain!history
  <2>2. Final' /\ Answered'
    BY <1>1, <1>2, <1>8, <1>9, <2>1, Fixed DEF Answered, Final, Calm, Unstruck
  <2> QED BY <1>4, <2>2, PhaseCasesNext
<1>10. CASE op' # "closed"
  <2>1. at' = Chain!Inside(at)
    BY <1>10 DEF Chain!Asks, Chain!Closes, Chain!Throws
  <2>2. \A j \in Metas : ~(j < at')
    BY <1>1, <1>2, <2>1, Inwards, Shape
  <2>3. ASSUME Chain!Asks PROVE PhaseInv'
    <3>1. op' = "next" /\ thrown' = thrown
      BY <2>3 DEF Chain!Asks, Chain!history
    <3>2. Calm'
      BY <1>1, <1>5, <1>7, <3>1, Fixed, Shape DEF Calm, Unstruck
    <3> QED BY <3>1, <3>2, PhaseCasesNext
  <2>4. ASSUME Chain!Closes PROVE PhaseInv'
    <3>1. op' = "close" /\ thrown' = thrown /\ op = "item"
      BY <1>1, <1>10, <2>4 DEF Chain!Closes, Chain!history
    <3>2. Unstruck' /\ \A i \in Metas : phase'[i] = "inner"
      BY <1>1, <1>5, <1>6, <3>1, Fixed, Shape DEF Calm, Unstruck
    <3> QED BY <1>1, <2>2, <3>1, <3>2, Fixed, PhaseCasesNext DEF Closed
  <2>5. ASSUME Chain!Throws PROVE PhaseInv'
    <3>1. op' = "throw" /\ err' = "Cancelled" /\ op = "item"
      BY <1>1, <1>10, <2>5 DEF Chain!Throws
    <3>2. \A i \in Metas : phase'[i] = "inner"
      BY <1>1, <1>5, <1>6, <3>1, Fixed, Shape DEF Calm
    <3> QED BY <1>1, <2>2, <3>1, <3>2, Fixed, PhaseCasesNext DEF Thrown
  <2> QED BY <1>4, <2>3, <2>4, <2>5
<1> QED BY <1>9, <1>10

\* A message interceptor waits for nothing of its own.
LEMMA MessagePhases ==
  ASSUME ChainTypes, NestInv, PhaseInv, SawInv, Chain!Message
  PROVE  PhaseInv' /\ SawInv'
<1>1. /\ UNCHANGED Chain!fixed
      /\ UNCHANGED <<ended, sent, op, err, phase, layerPend, thrown>>
      /\ mode' = mode /\ at \in Chain!Layers /\ at \notin Metas
  BY DEF Chain!Message, Chain!fixed, Metas
<1>2. at # Chain!Consumer /\ at # Chain!Handler /\ op # "end" /\ op # "idle"
  BY <1>1, Shape DEF NestInv, PlaceInv, Final
<1>3. \A i \in Chain!Entered' : i \in Metas => i \in Chain!Entered
  <2>1. CASE entered' = entered
    BY <2>1 DEF Chain!Entered
  <2>2. CASE entered' = Append(entered, at)
    BY <1>1, <2>2, Enters
  <2> QED BY <2>1, <2>2 DEF Chain!Message
<1>4. SawInv'
  BY <1>1, <1>2 DEF SawInv, Final, Last, Expected, Chain!Reported
<1>5. Calm => Calm'
  BY <1>1, <1>3, Fixed DEF Calm, Unstruck
<1>6. Unstruck => Unstruck'
  BY <1>1, Fixed DEF Unstruck
<1>7. \A i \in Metas : (Throwing(i) => Throwing(i)') /\ (Closing(i) => Closing(i)')
                       /\ (Struck(i) => Struck(i)')
  BY <1>1, Fixed DEF Throwing, Closing, Struck
<1>8. CASE op \in {"next", "throw", "close"}
  <2>1. at' = Chain!Inside(at)
    BY <1>8 DEF Chain!Message
  <2>2. \A i \in Metas : i < at' <=> i < at
    BY <1>1, <1>2, <2>1, Inwards, Shape
  <2>3. CASE op = "next"
    BY <1>1, <1>4, <1>5, <2>3, PhaseCases, PhaseCasesNext
  <2>4. CASE op = "throw"
    <3>1. Thrown'
      BY <1>1, <1>7, <2>2, <2>4, Fixed, PhaseCases DEF Thrown
    <3> QED BY <1>1, <1>4, <2>4, <3>1, PhaseCasesNext
  <2>5. CASE op = "close"
    <3>1. Closed'
      BY <1>1, <1>6, <1>7, <2>2, <2>5, Fixed, PhaseCases DEF Closed
    <3> QED BY <1>1, <1>4, <2>5, <3>1, PhaseCasesNext
  <2> QED BY <1>4, <1>8, <2>3, <2>4, <2>5
<1>9. CASE op \notin {"next", "throw", "close"}
  <2>1. at' = Chain!Outside(at)
    BY <1>9 DEF Chain!Message
  <2>2. \A i \in Metas : i <= at' <=> i <= at
    BY <1>1, <1>2, <2>1, Outwards, Shape
  <2>3. CASE op = "item" /\ mode = "stream"
    <3>1. Yielded'
      BY <1>1, <1>5, <1>7, <2>2, <2>3, Fixed, PhaseCases DEF Yielded
    <3> QED BY <1>1, <1>4, <2>3, <3>1, PhaseCasesNext
  <2>4. CASE Final
    <3>1. Answered'
      BY <1>1, <1>6, <1>7, <2>2, <2>4, Fixed, PhaseCases DEF Answered
    <3>2. Final'
      BY <1>1, <2>4 DEF Final
    <3> QED BY <1>4, <3>1, <3>2, PhaseCasesNext
  <2>5. Final \/ (op = "item" /\ mode = "stream")
    BY <1>2, <1>9 DEF Final, ChainTypes
  <2> QED BY <1>4, <2>3, <2>4, <2>5
<1> QED BY <1>8, <1>9

\* A metadata layer: a hook starts, items and requests pass, and it remembers what
\* its caller did to it until what is inside has ended.
LEMMA LayerPhases ==
  ASSUME ChainTypes, NestInv, ModeInv, PhaseInv, SawInv,
         \/ Chain!OnStart \/ Chain!NextItem \/ Chain!AtYield \/ Chain!Yield
         \/ Chain!YieldedAgain
  PROVE  PhaseInv' /\ SawInv'
<1> USE DEF Chain!Goes
<1>1. /\ UNCHANGED Chain!fixed /\ UNCHANGED <<ended, sent, thrown>> /\ mode' = mode
      /\ at \in Metas /\ at \in Chain!Layers /\ Chain!IsMetadata(at)
  BY DEF Chain!OnStart, Chain!NextItem, Chain!AtYield, Chain!Yield, Chain!YieldedAgain,
     Chain!history, Chain!fixed, Chain!InLayer, Metas
<1>2. at # Chain!Consumer /\ at # Chain!Handler /\ at \in Chain!Places
  BY <1>1, Shape
<1>3. ended = <<>>
  <2>1. CASE Chain!YieldedAgain
    <3>1. mode = "stream"
      BY <1>2, <2>1 DEF Chain!YieldedAgain, ModeInv, ChainTypes
    <3> QED BY <2>1, <3>1
        DEF Chain!YieldedAgain, NestInv, PlaceInv, Fresh, Alive, Final
  <2>2. CASE ~Chain!YieldedAgain
    <3>1. op \in {"next", "throw", "close"} \/ (op = "item" /\ mode = "stream")
      BY <2>2 DEF Chain!OnStart, Chain!NextItem, Chain!AtYield, Chain!Yield
    <3> QED BY <3>1 DEF NestInv, PlaceInv, Fresh, Alive, Final
  <2> QED BY <2>1, <2>2
<1>4. SawInv'
  BY <1>1, <1>3 DEF SawInv
<1>5. Unstruck => Unstruck'
  BY <1>1, Fixed DEF Unstruck
<1>6. ASSUME Chain!OnStart PROVE PhaseInv'
  <2>1. Calm
    BY <1>6, PhaseCases DEF Chain!OnStart
  <2>2. CASE op' = "next" /\ entered' = Append(entered, at)
    <3>1. phase' = [phase EXCEPT ![at] = "inner"]
      BY <1>6, <2>2 DEF Chain!OnStart
    <3>2. Chain!Entered' = Chain!Entered \cup {at}
      BY <1>1, <2>2, Enters
    <3>3. Calm'
      BY <1>1, <1>2, <1>5, <2>1, <3>1, <3>2, Fixed, Shape DEF Calm, ChainTypes
    <3> QED BY <2>2, <3>3, PhaseCasesNext
  <2>3. CASE op' = "raise" /\ phase' = phase
    <3>1. at' = Chain!Outside(at) /\ err' \in Failed
      BY <1>6, <2>3 DEF Chain!OnStart, Chain!Failures, Failed
    <3>2. \A i \in Metas : i <= at' => i \in Chain!Entered
      BY <1>1, <1>2, <3>1, Outwards, Shape DEF NestInv, EnteredInv
    <3>3. Answered'
      BY <1>1, <1>5, <2>1, <2>3, <3>1, <3>2, Fixed DEF Calm, Answered, Failed
    <3> QED BY <2>3, <3>3, PhaseCasesNext DEF Final
  <2> QED BY <1>6, <2>2, <2>3 DEF Chain!OnStart
<1>7. ASSUME Chain!NextItem PROVE PhaseInv'
  <2>1. Calm /\ op' = "next" /\ UNCHANGED <<entered, phase>>
    BY <1>7, PhaseCases DEF Chain!NextItem, Chain!layer, Chain!history
  <2>2. Calm'
    BY <1>1, <1>5, <2>1, Fixed DEF Calm, Chain!Entered
  <2> QED BY <2>1, <2>2, PhaseCasesNext
<1>8. ASSUME Chain!AtYield PROVE PhaseInv'
  <2>1. at' = Chain!Inside(at) /\ op' = op /\ err' = err
    BY <1>8 DEF Chain!AtYield
  <2>2. \A i \in Metas : i < at' <=> (i < at \/ i = at)
    BY <1>1, <1>2, <2>1, Inwards, Shape
  <2>3. \A i \in Metas : i # at => phase'[i] = phase[i] /\ layerPend'[i] = layerPend[i]
    BY <1>8, Shape DEF Chain!AtYield, ChainTypes
  <2>4. \A i \in Metas : i < at => i # at
    BY Shape
  <2>5. ~(at < at)
    BY <1>1, Shape
  <2>6. CASE op = "throw"
    <3>1. Thrown
      BY <2>6, PhaseCases
    <3>2. phase'[at] = "throwing" /\ layerPend'[at] = "Cancelled"
      BY <1>2, <1>8, <2>6, <3>1 DEF Chain!AtYield, ChainTypes, Thrown
    <3>3. Thrown'
      BY <2>1, <2>2, <2>3, <2>4, <3>1, <3>2, <1>1, Fixed DEF Thrown, Throwing
    <3> QED BY <2>1, <2>6, <3>3, PhaseCasesNext
  <2>7. CASE op = "close"
    <3>1. Unstruck /\ \A i \in Metas : IF i < at THEN Closing(i) ELSE phase[i] = "inner"
      BY <1>1, <2>5, <2>7, PhaseCases DEF Closed
    <3>2. phase'[at] = "closing" /\ layerPend'[at] = "GeneratorExit"
      BY <1>2, <1>8, <2>7 DEF Chain!AtYield, ChainTypes
    <3>3. Closed'
      BY <1>5, <2>1, <2>2, <2>3, <2>4, <3>1, <3>2, <1>1, Fixed DEF Closed, Closing
    <3> QED BY <2>1, <2>7, <3>3, PhaseCasesNext
  <2> QED BY <1>8, <2>6, <2>7 DEF Chain!AtYield
<1>9. ASSUME Chain!Yield PROVE PhaseInv'
  <2>1. /\ op = "item" /\ op' = "item" /\ mode = "stream" /\ phase[at] = "inner"
        /\ UNCHANGED <<entered, phase>>
    BY <1>9 DEF Chain!Yield, Chain!layer, Chain!history
  <2>2. Calm
    BY <1>1, <2>1, PhaseCases DEF Yielded, Throwing
  <2>3. Calm'
    BY <1>1, <1>5, <2>1, <2>2, Fixed DEF Calm, Chain!Entered
  <2> QED BY <1>1, <2>1, <2>3, PhaseCasesNext DEF Yielded
<1>10. ASSUME Chain!YieldedAgain PROVE PhaseInv'
  <2>1. /\ op = "item" /\ op' = "close" /\ phase[at] = "throwing"
        /\ at' = Chain!Inside(at) /\ layerPend' = layerPend
        /\ phase' = [phase EXCEPT ![at] = "closing"]
    BY <1>10 DEF Chain!YieldedAgain
  <2>2. mode = "stream"
    BY <1>2, <2>1 DEF ModeInv, ChainTypes
  <2>3. Alive
    BY <2>1, <2>2 DEF NestInv, PlaceInv, Final
  <2>4. \A i \in Metas : i <= at /\ Throwing(i)
    BY <1>1, <2>1, <2>2, <2>3, PhaseCases DEF Yielded, Calm, Alive
  <2>5. \A i \in Metas : i < at' <=> i <= at
    BY <1>1, <1>2, <2>1, Inwards, Shape
  <2>6. \A i \in Metas : i < at' /\ Struck(i)'
    BY <1>1, <1>2, <2>1, <2>4, <2>5, Fixed DEF Struck, Throwing, ChainTypes
  <2> QED BY <1>1, <2>1, <2>6, Fixed, PhaseCasesNext DEF Closed
<1> QED BY <1>4, <1>6, <1>7, <1>8, <1>9, <1>10

\* What a layer leaves with is what the layer inside it left with, unless it was
\* cancelled and nothing else came of it.
LEMMA EndPhases ==
  ASSUME ChainTypes, NestInv, PhaseInv, SawInv, Chain!InnerEnds
  PROVE  PhaseInv' /\ SawInv'
<1>1. /\ UNCHANGED Chain!fixed /\ UNCHANGED <<at, phase, ended, thrown>> /\ mode' = mode
      /\ at \in Metas /\ at \in Chain!Places /\ op' = "end"
      /\ layerPend' = [layerPend EXCEPT ![at] = Chain!Leaving(at)] /\ Final
  BY Shape DEF Chain!InnerEnds, Chain!history, Chain!fixed, Chain!InLayer, Metas, Final
<1>2. /\ layerPend'[at] = Chain!Leaving(at)
      /\ \A i \in Metas : i < at => layerPend'[i] = layerPend[i]
  BY <1>1, Shape DEF ChainTypes
<1>3. Answered
  BY <1>1, PhaseCases
<1>4. /\ err = IF op = "raise" THEN err ELSE "none"
      /\ err \in Failed \cup {"none", "Group"}
  BY <1>1 DEF ChainTypes, Final
<1>5. at <= at /\ \A i \in Metas : i < at => i <= at
  BY <1>1, Shape
<1>6. Unstruck' = Unstruck
  BY <1>1, Fixed DEF Unstruck
<1>7. /\ Unwinding'
      /\ \/ Chain!Reported(Chain!Leaving(at)) = Chain!Reported(err)
         \/ ended = <<>>
  <2>1. CASE Unstruck /\ err # "Group" /\ \A i \in Metas : i <= at => phase[i] = "inner"
    <3>1. Chain!Leaving(at) = err
      BY <1>1, <1>4, <1>5, <2>1, LeavingIs
    <3> QED BY <1>1, <1>2, <1>5, <1>6, <2>1, <3>1, Fixed DEF Unwinding
  <2>2. CASE Unstruck /\ err # "Group" /\ \A i \in Metas : i <= at => Closing(i)
    <3>1. /\ phase[at] = "closing" /\ layerPend[at] = "GeneratorExit"
      BY <1>1, <1>5, <2>2 DEF Closing
    <3>2. Chain!Leaving(at) = IF err = "none" THEN "GeneratorExit" ELSE err
      BY <1>4, <3>1, LeavingIs
    <3>3. Chain!Reported(Chain!Leaving(at)) = Chain!Reported(err)
      BY <1>4, <3>2, ReportedIs
    <3> QED BY <1>1, <1>2, <1>5, <1>6, <2>2, <3>2, <3>3, Fixed DEF Unwinding, Closing
  <2>3. CASE /\ \A i \in Metas : i <= at => Struck(i)
             /\ err = "Group" => \A i \in Metas : i <= at => Throwing(i)
             /\ ended # <<>> => op = "raise" /\ err \in Failed
    <3>1. /\ layerPend[at] = "Cancelled" /\ phase[at] \in {"throwing", "closing"}
          /\ err = "Group" => phase[at] = "throwing"
      BY <1>1, <1>5, <2>3 DEF Struck, Throwing
    <3>2. Chain!Leaving(at) = IF err \in {"none", "Group"} THEN "Cancelled" ELSE err
      <4>1. CASE phase[at] = "throwing"
        BY <1>4, <3>1, <4>1, LeavingIs DEF Chain!AfterThrow
      <4>2. CASE phase[at] = "closing"
        BY <1>4, <3>1, <4>2, LeavingIs
      <4> QED BY <3>1, <4>1, <4>2
    <3>3. Chain!Leaving(at) \in Failed /\ (ended # <<>> => Chain!Leaving(at) = err)
      BY <1>4, <2>3, <3>2 DEF Failed
    <3>4. \A i \in Metas : i < at => Struck(i)'
      BY <1>1, <1>2, <1>5, <2>3, Fixed DEF Struck
    <3>5. Unwinding'
      BY <1>1, <1>2, <3>3, <3>4, Fixed DEF Unwinding, Failed
    <3> QED BY <3>3, <3>5
  <2> QED BY <1>3, <2>1, <2>2, <2>3 DEF Answered
<1>8. SawInv'
  <2>1. /\ Final' = FALSE /\ Last' = Last /\ Expected' = Expected
    BY <1>1 DEF Final, Last, Expected, Chain!Reported
  <2>2. ended # <<>> => Chain!Reported(Chain!Leaving(at)) = Expected
    BY <1>1, <1>7 DEF SawInv
  <2>3. \A e : Chain!Reported(e)' = Chain!Reported(e)
    BY DEF Chain!Reported
  <2>4. (ended # <<>> /\ op = "end" => Chain!Reported(layerPend[at]) = Expected)'
    BY <1>1, <1>2, <2>1, <2>2 DEF Chain!Reported
  <2> QED BY <1>1, <2>1, <2>4 DEF SawInv, Chain!Reported
<1> QED BY <1>1, <1>7, <1>8, PhaseCasesNext

\* A hook that ends leaves with what it was going to, or with an exception of its own.
LEMMA OnEndPhases ==
  ASSUME ChainTypes, NestInv, PhaseInv, SawInv, Chain!OnEnd
  PROVE  PhaseInv' /\ SawInv'
<1> USE DEF Chain!Goes
<1>1. /\ UNCHANGED Chain!fixed /\ UNCHANGED <<phase, layerPend, thrown>> /\ mode' = mode
      /\ at \in Metas /\ at \in Chain!Places /\ op = "end" /\ Unwinding
  <2>1. /\ UNCHANGED Chain!fixed /\ UNCHANGED <<phase, layerPend, thrown>>
        /\ at \in Metas /\ op = "end"
    BY DEF Chain!OnEnd, Chain!InLayer, Metas
  <2> QED BY <2>1, Shape, PhaseCases DEF Chain!fixed
<1>2. /\ at # Chain!Consumer
      /\ layerPend[at] \in Failed \cup {"none", "GeneratorExit"}
  BY <1>1, Shape DEF ChainTypes, Unwinding
<1>3. PICK e \in Chain!Failures \cup {"none"} :
        LET leaves == IF e = "none" THEN layerPend[at] ELSE e IN
        /\ ended' = Append(ended, [by |-> at, saw |-> Chain!Reported(layerPend[at]),
                                   raised |-> e])
        /\ Chain!Goes(Chain!Outside(at), Chain!Outcome(leaves)[1],
                      Chain!Outcome(leaves)[2])
  BY DEF Chain!OnEnd
<1> DEFINE leaves == IF e = "none" THEN layerPend[at] ELSE e
           r == [by |-> at, saw |-> Chain!Reported(layerPend[at]), raised |-> e]
           n == Len(ended)
<1>4. /\ at' = Chain!Outside(at) /\ op' = Chain!Outcome(leaves)[1]
      /\ err' = Chain!Outcome(leaves)[2] /\ ended' = Append(ended, r)
  BY <1>3
<1>5. e \in Failed \cup {"none"} /\ leaves \in Failed \cup {"none", "GeneratorExit"}
  BY <1>2 DEF Chain!Failures, Failed
<1>6. /\ r.saw = Chain!Reported(layerPend[at]) /\ r.raised = e
  OBVIOUS
<1>7. /\ n \in Nat /\ DOMAIN ended = 1..n /\ Len(ended') = n + 1
      /\ ended'[n + 1] = r /\ \A k \in 1..n : ended'[k] = ended[k]
  BY <1>4, AppendProperties DEF ChainTypes
<1> HIDE DEF r, n
<1>8. /\ leaves \in Failed => op' = "raise" /\ err' = leaves
      /\ leaves \notin Failed => err' = "none"
      /\ Final' /\ (op' # "raise" => err' = "none")
      /\ err' # "Group"
  <2> HIDE DEF leaves
  <2>1. CASE leaves = "none"
    <3>1. err' = "none" /\ op' = IF mode = "unary" THEN "item" ELSE "stop"
      BY <1>4, <2>1, OutcomeIs
    <3> QED BY <1>1, <2>1, <3>1 DEF Final, Failed
  <2>2. CASE leaves = "GeneratorExit"
    <3>1. err' = "none" /\ op' = "closed"
      BY <1>4, <2>2, OutcomeIs
    <3> QED BY <2>2, <3>1 DEF Final, Failed
  <2>3. CASE leaves \in Failed
    <3>1. leaves \notin {"none", "GeneratorExit"} /\ leaves # "Group"
      BY <2>3 DEF Failed
    <3>2. err' = leaves /\ op' = "raise"
      BY <1>4, <3>1, OutcomeIs
    <3> QED BY <2>3, <3>1, <3>2 DEF Final
  <2> QED BY <1>5, <2>1, <2>2, <2>3
<1>9. \A i \in Metas : i <= at' <=> i < at
  BY <1>1, <1>2, <1>4, Outwards, Shape
<1>10. Answered'
  <2>1. CASE Unstruck /\ \/ \A i \in Metas : i < at => phase[i] = "inner"
                         \/ \A i \in Metas : i < at => Closing(i)
    BY <1>1, <1>8, <1>9, <2>1, Fixed DEF Answered, Unstruck, Closing
  <2>2. CASE (\A i \in Metas : i < at => Struck(i)) /\ layerPend[at] \in Failed
    <3>1. op' = "raise" /\ err' \in Failed
      BY <1>5, <1>8, <2>2
    <3>2. \A i \in Metas : i <= at' => Struck(i)'
      BY <1>1, <1>9, <2>2, Fixed DEF Struck
    <3> QED BY <1>1, <1>8, <3>1, <3>2, Fixed DEF Answered
  <2> QED BY <1>1, <2>1, <2>2 DEF Unwinding
<1>11. \A x : Chain!Reported(x)' = Chain!Reported(x)
  BY DEF Chain!Reported
<1>12. Last' = r /\ Expected' = Chain!Reported(leaves)
  <2>1. Last' = r
    BY <1>7 DEF Last
  <2>2. Expected' = IF e = "none" THEN r.saw ELSE Chain!Reported(e)
    BY <1>6, <2>1 DEF Expected, Chain!Reported
  <2> QED BY <1>6, <2>1, <2>2
<1>13. Chain!Reported(err') = Chain!Reported(leaves)
  <2> HIDE DEF leaves
  <2>1. CASE leaves \in Failed
    BY <1>8, <2>1
  <2>2. CASE leaves \in {"none", "GeneratorExit"}
    <3>1. err' = "none"
      BY <1>8, <2>2 DEF Failed
    <3> QED BY <2>2, <3>1, ReportedIs
  <2> QED BY <1>5, <2>1, <2>2
<1>14. SawInv'
  <2>1. \A k \in 2..(n + 1) :
          ended'[k].saw = IF ended'[k - 1].raised = "none" THEN ended'[k - 1].saw
                          ELSE Chain!Reported(ended'[k - 1].raised)
    <3> TAKE k \in 2..(n + 1)
    <3>1. CASE k <= n
      <4>1. k \in 1..n /\ k - 1 \in 1..n /\ k \in 2..Len(ended)
        BY <1>7, <3>1 DEF n
      <4>2. ended'[k] = ended[k] /\ ended'[k - 1] = ended[k - 1]
        BY <1>7, <4>1
      <4> QED BY <4>1, <4>2 DEF SawInv
    <3>2. CASE k = n + 1
      <4>1. n >= 1 /\ k - 1 = n /\ ended # <<>>
        BY <1>7, <3>2 DEF n
      <4>2. ended'[k] = r /\ ended'[k - 1] = Last
        BY <1>7, <3>2, <4>1 DEF Last, n
      <4>3. r.saw = Expected
        BY <1>1, <1>6, <4>1 DEF SawInv
      <4> QED BY <4>2, <4>3 DEF Expected
    <3> QED BY <1>7, <3>1, <3>2
  <2>2. e # "none" => op' = "raise" /\ err' = e
    BY <1>5, <1>8
  <2>3. Chain!Reported(err)' = Expected'
    BY <1>12, <1>13 DEF Chain!Reported
  <2>4. op' # "end"
    BY <1>8 DEF Final
  <2> QED BY <1>6, <1>7, <1>12, <2>1, <2>2, <2>3, <2>4 DEF SawInv, Chain!Reported
<1> QED BY <1>8, <1>10, <1>14, PhaseCasesNext

\* The handler answers with its own error, or with what it makes of a cancellation.
LEMMA HandlerPhases ==
  ASSUME ChainTypes, NestInv, PhaseInv, SawInv,
         Chain!HandlerNext \/ Chain!HandlerThrown \/ Chain!HandlerClosed
  PROVE  PhaseInv' /\ SawInv'
<1> USE DEF Chain!Goes
<1>1. /\ UNCHANGED Chain!fixed /\ UNCHANGED <<phase, layerPend, entered, ended, thrown>>
      /\ mode' = mode /\ at = Chain!Handler /\ at' = Chain!Outside(at)
      /\ op \in {"next", "throw", "close"}
  BY DEF Chain!HandlerNext, Chain!HandlerThrown, Chain!HandlerClosed, Chain!Running,
     Chain!history, Chain!fixed
<1>2. at # Chain!Consumer /\ \A i \in Metas : i < at
  BY <1>1, Shape
<1>3. \A i \in Metas : i < at /\ i <= at'
  BY <1>1, <1>2, Outwards, Shape
<1>4. ended = <<>>
  BY <1>1 DEF NestInv, PlaceInv, Fresh, Alive, Final
<1>5. SawInv'
  BY <1>1, <1>4 DEF SawInv
<1>6. \A i \in Metas : i \in Chain!Entered
  BY <1>2, Shape DEF NestInv, EnteredInv
<1>7. /\ Unstruck => Unstruck'
      /\ \A i \in Metas : /\ Throwing(i)' = Throwing(i) /\ Closing(i)' = Closing(i)
                          /\ Struck(i)' = Struck(i)
  BY <1>1, Fixed DEF Unstruck, Throwing, Closing, Struck
<1>8. ASSUME Chain!HandlerNext PROVE PhaseInv'
  <2>1. Calm /\ err' \in Failed \cup {"none"} /\ op' \in {"item", "stop", "raise"}
    BY <1>8, PhaseCases DEF Chain!HandlerNext, Chain!Failures, Failed
  <2>2. Unstruck' /\ \A i \in Metas : phase'[i] = "inner"
    BY <1>1, <1>6, <1>7, <2>1 DEF Calm
  <2>3. CASE op' = "item" /\ mode = "stream"
    BY <1>1, <2>2, <2>3, Fixed, PhaseCasesNext DEF Yielded, Calm
  <2>4. CASE Final'
    BY <2>1, <2>2, <2>4, Fixed, <1>1, PhaseCasesNext DEF Answered, Failed
  <2> QED BY <1>1, <2>1, <2>3, <2>4 DEF Final, ChainTypes
<1>9. ASSUME Chain!HandlerThrown PROVE PhaseInv'
  <2>1. op = "throw" /\ op' \in {"item", "stop", "raise"}
    BY <1>9 DEF Chain!HandlerThrown
  <2>2. err = "Cancelled" /\ \A i \in Metas : Throwing(i)
    BY <1>2, <2>1, PhaseCases DEF Thrown
  <2>3. mode = "stream"
    BY <2>1 DEF NestInv, PlaceInv, Alive, Final
  <2>4. CASE op' = "item"
    BY <1>1, <1>3, <1>7, <2>2, <2>3, <2>4, Fixed, PhaseCasesNext DEF Yielded
  <2>5. CASE Final'
    <3>1. \A i \in Metas : Struck(i)
      BY <2>2 DEF Throwing, Struck
    <3> QED BY <1>1, <1>4, <1>7, <2>2, <2>5, <3>1, Fixed, PhaseCasesNext DEF Answered
  <2> QED BY <2>1, <2>4, <2>5 DEF Final
<1>10. ASSUME Chain!HandlerClosed PROVE PhaseInv'
  <2>1. op = "close" /\ op' \in {"closed", "raise"} /\ err' # "Group"
    BY <1>10 DEF Chain!HandlerClosed, Chain!Failures
  <2>2. Final'
    BY <2>1 DEF Final
  <2>3. CASE Unstruck /\ \A i \in Metas : Closing(i)
    BY <1>1, <1>7, <2>1, <2>2, <2>3, Fixed, PhaseCasesNext DEF Answered
  <2>4. CASE \A i \in Metas : Struck(i)
    BY <1>1, <1>4, <1>7, <2>1, <2>2, <2>4, Fixed, PhaseCasesNext DEF Answered
  <2> QED BY <1>2, <2>1, <2>3, <2>4, PhaseCases DEF Closed
<1> QED BY <1>5, <1>8, <1>9, <1>10

\* Every step keeps what the layers wait for and what the hooks have seen.
LEMMA PhaseStep ==
  ChainTypes /\ NestInv /\ ModeInv /\ PhaseInv /\ SawInv /\ [Chain!Next]_chainVars
  => PhaseInv' /\ SawInv'
<1> SUFFICES ASSUME ChainTypes, NestInv, ModeInv, PhaseInv, SawInv,
                    [Chain!Next]_chainVars
             PROVE  PhaseInv' /\ SawInv'
  OBVIOUS
<1>1. CASE UNCHANGED chainVars
  <2>1. UNCHANGED Chain!fixed
    BY <1>1 DEF chainVars, Chain!fixed
  <2>2. UNCHANGED <<at, op, err, mode, phase, layerPend, entered, ended, thrown>>
    BY <1>1 DEF chainVars
  <2>3. \A i \in Metas : /\ Struck(i)' = Struck(i) /\ Closing(i)' = Closing(i)
                         /\ Throwing(i)' = Throwing(i)
    BY <2>1, <2>2, Fixed DEF Struck, Closing, Throwing
  <2>4. Unstruck' = Unstruck /\ Calm' = Calm
    BY <2>1, <2>2, Fixed DEF Unstruck, Calm, Chain!Entered
  <2>5. Yielded' = Yielded /\ Thrown' = Thrown /\ Closed' = Closed
    BY <2>1, <2>2, <2>3, <2>4, Fixed DEF Yielded, Thrown, Closed
  <2>6. Answered' = Answered
    BY <2>1, <2>2, <2>3, <2>4, Fixed DEF Answered
  <2>7. Unwinding' = Unwinding
    BY <2>1, <2>2, <2>3, <2>4, Fixed DEF Unwinding
  <2>8. Final' = Final
    BY <2>2 DEF Final
  <2>9. PhaseInv'
    BY <2>2, <2>4, <2>5, <2>6, <2>7, <2>8 DEF PhaseInv
  <2>10. SawInv'
    BY <2>2, <2>8 DEF SawInv, Last, Expected, Chain!Reported
  <2> QED BY <2>9, <2>10
<1>2. CASE Chain!Next /\ ~UNCHANGED chainVars
  <2>1. ~Chain!Done
    BY <1>2 DEF Chain!Done, Chain!vars, Chain!control, Chain!fixed, Chain!history,
       Chain!layer, chainVars
  <2> QED BY <1>2, <2>1, ConsumerPhases, MessagePhases, LayerPhases, EndPhases,
            OnEndPhases, HandlerPhases DEF Chain!Next
<1> QED BY <1>1, <1>2

\* Before the first request nothing was entered and nothing ended.
LEMMA ChainInitInv == LoopsInit => ChainInv
<1> SUFFICES ASSUME LoopsInit PROVE ChainInv
  OBVIOUS
<1>1. Chain!Init
  BY DEF LoopsInit
<1>2. /\ at = Chain!Consumer /\ op = "idle" /\ err = "none" /\ sent = 0
      /\ entered = <<>> /\ ended = <<>> /\ thrown = FALSE
      /\ mode \in {"unary", "stream"} /\ side \in {"client", "server"}
      /\ layerGen = [i \in Chain!Places |-> "new"]
      /\ phase = [i \in Chain!Places |-> "start"]
      /\ layerPend = [i \in Chain!Places |-> "none"]
  BY <1>1 DEF Chain!Init
<1>3. list \in Seq(Chain!Kinds) /\ Len(list) \in Nat /\ Len(list) <= MaxInterceptors
  <2>1. PICK n \in 0..MaxInterceptors : list \in [1..n -> Chain!Kinds]
    BY <1>1 DEF Chain!Init
  <2>2. n \in Nat /\ n <= MaxInterceptors
    BY <2>1, ChainAssumption
  <2>3. list \in Seq(Chain!Kinds) /\ Len(list) = n
    BY <2>1, <2>2
  <2> QED BY <2>2, <2>3
<1>4. ChainTypes
  <2>1. entered \in Seq(Chain!Layers) /\ ended \in Seq(Record)
    BY <1>2
  <2> QED BY <1>2, <1>3, <2>1 DEF ChainTypes
<1>5. Chain!Entered = {} /\ Chain!Ended = {} /\ Chain!Started = {}
  BY <1>2, Empty DEF Chain!Started
<1>6. \A i \in Chain!Layers : ~(i < at)
  BY <1>2, <1>4, Shape
<1>7. EnteredInv
  BY <1>2, <1>5, <1>6 DEF EnteredInv
<1>8. EndedInv
  BY <1>2, <1>5, <1>6 DEF EndedInv, Chain!Unwound
<1>9. PlaceInv
  BY <1>2, <1>4, <1>5, <1>6, Shape DEF PlaceInv, Fresh
<1>10. ModeInv
  BY <1>2 DEF ModeInv
<1>11. PhaseInv
  <2>1. Calm
    BY <1>2, <1>5 DEF Calm, Unstruck
  <2> QED BY <1>2, <2>1, PhaseCases
<1>12. SawInv
  BY <1>2 DEF SawInv
<1> QED BY <1>4, <1>7, <1>8, <1>9, <1>10, <1>11, <1>12 DEF ChainInv, NestInv

\* The invariant holds throughout, whichever of the three parts runs.
LEMMA ChainAlways == LoopsSpec => []ChainInv
<1>1. ChainInv /\ [LoopsNext]_allVars => ChainInv'
  <2>1. [LoopsNext]_allVars => [Chain!Next]_chainVars
    BY DEF LoopsNext, LifespanRuns, ChainRuns, TrioRuns, allVars
  <2> QED BY <2>1, TypesStep, NestStep, PhaseStep DEF ChainInv
<1> QED BY <1>1, ChainInitInv, PTL DEF LoopsSpec

\* Once the consumer has its outcome, every hook that started has ended.
LEMMA FinishedIs ==
  ASSUME ChainInv, Chain!Finished
  PROVE  /\ Final /\ at = Chain!Consumer /\ Answered
         /\ Chain!Started \subseteq Chain!Ended /\ HandlerRests
<1>1. Final /\ at = Chain!Consumer
  BY DEF Chain!Finished, Final
<1>2. Answered
  BY <1>1, PhaseCases DEF ChainInv
<1>3. InnerEnded \/ (op = "item" /\ Alive)
  BY <1>1 DEF ChainInv, NestInv, PlaceInv, Final
<1>4. InnerEnded
  BY <1>1, <1>3 DEF Alive, Final
<1>5. Chain!Started \subseteq Chain!Layers
  BY DEF ChainInv, ChainTypes, Chain!Started, Chain!Entered
<1>6. \A i \in Chain!Started : i > at
  BY <1>1, <1>5, Shape DEF ChainInv
<1> QED BY <1>1, <1>2, <1>4, <1>6 DEF InnerEnded

\* What was hoisted and what was entered is a prefix of what applies.
LEMMA InOrderIs == ChainInv => Chain!InOrder
<1> SUFFICES ASSUME ChainInv PROVE Chain!InOrder
  OBVIOUS
<1>1. /\ Len(list) \in Nat /\ Chain!Hoisted \in 0..Len(list)
      /\ \A i \in 1..Chain!Hoisted : Chain!IsMetadata(i)
  BY HoistedIs, Shape DEF ChainInv
<1>2. Chain!Entered \subseteq Chain!Layers
  BY DEF ChainInv, ChainTypes, Chain!Entered
<1>3. 1..Chain!Hoisted \subseteq Chain!Applied
  BY <1>1 DEF Chain!Applied, Chain!IsMetadata
<1>4. /\ Chain!Layers \subseteq Chain!Applied
      /\ \A j \in Chain!Applied : j \in 1..Chain!Hoisted \/ j \in Chain!Layers
  BY <1>1 DEF Chain!Layers, Chain!Applied
<1>5. ASSUME NEW i \in (1..Chain!Hoisted) \cup Chain!Entered, NEW j \in Chain!Applied,
             j < i
      PROVE  j \in (1..Chain!Hoisted) \cup Chain!Entered
  <2>1. CASE j \in 1..Chain!Hoisted
    BY <2>1
  <2>2. CASE j \in Chain!Layers
    <3>1. i \in Chain!Entered
      BY <1>1, <1>5, <2>2 DEF Chain!Layers, Chain!Applied
    <3> QED BY <1>5, <2>2, <3>1 DEF ChainInv, NestInv, EnteredInv
  <2> QED BY <1>4, <2>1, <2>2
<1>6. sent > 0 => Chain!Applied \subseteq (1..Chain!Hoisted) \cup Chain!Entered
  BY <1>4 DEF ChainInv, NestInv, EnteredInv
<1>7. \A j, k \in DOMAIN entered : j < k => entered[j] < entered[k]
  BY DEF ChainInv, NestInv, EnteredInv
<1> QED BY <1>1, <1>2, <1>3, <1>4, <1>5, <1>6, <1>7 DEF Chain!InOrder

\* Interceptors nest, hooks that started end once and inside out, and no generator is
\* left, for any list of interceptors on a client or a server, any number of items and
\* whatever the handler and the consumer do.
THEOREM LayersNest == LoopsSpec => []Nested
<1>1. ChainInv => Nested
  <2> SUFFICES ASSUME ChainInv PROVE Chain!Nested
    BY DEF Nested
  <2>1. Chain!InOrder
    BY InOrderIs
  <2>2. Chain!Unwound
    BY DEF ChainInv, NestInv, EndedInv
  <2>3. Chain!Finished => /\ Chain!Started \subseteq Chain!Ended
                          /\ plain \/ layerGen[Chain!Handler] \in {"new", "done"}
    BY FinishedIs DEF HandlerRests
  <2> QED BY <2>1, <2>2, <2>3 DEF Chain!Nested
<1> QED BY <1>1, ChainAlways, PTL

\* Every hook, and the consumer, gets the outcome of what is inside it, and no
\* cancellation thrown into a stream is lost, for any list of interceptors.
THEOREM OutcomesPropagate == LoopsSpec => []OutcomePropagates
<1>1. ChainInv => OutcomePropagates
  <2> SUFFICES ASSUME ChainInv PROVE Chain!OutcomePropagates
    BY DEF OutcomePropagates
  <2>1. SawInv
    BY DEF ChainInv
  <2>2. ASSUME Chain!Finished, ended # <<>>
        PROVE  IF Last.raised # "none" THEN op = "raise" /\ err = Last.raised
               ELSE Chain!Reported(err) = Last.saw
    <3>1. Final
      BY <2>2, FinishedIs
    <3> QED BY <2>1, <2>2, <3>1 DEF SawInv, Expected
  <2>3. ASSUME Chain!Finished, thrown, Chain!Started # {} PROVE op = "raise"
    <3>1. Answered /\ at = Chain!Consumer /\ Chain!Started \subseteq Chain!Ended
      BY <2>3, FinishedIs
    <3>2. Chain!Started \subseteq Metas
      BY DEF ChainInv, ChainTypes, Chain!Started, Chain!Entered, Metas
    <3>3. ~Unstruck
      BY <2>3, <3>2 DEF Unstruck
    <3>4. ended # <<>>
      BY <2>3, <3>1, Empty
    <3> QED BY <3>1, <3>3, <3>4 DEF Answered
  <2> QED BY <2>1, <2>2, <2>3 DEF Chain!OutcomePropagates, SawInv, Last
<1> QED BY <1>1, ChainAlways, PTL
=============================================================================
