----------------------------- MODULE HealthWatch -----------------------------
(***************************************************************************)
(* Watch of connectrpc-grpchealth: calls of HealthService.watch (on an     *)
(* event loop) and HealthServiceSync.watch (on a thread each) follow the   *)
(* statuses that threads set in one StaticChecker.  Only the sections      *)
(* under the checker's lock are atomic; set_status calls back outside it.  *)
(***************************************************************************)
EXTENDS Naturals

CONSTANTS
    LoopWatches,  \* calls served by an event loop, asyncio's or trio's
    SyncWatches,  \* calls served by a thread
    Setters,      \* threads that call set_status
    Services,     \* names of services
    Whole,        \* the empty name: the server as a whole
    Statuses,     \* values of set_status
    Serving,      \* ServingStatus.SERVING, a member of Statuses
    Unknown,      \* ServingStatus.SERVICE_UNKNOWN
    NoStatus,     \* None
    Timeouts,     \* timeouts of the calls, NoTime for none
    NoTime,
    MaxTime,      \* bound on the clock
    MaxSets       \* bound on the calls of set_status by one thread

Watches == LoopWatches \cup SyncWatches

ASSUME StatusAssumption ==
    /\ Serving \in Statuses
    /\ NoStatus \notin Statuses \cup {Unknown} /\ Unknown \notin Statuses
ASSUME ActorAssumption ==
    LoopWatches \cap SyncWatches = {} /\ Whole \in Services
ASSUME ClockAssumption ==
    /\ NoTime \notin Nat /\ Timeouts \subseteq Nat \cup {NoTime}
    /\ MaxTime \in Nat /\ MaxSets \in Nat

VARIABLES
    statuses,   \* _statuses: NoStatus for a service that is not in it
    watchers,   \* _watchers: the watches to notify, by service
    callbacks,  \* of each setter: those it has yet to call
    sets,       \* of each setter: how often it called set_status
    service,    \* of each watch: the service it watches
    event,      \* of each watch: is its event set?
    scheduled,  \* of each loop's watch: notifications its loop has yet to run
    read,       \* of each watch: the status it read last
    last,       \* of each watch: the status it sent last
    now,        \* time.monotonic()
    endTime,    \* of each watch: when its call's timeout passes
    timeout,    \* of each watch: what remained of it when the call began
    deadline,   \* of each watch: until when it waits
    outcome,    \* of each watch: how its call ended
    pc          \* of each watch

checker == <<statuses, watchers>>
setter == <<callbacks, sets>>
waiter == <<event, scheduled>>
clock == <<now, endTime, timeout, deadline>>
vars == <<checker, setter, waiter, clock, service, read, last, outcome, pc>>

\* Watches that are in the generator of the checker, past its registration.
Inside == {"reset", "check", "send", "yielded", "wait", "leaving"}

Init ==
    /\ statuses \in [Services -> {NoStatus, Serving}]
    /\ watchers = <<>>
    /\ callbacks = [t \in Setters |-> {}] /\ sets = [t \in Setters |-> 0]
    /\ service \in [Watches -> Services]
    /\ event = [w \in Watches |-> FALSE] /\ scheduled = [w \in Watches |-> 0]
    /\ read = [w \in Watches |-> NoStatus] /\ last = [w \in Watches |-> NoStatus]
    /\ now = 0
    /\ endTime = [w \in Watches |-> NoTime]
    /\ timeout = [w \in Watches |-> NoTime]
    /\ deadline = [w \in Watches |-> NoTime]
    /\ outcome = [w \in Watches |-> "none"]
    /\ pc = [w \in Watches |-> "new"]

Registered(s) == IF s \in DOMAIN watchers THEN watchers[s] ELSE {}

\* check_sync, then _watch_status
Watched(s) ==
    IF statuses[s] # NoStatus THEN statuses[s]
    ELSE IF s = Whole THEN Serving ELSE Unknown

Goto(w, label) == pc' = [pc EXCEPT ![w] = label]

-----------------------------------------------------------------------------
(* set_status *)

\* Mutant: a status of a new service notifies nobody.
ToNotify_Known(s) == IF statuses[s] = NoStatus THEN {} ELSE Registered(s)
ToNotify(s) == Registered(s)

\* Under the lock: the status changes and the callbacks are copied.
SetStatus(t) ==
    /\ callbacks[t] = {} /\ sets[t] < MaxSets
    /\ \E s \in Services, status \in Statuses :
         /\ statuses' = [statuses EXCEPT ![s] = status]
         /\ callbacks' = [callbacks EXCEPT ![t] = ToNotify(s)]
    /\ sets' = [sets EXCEPT ![t] = @ + 1]
    /\ UNCHANGED <<watchers, waiter, clock, service, read, last, outcome, pc>>

\* One callback is called, whether or not its watch is still there: a thread's
\* event is set, a loop is asked to set its event.
Notify(t, w) ==
    /\ w \in callbacks[t]
    /\ callbacks' = [callbacks EXCEPT ![t] = @ \ {w}]
    /\ IF w \in SyncWatches
       THEN event' = [event EXCEPT ![w] = TRUE] /\ UNCHANGED scheduled
       ELSE scheduled' = [scheduled EXCEPT ![w] = @ + 1] /\ UNCHANGED event
    /\ UNCHANGED <<checker, sets, clock, service, read, last, outcome, pc>>

\* The loop runs what it was asked to, while its watch is suspended.
LoopRuns(w) ==
    /\ scheduled[w] > 0 /\ pc[w] \notin {"reset", "check", "send", "leaving"}
    /\ scheduled' = [scheduled EXCEPT ![w] = @ - 1]
    /\ event' = [event EXCEPT ![w] = TRUE]
    /\ UNCHANGED <<checker, setter, clock, service, read, last, outcome, pc>>

-----------------------------------------------------------------------------
(* A call of Watch *)

\* The call arrives with a timeout.
Arrive(w) ==
    /\ pc[w] = "new"
    /\ \E t \in Timeouts :
         endTime' = [endTime EXCEPT ![w] = IF t = NoTime THEN NoTime ELSE now + t]
    /\ Goto(w, "called")
    /\ UNCHANGED <<checker, setter, waiter, now, timeout, deadline, service, read,
                   last, outcome>>

\* max(timeout_ms, 0) / 1000
Remaining(w) == IF endTime[w] > now THEN endTime[w] - now ELSE 0

\* The service reads what remains of the timeout.  On a loop the server ends
\* the call at its deadline, and the checker is not told about it.
Call(w) ==
    /\ pc[w] = "called"
    /\ timeout' = [timeout EXCEPT
                     ![w] = IF w \in LoopWatches \/ endTime[w] = NoTime
                            THEN NoTime ELSE Remaining(w)]
    /\ Goto(w, "started")
    /\ UNCHANGED <<checker, setter, waiter, now, endTime, deadline, service, read,
                   last, outcome>>

\* The generator's first step: the deadline is noted, the watch registered.
Register(w) ==
    /\ pc[w] = "started"
    /\ deadline' = [deadline EXCEPT
                      ![w] = IF timeout[w] = NoTime THEN NoTime ELSE now + timeout[w]]
    /\ watchers' = [s \in DOMAIN watchers \cup {service[w]} |->
                      IF s = service[w] THEN Registered(s) \cup {w} ELSE watchers[s]]
    /\ Goto(w, "reset")
    /\ UNCHANGED <<statuses, setter, waiter, now, endTime, timeout, service, read,
                   last, outcome>>

Reset(w) ==
    /\ pc[w] = "reset"
    /\ event' = [event EXCEPT ![w] = FALSE]
    /\ Goto(w, "check")
    /\ UNCHANGED <<checker, setter, scheduled, clock, service, read, last, outcome>>

\* Under the lock: the status is read.
Check(w) ==
    /\ pc[w] = "check"
    /\ read' = [read EXCEPT ![w] = Watched(service[w])]
    /\ Goto(w, "send")
    /\ UNCHANGED <<checker, setter, waiter, clock, service, last, outcome>>

\* A status that was sent before is skipped.
SendOrSkip(w) ==
    /\ pc[w] = "send"
    /\ last' = [last EXCEPT ![w] = read[w]]
    /\ Goto(w, IF read[w] = last[w] THEN "wait" ELSE "yielded")
    /\ UNCHANGED <<checker, setter, waiter, clock, service, read, outcome>>

\* Mutant: the event is cleared just before it is waited for.
EventAtWait_Cleared(w) == event' = [event EXCEPT ![w] = FALSE]
EventAtWait(w) == UNCHANGED event

\* The response was sent, and the next one is asked for.
Resume(w) ==
    /\ pc[w] = "yielded"
    /\ EventAtWait(w)
    /\ Goto(w, "wait")
    /\ UNCHANGED <<checker, setter, scheduled, clock, service, read, last, outcome>>

Wake(w) ==
    /\ pc[w] = "wait" /\ event[w]
    /\ Goto(w, "reset")
    /\ UNCHANGED <<checker, setter, waiter, clock, service, read, last, outcome>>

\* Mutants: a timed wait that ended early ends the watch; the generator is left
\* without its `finally`.
TimedOut_Early(w) == deadline[w] # NoTime
AfterGenerator_NoFinally == "over"
\* A timed wait may end before the deadline: then it is waited again.
TimedOut(w) == deadline[w] # NoTime /\ now >= deadline[w]
AfterGenerator == "leaving"

WaitEnds(w) ==
    /\ pc[w] = "wait" /\ ~event[w] /\ TimedOut(w)
    /\ outcome' = [outcome EXCEPT ![w] = "returned"]
    /\ Goto(w, AfterGenerator)
    /\ UNCHANGED <<checker, setter, waiter, clock, service, read, last>>

\* The server closes the call: on a loop at any await, on a thread once a
\* response could not be sent.
Close(w) ==
    /\ pc[w] = "yielded" \/ (pc[w] = "wait" /\ w \in LoopWatches)
    /\ outcome' = [outcome EXCEPT ![w] = "closed"]
    /\ Goto(w, AfterGenerator)
    /\ UNCHANGED <<checker, setter, waiter, clock, service, read, last>>

\* The services that are watched when w no longer is.
WatchedWithout(w) == {s \in DOMAIN watchers : watchers[s] # {w} \/ s # service[w]}

\* The `finally` of _notify, under the lock, then the end of the call.
Deregister(w) ==
    /\ pc[w] = "leaving"
    /\ watchers' = [s \in WatchedWithout(w) |->
                      IF s = service[w] THEN watchers[s] \ {w} ELSE watchers[s]]
    /\ outcome' = [outcome EXCEPT
                     ![w] = IF @ # "returned" THEN @
                            ELSE IF endTime[w] # NoTime /\ Remaining(w) = 0
                                 THEN "deadline" ELSE "ok"]
    /\ Goto(w, "over")
    /\ UNCHANGED <<statuses, setter, waiter, clock, service, read, last>>

Tick ==
    /\ now < MaxTime
    /\ now' = now + 1
    /\ UNCHANGED <<checker, setter, waiter, endTime, timeout, deadline, service,
                   read, last, outcome, pc>>

-----------------------------------------------------------------------------

\* Steps of a watch that depend on nobody else.
Runs(w) ==
    \/ Call(w) \/ Register(w) \/ Reset(w) \/ Check(w) \/ SendOrSkip(w)
    \/ Resume(w) \/ Wake(w) \/ WaitEnds(w) \/ Deregister(w)

Next ==
    \/ \E t \in Setters : SetStatus(t) \/ \E w \in Watches : Notify(t, w)
    \/ \E w \in Watches : Arrive(w) \/ Runs(w) \/ LoopRuns(w) \/ Close(w)
    \/ Tick

Spec == Init /\ [][Next]_vars

\* Threads and loops are scheduled; nobody has to call set_status or to leave.
Fairness ==
    /\ \A w \in Watches : WF_vars(Runs(w)) /\ WF_vars(LoopRuns(w))
    /\ \A t \in Setters : WF_vars(\E w \in Watches : Notify(t, w))
    /\ WF_vars(Tick)
FairSpec == Spec /\ Fairness

-----------------------------------------------------------------------------
(* Properties *)

\* Every variable has a value of its type; in particular _watchers holds no
\* empty set.
TypeOK ==
    /\ statuses \in [Services -> Statuses \cup {NoStatus}]
    /\ watchers \in UNION {[S -> (SUBSET Watches) \ {{}}] : S \in SUBSET Services}
    /\ callbacks \in [Setters -> SUBSET Watches]
    /\ sets \in [Setters -> 0..MaxSets]
    /\ service \in [Watches -> Services]
    /\ event \in [Watches -> BOOLEAN]
    /\ scheduled \in [Watches -> Nat]
    /\ read \in [Watches -> Statuses \cup {Unknown, NoStatus}]
    /\ last \in [Watches -> Statuses \cup {Unknown, NoStatus}]
    /\ now \in 0..MaxTime
    /\ endTime \in [Watches -> Nat \cup {NoTime}]
    /\ timeout \in [Watches -> Nat \cup {NoTime}]
    /\ deadline \in [Watches -> Nat \cup {NoTime}]
    /\ outcome \in [Watches -> {"none", "returned", "closed", "deadline", "ok"}]
    /\ pc \in [Watches -> Inside \cup {"new", "called", "started", "over"}]

\* No wakeup is lost: a watch that waits, and whom nobody is about to wake, has
\* sent the current status, however set_status interleaved with its reset and
\* its check.
NoLostWakeup ==
    \A w \in Watches :
        pc[w] = "wait" /\ ~event[w] /\ scheduled[w] = 0
          /\ (\A t \in Setters : w \notin callbacks[t])
        => last[w] = Watched(service[w])

\* The table of watches holds exactly the open ones, under their service: an
\* ended call leaves nothing behind and takes nobody else's entry with it.
WatchersExact ==
    \A w \in Watches, s \in Services :
        w \in Registered(s) <=> pc[w] \in Inside /\ s = service[w]

\* A watch never ends with success: the status of a service has no last value.
\* In particular a timed wait that ends early does not end it.
NeverSucceeds == \A w \in Watches : outcome[w] # "ok"

\* Once the statuses no longer change, every open watch has sent the last one.
Converges ==
    \A w \in Watches :
        <>[](pc[w] \in Inside \ {"leaving"} => last[w] = Watched(service[w]))

\* A watch on a thread ends at its deadline, though nobody cancels a thread.
ThreadEnds ==
    \A w \in SyncWatches :
        pc[w] = "wait" /\ deadline[w] # NoTime /\ deadline[w] <= MaxTime
        ~> pc[w] = "over"

\* Watches go on to the last status, and those nobody can cancel to their end.
WatchLive == Converges /\ ThreadEnds
=============================================================================
