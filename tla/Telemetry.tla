------------------------------ MODULE Telemetry ------------------------------
(* OpenTelemetryInterceptor's hooks, as the interceptor chain calls them:   *)
(* on_start makes a span the current one of the task's context and keeps    *)
(* what was current in a token; on_end records the call, ends the span and  *)
(* puts back what the token kept.  A client's span travels in the request   *)
(* headers and becomes the parent of the server's.  Calls run in tasks,     *)
(* each with a context of its own; a stream's hooks run in the context of   *)
(* whoever iterates it, so the calls of one task may overlap.               *)
EXTENDS Naturals

CONSTANTS Calls,      \* calls: each has a span
          Tasks,      \* tasks, with the context that each runs in
          NoSpan,     \* no span, and no recorded outcome
          Ambient     \* a span that other instrumentation makes current

VARIABLES current,    \* per task: the current span of its context
          first,      \* per task: what was current at first
          state,      \* per call: "new", "open", "ended"
          kind,       \* per call: "client" or "server"
          task,       \* per call: the task its hooks run in
          token,      \* per call: what was current when it started
          parent,     \* per call: the parent of its span
          carrier,    \* per call: the span in its request headers
          recorded,   \* per call: outcomes recorded in the duration histogram
          status,     \* per call: the status its span ended with
          nested      \* history, per task: its calls ended innermost first

call == <<state, kind, task, token, parent, carrier, recorded, status>>
vars == <<current, first, call, nested>>

Outcomes == {"ok", "ConnectError", "OtherError"}

Init ==
  /\ first \in [Tasks -> {NoSpan, Ambient}] /\ current = first
  /\ state = [c \in Calls |-> "new"]
  /\ kind = [c \in Calls |-> "client"]
  /\ task \in [Calls -> Tasks]
  /\ token = [c \in Calls |-> NoSpan]
  /\ parent = [c \in Calls |-> NoSpan]
  /\ carrier = [c \in Calls |-> NoSpan]
  /\ recorded = [c \in Calls |-> {}]
  /\ status = [c \in Calls |-> NoSpan]
  /\ nested = [t \in Tasks |-> TRUE]

Attach(c) ==
  /\ state' = [state EXCEPT ![c] = "open"]
  /\ token' = [token EXCEPT ![c] = current[task[c]]]
  /\ current' = [current EXCEPT ![task[c]] = c]

(* _start_span for a client: a child of the current span, and its own span  *)
(* is injected into the headers.                                            *)
StartClient(c) ==
  /\ state[c] = "new"
  /\ kind' = [kind EXCEPT ![c] = "client"]
  /\ parent' = [parent EXCEPT ![c] = current[task[c]]]
  /\ carrier' = [carrier EXCEPT ![c] = c]
  /\ Attach(c)
  /\ UNCHANGED <<first, task, recorded, status, nested>>

(* The remote parent is taken from the headers only when nothing is current. *)
ServerParent(here, sent) == IF here # NoSpan THEN here ELSE sent

(* _start_span for a server, with the headers of a client's open call or of *)
(* a caller that traces nothing.                                            *)
StartServer(c) ==
  /\ state[c] = "new"
  /\ \E sent \in {NoSpan} \cup {carrier[k] : k \in {j \in Calls : kind[j] = "client"
                                                      /\ state[j] = "open"}} :
       /\ carrier' = [carrier EXCEPT ![c] = sent]
       /\ parent' = [parent EXCEPT ![c] = ServerParent(current[task[c]], sent)]
  /\ kind' = [kind EXCEPT ![c] = "server"]
  /\ Attach(c)
  /\ UNCHANGED <<first, task, recorded, status, nested>>

(* Leaving the span's context manager detaches on every outcome. *)
Detach_OnSuccess(c, outcome) ==
  IF outcome = "ok" THEN token[c] ELSE current[task[c]]
Detach(c, outcome) == token[c]

(* on_end *)
End(c) ==
  /\ state[c] = "open"
  /\ \E outcome \in Outcomes :
       /\ recorded' = [recorded EXCEPT ![c] = @ \cup {outcome}]
       /\ status' = [status EXCEPT ![c] = outcome]
       /\ current' = [current EXCEPT ![task[c]] = Detach(c, outcome)]
  /\ state' = [state EXCEPT ![c] = "ended"]
  /\ nested' = [nested EXCEPT ![task[c]] = @ /\ current[task[c]] = c]
  /\ UNCHANGED <<first, kind, task, token, parent, carrier>>

Next == \E c \in Calls : StartClient(c) \/ StartServer(c) \/ End(c)

Spec == Init /\ [][Next]_vars

---------------------------------------------------------------------------
Open(t) == {c \in Calls : task[c] = t /\ state[c] = "open"}

(* A task whose calls ended innermost first has its own span current again, *)
(* whatever their outcomes: work it does next is not traced under a call    *)
(* that is over.  (Two streams read alternately may end out of order, and   *)
(* then the last token puts back a span that has ended.)                    *)
ContextRestored ==
  \A t \in Tasks : nested[t] =>
    /\ Open(t) = {} => current[t] = first[t]
    /\ current[t] \in Open(t) \cup {first[t]}

(* Every call is recorded exactly once, with the outcome of its span, and   *)
(* is traced under the call it was made from: what was current in its task  *)
(* or, for a server with nothing current, the client's span it was sent.    *)
TraceConnected ==
  \A c \in Calls :
    /\ recorded[c] = IF state[c] = "ended" THEN {status[c]} ELSE {}
    /\ state[c] # "new" /\ first[task[c]] = Ambient => parent[c] # NoSpan
    /\ kind[c] = "server" /\ carrier[c] # NoSpan => parent[c] # NoSpan
    /\ \A k \in Calls : parent[c] = k /\ task[k] # task[c] => carrier[c] = k

TelemetryCorrect == ContextRestored /\ TraceConnected
=============================================================================
