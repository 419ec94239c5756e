-------------------------- MODULE InterceptorChain --------------------------
(* The interceptors nested around an endpoint function, on a server         *)
(* (_apply_interceptors) and in a client's constructor: each metadata       *)
(* interceptor becomes a layer (MetadataInterceptorInvoker and its Sync     *)
(* twin) that runs on_start, calls the layer inside it and runs on_end with *)
(* the outcome.  Around a stream every layer is a generator: the consumer   *)
(* asks the outermost for the next item, throws a cancellation into it      *)
(* where it is suspended, or closes it, and each request travels inwards    *)
(* and its answer outwards.  A message interceptor is user code; here it    *)
(* returns call_next(request, ctx) as it is, so it is entered but adds no   *)
(* layer.  The innermost function is the handler, any user code.            *)
EXTENDS Naturals, Sequences, FiniteSets

CONSTANTS MaxInterceptors,   \* length of the interceptor list
          MaxItems           \* items a stream handler yields before it is closed

VARIABLES flavor,    \* "async" or "sync"
          side,      \* "client" or "server"
          mode,      \* "unary" or "stream": what the method returns
          list,      \* the kinds of the interceptors, outermost first
          at,        \* who runs: the consumer, a layer of the chain, or the handler
          op,        \* what was just asked of or answered to that layer
          err,       \* the exception op carries
          gen,       \* per layer: "new", "suspended" or "done"
          phase,     \* per layer: what it waits for from the layer inside it
          pend,      \* per layer: the exception it is going to leave with
          plain,     \* the handler returned an iterator without athrow and aclose
          sent,      \* items the handler yielded
          entered,   \* history: list positions in the order they were entered
          ended,     \* history: each on_end with the error it saw and what it raised
          thrown     \* history: the consumer threw a cancellation into the stream

control == <<at, op, err>>
layer == <<gen, phase, pend>>
fixed == <<flavor, side, mode, list, plain>>
history == <<entered, ended, thrown, sent>>
vars == <<control, layer, fixed, history>>

Kinds == {"metadata", "unary", "stream"}

Places == 1..(MaxInterceptors + 1)

(* How many interceptors at the front a server hoists out of the chain. *)
LeadingMetadata_All(l) == Cardinality({i \in 1..Len(l) : l[i] = "metadata"})
LeadingMetadata(l) ==
  LET fronts == {n \in 0..Len(l) : \A i \in 1..n : l[i] = "metadata"}
  IN  CHOOSE n \in fronts : \A k \in fronts : k <= n

Hoisted == IF side = "server" THEN LeadingMetadata(list) ELSE 0
Applied == {i \in 1..Len(list) : list[i] \in {"metadata", mode}}

(* The layers, by their place in the list; the consumer is outside all of *)
(* them, the handler inside.                                              *)
Layers == {i \in Applied : i > Hoisted}
Consumer == 0
Handler == Len(list) + 1
IsMetadata(i) == list[i] = "metadata"

Inside(i) ==
  CHOOSE k \in Layers \cup {Handler} : k > i /\ \A j \in Layers : j > i => k <= j
Outside(i) ==
  CHOOSE k \in Layers \cup {Consumer} : k < i /\ \A j \in Layers : j < i => j <= k

Init ==
  /\ flavor \in {"async", "sync"}
  /\ side \in {"client", "server"}
  /\ mode \in {"unary", "stream"}
  /\ list \in UNION {[1..n -> Kinds] : n \in 0..MaxInterceptors}
  /\ plain \in (IF mode = "stream" THEN BOOLEAN ELSE {FALSE})
  /\ at = Consumer /\ op = "idle" /\ err = "none"
  /\ gen = [i \in Places |-> "new"]
  /\ phase = [i \in Places |-> "start"]
  /\ pend = [i \in Places |-> "none"]
  /\ sent = 0 /\ entered = <<>> /\ ended = <<>> /\ thrown = FALSE

Goes(to, what, with) == at' = to /\ op' = what /\ err' = with

(* What user code may raise: a cancellation arrives only where it awaits. *)
Failures == IF flavor = "async" THEN {"App", "Cancelled"} ELSE {"App"}

---------------------------------------------------------------------------
(* The consumer: the server's response loop or the caller of a client.     *)

Asks ==
  /\ at = Consumer
  /\ \/ op = "idle" /\ Goes(Inside(Consumer), "next", "none")
     \/ op = "item" /\ mode = "stream" /\ Goes(Inside(Consumer), "next", "none")
  /\ UNCHANGED <<layer, fixed, history>>

(* Giving up the stream, before its first item or between two. *)
Closes ==
  /\ at = Consumer /\ mode = "stream" /\ op \in {"idle", "item"}
  /\ IF op = "idle" THEN Goes(Consumer, "closed", "none")
     ELSE Goes(Inside(Consumer), "close", "none")
  /\ UNCHANGED <<layer, fixed, history>>

Throws ==
  /\ at = Consumer /\ mode = "stream" /\ op = "item" /\ flavor = "async"
  /\ Goes(Inside(Consumer), "throw", "Cancelled")
  /\ thrown' = TRUE
  /\ UNCHANGED <<layer, fixed, entered, ended, sent>>

Finished ==
  /\ at = Consumer
  /\ op \in {"stop", "raise", "closed"} \/ (op = "item" /\ mode = "unary")

---------------------------------------------------------------------------
(* A message interceptor of the method's kind passes everything through.   *)

Message ==
  /\ at \in Layers /\ ~IsMetadata(at)
  /\ IF op \in {"next", "throw", "close"}
     THEN /\ at' = Inside(at)
          /\ entered' = IF gen[at] = "new" THEN Append(entered, at) ELSE entered
     ELSE at' = Outside(at) /\ entered' = entered
  /\ gen' = [gen EXCEPT ![at] = "suspended"]
  /\ UNCHANGED <<op, err, phase, pend, fixed, ended, thrown, sent>>

---------------------------------------------------------------------------
(* A metadata layer.                                                       *)

InLayer == at \in Layers /\ IsMetadata(at)

(* on_start raising ends the layer; its on_end is never called. *)
OnStart ==
  /\ InLayer /\ op = "next" /\ gen[at] = "new"
  /\ \/ /\ entered' = Append(entered, at)
        /\ gen' = [gen EXCEPT ![at] = "suspended"]
        /\ phase' = [phase EXCEPT ![at] = "inner"]
        /\ Goes(Inside(at), "next", "none")
     \/ \E e \in Failures :
          /\ gen' = [gen EXCEPT ![at] = "done"]
          /\ Goes(Outside(at), "raise", e)
          /\ UNCHANGED <<entered, phase>>
  /\ UNCHANGED <<pend, fixed, ended, thrown, sent>>

NextItem ==
  /\ InLayer /\ op = "next" /\ gen[at] = "suspended"
  /\ Goes(Inside(at), "next", "none")
  /\ UNCHANGED <<layer, fixed, history>>

(* An exception at the yield comes from the consumer: it is thrown into the *)
(* layer inside, or closes it when it is GeneratorExit.                     *)
AtYield ==
  /\ InLayer /\ op \in {"throw", "close"}
  /\ pend' = [pend EXCEPT ![at] = IF op = "throw" THEN err ELSE "GeneratorExit"]
  /\ phase' = [phase EXCEPT ![at] = IF op = "throw" THEN "throwing" ELSE "closing"]
  /\ at' = Inside(at)
  /\ UNCHANGED <<op, err, gen, fixed, history>>

Yield ==
  /\ InLayer /\ op = "item" /\ phase[at] = "inner" /\ mode = "stream"
  /\ at' = Outside(at)
  /\ UNCHANGED <<op, err, layer, fixed, history>>

(* _throw_into: a stream that yields instead of ending is closed. *)
YieldedAgain ==
  /\ InLayer /\ op = "item" /\ phase[at] = "throwing"
  /\ phase' = [phase EXCEPT ![at] = "closing"]
  /\ Goes(Inside(at), "close", "none")
  /\ UNCHANGED <<gen, pend, fixed, history>>

(* _throw_into returning: the error is raised again, unless the cleanup of *)
(* the layer inside raised one that does not contain it.                   *)
AfterThrow_Swallowed(e, raised) == IF raised = "Group" THEN e ELSE raised
AfterThrow(e, raised) == IF raised \in {"none", "Group"} THEN e ELSE raised

(* The exception the body of the layer ends with. *)
Leaving(i) ==
  LET raised == IF op = "raise" THEN err ELSE "none" IN
  CASE phase[i] = "inner"    -> raised
    [] phase[i] = "throwing" -> AfterThrow(pend[i], raised)
    [] OTHER                 -> IF raised = "none" THEN pend[i] ELSE raised

InnerEnds ==
  /\ InLayer
  /\ op \in {"stop", "raise", "closed"} \/ (op = "item" /\ mode = "unary")
  /\ pend' = [pend EXCEPT ![at] = Leaving(at)]
  /\ op' = "end" /\ err' = "none"
  /\ UNCHANGED <<at, gen, phase, fixed, history>>

(* The error on_end is called with. *)
Reported(e) ==
  CASE e = "Cancelled"                -> "Canceled"
    [] e \in {"none", "GeneratorExit"} -> "none"
    [] OTHER                          -> e

(* The layer's outcome, as its caller gets it. *)
Outcome(e) ==
  CASE e = "none"          -> <<IF mode = "unary" THEN "item" ELSE "stop", "none">>
    [] e = "GeneratorExit" -> <<"closed", "none">>
    [] OTHER               -> <<"raise", e>>

(* on_end in the finally block: an exception of its own replaces the outcome. *)
OnEnd ==
  /\ InLayer /\ op = "end"
  /\ gen' = [gen EXCEPT ![at] = "done"]
  /\ \E e \in Failures \cup {"none"} :
       LET leaves == IF e = "none" THEN pend[at] ELSE e IN
       /\ ended' = Append(ended, [by |-> at, saw |-> Reported(pend[at]),
                                  raised |-> e])
       /\ Goes(Outside(at), Outcome(leaves)[1], Outcome(leaves)[2])
  /\ UNCHANGED <<phase, pend, fixed, entered, thrown, sent>>

---------------------------------------------------------------------------
(* The handler.                                                            *)

Running == at = Handler

HandlerNext ==
  /\ Running /\ op = "next"
  /\ \/ /\ mode = "unary" \/ sent < MaxItems
        /\ sent' = sent + 1
        /\ gen' = [gen EXCEPT ![at] = IF mode = "unary" THEN "done" ELSE "suspended"]
        /\ Goes(Outside(at), "item", "none")
     \/ /\ \/ mode = "stream" /\ Goes(Outside(at), "stop", "none")
           \/ \E e \in Failures : Goes(Outside(at), "raise", e)
        /\ gen' = [gen EXCEPT ![at] = "done"]
        /\ UNCHANGED sent
  /\ UNCHANGED <<phase, pend, fixed, entered, ended, thrown>>

(* What a generator may do with an exception thrown into it.  A nursery or *)
(* a task group of the handler wraps the exception it ends with.           *)
HandlerThrown ==
  /\ Running /\ op = "throw"
  /\ \/ plain /\ Goes(Outside(at), "stop", "none") /\ UNCHANGED <<gen, sent>>
     \/ /\ ~plain
        /\ \/ Goes(Outside(at), "stop", "none")
           \/ \E e \in {err, "Group", "App"} : Goes(Outside(at), "raise", e)
        /\ gen' = [gen EXCEPT ![at] = "done"]
        /\ UNCHANGED sent
     \/ /\ ~plain /\ sent < MaxItems
        /\ sent' = sent + 1
        /\ Goes(Outside(at), "item", "none")
        /\ UNCHANGED gen
  /\ UNCHANGED <<phase, pend, fixed, entered, ended, thrown>>

HandlerClosed ==
  /\ Running /\ op = "close"
  /\ \/ plain /\ Goes(Outside(at), "closed", "none") /\ UNCHANGED gen
     \/ /\ ~plain
        /\ \/ Goes(Outside(at), "closed", "none")
           \/ \E e \in Failures : Goes(Outside(at), "raise", e)
        /\ gen' = [gen EXCEPT ![at] = "done"]
  /\ UNCHANGED <<phase, pend, fixed, history>>

Done == Finished /\ UNCHANGED vars

Next ==
  \/ Asks \/ Closes \/ Throws \/ Message
  \/ OnStart \/ NextItem \/ AtYield \/ Yield \/ YieldedAgain \/ InnerEnds \/ OnEnd
  \/ HandlerNext \/ HandlerThrown \/ HandlerClosed
  \/ Done

Spec == Init /\ [][Next]_vars

---------------------------------------------------------------------------
Entered == {entered[k] : k \in DOMAIN entered}
Started == {i \in Entered : IsMetadata(i)}
Ended == {ended[k].by : k \in DOMAIN ended}

(* Every interceptor that applies runs, in the order of the list, whether a *)
(* server hoists it out of the chain or it is a layer.                      *)
InOrder ==
  LET run == 1..Hoisted \cup Entered IN
  /\ \A i \in 1..Hoisted : IsMetadata(i)
  /\ run \subseteq Applied
  /\ \A i \in run, j \in Applied : j < i => j \in run
  /\ \A j, k \in DOMAIN entered : j < k => entered[j] < entered[k]
  /\ sent > 0 => Applied \subseteq run

(* A hook ends once, after those inside it that started.                    *)
Unwound ==
  /\ Ended \subseteq Started
  /\ \A k \in DOMAIN ended, i \in Started :
       i > ended[k].by => \E j \in 1..(k - 1) : ended[j].by = i
  /\ \A j, k \in DOMAIN ended : j < k => ended[j].by > ended[k].by

(* Interceptors nest; once the consumer has its outcome every started hook  *)
(* has ended and no generator inside is left for the garbage collector.     *)
Nested ==
  /\ InOrder
  /\ Unwound
  /\ Finished => /\ Started \subseteq Ended
                 /\ plain \/ gen[Handler] \in {"new", "done"}

(* Every on_end sees what the layer inside it ended with, an exception of   *)
(* the hook before included; a cancellation thrown into the stream is never *)
(* lost, whatever the handler's cleanup does with it: the consumer gets it  *)
(* or another exception, and the innermost hook sees it as CANCELED unless  *)
(* the handler raised an error of its own.                                  *)
OutcomePropagates ==
  /\ \A k \in 2..Len(ended) :
       ended[k].saw = IF ended[k - 1].raised = "none"
                      THEN ended[k - 1].saw ELSE Reported(ended[k - 1].raised)
  /\ Finished /\ ended # <<>> =>
       LET last == ended[Len(ended)] IN
       IF last.raised # "none" THEN op = "raise" /\ err = last.raised
       ELSE Reported(err) = last.saw
  /\ Finished /\ thrown => (Started # {} => op = "raise")
=============================================================================
