----------------------------- MODULE ServerLoops -----------------------------
(***************************************************************************)
(* Three parts of a server that share no state: a request under trio, the  *)
(* application's lifespan, and a chain of interceptors.  A behaviour runs  *)
(* one of them, which loses nothing, since no step of one depends on       *)
(* another.                                                                *)
(***************************************************************************)
EXTENDS TrioRequest

CONSTANTS MaxLifespans, MaxInterceptors, MaxItems

\* Any number of interceptors and of items.
ASSUME ChainAssumption == {MaxInterceptors, MaxItems} \subseteq Nat

VARIABLES part,   \* the part that runs
          service, generator, endpoints, iter, lifespanPc, server, served, lifespans,
          flavor, side, mode, list, at, op, err, layerGen, phase, layerPend,
          plain, sent, entered, ended, thrown

lifespanVars ==
    <<service, generator, endpoints, iter, lifespanPc, server, served, lifespans>>
chainVars == <<flavor, side, mode, list, at, op, err, layerGen, phase, layerPend,
               plain, sent, entered, ended, thrown>>
allVars == <<part, vars, lifespanVars, chainVars>>

Lifespan == INSTANCE Lifespan WITH pc <- lifespanPc
Chain == INSTANCE InterceptorChain WITH gen <- layerGen, pend <- layerPend

\* A part that does not run stays in one of its initial states.
LoopsInit ==
    /\ part \in {"trio", "lifespan", "chain"}
    /\ Init
    /\ part # "trio" => kind = "unary" /\ deadline = Never /\ ~bodyDone
    /\ Lifespan!Init
    /\ part # "lifespan" => service = "instance" /\ server = "plain"
    /\ Chain!Init
    /\ part # "chain" =>
         flavor = "sync" /\ side = "client" /\ mode = "unary" /\ list = <<>>

TrioRuns == part = "trio" /\ UNCHANGED <<part, lifespanVars, chainVars>>
LifespanRuns == part = "lifespan" /\ UNCHANGED <<part, vars, chainVars>>
ChainRuns == part = "chain" /\ UNCHANGED <<part, vars, lifespanVars>>

LoopsNext ==
    \/ TrioRuns /\ Next
    \/ LifespanRuns /\ Lifespan!Next
    \/ ChainRuns /\ Chain!Next

\* trio runs every task that is ready, the clock goes on, and a cancellation
\* reaches whoever waits.  User code may hang for ever.
LoopsSpec ==
    /\ LoopsInit /\ [][LoopsNext]_allVars
    /\ WF_allVars(TrioRuns /\ Tick) /\ WF_allVars(TrioRuns /\ WatchReceives)
    /\ WF_allVars(TrioRuns /\ HandlerCancelled)
    /\ WF_allVars(TrioRuns /\ LeaveNursery) /\ WF_allVars(TrioRuns /\ LeaveScope)
    /\ WF_allVars(TrioRuns /\ SendEnds /\ Cancelling)
    /\ WF_allVars(TrioRuns /\ HooksInScope /\ (Cancelling \/ IsCancellation(pend)))
    /\ WF_allVars(TrioRuns /\ Close /\ Interrupted)
    /\ WF_allVars(TrioRuns /\ Finish /\ Interrupted)
-----------------------------------------------------------------------------
\* The app server is told the truth about its lifespan, requests find a service.
LifespanHonest == Lifespan!LifespanHonest

\* Interceptors nest: hooks end in the reverse order they started in, all of
\* them, and no generator is left.
Nested == Chain!Nested

\* Every hook sees the outcome of what it is around, and no cancellation is lost.
OutcomePropagates == Chain!OutcomePropagates
=============================================================================
