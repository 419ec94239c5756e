------------------------------ MODULE Lifespan ------------------------------
(***************************************************************************)
(* The application's lifespan: _handle_lifespan, which starts and stops a  *)
(* service given as an async generator, and the requests that use what it  *)
(* resolved.  The app server may support lifespans or not, may go on after *)
(* the lifespan raised, may cancel it, and may run the application again.  *)
(***************************************************************************)
EXTENDS Naturals

CONSTANT MaxLifespans   \* bound on the lifespans of one application object

VARIABLES
    service,    \* what _service is: an "instance" or a "generator"
    generator,  \* the generator: "new", "yielded" its service, or "closed"
    endpoints,  \* _resolved_endpoints is set
    iter,       \* the local service_iter is set
    pc,         \* where _handle_lifespan is
    server,     \* what the app server knows from the answers it got
    served,     \* what the last request that was handled had for a service
    lifespans   \* lifespans so far

vars == <<service, generator, endpoints, iter, pc, server, served, lifespans>>

\* An instance counts as a service that is always there.
Init ==
    /\ service \in {"instance", "generator"}
    /\ generator = IF service = "generator" THEN "new" ELSE "yielded"
    /\ endpoints = FALSE /\ iter = FALSE /\ pc = "off"
    /\ server \in {"lifespan", "plain"}
    /\ served = "none" /\ lifespans = 0

Answer(message) == server' = message /\ pc' = "ended"
-----------------------------------------------------------------------------
\* The app server calls the application, for the first time or once more after
\* a lifespan has ended.
Begin ==
    /\ lifespans < MaxLifespans /\ pc \in {"off", "ended"} /\ server # "plain"
    /\ lifespans' = lifespans + 1
    /\ server' = "lifespan" /\ pc' = "receive" /\ iter' = FALSE
    /\ UNCHANGED <<service, generator, endpoints, served>>

\* lifespan.startup: anext() of the generator, or the instance as it is.
Startup ==
    /\ pc = "receive" /\ server = "lifespan"
    /\ server' = "starting"
    /\ iter' = (service = "generator")
    /\ pc' = IF service = "generator" THEN "anext" ELSE "resolve"
    /\ UNCHANGED <<service, generator, endpoints, served, lifespans>>

\* The generator yields its service; or it raises, or has nothing (more) to
\* yield, and startup.failed ends the lifespan.
Yields ==
    /\ pc = "anext" /\ generator # "closed"
    /\ generator' = "yielded" /\ pc' = "resolve"
    /\ UNCHANGED <<service, endpoints, iter, server, served, lifespans>>
StartupFails == generator' = "closed" /\ Answer("startup.failed")
YieldsNot ==
    /\ pc = "anext" /\ StartupFails
    /\ UNCHANGED <<service, endpoints, iter, served, lifespans>>

\* _resolve_endpoints calls the user's endpoints(service): startup.complete, or
\* an exception that leaves the lifespan, after which a server may go on as if
\* lifespans were not supported.
Resolve ==
    /\ pc = "resolve"
    /\ \/ endpoints' = TRUE /\ server' = "startup.complete" /\ pc' = "receive"
       \/ Answer("raised") /\ UNCHANGED endpoints
    /\ UNCHANGED <<service, generator, iter, served, lifespans>>

\* lifespan.shutdown: aclose() of a generator that was started.  It may raise,
\* also because the generator yields again, which leaves it open.
Shutdown ==
    /\ pc = "receive" /\ server = "startup.complete"
    /\ IF iter THEN pc' = "aclose" /\ server' = "stopping"
       ELSE Answer("shutdown.complete")
    /\ UNCHANGED <<service, generator, endpoints, iter, served, lifespans>>
Closes ==
    /\ pc = "aclose"
    /\ \/ generator' = "closed" /\ Answer("shutdown.complete")
       \/ generator' \in {"closed", "yielded"} /\ Answer("shutdown.failed")
    /\ UNCHANGED <<service, endpoints, iter, served, lifespans>>

\* The server cancels the lifespan: what runs of the generator gets the error,
\* and nothing closes one that does not run.
Cancelled ==
    /\ pc \in {"receive", "anext", "aclose"}
    /\ generator' = IF pc = "receive" THEN generator ELSE "closed"
    /\ Answer("cancelled")
    /\ UNCHANGED <<service, endpoints, iter, served, lifespans>>

\* A request, where an app server may send one.  Without a lifespan the first
\* one resolves the endpoints of an instance; a generator is refused.
MayResolve_Always == TRUE
MayResolve == service = "instance"
Requests == {"plain", "startup.complete", "raised"}
Request ==
    /\ server \in Requests /\ (endpoints \/ MayResolve)
    /\ endpoints' = TRUE /\ served' = generator
    /\ UNCHANGED <<service, generator, iter, pc, server, lifespans>>
RequestFails ==
    /\ server \in Requests /\ ~endpoints
    /\ UNCHANGED vars

Next ==
    \/ Begin \/ Startup \/ Yields \/ YieldsNot \/ Resolve \/ Shutdown \/ Closes
    \/ Cancelled \/ Request \/ RequestFails

Spec == Init /\ [][Next]_vars
-----------------------------------------------------------------------------
\* The app server is told the truth and requests find a service: startup is
\* complete only with endpoints and a service that has been yielded and not yet
\* closed, shutdown only once the generator is closed, no request is handled
\* without a started service, and a lifespan leaves a generator open only if it
\* was cancelled, or resolving its endpoints or closing it failed.
LifespanHonest ==
    /\ server = "startup.complete" => endpoints /\ generator = "yielded"
    /\ service = "generator" =>
         /\ server = "shutdown.complete" => generator = "closed"
         /\ pc = "ended" /\ generator = "yielded" =>
              server \in {"raised", "cancelled", "shutdown.failed"}
    /\ served \in {"none", "yielded"}
=============================================================================
