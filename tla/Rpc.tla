------------------------------- MODULE Rpc -------------------------------
(***************************************************************************)
(* What a server promises the client of one RPC: response messages, then   *)
(* exactly one outcome, after which nothing changes.  A call with a single *)
(* response only succeeds once that response was delivered.                *)
(***************************************************************************)
EXTENDS Naturals

CONSTANTS Success,  \* the outcome of a call that succeeded
          Failures  \* the outcomes of one that did not

VARIABLES single,     \* the method has a single response
          delivered,  \* number of response messages
          outcome     \* "pending" until the call ends

rpcVars == <<single, delivered, outcome>>

RpcInit == single \in BOOLEAN /\ delivered = 0 /\ outcome = "pending"

Deliver ==
    /\ outcome = "pending"
    /\ single => delivered = 0
    /\ delivered' = delivered + 1
    /\ UNCHANGED <<single, outcome>>

Succeed ==
    /\ outcome = "pending"
    /\ single => delivered = 1
    /\ outcome' = Success
    /\ UNCHANGED <<single, delivered>>

Fail ==
    /\ outcome = "pending"
    /\ outcome' \in Failures
    /\ UNCHANGED <<single, delivered>>

RpcNext == Deliver \/ Succeed \/ Fail

RpcSpec == RpcInit /\ [][RpcNext]_rpcVars
=============================================================================
