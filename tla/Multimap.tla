------------------------------ MODULE Multimap ------------------------------
(***************************************************************************)
(* What Headers promises: a map from keys to sequences of values, where a  *)
(* key without values is absent.                                           *)
(***************************************************************************)
EXTENDS Sequences

CONSTANTS Keys, Values

VARIABLE contents  \* the values of each key

MInit == contents \in [Keys -> {<<>>} \cup {<<v>> : v \in Values}]

Set(k, v) == contents' = [contents EXCEPT ![k] = <<v>>]
Add(k, v) == contents' = [contents EXCEPT ![k] = Append(@, v)]
Delete(k) == contents[k] # <<>> /\ contents' = [contents EXCEPT ![k] = <<>>]
Clear == contents' = [k \in Keys |-> <<>>]

MNext ==
    \/ \E k \in Keys : Delete(k) \/ \E v \in Values : Set(k, v) \/ Add(k, v)
    \/ Clear

MSpec == MInit /\ [][MNext]_contents
=============================================================================
