---------------------------- MODULE HeadersStore ----------------------------
(***************************************************************************)
(* Headers: the first value of each key is in _store, the others are in    *)
(* _extra, a second dictionary that is only made when it is needed.        *)
(***************************************************************************)
EXTENDS Naturals, Sequences

CONSTANTS Names,     \* names as callers write them
          Keys,      \* names in lower case
          Lower,     \* str.lower
          Values,    \* header values
          Absent,    \* no value
          MaxValues  \* bound on the values of a key

ASSUME HeadersAssumption ==
    /\ Lower \in [Names -> Keys] /\ Absent \notin Values /\ MaxValues \in Nat

VARIABLES
    store,  \* _store, a key without value being Absent
    made,   \* _extra is not None
    extra   \* the lists in _extra, a missing one being empty

storeVars == <<store, made, extra>>

NoExtra == [k \in Keys |-> <<>>]

\* Made from a mapping, or empty and then filled by add.
StoreInit ==
    /\ store \in [Keys -> Values \cup {Absent}]
    /\ made = FALSE /\ extra = NoExtra

Has(k) == store[k] # Absent
Forget(k) == extra' = IF made THEN [extra EXCEPT ![k] = <<>>] ELSE extra

SetItem(k, v) ==
    /\ store' = [store EXCEPT ![k] = v]
    /\ Forget(k)
    /\ UNCHANGED made

\* A key that is not there raises KeyError.
ForgetDeleted_Never(k) == extra' = extra
ForgetDeleted(k) == Forget(k)
DelItem(k) ==
    /\ Has(k)
    /\ store' = [store EXCEPT ![k] = Absent]
    /\ ForgetDeleted(k)
    /\ UNCHANGED made

AddItem(k, v) ==
    /\ Len(extra[k]) < MaxValues
    /\ IF Has(k)
       THEN made' = TRUE /\ extra' = [extra EXCEPT ![k] = Append(@, v)] /\ UNCHANGED store
       ELSE store' = [store EXCEPT ![k] = v] /\ UNCHANGED <<made, extra>>

ClearAll ==
    /\ store' = [k \in Keys |-> Absent]
    /\ made' = FALSE /\ extra' = NoExtra

StoreNext ==
    \/ \E n \in Names :
         \/ DelItem(Lower[n])
         \/ \E v \in Values : SetItem(Lower[n], v) \/ AddItem(Lower[n], v)
    \/ ClearAll

StoreSpec == StoreInit /\ [][StoreNext]_storeVars
-----------------------------------------------------------------------------
\* getall, and what a view of all items iterates over for one key.
All(k) == IF Has(k) THEN <<store[k]>> \o extra[k] ELSE <<>>

\* The two dictionaries are one multimap: getall shows what add, assignment and
\* deletion have put there, in order, and nothing that was replaced.
Map == INSTANCE Multimap WITH contents <- [k \in Keys |-> All(k)]
ImplementsMultimap == Map!MSpec
=============================================================================
