---------------------------- MODULE RecordStore ----------------------------
(***************************************************************************)
(* What a database of the core promises of the records it keeps under a    *)
(* key.  An operation that succeeds takes effect at once and on its own    *)
(* key only; a record, once stored, is the one the operation was given.    *)
(* An operation that fails half way puts its own key in doubt and nothing  *)
(* else; until it is settled, anything may be read under that key.         *)
(***************************************************************************)
CONSTANTS Keys, Records, None, Doubtful

VARIABLE stored    \* what is stored under each key

Init == stored = [k \in Keys |-> None]

Create(k, r) == stored[k] \in {None, Doubtful} /\ stored' = [stored EXCEPT ![k] = r]
Replace(k, r) == stored[k] # None /\ stored' = [stored EXCEPT ![k] = r]
Delete(k) == stored[k] # None /\ stored' = [stored EXCEPT ![k] = None]
Fail(k) == stored' = [stored EXCEPT ![k] = Doubtful]

Next == \E k \in Keys : \/ \E r \in Records : Create(k, r) \/ Replace(k, r)
                        \/ Delete(k)
                        \/ Fail(k)

Spec == Init /\ [][Next]_stored
=============================================================================
