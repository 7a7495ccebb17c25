------------------------------ MODULE MemoryBook ------------------------------
(***************************************************************************)
(* What a memory store promises of its audit trail, whichever backend      *)
(* serves it: a book of entries and a ledger of what was ever recorded     *)
(* about each.  No entry appears or goes without its record, and no record *)
(* is written of what did not happen.                                      *)
(***************************************************************************)
EXTENDS Naturals

CONSTANTS Ids

VARIABLES
  held,    \* ids of the entries the store holds
  ledger   \* per id, the additions and removals ever recorded

vars == <<held, ledger>>

Init ==
  /\ held \subseteq Ids
  /\ ledger = [i \in Ids |-> [added |-> 0, removed |-> 0]]

\* One write: some entries come and some go (a new one may push others out,
\* or go at once itself), each with one record.
Write(come, go) ==
  /\ come \cap held = {} /\ go \subseteq held \cup come
  /\ held' = (held \cup come) \ go
  /\ ledger' = [i \in Ids |->
       [added   |-> ledger[i].added   + IF i \in come THEN 1 ELSE 0,
        removed |-> ledger[i].removed + IF i \in go   THEN 1 ELSE 0]]

Next == \E come, go \in SUBSET Ids : Write(come, go)

Spec == Init /\ [][Next]_vars

=============================================================================
