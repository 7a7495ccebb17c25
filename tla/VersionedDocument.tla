-------------------------- MODULE VersionedDocument --------------------------
(***************************************************************************)
(* What the identity layer promises of one document (SOUL.md or USER.md):  *)
(* every rewrite is the next version, a version is rewritten by nobody,    *)
(* and the history holds snapshots of versions that really were current,   *)
(* and is cut from its oldest end only.                                    *)
(***************************************************************************)
EXTENDS Naturals

CONSTANT Contents

VARIABLES
  doc,      \* the current [version, content]
  ever,     \* every [version, content] that has been current
  history   \* the snapshots kept

dvars == <<doc, ever, history>>

Version == [version: Nat, content: Contents]

DocInit ==
  /\ doc \in Version
  /\ ever = {doc}
  /\ history \subseteq ever

Rewrite(x) ==
  /\ doc' = [version |-> doc.version + 1, content |-> x]
  /\ ever' = ever \cup {doc'}
  /\ UNCHANGED history

Snapshot(r) ==
  /\ r \in ever
  /\ history' = history \cup {r}
  /\ UNCHANGED <<doc, ever>>

\* Only a version older than every other one kept is dropped.
Drop(r) ==
  /\ \A s \in history \ {r} : r.version < s.version
  /\ history' = history \ {r}
  /\ UNCHANGED <<doc, ever>>

DocNext ==
  \/ \E x \in Contents : Rewrite(x)
  \/ \E r \in ever : Snapshot(r)
  \/ \E r \in history : Drop(r)

DocSpec == DocInit /\ [][DocNext]_dvars

=============================================================================
