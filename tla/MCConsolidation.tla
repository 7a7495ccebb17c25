--------------------------- MODULE MCConsolidation ---------------------------
(* Instances of Consolidation for TLC. *)
EXTENDS Consolidation, TLC

CONSTANTS b1, p1, fact1, fact2, old1, old2, human

OneBatch == {b1}
TwoFacts == (b1 :> <<fact1, fact2>>)
OnePass == {p1}
TwoEntries == <<{old1}, {old2}>>
OneEdit == {human}

=============================================================================
