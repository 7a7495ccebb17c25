--------------------------- MODULE MCSuggestions -----------------------------
(* Instances of Suggestions for TLC. *)
EXTENDS Suggestions, TLC

CONSTANTS p1, p2, r1, s1, s2, s3, soul, topic, entry

TwoProposers == {p1, p2}
OneReviewer == {r1}
ThreeRows == {s1, s2, s3}
OneDocument == {soul}
OneSubject == {topic}
OneTarget == {entry}
RowSymmetry == Permutations(Ids) \cup Permutations(Proposers)

=============================================================================
