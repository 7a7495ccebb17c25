------------------------------ MODULE MCReview -------------------------------
(* Instances of Review for TLC. *)
EXTENDS Review

CONSTANTS a1, a2, npm, git

TwoAgents == {a1, a2}
TwoSignatures == {npm, git}
FailedOnce == {npm}
FirstAndFourth == {1, 4}
OneSignal == {"keyword"}

=============================================================================
