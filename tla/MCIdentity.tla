----------------------------- MODULE MCIdentity ------------------------------
(* Instances of Identity for TLC. *)
EXTENDS Identity, TLC

CONSTANTS w1, w2, w3, t1, t2

TwoWriters == {w1, w2}
ThreeWriters == {w1, w2, w3}
Texts == {t1, t2}
WriterSymmetry == Permutations(Writers)

=============================================================================
