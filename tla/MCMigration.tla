---------------------------- MODULE MCMigration ------------------------------
(* Instances of Migration for TLC. *)
EXTENDS Migration, TLC

CONSTANTS k1, k2

TwoKeys == {k1, k2}
KeySymmetry == Permutations(Keys)

=============================================================================
