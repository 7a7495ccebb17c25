--------------------------- MODULE MCMemorySection ---------------------------
(***************************************************************************)
(* An instance of MemorySection for TLC: two imported entries, the older   *)
(* of which the scanner would refuse today, in a store that holds two.     *)
(***************************************************************************)
EXTENDS MemorySection

Two == {1, 2}
One == {1}

=============================================================================
