--------------------------- MODULE MCCrossProcess ----------------------------
(* Two processes on one storage root. *)
EXTENDS CrossProcess, TLC

CONSTANTS p1, p2

TwoProcesses == {p1, p2}

=============================================================================
