------------------------------- MODULE MCStore -------------------------------
(***************************************************************************)
(* Instances of MemoryStore for TLC: the ids are model values, the last of *)
(* which are minted during a behaviour.                                    *)
(***************************************************************************)
EXTENDS MemoryStore, TLC

CONSTANTS c1, c2, c3, e1, e2, e3, x1, x2

TwoClients == {c1, c2}
TwoIds == {e1, e2}
ThreeIds == {e1, e2, e3}
OneId == {e1}
NoId == {}

OneBody == {x1}
TwoBodies == {x1, x2}

ClientSymmetry == Permutations(Clients)

SignalOps == {"update", "remove", "tool", "fence", "hit", "janitor"}
StatusOps == {"add", "pin", "unpin", "archive", "unarchive", "supersede",
              "remove", "tool", "fence", "readRaw", "janitor"}
CapOps == {"add", "remove", "tool", "janitor"}

=============================================================================
