------------------------------- MODULE MCReplay -------------------------------
(* Small instances of Replay for TLC.                                      *)
EXTENDS Replay, TLC

CONSTANTS j1, j2

MCJobs == {j1, j2}
MCToPark == {1}
MCNone == {}

Symmetry == Permutations(MCJobs)

=============================================================================
