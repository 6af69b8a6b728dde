----------------------------- MODULE MCReplayLoop -----------------------------
(* Small instances of ReplayLoop for TLC: one poison class, one transient, *)
(* and two that neither list names, for the default.                       *)
EXTENDS ReplayLoop

CONSTANTS poison, transient, other, unknown

MCClasses == {poison, transient, other, unknown}
MCPoison == {poison}
MCTransient == {transient}
MCFirstAttempts == -1..4
MCNoAttempts == {}

=============================================================================
