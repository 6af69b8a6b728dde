------------------------------- MODULE MCOutbox -------------------------------
(* Small instances of Outbox for TLC.  One tick is BASE_MS of the backoff. *)
EXTENDS Outbox, TLC

CONSTANTS e1, e2, e3

MCEvents == {e1, e2}
MCEventsAndMalformed == {e1, e2, e3}
MCMalformed == {e3}
MCPoison == {e1}
None == {}

Symmetry == Permutations(MCEvents)

=============================================================================
