------------------------------ MODULE MCRateLimit ------------------------------
(* Small instances of RateLimit for TLC: rates below ten, which are raised *)
(* to ten; at tens, which are kept; and rounded down and up.               *)
EXTENDS RateLimit

MCRates == {1, 4, 10, 14, 15}

=============================================================================
