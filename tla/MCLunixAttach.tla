--------------------------- MODULE MCLunixAttach ----------------------------
(* LunixAttach with two helpers and two terminals, one of them held open. *)
EXTENDS LunixAttach, TLC

CONSTANTS t1, t2, h1, h2

MCHelpers == {h1, h2}

\* The helpers are interchangeable; the terminals are not.
Processes == Permutations(MCHelpers)

=============================================================================
