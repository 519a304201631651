--------------------------- MODULE MCVirtioCrypto ---------------------------
(* VirtioCrypto with two processes and two open files. *)
EXTENDS VirtioCrypto, TLC

CONSTANTS p1, p2, f1, f2

=============================================================================
