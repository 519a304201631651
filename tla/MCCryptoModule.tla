--------------------------- MODULE MCCryptoModule ---------------------------
(* CryptoModule with two processes, open files and devices. *)
EXTENDS CryptoModule, TLC

CONSTANTS p1, p2, f1, f2, d1, d2

=============================================================================
