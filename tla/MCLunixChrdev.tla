--------------------------- MODULE MCLunixChrdev ----------------------------
(* Instances of LunixChrdev for TLC. *)
EXTENDS LunixChrdev, TLC

CONSTANTS r1, r2, f1, f2

\* Texts of different lengths, as "2.7" and "-10.25" have.
MCTextLen == [n \in 1 .. MaxUpdates |-> IF n % 2 = 1 THEN 3 ELSE 1]

Shared == (r1 :> f1) @@ (r2 :> f1)
Alone == r1 :> f1

=============================================================================
