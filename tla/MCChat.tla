------------------------------- MODULE MCChat -------------------------------
(* Chat with one or two clients. *)
EXTENDS Chat

CONSTANTS c1, c2

One == {c1}
Two == {c1, c2}

=============================================================================
