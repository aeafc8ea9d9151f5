------------------------- MODULE MCAdapterSessions -------------------------
(* A small instance of AdapterSessions. *)
EXTENDS AdapterSessions

CONSTANTS c1, c2, m1, alice, bob

=============================================================================
