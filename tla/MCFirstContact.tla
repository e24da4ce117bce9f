--------------------------- MODULE MCFirstContact ---------------------------
(* Model values of the first-contact runs. *)
EXTENDS FirstContact, TLC

CONSTANTS a, b, k1

UsersAB  == {a, b}
HostsB   == {b}
Link     == {k1}
=============================================================================
