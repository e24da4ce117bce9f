--------------------------- MODULE MCMailboxServer --------------------------
(* Model values and small tables for MailboxServer.                         *)
EXTENDS MailboxServer, TLC

CONSTANTS a, b, c, d1, d2, d3, n1, c1

UsersABC  == {a, b, c}
DepositIds == {d1, d2, d3}

\* Users and deposit ids are interchangeable.
Symmetric == Permutations(UsersABC) \cup Permutations(DepositIds)
=============================================================================
