---------------------------- MODULE MailboxStore ----------------------------
(***************************************************************************)
(* What a mailbox promises: a deposit it has accepted is held until its    *)
(* recipient takes it or until its ttl has passed, whatever else the       *)
(* server does to make room.                                               *)
(***************************************************************************)
CONSTANTS Ids, Users, NoUser

VARIABLES
    to,     \* recipient of each deposit held; NoUser: no such deposit
    past    \* deposits held although their ttl has passed

Held == {i \in Ids : to[i] # NoUser}

Init == to = [i \in Ids |-> NoUser] /\ past = {}

\* The deposits of S leave.
Without(S) == [i \in Ids |-> IF i \in S THEN NoUser ELSE to[i]]

\* Only deposits past their ttl make room for a new one.
Accept(i, u, freed) ==
    /\ i \notin Held
    /\ to' = [Without(freed) EXCEPT ![i] = u]
    /\ past' = past \ freed

Take(u, S) ==
    /\ \A i \in S : to[i] = u
    /\ to' = Without(S)
    /\ past' = past \ S

Reclaim(freed) ==
    /\ to' = Without(freed)
    /\ past' = past \ freed

TimePasses ==
    /\ past \subseteq past' /\ past' \subseteq Held
    /\ to' = to

Next ==
    \/ \E i \in Ids, u \in Users, freed \in SUBSET past : Accept(i, u, freed)
    \/ \E u \in Users, S \in SUBSET Held : Take(u, S)
    \/ \E freed \in SUBSET past : Reclaim(freed)
    \/ TimePasses

Spec == Init /\ [][Next]_<<to, past>>
=============================================================================
