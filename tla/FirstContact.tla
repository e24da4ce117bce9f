---------------------------- MODULE FirstContact ----------------------------
(***************************************************************************)
(* First contact between users: create_invite, add_contact and             *)
(* remove_contact (daemon/dispatch.rs), the durable Welcome re-send        *)
(* (delivery/welcome_sweep.rs), the accept loop (daemon/accept.rs) and the *)
(* two Welcome handlers (daemon/inbound.rs), over the tables they share.   *)
(*                                                                         *)
(* The user who adds the invite commits the group and sends the Welcome;   *)
(* the user who made the invite joins.  A Welcome is bound to the          *)
(* h_transport of the connection that add_contact dialled, so a circuit    *)
(* stands for its h_transport and a group carries the circuit it is bound  *)
(* to.  A user's Noise static key is a function of the identity, so one    *)
(* name stands for both.  Time is a set of flags: an invite has expired, a *)
(* row is due, a row is older than MAX_WELCOME_AGE.                        *)
(***************************************************************************)
EXTENDS Naturals, Sequences, FiniteSets

CONSTANTS Users,
          Hosts,         \* users who make invites
          Invites,       \* KeyPackageRefs of the invites that can be made
          Circs,         \* connections, numbered from 1
          NoUser, NoInvite,
          MaxRemoves,    \* bound: RemoveContact commands
          MaxRestarts,   \* bound: daemon restarts
          ReAdd          \* users add an invite of a contact still pending

ASSUME NamesAssumption == NoUser \notin Users /\ NoInvite \notin Invites
ASSUME CircsAssumption == Circs \subseteq Nat \ {0}
ASSUME BoundAssumption == MaxRemoves \in Nat /\ MaxRestarts \in Nat /\ ReAdd \in BOOLEAN

\* A group by its committer, the invite it was made from and the connection
\* its genesis Commit is bound to.
Groups  == [by : Users, kp : Invites, h : Circs]
NoGroup == [by |-> NoUser, kp |-> NoInvite, h |-> 0]

VARIABLES
    owner,        \* the user who made each invite
    version,      \* version of the self-card each invite embeds
    outstanding,  \* rows of outstanding_invites (at the invite's owner)
    expired,      \* invites whose expires_at has passed
    acks,         \* first_contact_acks at the owner: invite -> joined peer
    consumed,     \* key_packages rows with consumed = 1, per adding user
    contact,      \* contacts row of each user for each other user
    pending,      \* pending_welcomes row of each user for each other user
    adding,       \* add_contact calls between their dial and their transaction
    circ,         \* connections: who dialled whom, and the responder's end
    cur,          \* the connection each user's actor holds to each peer
    ctrl,         \* ReplaceConn messages queued for that actor
    wire,         \* frames in flight
    due,          \* rows a welcome-sweep pass has read and not yet handled
    job,          \* the row the pass is waiting for
    made, joined, \* groups ever committed, and ever joined by the invite's owner
    removes, restarts

invites == <<owner, version, outstanding, expired>>
tables  == <<invites, acks, consumed, contact, pending>>
net     == <<circ, cur, ctrl, wire>>
sweep   == <<due, job>>
bounds  == <<removes, restarts>>
vars    == <<tables, adding, net, sweep, made, joined, bounds>>

NoContact == [state |-> "absent", group |-> NoGroup, card |-> 0]
NoRow     == [group |-> NoGroup, due |-> FALSE, old |-> FALSE, failed |-> FALSE]
Idle      == [peer |-> NoUser, group |-> NoGroup, old |-> FALSE, res |-> "idle"]
NoCirc    == [from |-> NoUser, to |-> NoUser, end |-> "free"]

Init ==
    /\ owner = [k \in Invites |-> NoUser]
    /\ version = [k \in Invites |-> 0]
    /\ outstanding = {} /\ expired = {}
    /\ acks = [k \in Invites |-> NoUser]
    /\ consumed = [u \in Users |-> {}]
    /\ contact = [u \in Users |-> [p \in Users |-> NoContact]]
    /\ pending = [u \in Users |-> [p \in Users |-> NoRow]]
    /\ adding = {}
    /\ circ = [c \in Circs |-> NoCirc]
    /\ cur = [u \in Users |-> [p \in Users |-> 0]]
    /\ ctrl = [u \in Users |-> [p \in Users |-> <<>>]]
    /\ wire = {}
    /\ due = [u \in Users |-> {}] /\ job = [u \in Users |-> Idle]
    /\ made = {} /\ joined = {}
    /\ removes = 0 /\ restarts = 0

-----------------------------------------------------------------------------
(* Storage.                                                                *)

\* PendingWelcomeRepo::is_pending: a failed row counts as well.
IsPending(u, p) == pending[u][p] # NoRow

\* PendingWelcomeRepo::insert_in_tx: INSERT OR IGNORE, due at once.
PendingInserted(u, p, g) ==
    IF IsPending(u, p) THEN pending
    ELSE [pending EXCEPT ![u][p] = [NoRow EXCEPT !.group = g, !.due = TRUE]]

\* PendingWelcomeRepo::delete and delete_in_tx, by peer.
PendingDeleted(u, p) == [pending EXCEPT ![u][p] = NoRow]

\* PendingWelcomeRepo::reschedule and mark_failed: UPDATEs by peer, no-ops
\* when the row is gone.
PendingRescheduled(u, p) ==
    IF IsPending(u, p) THEN [pending EXCEPT ![u][p].due = FALSE] ELSE pending
PendingFailed_Unmarked(u, p) == PendingRescheduled(u, p)
PendingFailed(u, p) ==
    IF IsPending(u, p) THEN [pending EXCEPT ![u][p].failed = TRUE] ELSE pending

\* PendingWelcomeRepo::due.
DueRows(u) ==
    {[peer |-> p, group |-> pending[u][p].group, old |-> pending[u][p].old] :
        p \in {q \in Users : pending[u][q].due /\ ~pending[u][q].failed}}

\* FirstContactAckRepo::lookup and insert_in_tx (INSERT OR IGNORE).
JoinedBy(k) == acks[k]
AckInserted(k, p) == [acks EXCEPT ![k] = IF @ = NoUser THEN p ELSE @]

\* FirstContactAckRepo::delete_by_peer_in_tx at user u.
AcksDeleted(u, p) ==
    [k \in Invites |-> IF owner[k] = u /\ acks[k] = p THEN NoUser ELSE acks[k]]

\* OutstandingInviteRepo: put_with_provider, get_psk_and_kp_bytes,
\* mark_consumed_in_tx.
InvitePut(k)      == outstanding \cup {k}
PskFound(k)       == k \in outstanding
InviteConsumed(k) == outstanding \ {k}

\* invite::link: from_url accepts the link; is_consumed_in_tx and
\* mark_consumed_in_tx on key_packages.
LinkOpens(k)       == k \notin expired
IsConsumed(u, k)   == k \in consumed[u]
MarkConsumed(u, k) == [consumed EXCEPT ![u] = @ \cup {k}]

\* ContactRepo::upsert_in_tx, put_card_in_tx and set_group_id_in_tx of
\* add_contact's transaction.
ContactAdded(u, p, g) ==
    [contact EXCEPT ![u][p] = [state |-> "listed", group |-> g, card |-> version[g.kp]]]

\* The contact upsert of welcome_join_persist: un-hidden, linked to the group,
\* its cards kept.
ContactJoined(u, p, g) ==
    [contact EXCEPT ![u][p] = [@ EXCEPT !.state = "listed", !.group = g]]

\* ContactRepo::find_by_noise_x25519: only contacts that are not hidden.
KnownPeer(u, p) == contact[u][p].state = "listed"

-----------------------------------------------------------------------------
(* Connections.                                                            *)

\* A number no connection has and no group is bound to: the h_transport of a
\* connection never comes back.
Fresh(c) == circ[c] = NoCirc /\ \A g \in adding \cup made : g.h # c

CanDial  == \E c \in Circs : Fresh(c)
NextCirc == CHOOSE c \in Circs : Fresh(c) /\ \A d \in Circs : Fresh(d) => c <= d

\* TransportDial::dial_onion: u reaches p.  The responder's task has yet to
\* look the peer up.
Dialled(c, u, p) == [circ EXCEPT ![c] = [from |-> u, to |-> p, end |-> "new"]]

Other(c, u) == IF circ[c].from = u THEN circ[c].to ELSE circ[c].from
Frame(c, to, kind, g) == [on |-> c, to |-> to, kind |-> kind, group |-> g]

\* A queue without the connections cs.
Without(q, cs) ==
    LET kept[i \in 0..Len(q)] ==
          IF i = 0 THEN <<>>
          ELSE IF q[i] \in cs THEN kept[i - 1] ELSE Append(kept[i - 1], q[i])
    IN  kept[Len(q)]

\* The connections cs end for both sides, at the point where both have noticed:
\* what is in flight on them is lost, queued ReplaceConns of them are dead, and
\* drain_pending tells a sweep that waits for an Ack on one Err.
Ended(cs) ==
    /\ circ' = [c \in Circs |-> IF c \in cs THEN NoCirc ELSE circ[c]]
    /\ wire' = {f \in wire : f.on \notin cs}
    /\ job' = [u \in Users |->
                  IF job[u].res = "wait" /\ cur[u][job[u].peer] \in cs
                  THEN [job[u] EXCEPT !.res = "err"] ELSE job[u]]
CurWithout(cs)  == [u \in Users |-> [p \in Users |->
                       IF cur[u][p] \in cs THEN 0 ELSE cur[u][p]]]
CtrlWithout(cs) == [u \in Users |-> [p \in Users |-> Without(ctrl[u][p], cs)]]

\* PeerCtrl::ReplaceConn: the old connection is closed, its sends drained.
ReplaceConn(u, p) ==
    LET old == {cur[u][p]} \ {0} IN
    /\ ctrl[u][p] # <<>>
    /\ cur' = [CurWithout(old) EXCEPT ![u][p] = Head(ctrl[u][p])]
    /\ ctrl' = [CtrlWithout(old) EXCEPT ![u][p] = Tail(ctrl[u][p])]
    /\ Ended(old)
    /\ UNCHANGED <<tables, adding, due, made, joined, bounds>>

\* The network loses a connection, the actor's keepalive closes it, or the
\* accept task gives up on it (WELCOME_READ_TIMEOUT).
Break(c) ==
    /\ circ[c] # NoCirc
    /\ Ended({c}) /\ cur' = CurWithout({c}) /\ ctrl' = CtrlWithout({c})
    /\ UNCHANGED <<tables, adding, due, made, joined, bounds>>

-----------------------------------------------------------------------------
(* Invites and contacts: the commands.                                     *)

\* create_invite: the key package, the next card version, the row that keeps
\* the PSK.
CreateInvite(u, k) ==
    /\ u \in Hosts /\ owner[k] = NoUser
    /\ owner' = [owner EXCEPT ![k] = u]
    /\ version' = [version EXCEPT ![k] = 1 + Cardinality({j \in Invites : owner[j] # NoUser})]
    /\ outstanding' = InvitePut(k)
    /\ UNCHANGED <<expired, acks, consumed, contact, pending, adding, net, sweep,
                   made, joined, bounds>>

\* expires_at passes.
Expire(k) ==
    /\ owner[k] # NoUser /\ k \notin expired
    /\ expired' = expired \cup {k}
    /\ UNCHANGED <<owner, version, outstanding, acks, consumed, contact, pending,
                   adding, net, sweep, made, joined, bounds>>

\* add_contact up to its dial: the link must not have expired and must not be
\* consumed; the connection goes to the actor, its h_transport to the group.
\* A dial that fails writes nothing.
AddDial(u, k) ==
    LET p == owner[k] IN
    /\ p \notin {NoUser, u}
    /\ LinkOpens(k) /\ ~IsConsumed(u, k)
    /\ ReAdd \/ ~(IsPending(u, p) \/ \E g \in adding :
                     g.by = u /\ g.kp # k /\ owner[g.kp] = p)
    /\ CanDial
    /\ adding' = adding \cup {[by |-> u, kp |-> k, h |-> NextCirc]}
    /\ circ' = Dialled(NextCirc, u, p)
    /\ ctrl' = [ctrl EXCEPT ![u][p] = Append(@, NextCirc)]
    /\ UNCHANGED <<tables, cur, wire, sweep, made, joined, bounds>>

\* The transaction of add_contact.  The invite is checked again; a card that
\* is not newer than the stored one makes put_card_in_tx fail; either way
\* nothing is written.
CardIsNewer(g) == version[g.kp] > contact[g.by][owner[g.kp]].card
AddAdmitted_NoRecheck(g) == version[g.kp] >= contact[g.by][owner[g.kp]].card
AddAdmitted(g) == ~IsConsumed(g.by, g.kp) /\ CardIsNewer(g)

AddCommit(g) ==
    LET u == g.by
        p == owner[g.kp] IN
    /\ adding' = adding \ {g}
    /\ IF AddAdmitted(g)
       THEN /\ contact' = ContactAdded(u, p, g)
            /\ consumed' = MarkConsumed(u, g.kp)
            /\ pending' = PendingInserted(u, p, g)
            /\ made' = made \cup {g}
       ELSE UNCHANGED <<contact, consumed, pending, made>>
    /\ UNCHANGED <<invites, acks, net, sweep, joined, bounds>>

\* remove_contact: a pending contact is purged with every row keyed by the
\* peer, a connected one is hidden.
RemoveContact(u, p) ==
    /\ contact[u][p].state # "absent"
    /\ removes < MaxRemoves /\ removes' = removes + 1
    /\ IF IsPending(u, p)
       THEN /\ contact' = [contact EXCEPT ![u][p] = NoContact]
            /\ acks' = AcksDeleted(u, p)
       ELSE /\ contact' = [contact EXCEPT ![u][p].state = "hidden"]
            /\ acks' = acks
    /\ pending' = PendingDeleted(u, p)
    /\ UNCHANGED <<invites, consumed, adding, net, sweep, made, joined, restarts>>

-----------------------------------------------------------------------------
(* The invite owner: accept loop and Welcome handlers.                     *)

\* Group::join_from_welcome: the transport PSK the Welcome names is registered.
WelcomeOpens(g, h) == g.h = h

\* welcome_join_persist succeeds when the invite is outstanding and has not
\* expired, and the Welcome opens.
CanJoin(g, h) == PskFound(g.kp) /\ g.kp \notin expired /\ WelcomeOpens(g, h)

\* Its transaction: group, contact, invite and, on the bootstrap path, the
\* first_contact_acks row (INSERT OR IGNORE).
JoinPersist(u, g, bound) ==
    /\ contact' = ContactJoined(u, g.by, g)
    /\ outstanding' = InviteConsumed(g.kp)
    /\ acks' = IF bound THEN AckInserted(g.kp, g.by) ELSE acks
    /\ joined' = joined \cup {g}
    /\ UNCHANGED <<owner, version, expired, consumed, pending>>
NoJoin == UNCHANGED <<tables, joined>>

\* handle_inbound_stream after the handshake: a known peer's connection goes
\* to the actor, an unknown peer may send one frame.
Accept(c) ==
    LET u == circ[c].to
        p == circ[c].from IN
    /\ circ[c].end = "new"
    /\ IF KnownPeer(u, p)
       THEN /\ ctrl' = [ctrl EXCEPT ![u][p] = Append(@, c)]
            /\ circ' = [circ EXCEPT ![c].end = "actor"]
       ELSE /\ ctrl' = ctrl
            /\ circ' = [circ EXCEPT ![c].end = "await"]
    /\ UNCHANGED <<tables, adding, cur, wire, sweep, made, joined, bounds>>

\* dispatch_welcome_bootstrap: a consumed invite is acknowledged again to the
\* peer that joined with it and to nobody else; otherwise join.
Bootstrapped_Unbound(g, p, h) == JoinedBy(g.kp) = p \/ g.kp \in outstanding
Bootstrapped_NoReAck(g, p, h) == JoinedBy(g.kp) = NoUser /\ CanJoin(g, h)
Bootstrapped(g, p, h) ==
    \/ JoinedBy(g.kp) = p
    \/ JoinedBy(g.kp) = NoUser /\ CanJoin(g, h)

\* The one frame of an unknown peer: Ack and hand the connection over, or
\* close it.
AcceptWelcome(f) ==
    LET c == f.on
        u == f.to
        p == circ[c].from
        g == f.group IN
    /\ f.kind = "welcome" /\ circ[c].end = "await" /\ circ[c].to = u
    /\ IF Bootstrapped(g, p, c)
       THEN /\ circ' = [circ EXCEPT ![c].end = "actor"]
            /\ ctrl' = [ctrl EXCEPT ![u][p] = Append(@, c)]
            /\ wire' = (wire \ {f}) \cup {Frame(c, p, "ack", g)}
            /\ UNCHANGED <<cur, job>>
       ELSE Ended({c}) /\ cur' = CurWithout({c}) /\ ctrl' = CtrlWithout({c})
    /\ IF JoinedBy(g.kp) = NoUser /\ CanJoin(g, c) THEN JoinPersist(u, g, TRUE) ELSE NoJoin
    /\ UNCHANGED <<adding, due, made, bounds>>

\* dispatch_welcome: the same on a connection the actor holds, where no
\* h_transport is registered (0 is no connection).
DispatchWelcome(f) ==
    LET u == f.to
        p == Other(f.on, u)
        g == f.group IN
    /\ f.kind = "welcome" /\ cur[u][p] = f.on
    /\ wire' = (wire \ {f}) \cup
               {Frame(f.on, p, "ack", g) : d \in {e \in {g} : Bootstrapped(e, p, 0)}}
    /\ IF JoinedBy(g.kp) = NoUser /\ CanJoin(g, 0) THEN JoinPersist(u, g, FALSE) ELSE NoJoin
    /\ UNCHANGED <<adding, circ, cur, ctrl, sweep, made, bounds>>

-----------------------------------------------------------------------------
(* The Welcome sweep of the user who added the invite.                     *)

\* next_retry_at passes.
RetryDue(u, p) ==
    /\ IsPending(u, p) /\ ~pending[u][p].due
    /\ pending' = [pending EXCEPT ![u][p].due = TRUE]
    /\ UNCHANGED <<invites, acks, consumed, contact, adding, net, sweep, made,
                   joined, bounds>>

\* The row reaches MAX_WELCOME_AGE.
GrowsOld(u, p) ==
    /\ IsPending(u, p) /\ ~pending[u][p].old
    /\ pending' = [pending EXCEPT ![u][p].old = TRUE]
    /\ UNCHANGED <<invites, acks, consumed, contact, adding, net, sweep, made,
                   joined, bounds>>

\* A pass of run_welcome_sweep reads the due rows.
SweepBegin(u) ==
    /\ due[u] = {} /\ job[u] = Idle
    /\ DueRows(u) # {}
    /\ due' = [due EXCEPT ![u] = DueRows(u)]
    /\ UNCHANGED <<tables, adding, net, job, made, joined, bounds>>

\* hub.send_welcome and the actor's Welcome arm for one of the rows: written
\* on the connection the actor holds, or on one it dials by the stored card.
SweepSend(u, r) ==
    LET p == r.peer
        waits(res) == job' = [job EXCEPT ![u] = [peer |-> p, group |-> r.group,
                                                 old |-> r.old, res |-> res]] IN
    /\ job[u] = Idle /\ r \in due[u]
    /\ due' = [due EXCEPT ![u] = @ \ {r}]
    /\ \/ /\ cur[u][p] # 0
          /\ wire' = wire \cup {Frame(cur[u][p], p, "welcome", r.group)}
          /\ waits("wait")
          /\ UNCHANGED <<circ, cur>>
       \/ /\ cur[u][p] = 0 /\ contact[u][p].card > 0 /\ CanDial
          /\ circ' = Dialled(NextCirc, u, p)
          /\ cur' = [cur EXCEPT ![u][p] = NextCirc]
          /\ wire' = wire \cup {Frame(NextCirc, p, "welcome", r.group)}
          /\ waits("wait")
       \/ /\ cur[u][p] = 0                              \* the dial failed
          /\ waits("err")
          /\ UNCHANGED <<circ, cur, wire>>
    /\ UNCHANGED <<tables, adding, ctrl, made, joined, bounds>>

\* The Ack arm of the actor: the send it answers is told Ok, if the sweep
\* still waits for it.
RecvAck(f) ==
    LET u == f.to
        p == Other(f.on, u) IN
    /\ f.kind = "ack" /\ cur[u][p] = f.on
    /\ wire' = wire \ {f}
    /\ job' = IF job[u].peer = p /\ job[u].group = f.group /\ job[u].res = "wait"
              THEN [job EXCEPT ![u].res = "ok"] ELSE job
    /\ UNCHANGED <<tables, adding, circ, cur, ctrl, due, made, joined, bounds>>

\* ACK_TIMEOUT.
SweepTimeout(u) ==
    /\ job[u].res = "wait"
    /\ job' = [job EXCEPT ![u].res = "err"]
    /\ UNCHANGED <<tables, adding, net, due, made, joined, bounds>>

\* on_welcome_acked: the row goes; the reverse card it then sends, as far as it
\* can, is left out.
OnWelcomeAcked(u, p) == PendingDeleted(u, p)

\* The end of the row's turn: delete on an Ack, give up on
\* a row that was old when it was read, reschedule otherwise.  The row is
\* addressed by peer, whatever it has become since it was read.
SweepFinish(u) ==
    LET p == job[u].peer IN
    /\ job[u].res \in {"ok", "err"}
    /\ pending' = CASE job[u].res = "ok" -> OnWelcomeAcked(u, p)
                    [] job[u].res = "err" /\ job[u].old -> PendingFailed(u, p)
                    [] OTHER -> PendingRescheduled(u, p)
    /\ job' = [job EXCEPT ![u] = Idle]
    /\ UNCHANGED <<invites, acks, consumed, contact, adding, net, due, made,
                   joined, bounds>>

\* The daemon of u stops and starts again: the tables survive.
Restart(u) ==
    LET mine == {c \in Circs : u \in {circ[c].from, circ[c].to}} IN
    /\ restarts < MaxRestarts /\ restarts' = restarts + 1
    /\ adding' = {g \in adding : g.by # u}
    /\ circ' = [c \in Circs |-> IF c \in mine THEN NoCirc ELSE circ[c]]
    /\ wire' = {f \in wire : f.on \notin mine}
    /\ cur' = CurWithout(mine) /\ ctrl' = CtrlWithout(mine)
    /\ due' = [due EXCEPT ![u] = {}]
    /\ job' = [v \in Users |->
                  IF v = u THEN Idle
                  ELSE IF job[v].res = "wait" /\ cur[v][job[v].peer] \in mine
                       THEN [job[v] EXCEPT !.res = "err"] ELSE job[v]]
    /\ UNCHANGED <<tables, made, joined, removes>>

Next ==
    \/ \E u \in Users, k \in Invites : CreateInvite(u, k) \/ AddDial(u, k)
    \/ \E k \in Invites : Expire(k)
    \/ \E u \in Users : SweepBegin(u) \/ SweepTimeout(u)
                        \/ SweepFinish(u) \/ Restart(u)
    \/ \E g \in adding : AddCommit(g)
    \/ \E u, p \in Users : RemoveContact(u, p) \/ ReplaceConn(u, p)
                           \/ RetryDue(u, p) \/ GrowsOld(u, p)
    \/ \E c \in Circs : Break(c) \/ Accept(c)
    \/ \E f \in wire : AcceptWelcome(f) \/ DispatchWelcome(f) \/ RecvAck(f)
    \/ \E u \in Users : \E r \in due[u] : SweepSend(u, r)

Spec == Init /\ [][Next]_vars

\* The tasks run and time passes; a peer that is dialled again and again is
\* reached, and frames arrive, again and again.  Each is assumed of all users
\* together, which is less than of each user.
FairSpec ==
    /\ Spec
    /\ WF_vars(\E u \in Users : \/ SweepBegin(u) \/ SweepTimeout(u) \/ SweepFinish(u)
                                \/ \E r \in due[u] : SweepSend(u, r))
    /\ WF_vars(\E u, p \in Users : RetryDue(u, p))
    /\ WF_vars(\E g \in adding : AddCommit(g))
    /\ SF_vars(\E u \in Users, r \in UNION {due[v] : v \in Users} :
                  SweepSend(u, r) /\ job'[u].res = "wait")
    /\ SF_vars(\E u, p \in Users : ReplaceConn(u, p))
    /\ SF_vars(\E c \in Circs : Accept(c))
    /\ SF_vars(\E f \in wire : AcceptWelcome(f) \/ DispatchWelcome(f))
    /\ SF_vars(\E f \in wire : RecvAck(f))

-----------------------------------------------------------------------------
(* Properties.                                                             *)

\* An invite makes at most one group per user who adds it, and is joined with
\* at most once, whatever add_contact calls overlap and however often a
\* Welcome is presented (the re-check in add_contact's transaction, the
\* consumed row and first_contact_acks at the owner).
SingleUse ==
    /\ \A g, d \in made : g.by = d.by /\ g.kp = d.kp => g = d
    /\ \A g, d \in joined : g.kp = d.kp => g = d

\* An Ack in flight, and an Ack the sweep has seen, is of a group that the
\* owner of the invite has joined.
AckMeansJoined ==
    /\ \A f \in wire : f.kind = "ack" => f.group \in joined
    /\ \A u \in Users : job[u].res = "ok" => job[u].group \in joined

\* A lost first-contact Ack heals: once the owner has joined, the row goes
\* with a later Ack, provided that in the long run an answer on the way is
\* waited for (the row may grow old and be given up before that).
AnswerAwaited ==
    <>[][\A u \in Users, f \in wire :
            job[u].res = "wait" /\ f.on = cur[u][job[u].peer] => ~SweepTimeout(u)]_vars
LostAckHeals ==
    AnswerAwaited =>
        \A u, p \in Users :
            (\E g \in joined : pending[u][p].group = g)
                ~> (~IsPending(u, p) \/ pending[u][p].old)

\* A row past MAX_WELCOME_AGE is not retried for ever: it is acknowledged,
\* removed or marked as failed.
OldRowEnds ==
    \A u, p \in Users :
        pending[u][p].old ~> (~IsPending(u, p) \/ pending[u][p].failed)
=============================================================================
