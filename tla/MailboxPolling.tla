--------------------------- MODULE MailboxPolling ---------------------------
(***************************************************************************)
(* The recipient's side of mailboxes: the mailboxes table, the AddMailbox, *)
(* RemoveMailbox and RotateOnion commands, the poll scheduler's supervisor *)
(* with one actor per mailbox, and the self-card that tells a contact      *)
(* where to deposit.                                                       *)
(*                                                                         *)
(* The mailbox servers are external here and are taken as MailboxServer    *)
(* shows them: they hold what was deposited until it is deleted.  Expiry   *)
(* is left out.  One contact stands for all.                               *)
(***************************************************************************)
EXTENDS Naturals, Sequences, FiniteSets

CONSTANTS
    Mailboxes, NoMb,
    Deposits,           \* deposits the contact may make
    Clients,            \* IPC clients, one command at a time each
    FailureThreshold,   \* FAILURE_THRESHOLD
    FrameCap,           \* deposits that fit into one FetchResponse
    DeleteCap,          \* the server's max_delete_ids
    MaxCmds,            \* bound: commands in a run
    MaxStops            \* bound: stops of the daemon

ASSUME BoundsAssumption ==
    {FailureThreshold, FrameCap, DeleteCap, MaxCmds, MaxStops} \subseteq Nat

VARIABLES
    status,     \* mailboxes.status of the 'mine' rows (a MailboxStatus); "none": no row
    held,       \* deposits on each server
    sent,       \* deposits made so far
    inbox,      \* deposits the inbound pipeline has persisted
    actor,      \* the poll actor of each mailbox: where it is
    got,        \* deposits its current tick has dispatched
    last,       \* its last_status
    fails,      \* its consecutive_failures
    quit,       \* a Shutdown signal waits for it
    ctrl,       \* PollerCtrl messages
    joins,      \* mailboxes whose actor the supervisor awaits (at most one)
    cmd,        \* the command of each client, and the step it has reached
    cmds, stops,
    up,         \* the daemon runs
    version,    \* self_card_state.version
    issued,     \* self-cards signed so far
    wire,       \* card updates on their way to the contact
    contact     \* the newest card the contact has stored

server  == <<held, sent>>
actors  == <<actor, got, last, fails, quit>>
cards   == <<version, issued, wire, contact>>
life    == <<cmds, stops, up>>
pvars   == <<status, server, inbox, actors, ctrl, joins, cmd, life, cards>>

NoCard   == [v |-> 0, list |-> {}]
Idle     == [op |-> "none", mb |-> NoMb, step |-> "idle", got |-> {}, card |-> NoCard]

PollInit ==
    /\ status = [m \in Mailboxes |-> "none"]
    /\ held = [m \in Mailboxes |-> {}] /\ sent = {} /\ inbox = {}
    /\ actor = [m \in Mailboxes |-> "off"]
    /\ got = [m \in Mailboxes |-> {}]
    /\ last = [m \in Mailboxes |-> "unknown"]
    /\ fails = [m \in Mailboxes |-> 0]
    /\ quit = [m \in Mailboxes |-> FALSE]
    /\ ctrl = <<>> /\ joins = {}
    /\ cmd = [k \in Clients |-> Idle]
    /\ cmds = 0 /\ stops = 0 /\ up = TRUE
    /\ version = 0 /\ issued = {} /\ wire = {} /\ contact = NoCard

-----------------------------------------------------------------------------
(* The contact and the servers.                                            *)

\* The delivery fallback deposits at a mailbox of the contact's latest card.
Deposit(d, m) ==
    /\ d \notin sent /\ m \in contact.list
    /\ sent' = sent \cup {d}
    /\ held' = [held EXCEPT ![m] = @ \cup {d}]
    /\ UNCHANGED <<status, inbox, actors, ctrl, joins, cmd, life, cards>>

\* ContactCardUpdate at the contact: put_card keeps the newest version.
PutCard(c) == contact' = IF c.v > contact.v THEN c ELSE contact
RecvCard(c) ==
    /\ c \in wire /\ wire' = wire \ {c}
    /\ PutCard(c)
    /\ UNCHANGED <<status, server, inbox, actors, ctrl, joins, cmd, life, version, issued>>

\* The server cannot encode a FetchResponse above MAX_FRAME_SIZE, and refuses a
\* Delete of more than max_delete_ids.
FetchFits(m)  == Cardinality(held[m]) <= FrameCap
DeleteFits(S) == Cardinality(S) <= DeleteCap

\* MailboxClient::fetch and delete.
Fetched(m)    == held[m]
Without(m, S) == [held EXCEPT ![m] = @ \ S]

-----------------------------------------------------------------------------
(* The mailboxes table.                                                    *)

AddMine(m)     == [status EXCEPT ![m] = IF @ = "none" THEN "unknown" ELSE @]
Marked(m, s)   == [status EXCEPT ![m] = s]
ListMine       == {m \in Mailboxes : status[m] # "none"}
ReachableMine  == {m \in ListMine : status[m] = "reachable"}

-----------------------------------------------------------------------------
(* The poll actor.                                                         *)

\* actor_loop starts: last_status is the row's status.
ActorStart(m) ==
    /\ actor[m] = "new"
    /\ actor' = [actor EXCEPT ![m] = "sleep"]
    /\ last' = [last EXCEPT ![m] = status[m]]
    /\ UNCHANGED <<status, server, inbox, got, fails, quit, ctrl, joins, cmd, life, cards>>

\* The select is biased: a waiting Shutdown wins over the timer.
ActorQuit(m) ==
    /\ actor[m] = "sleep" /\ quit[m]
    /\ actor' = [actor EXCEPT ![m] = "off"]
    /\ quit' = [quit EXCEPT ![m] = FALSE]
    /\ last' = [last EXCEPT ![m] = "unknown"]
    /\ fails' = [fails EXCEPT ![m] = 0]
    /\ UNCHANGED <<status, server, inbox, got, ctrl, joins, cmd, life, cards>>

TickStart(m) ==
    /\ actor[m] = "sleep" /\ ~quit[m]
    /\ actor' = [actor EXCEPT ![m] = "fetch"]
    /\ UNCHANGED <<status, server, inbox, got, last, fails, quit, ctrl, joins, cmd, life, cards>>

\* How a tick ends: the actor reports a status only when it is not its
\* last_status.
Reports(m, s) ==
    /\ status' = IF last[m] = s THEN status ELSE Marked(m, s)
    /\ last' = [last EXCEPT ![m] = s]
TickEnds(m) ==
    /\ actor' = [actor EXCEPT ![m] = "sleep"]
    /\ got' = [got EXCEPT ![m] = {}]
    /\ UNCHANGED <<sent, quit, ctrl, joins, cmd, life, cards>>
TickOk(m) ==
    /\ fails' = [fails EXCEPT ![m] = 0]
    /\ Reports(m, "reachable")
    /\ TickEnds(m)
TickFails(m) ==
    /\ fails' = [fails EXCEPT ![m] = IF @ < FailureThreshold THEN @ + 1 ELSE @]
    /\ IF fails'[m] >= FailureThreshold THEN Reports(m, "unreachable")
       ELSE UNCHANGED <<status, last>>
    /\ TickEnds(m)
TickLimited(m) ==
    /\ UNCHANGED fails
    /\ Reports(m, "rate_limited")
    /\ TickEnds(m)

\* poll_dispatch_once, first half: the fetched deposits of D are persisted.
\* Mutant: every fetched deposit is deleted, persisted or not.
TickFetch_DeleteAll(m, D) ==
    /\ actor[m] = "fetch" /\ FetchFits(m) /\ D \subseteq Fetched(m)
    /\ inbox' = inbox \cup D
    /\ IF held[m] = {} THEN TickOk(m) /\ UNCHANGED held
       ELSE /\ actor' = [actor EXCEPT ![m] = "delete"]
            /\ got' = [got EXCEPT ![m] = held[m]]
            /\ UNCHANGED <<status, server, last, fails, quit, ctrl, joins, cmd, life, cards>>
TickFetch(m, D) ==
    /\ actor[m] = "fetch" /\ FetchFits(m) /\ D \subseteq Fetched(m)
    /\ inbox' = inbox \cup D
    /\ IF D = {} THEN TickOk(m) /\ UNCHANGED held
       ELSE /\ actor' = [actor EXCEPT ![m] = "delete"]
            /\ got' = [got EXCEPT ![m] = D]
            /\ UNCHANGED <<status, server, last, fails, quit, ctrl, joins, cmd, life, cards>>

\* Its second half: the dispatched ones are deleted.
TickDelete(m) ==
    /\ actor[m] = "delete" /\ DeleteFits(got[m])
    /\ held' = Without(m, got[m])
    /\ TickOk(m)
    /\ UNCHANGED inbox

\* No connection, a refusal, or an answer that is lost after the server acted.
TickError(m) ==
    /\ actor[m] \in {"fetch", "delete"}
    /\ \/ held' = held
       \/ actor[m] = "delete" /\ DeleteFits(got[m]) /\ held' = Without(m, got[m])
    /\ TickFails(m) \/ TickLimited(m)
    /\ UNCHANGED inbox

-----------------------------------------------------------------------------
(* The supervisor.                                                         *)

SpawnActor(M) == [m \in Mailboxes |-> IF m \in M THEN "new" ELSE actor[m]]

\* PollerCtrl::AddMailbox: an actor that exists is left alone.
SupAdd ==
    /\ up /\ joins = {} /\ ctrl # <<>> /\ Head(ctrl).op = "add"
    /\ actor' = SpawnActor({m \in {Head(ctrl).mb} : actor[m] = "off"})
    /\ ctrl' = Tail(ctrl)
    /\ UNCHANGED <<status, server, inbox, got, last, fails, quit, joins, cmd, life, cards>>

\* PollerCtrl::RemoveMailbox: signal the actor and await its end.
\* Mutant: the entry is dropped, the actor is not told.
SupRemove_NoSignal ==
    /\ up /\ joins = {} /\ ctrl # <<>> /\ Head(ctrl).op = "remove"
    /\ ctrl' = Tail(ctrl)
    /\ UNCHANGED <<status, server, inbox, actors, joins, cmd, life, cards>>
SupRemove ==
    /\ up /\ joins = {} /\ ctrl # <<>> /\ Head(ctrl).op = "remove"
    /\ LET m == Head(ctrl).mb IN
       IF actor[m] = "off" THEN UNCHANGED <<quit, joins>>
       ELSE quit' = [quit EXCEPT ![m] = TRUE] /\ joins' = {m}
    /\ ctrl' = Tail(ctrl)
    /\ UNCHANGED <<status, server, inbox, actor, got, last, fails, cmd, life, cards>>
SupJoined ==
    /\ \E m \in joins : actor[m] = "off"
    /\ joins' = {}
    /\ UNCHANGED <<status, server, inbox, actors, ctrl, cmd, life, cards>>

-----------------------------------------------------------------------------
(* The commands.                                                           *)

At(k, s)    == up /\ cmd[k].step = s
Goto(k, s)  == cmd' = [cmd EXCEPT ![k].step = s]
Done(k)     == cmd' = [cmd EXCEPT ![k] = Idle]

\* A command arrives; RemoveMailbox of an unknown row is refused.
Begin(k, op, m) ==
    /\ At(k, "idle") /\ cmds < MaxCmds
    /\ op = "remove" => status[m] # "none"
    /\ cmds' = cmds + 1
    /\ cmd' = [cmd EXCEPT ![k] = [Idle EXCEPT !.op = op, !.mb = m,
                 !.step = CASE op = "add" -> "probe" [] op = "remove" -> "pending"
                            [] op = "rotate" -> "list"]]
    /\ UNCHANGED <<status, server, inbox, actors, ctrl, joins, stops, up, cards>>

\* handle_add_mailbox: the probe fails, or the row is added unless it exists,
\* and then marked as reachable.
AddFails(k) ==
    /\ At(k, "probe") /\ Done(k)
    /\ UNCHANGED <<status, server, inbox, actors, ctrl, joins, life, cards>>
AddRow(k) ==
    /\ At(k, "probe") /\ Goto(k, "mark")
    /\ status' = AddMine(cmd[k].mb)
    /\ UNCHANGED <<server, inbox, actors, ctrl, joins, life, cards>>
AddReachable(k) ==
    /\ At(k, "mark") /\ Goto(k, "ctrl")
    /\ status' = Marked(cmd[k].mb, "reachable")
    /\ UNCHANGED <<server, inbox, actors, ctrl, joins, life, cards>>

\* handle_remove_mailbox: mark the row, drain, stop the actor, finalize.
RemovePending(k) ==
    /\ At(k, "pending") /\ Goto(k, "drain")
    /\ status' = Marked(cmd[k].mb, "pending_removal")
    /\ UNCHANGED <<server, inbox, actors, ctrl, joins, life, cards>>
DrainFetch(k, D) ==
    /\ At(k, "drain") /\ FetchFits(cmd[k].mb) /\ D \subseteq Fetched(cmd[k].mb) /\ D # {}
    /\ inbox' = inbox \cup D
    /\ cmd' = [cmd EXCEPT ![k].step = "drained", ![k].got = D]
    /\ UNCHANGED <<status, server, actors, ctrl, joins, life, cards>>
DrainDelete(k) ==
    /\ At(k, "drained") /\ DeleteFits(cmd[k].got)
    /\ held' = Without(cmd[k].mb, cmd[k].got)
    /\ cmd' = [cmd EXCEPT ![k].step = "ctrl", ![k].got = {}]
    /\ UNCHANGED <<status, sent, inbox, actors, ctrl, joins, life, cards>>
\* Nothing to drain, or an error, which is swallowed.
DrainEnds(k) ==
    /\ At(k, "drain") \/ At(k, "drained")
    /\ cmd' = [cmd EXCEPT ![k].step = "ctrl", ![k].got = {}]
    /\ UNCHANGED <<status, server, inbox, actors, ctrl, joins, life, cards>>
\* The message to the supervisor is queued, not answered.
SendCtrl(k) ==
    /\ At(k, "ctrl")
    /\ ctrl' = Append(ctrl, [op |-> cmd[k].op, mb |-> cmd[k].mb])
    /\ Goto(k, IF cmd[k].op = "remove" THEN "finalize" ELSE "list")
    /\ UNCHANGED <<status, server, inbox, actors, joins, life, cards>>
RemoveFinal(k) ==
    /\ At(k, "finalize") /\ Goto(k, "list")
    /\ status' = Marked(cmd[k].mb, "removed")
    /\ UNCHANGED <<server, inbox, actors, ctrl, joins, life, cards>>

\* publish_self_card_update: read the reachable mailboxes, then take the next
\* version in a transaction of its own, then send.
ReadList(k) ==
    /\ At(k, "list")
    /\ cmd' = [cmd EXCEPT ![k].step = "bump",
                 ![k].card = [v |-> version, list |-> ReachableMine]]
    /\ UNCHANGED <<status, server, inbox, actors, ctrl, joins, life, cards>>
\* Mutant: the version is the one read with the list.
NextVersion_Stale(k) == cmd[k].card.v + 1
NextVersion(k) == version + 1
BumpVersion(k) ==
    /\ At(k, "bump")
    /\ version' = NextVersion(k)
    /\ cmd' = [cmd EXCEPT ![k].step = "send", ![k].card.v = NextVersion(k)]
    /\ issued' = issued \cup {[cmd[k].card EXCEPT !.v = NextVersion(k)]}
    /\ UNCHANGED <<status, server, inbox, actors, ctrl, joins, life, wire, contact>>
\* send_card_to_contact keeps no row: what the hub cannot send is lost.
SendCard(k) ==
    /\ At(k, "send") /\ Done(k)
    /\ wire' = wire \/ wire' = wire \cup {cmd[k].card}
    /\ UNCHANGED <<status, server, inbox, actors, ctrl, joins, life, version, issued, contact>>

-----------------------------------------------------------------------------
(* The daemon stops and starts.                                            *)

Stop ==
    /\ up /\ stops < MaxStops
    /\ up' = FALSE /\ stops' = stops + 1
    /\ actor' = [m \in Mailboxes |-> "off"] /\ got' = [m \in Mailboxes |-> {}]
    /\ last' = [m \in Mailboxes |-> "unknown"] /\ fails' = [m \in Mailboxes |-> 0]
    /\ quit' = [m \in Mailboxes |-> FALSE]
    /\ ctrl' = <<>> /\ joins' = {} /\ cmd' = [k \in Clients |-> Idle]
    /\ UNCHANGED <<status, server, inbox, cmds, cards>>

\* The supervisor's bootstrap: an actor for every row, whatever its status.
\* Mutant: only reachable mailboxes.
Bootstrapped_Reachable(m) == status[m] = "reachable"
Bootstrapped(m) == m \in ListMine
Boot ==
    /\ ~up /\ up' = TRUE
    /\ actor' = SpawnActor({m \in Mailboxes : Bootstrapped(m)})
    /\ UNCHANGED <<status, server, inbox, got, last, fails, quit, ctrl, joins, cmd, cmds, stops, cards>>

ActorStep(m) ==
    \/ ActorStart(m) \/ ActorQuit(m) \/ TickStart(m)
    \/ \E D \in SUBSET held[m] : TickFetch(m, D)
    \/ TickDelete(m) \/ TickError(m)
CmdStep(k) ==
    \/ AddFails(k) \/ AddRow(k) \/ AddReachable(k)
    \/ RemovePending(k) \/ DrainDelete(k) \/ DrainEnds(k)
    \/ \E D \in SUBSET Deposits : DrainFetch(k, D)
    \/ SendCtrl(k) \/ RemoveFinal(k)
    \/ ReadList(k) \/ BumpVersion(k) \/ SendCard(k)
SupStep == SupAdd \/ SupRemove \/ SupJoined

PollNext ==
    \/ \E m \in Mailboxes : ActorStep(m) \/ \E d \in Deposits : Deposit(d, m)
    \/ SupStep
    \/ \E k \in Clients :
        \/ CmdStep(k)
        \/ \E op \in {"add", "remove", "rotate"}, m \in Mailboxes : Begin(k, op, m)
    \/ \E c \in wire : RecvCard(c)
    \/ Stop \/ Boot

PollSpec == PollInit /\ [][PollNext]_pvars

\* The tasks run; a mailbox that is polled again and again answers at last,
\* and what it holds can be persisted.
PollFairness ==
    /\ WF_pvars(Boot) /\ WF_pvars(SupStep) /\ WF_pvars(\E k \in Clients : SendCtrl(k))
    /\ \A m \in Mailboxes :
        /\ WF_pvars(ActorStep(m))
        /\ SF_pvars(TickFetch(m, held[m]))

PollFairSpec == PollSpec /\ PollFairness

-----------------------------------------------------------------------------
(* Properties.                                                             *)

\* "no silent loss on a transient failure": a deposit leaves its mailbox only
\* after the inbound pipeline has persisted it, although the drain of
\* RemoveMailbox and the actor's tick may work on the same deposits, answers
\* are lost and the daemon stops between dispatch and delete.
NothingDropped == \A d \in sent : d \in inbox \/ \E m \in Mailboxes : d \in held[m]

\* "two concurrent rotations cannot publish the same version": no two cards
\* are signed with one version, whatever commands publish at the same time.
OneCardPerVersion == \A c, e \in issued : c.v = e.v => c = e

\* As long as nobody removes the mailbox, a deposit in it is persisted at last:
\* after errors, after Unreachable, after a restart, as long as what the mailbox
\* holds fits into one response.
NoRemoval == \A k \in Clients : cmd[k].op # "remove"
DepositsSurface ==
    []NoRemoval =>
        \A d \in Deposits, m \in Mailboxes :
            (d \in held[m] /\ FetchFits(m)) ~> (d \in inbox \/ ~FetchFits(m))

\* A RemoveMailbox message ends the mailbox's actor, even one that waits for
\* the network in a tick.
RemovalStops ==
    \A m \in Mailboxes :
        (\E i \in DOMAIN ctrl : ctrl[i] = [op |-> "remove", mb |-> m]) ~> actor[m] = "off"
=============================================================================
