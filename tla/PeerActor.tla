----------------------------- MODULE PeerActor -----------------------------
(***************************************************************************)
(* One per-peer delivery actor: full_run in delivery/peer.rs.  The actor   *)
(* is a single task; each arm of its select! loop runs to completion, so   *)
(* each arm is one action.  Its inputs are the job and welcome channels,   *)
(* the control channel, the frames of the live connection, and two ticks.  *)
(*                                                                         *)
(* Time is kept only as far as the arms compare it: every armed deadline   *)
(* has a flag that says whether it has passed, and passing is a step of    *)
(* its own.  The wire is kept as the set of ids written on the connection  *)
(* that is up now.  Chunk transfer state is in module Attachments; here    *)
(* only its effect on the connection (the dial of the retry tick, a failed *)
(* chunk reply) remains.                                                   *)
(***************************************************************************)
EXTENDS Naturals, FiniteSets

CONSTANTS Msgs,          \* ids of outgoing messages to this peer
          Welcomes,      \* synthetic ids of Welcomes to this peer
          LastStep,      \* index of the last entry of CHUNK_DIAL_BACKOFF_MS
          MaxRestarts    \* bound: process restarts in one behaviour

ASSUME IdsAssumption  == Msgs \cap Welcomes = {}
ASSUME StepAssumption == LastStep \in Nat /\ MaxRestarts \in Nat

Ids == Msgs \cup Welcomes

VARIABLES
    conn,       \* a connection is installed
    written,    \* ids whose frame was written on the installed connection
    pending,    \* keys of the map of in-flight sends
    live,       \* pending entries whose oneshot belongs to a waiting caller
    aged,       \* pending entries older than PENDING_INFLIGHT_DEADLINE
    failure,    \* first_failure_at: "none", "armed", or "elapsed"
    pong,       \* awaiting_pong_since: "none", "own" (pinged on the installed
                \* connection) or "stale" (pinged on an earlier one)
    pongLate,   \* PONG_DEADLINE has passed since awaiting_pong_since
    idle,       \* IDLE_CLOSE has passed since last_traffic
    outboxDial, \* [step, wait] of the queued-row dial ladder
    chunkDial,  \* [step, wait] of the attachment dial ladder
    row,        \* outbox row of each message
    ticket,     \* what the caller of hub.send / send_welcome knows
    delivered,  \* messages for which message_delivered was called
    restarts

actorVars == <<conn, written, pending, live, aged, failure, pong, pongLate,
               idle, outboxDial, chunkDial>>
vars == <<actorVars, row, ticket, delivered, restarts>>

RowStates    == {"absent", "due", "later", "mailbox"}
TicketStates == {"none", "committed", "queued", "flight", "ok", "err", "dropped"}
Ladders      == [step : 0..LastStep, wait : BOOLEAN]
FreshLadder  == [step |-> 0, wait |-> FALSE]

\* Types of the actor's state; the sets follow the declarations in full_run.
TypeOK ==
    /\ conn \in BOOLEAN /\ idle \in BOOLEAN /\ pongLate \in BOOLEAN
    /\ written \subseteq Ids
    /\ pending \subseteq Ids /\ live \subseteq pending /\ aged \subseteq pending
    /\ failure \in {"none", "armed", "elapsed"}
    /\ pong \in {"none", "own", "stale"}
    /\ outboxDial \in Ladders /\ chunkDial \in Ladders
    /\ row \in [Msgs -> RowStates]
    /\ ticket \in [Ids -> TicketStates]
    /\ delivered \subseteq Msgs
    /\ restarts \in 0..MaxRestarts

ActorInit ==
    /\ conn = FALSE /\ written = {}
    /\ pending = {} /\ live = {} /\ aged = {}
    /\ failure = "none" /\ pong = "none" /\ pongLate = FALSE /\ idle = FALSE
    /\ outboxDial = FreshLadder /\ chunkDial = FreshLadder

Init ==
    /\ ActorInit
    /\ row = [m \in Msgs |-> "absent"]
    /\ ticket = [i \in Ids |-> "none"]
    /\ delivered = {}
    /\ restarts = 0

-----------------------------------------------------------------------------
(* Helpers of the actor.                                                   *)

\* What the callers know after drain_pending: each waiting one is told Err.
Drained(t) == [i \in Ids |-> IF i \in live THEN "err" ELSE t[i]]

\* arm_failure: only the first failure of a run is recorded.
Armed == IF failure = "none" THEN "armed" ELSE failure

\* A pong wait that is left in place when its connection goes.
Orphaned == IF pong = "own" THEN "stale" ELSE pong

\* drain_pending as an action: pending is empty, its callers are told.
Drain(t) ==
    /\ written' = {}
    /\ pending' = {} /\ live' = {} /\ aged' = {}
    /\ ticket' = Drained(t)

\* conn = None, which every arm follows with drain_pending.
DropConn(t) == conn' = FALSE /\ Drain(t)

\* next_*_dial_at and *_dial_step after a failed dial.
NextRung(l) == [step |-> IF l.step < LastStep THEN l.step + 1 ELSE LastStep,
                wait |-> TRUE]

Told(t, i, s) == [t EXCEPT ![i] = s]

-----------------------------------------------------------------------------
(* The callers and the rest of the daemon.                                 *)

\* send_message's transaction: the row is committed due at once, before the
\* job is handed to the actor.
Enqueue(m) ==
    /\ ticket[m] = "none"
    /\ ticket' = Told(ticket, m, "committed")
    /\ row' = [row EXCEPT ![m] = "due"]
    /\ UNCHANGED <<actorVars, delivered, restarts>>

\* hub.send after the commit.  A contact-card update (send_card_to_contact)
\* enters here from "none": it has a job and no outbox row.
Submit(m) ==
    /\ ticket[m] \in {"none", "committed"}
    /\ ticket' = Told(ticket, m, "queued")
    /\ UNCHANGED <<actorVars, row, delivered, restarts>>

\* hub.send_welcome, called by welcome_sweep; a retry after the 45 s timeout
\* drops the receiver of the earlier attempt.
SubmitWelcome(w) ==
    /\ ticket[w] \notin {"queued", "ok"}
    /\ ticket' = Told(ticket, w, "queued")
    /\ live' = live \ {w}
    /\ UNCHANGED <<conn, written, pending, aged, failure, pong, pongLate, idle,
                   outboxDial, chunkDial, row, delivered, restarts>>

\* outbox_sweep: an aged direct row is handed to the mailbox lane or deleted.
\* mailbox_sweeper: a mailbox row is deposited and deleted.
SweepRow(m) ==
    /\ \/ row[m] = "due" /\ row' \in {[row EXCEPT ![m] = r] : r \in {"mailbox", "absent"}}
       \/ row[m] = "mailbox" /\ row' = [row EXCEPT ![m] = "absent"]
    /\ UNCHANGED <<actorVars, ticket, delivered, restarts>>

\* The process dies and boots again: resume_queued spawns a fresh actor, the
\* rows survive, every oneshot of the old process is gone.
Restart ==
    /\ restarts < MaxRestarts
    /\ restarts' = restarts + 1
    /\ conn' = FALSE /\ written' = {}
    /\ pending' = {} /\ live' = {} /\ aged' = {}
    /\ failure' = "none" /\ pong' = "none" /\ pongLate' = FALSE /\ idle' = FALSE
    /\ outboxDial' = FreshLadder /\ chunkDial' = FreshLadder
    /\ ticket' = [i \in Ids |-> IF ticket[i] \in {"committed", "queued", "flight"}
                                THEN "dropped" ELSE ticket[i]]
    /\ UNCHANGED <<row, delivered>>

-----------------------------------------------------------------------------
(* The arms of the select! loop.                                           *)

\* jobs.recv() and welcome_jobs.recv(): dial on demand, send, remember.
DialFails(i) ==
    /\ ~conn
    /\ ticket' = Told(ticket, i, "err")
    /\ failure' = Armed
    /\ UNCHANGED <<conn, written, pending, live, aged, pong, pongLate, idle,
                   outboxDial, chunkDial>>

SendFails(i) ==
    /\ DropConn(Told(ticket, i, "err"))
    /\ failure' = Armed
    /\ pong' = Orphaned
    /\ UNCHANGED <<pongLate, idle, outboxDial, chunkDial>>

SendWorks_KeepsTimer(i) ==
    /\ conn' = TRUE
    /\ written' = written \cup {i}
    /\ pending' = pending \cup {i} /\ live' = live \cup {i} /\ aged' = aged \ {i}
    /\ ticket' = Told(ticket, i, "flight")
    /\ idle' = FALSE
    /\ UNCHANGED <<failure, pong, pongLate, outboxDial, chunkDial>>

SendWorks(i) ==
    /\ conn' = TRUE
    /\ written' = written \cup {i}
    /\ pending' = pending \cup {i}
    /\ live' = live \cup {i}
    /\ aged' = aged \ {i}
    /\ ticket' = Told(ticket, i, "flight")
    /\ failure' = "none"
    /\ idle' = FALSE
    /\ UNCHANGED <<pong, pongLate, outboxDial, chunkDial>>

SendArm(i) ==
    /\ ticket[i] = "queued"
    /\ DialFails(i) \/ SendFails(i) \/ SendWorks(i)
    /\ UNCHANGED <<row, delivered, restarts>>

JobArm(m)     == m \in Msgs /\ SendArm(m)
WelcomeArm(w) == w \in Welcomes /\ SendArm(w)

\* due_direct_for: the rows the tick reads.
Due == {m \in Msgs : row[m] = "due"}

\* In-flight outbox entries nobody acknowledged in time; Welcomes are exempt.
Overdue_Never == {}
Overdue_All == aged
Overdue == aged \cap Msgs

\* Does the tick dial for the rows in todo?  (#227)
DialsFor_Never(todo) == FALSE
DialsFor(todo) == todo # {} /\ ~conn /\ ~outboxDial.wait

\* run_mailbox_fallback leaves a row direct (no mailbox), deletes it (the
\* deposit succeeded) or leaves it mailbox-kind (every mailbox failed).
FallbackOutcomes ==
    [Due -> IF failure = "elapsed" THEN {"due", "absent", "mailbox"} ELSE {"due"}]

\* retry_tick.tick(), in the order of the code: evict aged outbox entries,
\* dial for due rows, send them, hand them to the mailbox fallback after a
\* sustained failure, dial for a pending attachment.
\*   up     - the connection after the first dial
\*   sent   - the due rows written before the loop ended
\*   broke  - a send failed and ended the loop
\*   left   - what the fallback made of each row it was given
\*   fetch  - active_rx is some, or a begin is queued
\*   up2    - the connection after the second dial
Tick(up, sent, broke, left, fetch, up2) ==
    LET kept     == pending \ Overdue
        todo     == Due \ kept
        dials    == DialsFor(todo)
        fresh    == up /\ ~conn
        conn1    == up /\ ~broke
        failure1 == IF dials /\ ~up THEN Armed ELSE failure
        failure2 == IF sent = {} THEN failure1 ELSE "none"
        failure3 == IF broke /\ failure2 = "none" THEN "armed" ELSE failure2
        fires    == failure3 = "elapsed"
        dials2   == fetch /\ ~conn1 /\ ~chunkDial.wait
        fresh2   == up2 /\ ~conn1
        pong1    == IF fresh THEN "none" ELSE pong
        pong2    == IF broke /\ pong1 = "own" THEN "stale" ELSE pong1
        ticket1  == [i \in Ids |-> IF i \in live \cap Overdue THEN "dropped"
                                   ELSE ticket[i]]
    IN  /\ (up = conn) \/ (up /\ dials)
        /\ sent \subseteq todo
        /\ IF ~up THEN sent = {} /\ ~broke
           ELSE broke = (sent # todo)
        /\ \A m \in Due : left[m] = "due" \/ (fires /\ m \notin sent)
        /\ (up2 = conn1) \/ (up2 /\ dials2)
        /\ conn' = up2
        /\ written' = IF conn1 THEN written \cup sent ELSE {}
        /\ pending' = IF broke THEN {} ELSE kept \cup sent
        /\ live' = IF broke THEN {} ELSE live \ Overdue
        /\ aged' = IF broke THEN {} ELSE aged \ Overdue
        /\ ticket' = IF broke THEN [i \in Ids |-> IF i \in live \ Overdue THEN "err"
                                                  ELSE ticket1[i]]
                     ELSE ticket1
        /\ failure' = IF fires THEN "none" ELSE failure3
        /\ row' = [m \in Msgs |-> IF m \in sent THEN "later"
                                  ELSE IF m \in Due THEN left[m] ELSE row[m]]
        /\ pong' = IF fresh2 THEN "none" ELSE pong2
        /\ idle' = (idle /\ ~fresh /\ ~fresh2 /\ sent = {})
        /\ outboxDial' = IF dials THEN (IF up THEN FreshLadder ELSE NextRung(outboxDial))
                         ELSE outboxDial
        /\ chunkDial' = IF dials2 THEN (IF up2 THEN FreshLadder ELSE NextRung(chunkDial))
                        ELSE chunkDial
        /\ pongLate' = (pongLate /\ ~fresh /\ ~fresh2)
        /\ UNCHANGED <<delivered, restarts>>

RetryTick ==
    \E up, broke, fetch, up2 \in BOOLEAN, sent \in SUBSET Due, left \in FallbackOutcomes :
        Tick(up, sent, broke, left, fetch, up2)

\* keepalive_tick.tick(); nothing happens without a connection.
KeepaliveTick ==
    /\ conn
    /\ \/ /\ idle
          /\ DropConn(ticket)
          /\ pong' = Orphaned
          /\ UNCHANGED <<pongLate, failure>>
       \/ /\ ~idle /\ pong # "none" /\ pongLate
          /\ DropConn(ticket)
          /\ pong' = "none" /\ pongLate' = FALSE
          /\ UNCHANGED failure
       \/ /\ ~idle /\ ~(pong # "none" /\ pongLate)
          /\ pong' = IF pong = "none" THEN "own" ELSE pong
          /\ pongLate' = FALSE
          /\ UNCHANGED <<conn, written, pending, live, aged, failure, ticket>>
    /\ UNCHANGED <<idle, outboxDial, chunkDial, row, delivered, restarts>>

\* PeerCtrl::ReplaceConn: an inbound or freshly dialled connection.
ReplaceConn_KeepsPending ==
    /\ conn' = TRUE /\ written' = {}
    /\ failure' = "none" /\ pong' = "none" /\ pongLate' = FALSE /\ idle' = FALSE
    /\ outboxDial' = FreshLadder /\ chunkDial' = FreshLadder
    /\ UNCHANGED <<pending, live, aged, row, ticket, delivered, restarts>>

ReplaceConn ==
    /\ conn' = TRUE
    /\ Drain(ticket)
    /\ failure' = "none" /\ pong' = "none" /\ pongLate' = FALSE /\ idle' = FALSE
    /\ outboxDial' = FreshLadder /\ chunkDial' = FreshLadder
    /\ UNCHANGED <<row, delivered, restarts>>

-----------------------------------------------------------------------------
(* The frame arm; it waits forever while there is no connection.           *)

\* Outbox::ack: the row of either kind goes, and its removal is the receipt.
RowAcked_DirectOnly(i) == i \in Msgs /\ row[i] \in {"due", "later"}
RowAcked(i) == i \in Msgs /\ row[i] # "absent"

\* Frame::Ack, for an id written on this connection.
AckFrame(i) ==
    /\ conn /\ i \in written
    /\ pending' = pending \ {i} /\ live' = live \ {i} /\ aged' = aged \ {i}
    /\ ticket' = IF i \in live THEN Told(ticket, i, "ok") ELSE ticket
    /\ IF RowAcked(i)
       THEN row' = [row EXCEPT ![i] = "absent"] /\ delivered' = delivered \cup {i}
       ELSE UNCHANGED <<row, delivered>>
    /\ idle' = FALSE
    /\ UNCHANGED <<conn, written, failure, pong, pongLate, outboxDial, chunkDial,
                   restarts>>

\* Frame::Bye, end of stream, or a receive error.
CloseFrame ==
    /\ conn
    /\ DropConn(ticket)
    /\ pong' = "none" /\ pongLate' = FALSE
    /\ UNCHANGED <<failure, idle, outboxDial, chunkDial, row, delivered, restarts>>

\* Frame::Pong.
PongFrame ==
    /\ conn
    /\ pong' = "none" /\ pongLate' = FALSE /\ idle' = FALSE
    /\ UNCHANGED <<conn, written, pending, live, aged, failure, outboxDial,
                   chunkDial, row, ticket, delivered, restarts>>

\* Frame::Ping, MlsApp, MlsWelcome, Chunk, ChunkNack, AttachmentComplete: for
\* the connection they are traffic; what they do elsewhere is in Delivery,
\* FirstContact and ChunkTransfer.
TrafficFrame ==
    /\ conn
    /\ idle' = FALSE
    /\ UNCHANGED <<conn, written, pending, live, aged, failure, pong, pongLate,
                   outboxDial, chunkDial, row, ticket, delivered, restarts>>

\* Frame::ChunkRequest whose reply cannot be written.
ChunkReplyFails ==
    /\ conn
    /\ DropConn(ticket)
    /\ pong' = Orphaned /\ idle' = FALSE
    /\ UNCHANGED <<failure, pongLate, outboxDial, chunkDial, row, delivered, restarts>>

-----------------------------------------------------------------------------
(* Deadlines pass.                                                         *)

AgeEntry(i) ==
    /\ i \in pending \ aged
    /\ aged' = aged \cup {i}
    /\ UNCHANGED <<conn, written, pending, live, failure, pong, pongLate, idle,
                   outboxDial, chunkDial, row, ticket, delivered, restarts>>

RowComesDue(m) ==
    /\ row[m] = "later"
    /\ row' = [row EXCEPT ![m] = "due"]
    /\ UNCHANGED <<actorVars, ticket, delivered, restarts>>

OutboxBackoffPasses ==
    /\ outboxDial.wait
    /\ outboxDial' = [outboxDial EXCEPT !.wait = FALSE]
    /\ UNCHANGED <<conn, written, pending, live, aged, failure, pong, pongLate,
                   idle, chunkDial, row, ticket, delivered, restarts>>

\* The deadlines nothing needs to reach: direct_timeout, PONG_DEADLINE,
\* IDLE_CLOSE and the attachment ladder.
DeadlinePasses ==
    /\ \/ failure = "armed" /\ failure' = "elapsed"
          /\ UNCHANGED <<pongLate, idle, chunkDial>>
       \/ pong # "none" /\ ~pongLate /\ pongLate' = TRUE
          /\ UNCHANGED <<failure, idle, chunkDial>>
       \/ ~idle /\ idle' = TRUE
          /\ UNCHANGED <<failure, pongLate, chunkDial>>
       \/ chunkDial.wait /\ chunkDial' = [chunkDial EXCEPT !.wait = FALSE]
          /\ UNCHANGED <<failure, pongLate, idle>>
    /\ UNCHANGED <<conn, written, pending, live, aged, pong, outboxDial, row,
                   ticket, delivered, restarts>>

Next ==
    \/ \E m \in Msgs : Enqueue(m) \/ Submit(m) \/ SweepRow(m) \/ JobArm(m) \/ RowComesDue(m)
    \/ \E w \in Welcomes : SubmitWelcome(w) \/ WelcomeArm(w)
    \/ \E i \in Ids : AckFrame(i) \/ AgeEntry(i)
    \/ RetryTick \/ KeepaliveTick \/ ReplaceConn
    \/ CloseFrame \/ PongFrame \/ TrafficFrame \/ ChunkReplyFails
    \/ OutboxBackoffPasses \/ DeadlinePasses
    \/ Restart

Spec == Init /\ [][Next]_vars

\* select! polls its ready arms in random order, so an arm that stays ready
\* is taken; deadlines pass.  The last conjunct is the network's part: if the
\* tick could again and again reach the peer and write its rows, one does.
HealthyTick ==
    \E fetch, up2 \in BOOLEAN, sent \in SUBSET Due, left \in FallbackOutcomes :
        sent # {} /\ Tick(TRUE, sent, FALSE, left, fetch, up2)

Fairness ==
    /\ \A m \in Msgs : WF_vars(JobArm(m)) /\ WF_vars(RowComesDue(m))
    /\ \A i \in Ids : WF_vars(AgeEntry(i))
    /\ WF_vars(RetryTick) /\ WF_vars(OutboxBackoffPasses)

FairSpec == Spec /\ Fairness
ReachablePeerSpec == FairSpec /\ SF_vars(HealthyTick)

-----------------------------------------------------------------------------
(* Properties.                                                             *)

\* Every arm that loses the connection drains pending, so an in-flight entry
\* always belongs to a connection on which its frame was written and its Ack
\* can still arrive (drain_pending after each conn = None, ReplaceConn).
PendingOnThisConn ==
    /\ pending # {} => conn
    /\ pending \subseteq written

\* While the sustained-failure timer runs nothing is in flight, so the
\* fallback of the retry tick cannot hand a row to a mailbox while the same
\* row waits for a direct Ack (comment at the fallback in full_run).
ArmedMeansNothingInFlight == failure # "none" => pending = {}

\* Each caller still waiting on its oneshot is owned by exactly one pending
\* entry: no arm may forget a caller or keep one that was answered.
CallersAreOwned == \A i \in Ids : ticket[i] = "flight" <=> i \in live

\* The map of in-flight sends is sound in both directions: towards the
\* connection its frames were written on, and towards the callers that wait.
InFlightIsOwned == PendingOnThisConn /\ CallersAreOwned

\* A caller that was told Ok has no outbox row left, of either kind, so
\* neither the retry tick nor a mailbox sweep sends the message again.
AckedRowGone == \A m \in Msgs : ticket[m] = "ok" => row[m] = "absent"

\* Eviction is for outbox entries: a Welcome's caller (welcome_sweep keeps its
\* own 45 s timeout) loses its entry only when the process goes.
WelcomesAreNotEvicted ==
    [][\A w \in Welcomes : ticket[w] = "flight" /\ ticket'[w] = "dropped"
                           => restarts' # restarts]_vars

\* hub.send's oneshot is always answered or dropped, even when the peer takes
\* the frame and never acknowledges it on a healthy connection (#229).
CallerIsAnswered ==
    \A m \in Msgs : ticket[m] = "queued" ~> ticket[m] \in {"ok", "err", "dropped"}

\* A due row does not stay due: with no user action behind it the tick dials,
\* evicts a wedged in-flight entry and sends (#227, #229, #234).
DueRowIsSent == \A m \in Msgs : row[m] = "due" ~> row[m] # "due"
====
