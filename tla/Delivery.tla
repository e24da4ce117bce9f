------------------------------ MODULE Delivery ------------------------------
(***************************************************************************)
(* One conversation end to end: the sender's outbox, its three concurrent  *)
(* depositors, the direct connection, the mailbox and the recipient.       *)
(*                                                                         *)
(*   "actor"   the per-peer actor (delivery/peer.rs, here coarser than in  *)
(*             PeerActor): sends due rows, handles Acks, and after a       *)
(*             sustained failure runs run_mailbox_fallback;                *)
(*   "outbox"  run_outbox_sweep: hands aged rows to the mailbox lane or    *)
(*             gives up on them;                                           *)
(*   "mailbox" run_mailbox_sweep: deposits rows already mailbox-kind.      *)
(*                                                                         *)
(* The workers are tasks of a multi-threaded runtime.  Each reads a batch  *)
(* of rows and then works through it, one pool access or one request per   *)
(* step, so a row in hand may be stale.  stage[w][m] is where worker w is  *)
(* with message m.                                                         *)
(***************************************************************************)
EXTENDS Naturals, Sequences, FiniteSets

CONSTANTS Msgs,         \* messages from the sender to the recipient
          MaxWire,      \* bound: frames in transit in one direction
          Ids,          \* bound: ids of the deposits of one message known at a time
          Swept,        \* bound: the recipient's tables whose horizon is reached
          MaxCards,     \* bound: card changes
          MaxRestarts   \* bound: restarts of the sender

ASSUME BoundsAssumption ==
    /\ Msgs # {} /\ Ids # {} /\ Swept \subseteq {"seen", "history"}
    /\ MaxWire \in Nat /\ MaxCards \in Nat /\ MaxRestarts \in Nat

VARIABLES
    \* the sender
    stored,     \* messages in the sender's history
    row,        \* outbox row of each message: "none", "direct" or "mailbox"
    jobs,       \* messages in the actor's job channel
    pending,    \* in-flight sends of the actor
    stage,      \* where each worker is with each message
    delivered,  \* messages with delivered_at set
    failed,     \* messages with failed_reason set
    shown,      \* last delivery status the user interface was told
    hasMailbox, \* the contact's card advertises a mailbox
    expired,    \* messages past DIRECT_EXPIRY_MS by the sender's clock
    \* the network and the mailbox
    conn,       \* a direct connection is up
    toB, toA,   \* its MlsApp and Ack frames in transit
    late,       \* frames of a connection the sender has already dropped
    box,        \* deposits of each message the mailbox holds
    lapsed,     \* messages of which a copy was dropped at its ttl
    \* the recipient
    outside,    \* messages past REPLAY_WINDOW_MS by the recipient's clock
    consumed,   \* messages whose generation the stored ratchet has passed
    seen,       \* seen_messages
    history,    \* messages (the table)
    surfaced,   \* number of MessageReceived events for each message
    poll,       \* the poll actor: "idle" or "dispatch"
    fetched,    \* deposits of the fetch response still to be dispatched
    dropping,   \* deposits on the deletion list
    cards, restarts

senderVars  == <<stored, row, jobs, pending, stage, delivered, failed, shown, expired>>
cardVars    == <<hasMailbox, cards>>
wireVars    == <<conn, toB, toA, late>>
boxVars     == <<box, lapsed>>
receiptVars == <<consumed, seen, history, surfaced>>
pollVars    == <<poll, fetched, dropping>>
vars == <<senderVars, cardVars, wireVars, boxVars, outside, receiptVars, pollVars, restarts>>

Workers    == {"actor", "outbox", "mailbox"}
Stages     == {"idle", "due", "read", "retarget", "deposit", "delete", "emitDeposited",
               "mark", "expire", "expireQuiet", "emitFailed",
               "markDelivered", "emitDelivered"}
Idle       == [w \in Workers |-> [m \in Msgs |-> "idle"]]
None       == [m \in Msgs |-> {}]

Init ==
    /\ stored = {} /\ jobs = {} /\ pending = {}
    /\ row = [m \in Msgs |-> "none"]
    /\ stage = Idle
    /\ delivered = {} /\ failed = {} /\ expired = {}
    /\ shown = [m \in Msgs |-> "Queued"]
    /\ hasMailbox \in BOOLEAN /\ cards = 0 /\ restarts = 0
    /\ conn = FALSE /\ toB = <<>> /\ toA = <<>> /\ late = {}
    /\ box = None /\ lapsed = {}
    /\ outside = {}
    /\ consumed = {} /\ seen = {} /\ history = {} /\ surfaced = [m \in Msgs |-> 0]
    /\ poll = "idle" /\ fetched = None /\ dropping = None

-----------------------------------------------------------------------------
(* Helpers.                                                                *)

Frames(s) == {s[i] : i \in 1..Len(s)}
Go(w, m, s) == stage' = [stage EXCEPT ![w][m] = s]
Free(w) == \A m \in Msgs : stage[w][m] = "idle"

\* Worker w may take up m: a worker handles the rows of its batch in turn.
Turn(w, m) == \A n \in Msgs \ {m} : stage[w][n] \in {"idle", "due", "read"}

Delete(m) == row' = [row EXCEPT ![m] = "none"]

\* The connection goes; frames already written may still be read far away.
LinkDown ==
    /\ conn' = FALSE /\ toB' = <<>> /\ toA' = <<>>
    /\ late' = late \cup Frames(toB)
    /\ pending' = {}

-----------------------------------------------------------------------------
(* The sender: sending directly.                                           *)

\* send_message: history row, outbox row and ratchet in one transaction, then
\* the job is handed to the actor.
Send(m) ==
    /\ m \notin stored
    /\ stored' = stored \cup {m}
    /\ row' = [row EXCEPT ![m] = "direct"]
    /\ jobs' = jobs \cup {m}
    /\ UNCHANGED <<pending, stage, delivered, failed, shown, expired, cardVars, wireVars,
                   boxVars, outside, receiptVars, pollVars, restarts>>

\* A frame is written, on the connection that is up or on one just dialled.
Write(m) ==
    /\ Len(toB) < MaxWire
    /\ conn' = TRUE /\ toB' = Append(toB, m)
    /\ pending' = pending \cup {m}
    /\ UNCHANGED <<toA, late>>

\* The job arm; on a failed dial or write the row waits for the retry tick.
JobArm(m) ==
    /\ m \in jobs /\ Free("actor")
    /\ jobs' = jobs \ {m}
    /\ \/ Write(m)
       \/ conn /\ LinkDown
       \/ ~conn /\ UNCHANGED <<wireVars, pending>>
    /\ UNCHANGED <<stored, row, stage, delivered, failed, shown, expired, cardVars,
                   boxVars, outside, receiptVars, pollVars, restarts>>

\* The retry tick reads due direct rows that are not in flight ...
TickRead(S) ==
    /\ Free("actor")
    /\ S # {} /\ \A m \in S : row[m] = "direct" /\ m \notin pending
    /\ stage' = [stage EXCEPT !["actor"] = [m \in Msgs |-> IF m \in S THEN "due" ELSE "idle"]]
    /\ UNCHANGED <<stored, row, jobs, pending, delivered, failed, shown, expired, cardVars,
                   wireVars, boxVars, outside, receiptVars, pollVars, restarts>>

\* ... and writes them, after a dial if need be, from the rows in hand.
TickSend(m) ==
    /\ stage["actor"][m] = "due"
    /\ Write(m)
    /\ Go("actor", m, "idle")
    /\ UNCHANGED <<stored, row, jobs, delivered, failed, shown, expired, cardVars,
                   boxVars, outside, receiptVars, pollVars, restarts>>

\* The dial or a write fails and ends the loop.  After a sustained failure
\* the tick reads the due rows again and hands them to the fallback.
TickFails(S) ==
    /\ \E m \in Msgs : stage["actor"][m] = "due"
    /\ LinkDown
    /\ \A m \in S : row[m] = "direct"
    /\ stage' = [stage EXCEPT !["actor"] = [m \in Msgs |-> IF m \in S THEN "read" ELSE "idle"]]
    /\ UNCHANGED <<stored, row, jobs, delivered, failed, shown, expired, cardVars,
                   boxVars, outside, receiptVars, pollVars, restarts>>

\* An in-flight entry nobody acknowledged is evicted at the next tick.
Evict(m) ==
    /\ m \in pending /\ Free("actor")
    /\ pending' = pending \ {m}
    /\ UNCHANGED <<stored, row, jobs, stage, delivered, failed, shown, expired, cardVars,
                   wireVars, boxVars, outside, receiptVars, pollVars, restarts>>

\* Frame::Ack: only the removal of the row makes it a receipt.
AckRow(m) ==
    IF row[m] # "none" THEN Delete(m) /\ Go("actor", m, "markDelivered")
    ELSE UNCHANGED <<row, stage>>

AckFrame ==
    /\ toA # <<>> /\ Free("actor")
    /\ toA' = Tail(toA)
    /\ pending' = pending \ {Head(toA)}
    /\ AckRow(Head(toA))
    /\ UNCHANGED <<stored, jobs, delivered, failed, shown, expired, cardVars, conn, toB,
                   late, boxVars, outside, receiptVars, pollVars, restarts>>

\* message_delivered: set delivered_at if it is not set, and tell.
MarkDelivered(m) ==
    /\ stage["actor"][m] = "markDelivered"
    /\ delivered' = delivered \cup {m}
    /\ Go("actor", m, IF m \in delivered THEN "idle" ELSE "emitDelivered")
    /\ UNCHANGED <<stored, row, jobs, pending, failed, shown, expired, cardVars, wireVars,
                   boxVars, outside, receiptVars, pollVars, restarts>>

\* Every event goes to the user interface's map, where the last write wins.
Emit(w, m, from, status) ==
    /\ stage[w][m] = from
    /\ shown' = [shown EXCEPT ![m] = status]
    /\ Go(w, m, "idle")
    /\ UNCHANGED <<stored, row, jobs, pending, delivered, failed, expired, cardVars,
                   wireVars, boxVars, outside, receiptVars, pollVars, restarts>>

EmitDelivered(m)    == Emit("actor", m, "emitDelivered", "Delivered")
EmitFailed(m)       == Emit("outbox", m, "emitFailed", "Failed")
EmitDeposited(w, m) == Emit(w, m, "emitDeposited", "Deposited")

-----------------------------------------------------------------------------
(* The sender: the two sweeps and the mailbox fallback.                    *)

\* The rows a sweep reads: mailbox_sweeper the mailbox-kind ones that are due,
\* outbox_sweep the direct ones that are due and past DIRECT_EXPIRY_MS.
SweepRead(w, S) ==
    /\ w # "actor" /\ Free(w) /\ S # {}
    /\ \A m \in S : IF w = "mailbox" THEN row[m] = "mailbox"
                    ELSE row[m] = "direct" /\ m \in expired
    /\ stage' = [stage EXCEPT ![w] = [m \in Msgs |-> IF m \in S THEN "read" ELSE "idle"]]
    /\ UNCHANGED <<stored, row, jobs, pending, delivered, failed, shown, expired, cardVars,
                   wireVars, boxVars, outside, receiptVars, pollVars, restarts>>

\* What a worker does with a row in hand: list_for_contact, then find_direct_id
\* at the head of run_mailbox_fallback.  A mailbox row whose contact has no
\* mailbox is rescheduled (redeposit_mailbox_row); an aged direct one expires.
Chosen_NeverExpires(w, m) ==
    CASE hasMailbox /\ w = "mailbox"                        -> "deposit"
      [] hasMailbox /\ w # "mailbox" /\ row[m] = "direct"   -> "retarget"
      [] OTHER                                              -> "idle"
Chosen(w, m) ==
    CASE hasMailbox /\ w = "mailbox"                        -> "deposit"
      [] hasMailbox /\ w # "mailbox" /\ row[m] = "direct"   -> "retarget"
      [] ~hasMailbox /\ w = "outbox"                        -> "mark"
      [] OTHER                                              -> "idle"

Decide(w, m) ==
    /\ stage[w][m] = "read" /\ Turn(w, m)
    /\ Go(w, m, Chosen(w, m))
    /\ UNCHANGED <<stored, row, jobs, pending, delivered, failed, shown, expired, cardVars,
                   wireVars, boxVars, outside, receiptVars, pollVars, restarts>>

\* set_mailbox_target fails when the row is gone.
Retarget(w, m) ==
    /\ stage[w][m] = "retarget"
    /\ IF row[m] = "none" THEN UNCHANGED row /\ Go(w, m, "idle")
       ELSE row' = [row EXCEPT ![m] = "mailbox"] /\ Go(w, m, "deposit")
    /\ UNCHANGED <<stored, jobs, pending, delivered, failed, shown, expired, cardVars,
                   wireVars, boxVars, outside, receiptVars, pollVars, restarts>>

\* The mailbox takes a deposit under an id that is not in use.
Deposited(m) ==
    \E i \in Ids \ (box[m] \cup fetched[m] \cup dropping[m]) :
        box' = [box EXCEPT ![m] = @ \cup {i}]

\* connect and MailboxClient::deposit.  On an error the walk goes on to the
\* next mailbox or ends; the deposit may have been made and its reply lost.
DepositOk(w, m) ==
    /\ stage[w][m] = "deposit"
    /\ Deposited(m)
    /\ Go(w, m, "delete")
    /\ UNCHANGED <<stored, row, jobs, pending, delivered, failed, shown, expired, cardVars,
                   wireVars, lapsed, outside, receiptVars, pollVars, restarts>>

AfterFailure_Deletes(w) == {"delete"}
AfterFailure(w) == IF w = "mailbox" THEN {"deposit", "idle"} ELSE {"retarget", "idle"}

DepositFails(w, m) ==
    /\ stage[w][m] = "deposit"
    /\ Deposited(m) \/ UNCHANGED box
    /\ \E s \in AfterFailure(w) : Go(w, m, s)
    /\ UNCHANGED <<stored, row, jobs, pending, delivered, failed, shown, expired, cardVars,
                   wireVars, lapsed, outside, receiptVars, pollVars, restarts>>

\* delete_by_id after the deposit, and in outbox_sweep after mark_failed.
DeleteRow(w, m) ==
    /\ stage[w][m] \in {"delete", "expire", "expireQuiet"}
    /\ Delete(m)
    /\ Go(w, m, CASE stage[w][m] = "delete" -> "emitDeposited"
                  [] stage[w][m] = "expire" -> "emitFailed"
                  [] OTHER                  -> "idle")
    /\ UNCHANGED <<stored, jobs, pending, delivered, failed, shown, expired, cardVars,
                   wireVars, boxVars, outside, receiptVars, pollVars, restarts>>

\* mark_failed, guarded by delivered_at IS NULL.
Marked_Nothing(m) == failed
Marked(m) == failed \cup ({m} \ delivered)

MarkFailed(m) ==
    /\ stage["outbox"][m] = "mark"
    /\ failed' = Marked(m)
    /\ Go("outbox", m, IF m \in delivered THEN "expireQuiet" ELSE "expire")
    /\ UNCHANGED <<stored, row, jobs, pending, delivered, shown, expired, cardVars,
                   wireVars, boxVars, outside, receiptVars, pollVars, restarts>>

\* The process dies and boots: the tables survive, the tasks start afresh and
\* the user interface hydrates from the records (deliveryStateFromRecord).
Restart ==
    /\ restarts < MaxRestarts
    /\ restarts' = restarts + 1
    /\ jobs' = {} /\ stage' = Idle
    /\ LinkDown
    /\ shown' = [m \in Msgs |-> IF m \in delivered THEN "Delivered"
                                ELSE IF m \in failed THEN "Failed" ELSE "Queued"]
    /\ UNCHANGED <<stored, row, delivered, failed, expired, cardVars, boxVars, outside,
                   receiptVars, pollVars>>

\* A card from the contact adds or removes its mailboxes (put_card).
CardChange ==
    /\ cards < MaxCards
    /\ cards' = cards + 1 /\ hasMailbox' = ~hasMailbox
    /\ UNCHANGED <<senderVars, wireVars, boxVars, outside, receiptVars, pollVars, restarts>>

-----------------------------------------------------------------------------
(* The recipient.                                                          *)

\* Group::decrypt: OpenMLS deletes a generation's key once it is used.
Decrypts(m) == m \notin consumed

\* receive_in_tx.
Outcome(m, direct) ==
    IF ~Decrypts(m) THEN "Undecryptable"
    ELSE IF direct /\ m \in outside THEN "Rejected"
    ELSE IF m \in seen THEN "Duplicate"
    ELSE IF m \in history THEN "Conflict"
    ELSE "New"

\* dispatch_for_group returns an id, so the caller may Ack or delete.
Dispatched(o) == o \in {"New", "Duplicate"}

\* The transaction of dispatch_for_group: ratchet, seen row and message row
\* together, or nothing.
Persist_KeepsRatchet(m, o) ==
    IF o = "New" THEN /\ seen' = seen \cup {m} /\ history' = history \cup {m}
                      /\ surfaced' = [surfaced EXCEPT ![m] = @ + 1]
                      /\ UNCHANGED consumed
    ELSE UNCHANGED receiptVars
Persist(m, o) ==
    /\ consumed' = IF Dispatched(o) THEN consumed \cup {m} ELSE consumed
    /\ IF o = "New" THEN /\ seen' = seen \cup {m} /\ history' = history \cup {m}
                         /\ surfaced' = [surfaced EXCEPT ![m] = @ + 1]
       ELSE UNCHANGED <<seen, history, surfaced>>

\* Frame::MlsApp on the connection: dispatch, and Ack what was dispatched.
Acks_Always(m, o) == Append(toA, m)
Acks(m, o) == IF Dispatched(o) THEN Append(toA, m) ELSE toA

AppFrame ==
    /\ toB # <<>> /\ Len(toA) < MaxWire
    /\ toB' = Tail(toB)
    /\ LET m == Head(toB)  o == Outcome(m, TRUE)
       IN Persist(m, o) /\ toA' = Acks(m, o)
    /\ UNCHANGED <<senderVars, cardVars, conn, late, boxVars, outside, pollVars, restarts>>

\* A frame of a dropped connection: its Ack goes nowhere.
LateFrame(m) ==
    /\ m \in late
    /\ late' = late \ {m}
    /\ Persist(m, Outcome(m, TRUE)) \/ UNCHANGED receiptVars
    /\ UNCHANGED <<senderVars, cardVars, conn, toB, toA, boxVars, outside, pollVars, restarts>>

\* poll_dispatch_once: fetch ...
PollFetch ==
    /\ poll = "idle" /\ box # None
    /\ poll' = "dispatch" /\ fetched' = box /\ dropping' = None
    /\ UNCHANGED <<senderVars, cardVars, wireVars, boxVars, outside, receiptVars, restarts>>

\* ... dispatch each deposit, without the replay window ...
PollDispatch(m, i) ==
    /\ i \in fetched[m]
    /\ fetched' = [fetched EXCEPT ![m] = @ \ {i}]
    /\ LET o == Outcome(m, FALSE)
       IN /\ Persist(m, o)
          /\ dropping' = IF Dispatched(o) THEN [dropping EXCEPT ![m] = @ \cup {i}]
                         ELSE dropping
    /\ UNCHANGED <<senderVars, cardVars, wireVars, boxVars, outside, poll, restarts>>

\* ... and delete the dispatched ones.
PollDelete ==
    /\ poll = "dispatch" /\ fetched = None
    /\ poll' = "idle" /\ dropping' = None
    /\ box' = [m \in Msgs |-> box[m] \ dropping[m]]
    /\ UNCHANGED <<senderVars, cardVars, wireVars, lapsed, outside, receiptVars,
                   fetched, restarts>>

\* The recipient's process dies, or the deletion request is lost.
PollLost ==
    /\ poll = "dispatch"
    /\ poll' = "idle" /\ fetched' = None /\ dropping' = None
    /\ UNCHANGED <<senderVars, cardVars, wireVars, boxVars, outside, receiptVars, restarts>>

\* sweep_older_than on seen_messages (24 h) and the retention sweep.
Forget(m) ==
    /\ \/ "seen" \in Swept /\ m \in seen /\ seen' = seen \ {m} /\ UNCHANGED history
       \/ "history" \in Swept /\ m \in history /\ history' = history \ {m} /\ UNCHANGED seen
    /\ UNCHANGED <<senderVars, cardVars, wireVars, boxVars, outside, consumed, surfaced,
                   pollVars, restarts>>

-----------------------------------------------------------------------------
(* The network and time.                                                   *)

Disconnect ==
    /\ conn /\ LinkDown
    /\ UNCHANGED <<stored, row, jobs, stage, delivered, failed, shown, expired, cardVars,
                   boxVars, outside, receiptVars, pollVars, restarts>>

\* The mailbox drops a deposit at its ttl.
DepositExpires(m, i) ==
    /\ i \in box[m]
    /\ box' = [box EXCEPT ![m] = @ \ {i}] /\ lapsed' = lapsed \cup {m}
    /\ UNCHANGED <<senderVars, cardVars, wireVars, outside, receiptVars, pollVars, restarts>>

Expire(m) ==
    /\ m \in stored \ expired
    /\ expired' = expired \cup {m}
    /\ UNCHANGED <<stored, row, jobs, pending, stage, delivered, failed, shown, cardVars,
                   wireVars, boxVars, outside, receiptVars, pollVars, restarts>>

LeavesWindow(m) ==
    /\ m \in stored \ outside
    /\ outside' = outside \cup {m}
    /\ UNCHANGED <<senderVars, cardVars, wireVars, boxVars, receiptVars, pollVars, restarts>>

Next ==
    \/ \E m \in Msgs : Send(m) \/ JobArm(m) \/ TickSend(m) \/ Evict(m)
    \/ \E S \in SUBSET Msgs : TickRead(S) \/ TickFails(S)
    \/ AckFrame
    \/ \E m \in Msgs : MarkDelivered(m) \/ EmitDelivered(m) \/ MarkFailed(m) \/ EmitFailed(m)
    \/ \E w \in Workers, S \in SUBSET Msgs : SweepRead(w, S)
    \/ \E w \in Workers, m \in Msgs :
          \/ Decide(w, m) \/ Retarget(w, m) \/ DepositOk(w, m) \/ DepositFails(w, m)
          \/ DeleteRow(w, m) \/ EmitDeposited(w, m)
    \/ Restart \/ CardChange \/ Disconnect
    \/ AppFrame
    \/ PollFetch \/ PollDelete \/ PollLost
    \/ \E m \in Msgs, i \in Ids : PollDispatch(m, i) \/ DepositExpires(m, i)
    \/ \E m \in Msgs : LateFrame(m) \/ Forget(m) \/ Expire(m) \/ LeavesWindow(m)

Spec == Init /\ [][Next]_vars

\* The runtime runs every task: the sweeps are intervals that work through
\* their batch, the poll actor polls again and again, time passes.  SF is the
\* mailbox's part: depositors that try again and again get through, and so
\* does the poll.
SweepStep(w, m) ==
    \/ \E S \in SUBSET Msgs : m \in S /\ SweepRead(w, S)
    \/ Decide(w, m) \/ Retarget(w, m) \/ DeleteRow(w, m) \/ EmitDeposited(w, m)
    \/ w = "outbox" /\ (MarkFailed(m) \/ EmitFailed(m))

Fairness ==
    /\ \A m \in Msgs : WF_vars(Expire(m)) /\ SF_vars(\E w \in Workers : DepositOk(w, m))
    /\ \A m \in Msgs, w \in {"outbox", "mailbox"} : WF_vars(SweepStep(w, m))
    /\ WF_vars(PollFetch \/ PollDelete)
    /\ \A m \in Msgs, i \in Ids : SF_vars(PollDispatch(m, i)) /\ WF_vars(DepositExpires(m, i))

FairSpec == Spec /\ Fairness

-----------------------------------------------------------------------------
(* Properties.                                                             *)

\* delivered_at is the truth: it is set only for a message the recipient has
\* persisted (an Ack is written after the transaction of dispatch_for_group,
\* and only the Ack of an outstanding row counts).
DeliveredIsTrue == \A m \in delivered : surfaced[m] > 0

\* Exactly once at the recipient, whatever is retransmitted, deposited twice or
\* refetched, and also after the dedup row and the history row are swept.
SurfacedAtMostOnce == \A m \in Msgs : surfaced[m] <= 1

\* The user interface is told of no success or failure that did not happen.
ShownIsTrue ==
    \A m \in Msgs :
        /\ shown[m] = "Delivered" => surfaced[m] > 0
        /\ shown[m] = "Deposited" => box[m] # {} \/ m \in lapsed \/ surfaced[m] > 0
        /\ shown[m] = "Failed"    => m \in failed

\* No row leaves the outbox without a reason: the recipient has the message,
\* a mailbox holds it (or held it for its whole ttl), or it is marked failed.
NothingLostSilently ==
    \A m \in stored : row[m] = "none" =>
        \/ surfaced[m] > 0 \/ box[m] # {} \/ m \in lapsed \/ m \in failed

\* Every message leaves the queue, and then it has reached the recipient, or
\* failed visibly, or waits in a mailbox until the recipient or its ttl takes
\* it: no queue holds a message for ever (outbox_sweep's two rules, the poll).
EventuallySettled ==
    \A m \in Msgs : m \in stored ~>
        row[m] = "none" /\ (surfaced[m] > 0 \/ m \in failed \/ m \in lapsed)
====
