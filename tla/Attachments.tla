---------------------------- MODULE Attachments ----------------------------
(***************************************************************************)
(* Attachments from one sender to one recipient, over two lanes.           *)
(*                                                                         *)
(* Direct lane: the recipient's peer actor pulls the chunks it is missing  *)
(* through a window (ChunkRx, the chunk arms of full_run) and the sender   *)
(* serves them from its ChunkStore.  Offline lane: the sender's            *)
(* run_chunk_sweep deposits the chunks in the recipient's mailbox and the  *)
(* recipient's poll hands them to dispatch_attachment_chunk.  The lanes    *)
(* meet in the attachments row, the received bitmap and the chunk          *)
(* directory; whichever claims the pending row decides its outcome.        *)
(*                                                                         *)
(* The frames of the connection are kept as one set for each direction:    *)
(* they are told apart by attachment and index, and a second copy of a     *)
(* frame in transit does nothing the first does not.  Pacing (backoff, due *)
(* times) is left out: a step that may be due may happen.                  *)
(***************************************************************************)
EXTENDS Naturals, Sequences, FiniteSets

CONSTANTS Atts,         \* attachments
          NoAtt,        \* no attachment
          Total,        \* chunks of an attachment
          Window,       \* CHUNK_WINDOW
          Budget,       \* CHUNK_RETRY_BUDGET
          Offline,      \* attachments within MAX_OFFLINE_ATTACHMENT_BYTES
          MaxStalls,    \* bound: auto-fails of the janitor
          MaxRetries,   \* bound: RetryAttachment commands
          MaxRestarts   \* bound: restarts of the recipient

ASSUME AttsAssumption ==
    /\ NoAtt \notin Atts /\ Offline \subseteq Atts
    /\ Total \in Nat \ {0} /\ Window \in Nat \ {0} /\ Budget \in Nat \ {0}
    /\ MaxStalls \in Nat /\ MaxRetries \in Nat /\ MaxRestarts \in Nat

Chunks == 0..(Total - 1)

VARIABLES
    \* the sender
    cmd,       \* send_file: "none", "announced" (manifest sent), "done"
    out,       \* status of the out row: "none", "pending", "complete"
    staged,    \* attachments whose chunks are in the sender's ChunkStore
    dep,       \* attachment_deposits: "none", "pending" or "deposited"
    hand,      \* the row run_chunk_sweep works on, [att, index, at]
    \* the network and the mailbox
    conn, toA, toB,
    late,      \* AttachmentComplete frames of a connection already dropped
    box,       \* chunks the mailbox holds
    lost,      \* chunks dropped at their ttl, or skipped after a read error
    \* the recipient
    in,        \* status of the in row
    bitmap,    \* attachment_chunks
    disk,      \* the recipient's ChunkStore
    begins,    \* DaemonInbound.begins for this sender
    queue,     \* rx_queue of the actor
    rx,        \* active_rx of the actor
    poll,      \* the chunk dispatch_attachment_chunk has matched
    received,  \* number of AttachmentReceived events
    stalls, retries, restarts

senderVars  == <<cmd, out, staged, dep, hand>>
wireVars    == <<conn, toA, toB, late>>
boxVars     == <<box, lost>>
storeVars   == <<bitmap, disk>>
actorVars   == <<begins, queue, rx>>
bounds      == <<stalls, retries, restarts>>
vars == <<senderVars, wireVars, boxVars, in, storeVars, actorVars, poll, received, bounds>>

NoRx   == [att |-> NoAtt, needed |-> {}, tries |-> [i \in Chunks |-> 0],
           aged |-> {}, got |-> 0]
NoHand == [att |-> NoAtt, index |-> 0, at |-> "idle"]
NoPoll == <<NoAtt, 0>>
Nothing == [a \in Atts |-> {}]

Frame(kind, a, i) == [kind |-> kind, att |-> a, index |-> i]
Frames(kind)      == {Frame(kind, a, i) : a \in Atts, i \in Chunks}

\* Indices requested and not answered (ChunkRx.inflight), with their attempts.
Flight(r) == {i \in Chunks : r.tries[i] > 0}

\* Types; the window and the retry budget bound what is in flight.
TypeOK ==
    /\ cmd \in [Atts -> {"none", "announced", "done"}]
    /\ out \in [Atts -> {"none", "pending", "complete"}] /\ staged \subseteq Atts
    /\ dep \in [Atts -> [Chunks -> {"none", "pending", "deposited"}]]
    /\ hand \in [att : Atts \cup {NoAtt}, index : Chunks, at : {"idle", "deposit", "check"}]
    /\ conn \in BOOLEAN /\ late \subseteq Atts
    /\ toA \subseteq Frames("request") \cup Frames("complete")
    /\ toB \subseteq Frames("chunk") \cup Frames("nack")
    /\ conn \/ (toA = {} /\ toB = {})
    /\ box \in [Atts -> SUBSET Chunks] /\ lost \in [Atts -> SUBSET Chunks]
    /\ in \in [Atts -> {"none", "pending", "complete", "failed"}]
    /\ bitmap \in [Atts -> SUBSET Chunks] /\ disk \in [Atts -> SUBSET Chunks]
    /\ begins \in Seq(Atts) /\ queue \in Seq(Atts)
    /\ rx \in [att : Atts \cup {NoAtt}, needed : SUBSET Chunks, tries : [Chunks -> 0..Budget],
               aged : SUBSET Chunks, got : 0..Total]
    /\ Cardinality(Flight(rx)) <= Window
    /\ poll \in (Atts \cup {NoAtt}) \X Chunks
    /\ received \in [Atts -> Nat]
    /\ stalls \in 0..MaxStalls /\ retries \in 0..MaxRetries /\ restarts \in 0..MaxRestarts

Init ==
    /\ cmd = [a \in Atts |-> "none"] /\ out = [a \in Atts |-> "none"] /\ staged = {}
    /\ dep = [a \in Atts |-> [i \in Chunks |-> "none"]] /\ hand = NoHand
    /\ conn = FALSE /\ toA = {} /\ toB = {} /\ late = {}
    /\ box = Nothing /\ lost = Nothing
    /\ in = [a \in Atts |-> "none"] /\ bitmap = Nothing /\ disk = Nothing
    /\ begins = <<>> /\ queue = <<>> /\ rx = NoRx /\ poll = NoPoll
    /\ received = [a \in Atts |-> 0]
    /\ stalls = 0 /\ retries = 0 /\ restarts = 0

-----------------------------------------------------------------------------
(* ChunkRx: the receiver-side state of one transfer.                       *)

\* ChunkRx::new, from the received bitmap bm.
NewRx(a, bm) ==
    [att |-> a, needed |-> Chunks \ bm[a], tries |-> [i \in Chunks |-> 0],
     aged |-> {}, got |-> Total - Cardinality(Chunks \ bm[a])]

\* next_requests may take S: it fills the window, in an order left open here.
Fills(r, S) ==
    /\ S \subseteq r.needed
    /\ S = {} \/ Cardinality(S) + Cardinality(Flight(r)) <= Window
    /\ S = r.needed \/ Cardinality(S) + Cardinality(Flight(r)) >= Window

NextRequests(r, S) ==
    [r EXCEPT !.needed = @ \ S,
              !.tries = [i \in Chunks |-> IF i \in S THEN 1 ELSE r.tries[i]]]

\* unsent: requests that were not transmitted go back to needed, uncharged.
Unsent_Drops(r, S) ==
    [r EXCEPT !.tries = [i \in Chunks |-> IF i \in S THEN 0 ELSE r.tries[i]],
              !.aged = @ \ S]
Unsent(r, S) ==
    [r EXCEPT !.needed = @ \cup (S \cap Flight(r)),
              !.tries = [i \in Chunks |-> IF i \in S THEN 0 ELSE r.tries[i]],
              !.aged = @ \ S]

\* on_received counts an index only if it is in flight.
OnReceived(r, i) ==
    IF i \in Flight(r)
    THEN [r EXCEPT !.tries[i] = 0, !.aged = @ \ {i}, !.got = @ + 1]
    ELSE r

\* One more attempt at the indices S (on_bad, timed_out).
Again(r, S) ==
    [r EXCEPT !.tries = [i \in Chunks |-> IF i \in S THEN r.tries[i] + 1 ELSE r.tries[i]],
              !.aged = @ \ S]

Spent(r, S) == \E i \in S : r.tries[i] >= Budget

IsComplete_OneShort(r) == r.got + 1 >= Total
IsComplete(r) == r.got >= Total

\* send_chunk_requests for the indices S: on an error only some of them, T,
\* were written, and the caller takes all of S back.
Requests(a, T) == {Frame("request", a, i) : i \in T}
Sent(r, S, T)  == IF T = S THEN r ELSE Unsent(r, S)
CanWrite(up, S, T) == T \subseteq S /\ (up \/ T = {})

-----------------------------------------------------------------------------
(* The row of an inbound attachment.                                       *)

\* claim_terminal: of the attachments F only the pending ones change.
Won_Always(st, F) == F
Won(st, F)      == {a \in F : st[a] = "pending"}
Claim(st, F, s) == [a \in Atts |-> IF a \in Won(st, F) THEN s ELSE st[a]]
Report(W)       == received' = [a \in Atts |-> received[a] + IF a \in W THEN 1 ELSE 0]

\* maybe_start_next_rx from the queue q, when the rows are st, the claims W
\* are won already, and wire holds what was written so far: the k begins at the
\* head that are complete already are finalized, the next one starts and sends
\* its first window.
StartNext(st, W, bm, q, wire) ==
    \E k \in 0..Len(q), acked \in SUBSET Atts :
        LET F == {q[j] : j \in 1..k}
            w == wire \cup {Frame("complete", a, 0) : a \in acked}
        IN  /\ \A a \in F : bm[a] = Chunks
            /\ acked \subseteq F /\ (conn' \/ acked = {})
            /\ in' = Claim(st, F, "complete")
            /\ Report(W \cup Won(st, F))
            /\ \/ k = Len(q) /\ queue' = <<>> /\ rx' = NoRx /\ toA' = w
               \/ /\ k < Len(q) /\ bm[q[k + 1]] # Chunks
                  /\ queue' = SubSeq(q, k + 2, Len(q))
                  /\ LET r == NewRx(q[k + 1], bm)
                     IN \E S \in SUBSET r.needed, T \in SUBSET r.needed :
                           /\ Fills(r, S) /\ CanWrite(conn', S, T)
                           /\ rx' = Sent(NextRequests(r, S), S, T)
                           /\ toA' = w \cup Requests(r.att, T)

\* fail_rx of the active transfer, then the next one.
FailRx(q, wire) == StartNext(Claim(in, {rx.att}, "failed"), {}, bitmap, q, wire)

\* finalize_rx of the active transfer: claim, report if won, and in any case
\* write AttachmentComplete, which may fail; then the next one.
FinalizeRx(bm, wire) ==
    \E ack \in SUBSET {Frame("complete", rx.att, 0)} :
        StartNext(Claim(in, {rx.att}, "complete"), Won(in, {rx.att}), bm, queue, wire \cup ack)

\* conn = None at either end: what is in transit is lost, except that the
\* sender may already hold an AttachmentComplete.
LinkDown ==
    /\ conn' = FALSE /\ toA' = {} /\ toB' = {}
    /\ late' = late \cup {f.att : f \in {g \in toA : g.kind = "complete"}}

-----------------------------------------------------------------------------
(* The sender.                                                             *)

\* send_file up to the announcement: chunks staged, out row written, manifest
\* handed to send_message.  Nobody asks for a chunk before the manifest.
SendFile(a) ==
    /\ cmd[a] = "none"
    /\ cmd' = [cmd EXCEPT ![a] = IF a \in Offline THEN "announced" ELSE "done"]
    /\ staged' = staged \cup {a}
    /\ out' = [out EXCEPT ![a] = "pending"]
    /\ UNCHANGED <<dep, hand, wireVars, boxVars, in, storeVars, actorVars, poll, received,
                   bounds>>

\* ... and, within the offline cap, its end once send_message has returned.
EnqueueAll(a) ==
    /\ cmd[a] = "announced"
    /\ cmd' = [cmd EXCEPT ![a] = "done"]
    /\ dep' = [dep EXCEPT ![a] = [i \in Chunks |-> "pending"]]
    /\ UNCHANGED <<out, staged, hand, wireVars, boxVars, in, storeVars, actorVars, poll,
                   received, bounds>>

\* Frame::ChunkRequest: a chunk, or a nack if there is nothing to serve or it
\* cannot be read.  A reply that cannot be written drops the connection.
Replies(a, i) ==
    {Frame("nack", a, i)} \cup
        IF out[a] # "none" /\ a \in staged THEN {Frame("chunk", a, i)} ELSE {}

Serve(a, i) ==
    /\ Frame("request", a, i) \in toA
    /\ toA' = toA \ {Frame("request", a, i)}
    /\ \E f \in Replies(a, i) : toB' = toB \cup {f}
    /\ UNCHANGED <<senderVars, conn, late, boxVars, in, storeVars, actorVars, poll, received,
                   bounds>>

\* Frame::AttachmentComplete: the out row, the staged chunks and the deposits.
Finished(a) ==
    /\ out' = [out EXCEPT ![a] = "complete"]
    /\ staged' = staged \ {a}
    /\ dep' = [dep EXCEPT ![a] = [i \in Chunks |-> "none"]]
    /\ UNCHANGED <<cmd, hand>>

CompleteFrame(a) ==
    /\ Finished(a)
    /\ \/ Frame("complete", a, 0) \in toA /\ toA' = toA \ {Frame("complete", a, 0)} /\ UNCHANGED late
       \/ a \in late /\ late' = late \ {a} /\ UNCHANGED toA
    /\ UNCHANGED <<conn, toB, boxVars, in, storeVars, actorVars, poll, received, bounds>>

\* run_chunk_sweep takes up a due row.  With no mailbox known it is
\* rescheduled.  If get_chunk fails, because the chunk is gone or cannot be
\* read, the row is marked deposited and the loop goes on to the next row.
SweepTake(a, i) ==
    /\ hand = NoHand /\ dep[a][i] = "pending"
    /\ \/ /\ a \in staged
          /\ hand' = [att |-> a, index |-> i, at |-> "deposit"]
          /\ UNCHANGED <<dep, lost>>
       \/ /\ dep' = [dep EXCEPT ![a][i] = "deposited"]
          /\ lost' = IF a \in staged THEN [lost EXCEPT ![a] = @ \cup {i}] ELSE lost
          /\ UNCHANGED hand
    /\ UNCHANGED <<cmd, out, staged, wireVars, box, in, storeVars, actorVars, poll, received,
                   bounds>>

\* A mailbox takes the chunk and the row is marked, unless it is gone by now;
\* or every mailbox fails and the row is rescheduled, the chunk perhaps
\* deposited although no reply came.
MarkDeposited(a, i) == [dep EXCEPT ![a][i] = IF @ = "none" THEN @ ELSE "deposited"]

SweepDeposit ==
    /\ hand.at = "deposit"
    /\ LET a == hand.att  i == hand.index
       IN \/ /\ box' = [box EXCEPT ![a] = @ \cup {i}]
             /\ dep' = MarkDeposited(a, i)
             /\ hand' = [hand EXCEPT !.at = "check"]
          \/ /\ box' = [box EXCEPT ![a] = @ \cup {i}] \/ UNCHANGED box
             /\ hand' = NoHand /\ UNCHANGED dep
    /\ UNCHANGED <<cmd, out, staged, wireVars, lost, in, storeVars, actorVars, poll, received,
                   bounds>>

\* all_deposited, then pruning of rows and chunks and the out row's status.
AllDeposited_Any(a) == \E i \in Chunks : dep[a][i] # "pending"
AllDeposited(a)     == \A i \in Chunks : dep[a][i] # "pending"

SweepCheck ==
    /\ hand.at = "check"
    /\ hand' = NoHand
    /\ IF AllDeposited(hand.att)
       THEN /\ dep' = [dep EXCEPT ![hand.att] = [i \in Chunks |-> "none"]]
            /\ staged' = staged \ {hand.att}
            /\ out' = [out EXCEPT ![hand.att] = "complete"]
       ELSE UNCHANGED <<dep, staged, out>>
    /\ UNCHANGED <<cmd, wireVars, boxVars, in, storeVars, actorVars, poll, received, bounds>>

-----------------------------------------------------------------------------
(* The recipient: manifests, the actor's arms, the offline lane.           *)

\* dispatch_for_group of a Kind::File message: the in row is written and a
\* begin queued.  On the connection the MlsApp arm then drains the begins and
\* starts the next transfer; from the mailbox the begin waits for the tick.
ManifestArrives(a) ==
    /\ cmd[a] # "none" /\ in[a] = "none"
    /\ LET st == [in EXCEPT ![a] = "pending"]
           bs == Append(begins, a)
       IN \/ /\ conn /\ begins' = <<>> /\ UNCHANGED conn
             /\ IF rx.att = NoAtt THEN StartNext(st, {}, bitmap, queue \o bs, toA)
                ELSE in' = st /\ queue' = queue \o bs /\ UNCHANGED <<rx, toA, received>>
          \/ in' = st /\ begins' = bs /\ UNCHANGED <<queue, rx, conn, toA, received>>
    /\ UNCHANGED <<senderVars, toB, late, boxVars, storeVars, poll, bounds>>

\* A Chunk frame.  Only a chunk of the active transfer is looked at.  It may
\* fail its hash; it may not get to disk and then stays in flight; the bitmap
\* may not be written; or all is well.
ChunkFails(i) ==
    /\ UNCHANGED <<storeVars, begins>>
    /\ IF i \in Flight(rx) /\ Spent(rx, {i})
       THEN FailRx(queue, toA)
       ELSE LET S == {i} \cap Flight(rx)
            IN \E T \in SUBSET S :
                  /\ rx' = Sent(Again(rx, S), S, T)
                  /\ toA' = toA \cup Requests(rx.att, T)
                  /\ UNCHANGED <<in, received, queue>>

Unwritten ==
    UNCHANGED <<storeVars, actorVars, in, received, toA>>

Stored(i, marked) ==
    LET a == rx.att
        r == OnReceived(rx, i)
        bm == IF marked THEN [bitmap EXCEPT ![a] = @ \cup {i}] ELSE bitmap
    IN /\ disk' = [disk EXCEPT ![a] = @ \cup {i}] /\ bitmap' = bm
       /\ UNCHANGED begins
       /\ IF IsComplete(r) THEN FinalizeRx(bm, toA)
          ELSE \E S \in SUBSET r.needed, T \in SUBSET r.needed :
                  /\ Fills(r, S) /\ CanWrite(TRUE, S, T)
                  /\ rx' = Sent(NextRequests(r, S), S, T)
                  /\ toA' = toA \cup Requests(a, T)
                  /\ UNCHANGED <<in, received, queue>>

ChunkFrame(a, i) ==
    /\ Frame("chunk", a, i) \in toB
    /\ toB' = toB \ {Frame("chunk", a, i)} /\ UNCHANGED conn
    /\ IF a = rx.att
       THEN ChunkFails(i) \/ Unwritten \/ \E marked \in BOOLEAN : Stored(i, marked)
       ELSE UNCHANGED <<storeVars, actorVars, in, received, toA>>
    /\ UNCHANGED <<senderVars, late, boxVars, poll, bounds>>

\* A ChunkNack for the active transfer fails it, whatever the reason.
NackFrame(a, i) ==
    /\ Frame("nack", a, i) \in toB
    /\ toB' = toB \ {Frame("nack", a, i)} /\ UNCHANGED conn
    /\ IF a = rx.att THEN FailRx(queue, toA) ELSE UNCHANGED <<queue, rx, in, received, toA>>
    /\ UNCHANGED <<senderVars, late, boxVars, storeVars, begins, poll, bounds>>

\* The attachment part of the retry tick: dial if there is work and no
\* connection; refill the window; look for timeouts; drain the begins and, if
\* nothing is active, start the next transfer.
TickDial ==
    /\ conn => conn'
    /\ conn' => conn \/ rx.att # NoAtt \/ begins # <<>>

\* The window of the running transfer is filled if there is a connection.
Refill_Never(up, S) == S = {}
Refill(up, S)       == IF up THEN Fills(rx, S) ELSE S = {}

Tick ==
    /\ conn' \in BOOLEAN /\ TickDial
    /\ LET q == IF conn' THEN queue \o begins ELSE queue
       IN /\ begins' = IF conn' THEN <<>> ELSE begins
          /\ IF rx.att = NoAtt
             THEN IF conn' THEN StartNext(in, {}, bitmap, q, toA)
                  ELSE UNCHANGED <<queue, rx, toA, in, received>>
             ELSE \E S \in SUBSET rx.needed, T \in SUBSET rx.needed, U \in SUBSET rx.aged :
                     /\ Refill(conn', S)
                     /\ CanWrite(conn', S, T) /\ CanWrite(conn', rx.aged, U)
                     /\ LET r == Sent(NextRequests(rx, S), S, T)
                            w == toA \cup Requests(rx.att, T)
                        IN IF Spent(rx, rx.aged)
                           THEN U = {} /\ FailRx(q, w)
                           ELSE /\ rx' = Sent(Again(r, rx.aged), rx.aged, U)
                                /\ toA' = w \cup Requests(rx.att, U)
                                /\ queue' = q /\ UNCHANGED <<in, received>>
    /\ UNCHANGED <<senderVars, toB, late, boxVars, storeVars, poll, bounds>>

\* CHUNK_REQUEST_TIMEOUT passes for a request.
RequestAges(i) ==
    /\ i \in Flight(rx) \ rx.aged
    /\ rx' = [rx EXCEPT !.aged = @ \cup {i}]
    /\ UNCHANGED <<senderVars, wireVars, boxVars, in, storeVars, begins, queue, poll, received,
                   bounds>>

\* PeerCtrl::ReplaceConn: what is in flight is asked for again on the new
\* connection, without a new attempt and without restarting its timeout.
ReplaceConn ==
    /\ conn' = TRUE /\ toB' = {}
    /\ late' = late \cup {f.att : f \in {g \in toA : g.kind = "complete"}}
    /\ \E T \in SUBSET Flight(rx) :
          rx' = Sent(rx, Flight(rx), T) /\ toA' = Requests(rx.att, T)
    /\ UNCHANGED <<senderVars, boxVars, in, storeVars, begins, queue, poll, received, bounds>>

\* dispatch_attachment_chunk: a fetched chunk is matched against the rows that
\* are pending ...
PollMatch(a, i) ==
    /\ poll = NoPoll /\ i \in box[a] /\ in[a] = "pending"
    /\ poll' = <<a, i>>
    /\ UNCHANGED <<senderVars, wireVars, boxVars, in, storeVars, actorVars, received, bounds>>

\* ... stored unless it is held, and the row is claimed if it was the last.
\* The deposit is deleted if the deletion request gets through.
Handled(a, i) == box' \in {box, [box EXCEPT ![a] = @ \ {i}]}

PollStore ==
    /\ poll # NoPoll
    /\ LET a == poll[1]  i == poll[2]  bm == [bitmap EXCEPT ![a] = @ \cup {i}]
       IN \/ /\ i \in bitmap[a] /\ Handled(a, i)
             /\ UNCHANGED <<storeVars, in, received>>
          \/ /\ i \notin bitmap[a] /\ Handled(a, i)
             /\ disk' = [disk EXCEPT ![a] = @ \cup {i}] /\ bitmap' = bm
             /\ LET F == IF Cardinality(bm[a]) >= Total THEN {a} ELSE {}
                IN in' = Claim(in, F, "complete") /\ Report(Won(in, F))
          \/ /\ i \notin bitmap[a] /\ UNCHANGED <<box, bitmap, in, received>>
             /\ disk' \in {disk, [disk EXCEPT ![a] = @ \cup {i}]}
    /\ poll' = NoPoll
    /\ UNCHANGED <<senderVars, wireVars, lost, actorVars, bounds>>

\* attachment_janitor: a pending row whose chunk directory has been quiet for
\* STALL_GRACE is claimed as failed; without a directory it is left alone.
JanitorFails(a) ==
    /\ stalls < MaxStalls /\ in[a] = "pending" /\ disk[a] # {}
    /\ stalls' = stalls + 1
    /\ in' = Claim(in, {a}, "failed")
    /\ UNCHANGED <<senderVars, wireVars, boxVars, storeVars, actorVars, poll, received,
                   retries, restarts>>

\* retry_attachment_cmd: rearm_failed_in, then the begin is queued again.  One
\* step: a claim that falls in between finds what it would find right after.
RetryAttachment_NoBegin(a) ==
    /\ retries < MaxRetries /\ in[a] = "failed"
    /\ retries' = retries + 1
    /\ in' = [in EXCEPT ![a] = "pending"]
    /\ UNCHANGED <<senderVars, wireVars, boxVars, storeVars, actorVars, poll, received,
                   stalls, restarts>>
RetryAttachment(a) ==
    /\ retries < MaxRetries /\ in[a] = "failed"
    /\ retries' = retries + 1
    /\ in' = [in EXCEPT ![a] = "pending"]
    /\ begins' = Append(begins, a)
    /\ UNCHANGED <<senderVars, wireVars, boxVars, storeVars, queue, rx, poll, received,
                   stalls, restarts>>

\* The recipient's process dies: tables and chunks survive, the rest does not.
Restart ==
    /\ restarts < MaxRestarts /\ restarts' = restarts + 1
    /\ LinkDown
    /\ begins' = <<>> /\ queue' = <<>> /\ rx' = NoRx /\ poll' = NoPoll
    /\ UNCHANGED <<senderVars, boxVars, in, storeVars, received, stalls, retries>>

-----------------------------------------------------------------------------
Disconnect ==
    /\ conn /\ LinkDown
    /\ UNCHANGED <<senderVars, boxVars, in, storeVars, actorVars, poll, received, bounds>>

\* The mailbox drops a chunk at its ttl.
DepositExpires(a, i) ==
    /\ i \in box[a]
    /\ box' = [box EXCEPT ![a] = @ \ {i}]
    /\ lost' = [lost EXCEPT ![a] = @ \cup {i}]
    /\ UNCHANGED <<senderVars, wireVars, in, storeVars, actorVars, poll, received, bounds>>

Next ==
    \/ \E a \in Atts : SendFile(a) \/ EnqueueAll(a) \/ CompleteFrame(a)
    \/ \E a \in Atts, i \in Chunks :
          Serve(a, i) \/ SweepTake(a, i) \/ ChunkFrame(a, i) \/ NackFrame(a, i)
    \/ SweepDeposit \/ SweepCheck
    \/ \E a \in Atts : ManifestArrives(a) \/ JanitorFails(a) \/ RetryAttachment(a)
    \/ Tick \/ ReplaceConn \/ PollStore \/ Restart \/ Disconnect
    \/ \E i \in Chunks : RequestAges(i)
    \/ \E a \in Atts, i \in Chunks : PollMatch(a, i) \/ DepositExpires(a, i)

Spec == Init /\ [][Next]_vars

\* A tick that finds or makes a connection and writes all it has to ask for.
GoodTick ==
    /\ Tick /\ conn'
    /\ rx'.att # NoAtt => rx'.needed = {} \/ Cardinality(Flight(rx')) >= Window

\* No request of the running transfer is taken back because writing it failed.
NothingUnsent == rx'.att = rx.att => rx'.needed \subseteq rx.needed

\* Ticks are periodic and time passes.  The network may lose connections and
\* frames for ever, but from some time on a request can be written when it is
\* due: a recipient that is never online again promises nothing.
Fairness ==
    /\ WF_vars(GoodTick)
    /\ \A i \in Chunks : WF_vars(RequestAges(i))
    /\ <>[][NothingUnsent]_vars

FairSpec == Spec /\ Fairness

-----------------------------------------------------------------------------
(* Properties.                                                             *)

\* A chunk is never lost from the window: every index the transfer has not
\* counted is needed or in flight, once, and what is in neither is on disk
\* (next_requests, unsent, on_received against the in-memory count).
WindowAccounts ==
    rx.att # NoAtt =>
        /\ rx.needed \cap Flight(rx) = {}
        /\ rx.got + Cardinality(rx.needed) + Cardinality(Flight(rx)) = Total
        /\ Chunks \ (rx.needed \cup Flight(rx)) \subseteq disk[rx.att]

\* An attachment reported complete can be opened: every chunk is on disk,
\* whichever lanes brought them (finalize_rx, finalize_offline).
CompleteMeansWhole == \A a \in Atts : in[a] = "complete" => disk[a] = Chunks

\* AttachmentReceived is emitted at most once, although both lanes, a late
\* failure and a retry may all reach the row (claim_terminal, rearm_failed_in).
ReceivedOnce == \A a \in Atts : received[a] <= 1

\* The sender discards its copy of a chunk only when the recipient has the
\* chunk or a mailbox took it, except for one the sweep could not read
\* (AttachmentComplete, the pruning at the end of run_chunk_sweep).
NoChunkDiscarded ==
    \A a \in Atts : cmd[a] # "none" /\ a \notin staged =>
        Chunks \subseteq disk[a] \cup box[a] \cup lost[a]

\* A pending inbound row is somebody's job: its begin is queued or its transfer
\* is active, unless the recipient was restarted (retry_attachment_cmd, #144).
PendingIsOwned ==
    \A a \in Atts : in[a] = "pending" /\ restarts = 0 =>
        \/ rx.att = a
        \/ \E j \in 1..Len(queue)  : queue[j] = a
        \/ \E j \in 1..Len(begins) : begins[j] = a

\* A transfer comes to an end: a pending row is completed or failed, whatever
\* connections, frames and answers are lost on the way (the dial and the refill
\* of the tick, timed_out, unsent), unless the recipient was restarted.
FetchEnds == \A a \in Atts : in[a] = "pending" ~> in[a] # "pending" \/ restarts > 0
====
