--------------------------- MODULE DeliveryProofs ---------------------------
(***************************************************************************)
(* Proofs about Delivery, for any number of messages, deposits, frames,    *)
(* card changes and restarts.                                              *)
(***************************************************************************)
EXTENDS Delivery, TLAPS

\* The sorts of the variables the safety arguments read.
Sorts ==
    /\ stored \subseteq Msgs /\ delivered \subseteq Msgs /\ failed \subseteq Msgs
    /\ row \in [Msgs -> {"none", "direct", "mailbox"}]
    /\ stage \in [Workers -> [Msgs -> Stages]]
    /\ toB \in Seq(Msgs) /\ toA \in Seq(Msgs) /\ late \subseteq Msgs
    /\ box \in [Msgs -> SUBSET Ids] /\ lapsed \subseteq Msgs
    /\ consumed \subseteq Msgs /\ seen \subseteq Msgs
    /\ surfaced \in [Msgs -> Nat]
    /\ fetched \in [Msgs -> SUBSET Ids] /\ dropping \in [Msgs -> SUBSET Ids]

\* The ratchet, not the dedup table, is what keeps a second copy out: a
\* message was surfaced exactly if its generation is spent.
Spent ==
    /\ seen \subseteq consumed
    /\ \A m \in Msgs : surfaced[m] = IF m \in consumed THEN 1 ELSE 0

\* Acks in transit and Acks being recorded are about persisted messages.
AckTruth ==
    /\ \A i \in 1..Len(toA) : surfaced[toA[i]] > 0
    /\ \A m \in Msgs : stage["actor"][m] = "markDelivered" => surfaced[m] > 0
    /\ \A m \in delivered : surfaced[m] > 0

\* Somebody other than the outbox answers for m.
Safe(m) == surfaced[m] > 0 \/ box[m] # {} \/ m \in lapsed \/ m \in failed

\* A row is deleted, or about to be, only when somebody answers for it.
Answered ==
    /\ \A m \in Msgs : dropping[m] # {} => surfaced[m] > 0
    /\ \A w \in Workers, m \in Msgs :
          stage[w][m] \in {"delete", "expire", "expireQuiet"} => Safe(m)
    /\ \A m \in stored : row[m] = "none" => Safe(m)

IInv == Sorts /\ Spent /\ AckTruth /\ Answered

\* Init establishes the invariant: nothing was stored, sent or received.
LEMMA InitIInv == Init => IInv
  <1> SUFFICES ASSUME Init PROVE IInv  OBVIOUS
  <1>1. Sorts  BY DEF Init, Sorts, Idle, None, Stages
  <1>2. Spent  BY DEF Init, Spent
  <1>3. AckTruth  BY DEF Init, AckTruth, Idle, Workers
  <1>4. Answered  BY DEF Init, Answered, Idle, None, Safe
  <1>5. QED  BY <1>1, <1>2, <1>3, <1>4 DEF IInv

\* What dispatch_for_group's transaction does to the recipient's tables: the
\* sorts hold, the ratchet invariant holds, no event is undone, and whatever
\* it reports as dispatched has been surfaced.
LEMMA PersistKeeps ==
  ASSUME Sorts, Spent, NEW m \in Msgs, NEW direct \in BOOLEAN,
         Persist(m, Outcome(m, direct))
  PROVE  /\ consumed' \subseteq Msgs /\ seen' \subseteq Msgs /\ surfaced' \in [Msgs -> Nat]
         /\ Spent'
         /\ \A n \in Msgs : surfaced[n] > 0 => surfaced'[n] > 0
         /\ Dispatched(Outcome(m, direct)) => surfaced'[m] > 0
  <1> DEFINE o == Outcome(m, direct)
  <1>1. o = "New" => m \notin consumed  BY DEF Outcome, Decrypts
  <1>2. o # "Duplicate"  BY DEF Outcome, Decrypts, Spent
  <1>3. CASE o = "New"
    <2>1. /\ consumed' = consumed \cup {m} /\ seen' = seen \cup {m}
          /\ surfaced' = [surfaced EXCEPT ![m] = @ + 1]
      BY <1>3 DEF Persist, Dispatched
    <2>2. surfaced[m] = 0  BY <1>1, <1>3 DEF Spent
    <2>3. QED  BY <2>1, <2>2 DEF Sorts, Spent
  <1>4. CASE o # "New"
    <2>1. UNCHANGED <<consumed, seen, surfaced>> /\ ~Dispatched(o)
      BY <1>2, <1>4 DEF Persist, Dispatched
    <2>2. QED  BY <2>1 DEF Sorts, Spent
  <1>5. QED  BY <1>3, <1>4

\* Go moves one worker with one message.
LEMMA GoMoves ==
  ASSUME stage \in [Workers -> [Msgs -> Stages]],
         NEW w \in Workers, NEW m \in Msgs, NEW s \in Stages, Go(w, m, s)
  PROVE  /\ stage' \in [Workers -> [Msgs -> Stages]]
         /\ stage'[w][m] = s
         /\ \A v \in Workers, n \in Msgs : v # w \/ n # m => stage'[v][n] = stage[v][n]
  BY DEF Go

\* A batch read puts one worker's messages in stages from which nothing is
\* deleted and nothing is marked.
LEMMA BatchMoves ==
  ASSUME stage \in [Workers -> [Msgs -> Stages]],
         NEW w \in Workers, NEW S \in SUBSET Msgs, NEW s \in {"due", "read"},
         stage' = [stage EXCEPT ![w] = [m \in Msgs |-> IF m \in S THEN s ELSE "idle"]]
  PROVE  /\ stage' \in [Workers -> [Msgs -> Stages]]
         /\ \A n \in Msgs : stage'[w][n] \in {s, "idle"}
         /\ \A v \in Workers \ {w} : stage'[v] = stage[v]
  BY DEF Stages

\* The variables the invariant reads beside stage and the wires.
restVars == <<stored, row, delivered, failed, box, lapsed, consumed, seen, surfaced,
              fetched, dropping>>

\* Steps that only move workers and frames: the stages entered are harmless and
\* no Ack appears on the wire.
LEMMA QuietStep ==
  ASSUME IInv, UNCHANGED restVars,
         stage' \in [Workers -> [Msgs -> Stages]],
         \A w \in Workers, m \in Msgs :
             stage'[w][m] = stage[w][m] \/ stage'[w][m] \notin
                 {"delete", "expire", "expireQuiet", "markDelivered"},
         toB' \in Seq(Msgs), late' \subseteq Msgs,
         toA' = toA \/ toA' = <<>>
  PROVE  IInv'
  <1>1. Sorts'
    <2>0. <<>> \in Seq(Msgs)  OBVIOUS
    <2>1. toA' \in Seq(Msgs)  BY <2>0, Zenon DEF IInv, Sorts
    <2>2. QED  BY <2>1 DEF IInv, Sorts, restVars
  <1>2. Spent'  BY DEF IInv, Spent, restVars
  <1>3. AckTruth'
    <2>1. surfaced' = surfaced /\ delivered' = delivered  BY DEF restVars
    <2>2. \A i \in 1..Len(toA') : surfaced'[toA'[i]] > 0
      <3>1. CASE toA' = toA  BY <2>1, <3>1 DEF IInv, AckTruth
      <3>2. CASE toA' = <<>>
        <4>1. Len(toA') = 0  BY <3>2
        <4>2. QED  BY <4>1
      <3>3. QED  BY <3>1, <3>2
    <2>3. \A m \in Msgs : stage'["actor"][m] = "markDelivered" => surfaced'[m] > 0
      BY <2>1 DEF IInv, AckTruth, Workers
    <2>4. QED  BY <2>1, <2>2, <2>3 DEF IInv, AckTruth
  <1>4. Answered'  BY DEF IInv, Answered, restVars, Safe
  <1>5. QED  BY <1>1, <1>2, <1>3, <1>4 DEF IInv

\* The wire after a write and after the connection is lost.
LEMMA WireSorts ==
  ASSUME IInv, NEW m \in Msgs, Write(m) \/ LinkDown
  PROVE  toB' \in Seq(Msgs) /\ late' \subseteq Msgs /\ (toA' = toA \/ toA' = <<>>)
  <1>1. CASE Write(m)  BY <1>1 DEF Write, IInv, Sorts
  <1>2. CASE LinkDown  BY <1>2 DEF LinkDown, IInv, Sorts, Frames
  <1>3. QED  BY <1>1, <1>2

\* The steps of the sender's actor that only move frames and workers.
LEMMA ActorQuiet ==
  ASSUME IInv, NEW m \in Msgs, NEW S \in SUBSET Msgs,
         JobArm(m) \/ TickSend(m) \/ TickRead(S) \/ TickFails(S) \/ Evict(m) \/ Disconnect
  PROVE  IInv'
  <1> USE DEF restVars, boxVars, receiptVars, pollVars, wireVars
  <1>0. stage \in [Workers -> [Msgs -> Stages]] /\ toB \in Seq(Msgs) /\ late \subseteq Msgs
    BY DEF IInv, Sorts
  <1>w. "actor" \in Workers /\ "idle" \in Stages  BY DEF Workers, Stages
  <1>1. CASE JobArm(m)
    <2>1. UNCHANGED <<stage, restVars>>  BY <1>1 DEF JobArm
    <2>2. toB' \in Seq(Msgs) /\ late' \subseteq Msgs /\ (toA' = toA \/ toA' = <<>>)
      BY <1>0, <1>1, WireSorts DEF JobArm
    <2>3. QED  BY <1>0, <2>1, <2>2, QuietStep
  <1>2. CASE TickSend(m)
    <2>1. UNCHANGED restVars /\ Go("actor", m, "idle") /\ Write(m)  BY <1>2 DEF TickSend
    <2>2. QED  BY <1>0, <1>w, <2>1, GoMoves, WireSorts, QuietStep
  <1>3. CASE TickRead(S)
    <2>1. UNCHANGED <<restVars, toB, toA, late>>  BY <1>3 DEF TickRead
    <2>2. stage' = [stage EXCEPT !["actor"] =
                       [n \in Msgs |-> IF n \in S THEN "due" ELSE "idle"]]
      BY <1>3 DEF TickRead
    <2>3. /\ stage' \in [Workers -> [Msgs -> Stages]]
          /\ \A n \in Msgs : stage'["actor"][n] \in {"due", "idle"}
          /\ \A v \in Workers \ {"actor"} : stage'[v] = stage[v]
      BY <1>0, <1>w, <2>2, BatchMoves, Zenon
    <2>4. QED  BY <1>0, <2>1, <2>3, QuietStep
  <1>4. CASE TickFails(S)
    <2>1. UNCHANGED restVars /\ LinkDown  BY <1>4 DEF TickFails
    <2>2. stage' = [stage EXCEPT !["actor"] =
                       [n \in Msgs |-> IF n \in S THEN "read" ELSE "idle"]]
      BY <1>4 DEF TickFails
    <2>3. /\ stage' \in [Workers -> [Msgs -> Stages]]
          /\ \A n \in Msgs : stage'["actor"][n] \in {"read", "idle"}
          /\ \A v \in Workers \ {"actor"} : stage'[v] = stage[v]
      BY <1>0, <1>w, <2>2, BatchMoves, Zenon
    <2>4. QED  BY <1>0, <2>1, <2>3, WireSorts, QuietStep
  <1>5. CASE Evict(m)
    <2>1. UNCHANGED <<stage, restVars, toB, toA, late>>  BY <1>5 DEF Evict
    <2>2. QED  BY <1>0, <2>1, QuietStep
  <1>6. CASE Disconnect
    <2>1. UNCHANGED <<stage, restVars>> /\ LinkDown  BY <1>6 DEF Disconnect
    <2>2. QED  BY <1>0, <2>1, WireSorts, QuietStep
  <1>7. QED  BY <1>1, <1>2, <1>3, <1>4, <1>5, <1>6

\* The other steps that only move workers: batch reads of the sweeps, their
\* decisions, the events.
LEMMA SweepQuiet ==
  ASSUME IInv, NEW w \in Workers, NEW m \in Msgs, NEW S \in SUBSET Msgs,
         \/ SweepRead(w, S) \/ Decide(w, m)
         \/ EmitDelivered(m) \/ EmitFailed(m) \/ EmitDeposited(w, m)
  PROVE  IInv'
  <1> USE DEF restVars, boxVars, receiptVars, pollVars, wireVars
  <1>0. stage \in [Workers -> [Msgs -> Stages]] /\ toB \in Seq(Msgs) /\ late \subseteq Msgs
    BY DEF IInv, Sorts
  <1>1. CASE SweepRead(w, S)
    <2>1. UNCHANGED <<restVars, toB, toA, late>>  BY <1>1 DEF SweepRead
    <2>2. stage' = [stage EXCEPT ![w] =
                       [n \in Msgs |-> IF n \in S THEN "read" ELSE "idle"]]
      BY <1>1 DEF SweepRead
    <2>3. /\ stage' \in [Workers -> [Msgs -> Stages]]
          /\ \A n \in Msgs : stage'[w][n] \in {"read", "idle"}
          /\ \A v \in Workers \ {w} : stage'[v] = stage[v]
      BY <1>0, <2>2, BatchMoves, Zenon
    <2>4. QED  BY <1>0, <2>1, <2>3, QuietStep
  <1>2. CASE Decide(w, m)
    <2>1. UNCHANGED <<restVars, toB, toA, late>> /\ Go(w, m, Chosen(w, m))
      BY <1>2 DEF Decide
    <2>2. Chosen(w, m) \in {"deposit", "retarget", "mark", "idle"}  BY DEF Chosen
    <2>3. Chosen(w, m) \in Stages  BY <2>2 DEF Stages
    <2>4. QED  BY <1>0, <2>1, <2>2, <2>3, GoMoves, QuietStep
  <1>3. ASSUME NEW v \in Workers, NEW from, NEW status, Emit(v, m, from, status)
        PROVE  IInv'
    <2>1. UNCHANGED <<restVars, toB, toA, late>> /\ Go(v, m, "idle")  BY <1>3 DEF Emit
    <2>2. "idle" \in Stages  BY DEF Stages
    <2>3. QED  BY <1>0, <2>1, <2>2, GoMoves, QuietStep
  <1>4. "actor" \in Workers /\ "outbox" \in Workers  BY DEF Workers
  <1>5. QED
    BY <1>1, <1>2, <1>3, <1>4 DEF EmitDelivered, EmitFailed, EmitDeposited

\* Time, cards, restarts, and the poll's bookkeeping.
LEMMA BackgroundQuiet ==
  ASSUME IInv, NEW m \in Msgs,
         \/ CardChange \/ Restart \/ Forget(m) \/ Expire(m) \/ LeavesWindow(m)
         \/ PollFetch \/ PollLost
  PROVE  IInv'
  <1> USE DEF boxVars, receiptVars, pollVars, wireVars, senderVars
  <1>0. Sorts /\ Spent /\ AckTruth /\ Answered  BY DEF IInv
  <1>1. CASE CardChange \/ Expire(m) \/ LeavesWindow(m)
    <2>1. UNCHANGED <<restVars, stage, toB, toA, late>>
      BY <1>1 DEF CardChange, Expire, LeavesWindow, restVars
    <2>2. QED  BY <1>0, <2>1, QuietStep DEF Sorts
  <1>2. CASE Restart
    <2>1. UNCHANGED restVars /\ LinkDown /\ stage' = Idle  BY <1>2 DEF Restart, restVars
    <2>2. stage' \in [Workers -> [Msgs -> Stages]]
          /\ \A w \in Workers, n \in Msgs : stage'[w][n] = "idle"
      BY <2>1 DEF Idle, Stages
    <2>3. QED  BY <1>0, <2>1, <2>2, WireSorts, QuietStep, Zenon
  <1>3. CASE Forget(m)
    <2>1. /\ UNCHANGED <<stored, row, delivered, failed, box, lapsed, consumed, surfaced,
                         fetched, dropping, stage, toB, toA, late>>
          /\ seen' \subseteq seen
      BY <1>3 DEF Forget
    <2>2. Sorts' /\ Spent'  BY <1>0, <2>1 DEF Sorts, Spent
    <2>3. AckTruth' /\ Answered'  BY <1>0, <2>1 DEF AckTruth, Answered, Safe
    <2>4. QED  BY <2>2, <2>3 DEF IInv
  <1>4. CASE PollFetch \/ PollLost
    <2>1. /\ UNCHANGED <<stored, row, delivered, failed, box, lapsed, consumed, seen,
                         surfaced, stage, toB, toA, late>>
          /\ dropping' = None /\ (fetched' = box \/ fetched' = None)
      BY <1>4 DEF PollFetch, PollLost
    <2>2. Sorts' /\ Spent'  BY <1>0, <2>1 DEF Sorts, Spent, None
    <2>3. AckTruth' /\ Answered'  BY <1>0, <2>1 DEF AckTruth, Answered, Safe, None
    <2>4. QED  BY <2>2, <2>3 DEF IInv
  <1>5. QED  BY <1>1, <1>2, <1>3, <1>4

\* The sender's steps that write the outbox or a mark.
LEMMA SenderSteps ==
  ASSUME IInv, NEW w \in Workers, NEW m \in Msgs,
         \/ Send(m) \/ AckFrame \/ MarkDelivered(m) \/ MarkFailed(m)
         \/ Retarget(w, m) \/ DeleteRow(w, m)
  PROVE  IInv'
  <1> USE DEF boxVars, receiptVars, pollVars, wireVars
  <1>0. Sorts /\ Spent /\ AckTruth /\ Answered  BY DEF IInv
  <1>s. stage \in [Workers -> [Msgs -> Stages]]  BY <1>0 DEF Sorts
  <1>a. "actor" \in Workers /\ "outbox" \in Workers  BY DEF Workers
  <1>t. {"idle", "deposit", "emitDeposited", "emitFailed", "markDelivered", "emitDelivered",
         "expire", "expireQuiet"} \subseteq Stages
    BY DEF Stages
  <1>1. CASE Send(m)
    <2>1. /\ UNCHANGED <<delivered, failed, box, lapsed, consumed, seen, surfaced, fetched,
                         dropping, stage, toB, toA, late>>
          /\ stored' = stored \cup {m} /\ row' = [row EXCEPT ![m] = "direct"]
      BY <1>1 DEF Send
    <2>2. Sorts' /\ Spent' /\ AckTruth'  BY <1>0, <2>1 DEF Sorts, Spent, AckTruth
    <2>3. Answered'  BY <1>0, <2>1 DEF Sorts, Answered, Safe
    <2>4. QED  BY <2>2, <2>3 DEF IInv
  <1>2. CASE AckFrame
    <2>0. toA # <<>> /\ toA \in Seq(Msgs)  BY <1>0, <1>2 DEF AckFrame, Sorts
    <2>2. PICK n \in Msgs : n = Head(toA)  BY <2>0
    <2>1. /\ UNCHANGED <<stored, delivered, failed, box, lapsed, consumed, seen, surfaced,
                         fetched, dropping, toB, late>>
          /\ toA' = Tail(toA) /\ AckRow(n)
      BY <1>2, <2>2 DEF AckFrame
    <2>3. surfaced[n] > 0 /\ toA' \in Seq(Msgs)
      <3>1. Len(toA) > 0 /\ n = toA[1] /\ toA' \in Seq(Msgs)  BY <2>0, <2>1, <2>2
      <3>2. QED  BY <1>0, <2>0, <3>1 DEF AckTruth
    <2>4. \A i \in 1..Len(toA') : surfaced'[toA'[i]] > 0
      <3>1. Len(toA') = Len(toA) - 1 /\ \A i \in 1..Len(toA') : toA'[i] = toA[i + 1]
        BY <2>0, <2>1
      <3>2. \A i \in 1..Len(toA') : i + 1 \in 1..Len(toA)  BY <2>0, <3>1
      <3>3. QED  BY <1>0, <2>1, <3>1, <3>2, Zenon DEF AckTruth
    <2>5. CASE row[n] # "none"
      <3>1. row' = [row EXCEPT ![n] = "none"] /\ Go("actor", n, "markDelivered")
        BY <2>1, <2>5 DEF AckRow, Delete
      <3>2. /\ stage' \in [Workers -> [Msgs -> Stages]]
            /\ stage'["actor"][n] = "markDelivered"
            /\ \A v \in Workers, k \in Msgs : v # "actor" \/ k # n => stage'[v][k] = stage[v][k]
        BY <1>s, <1>a, <1>t, <2>3, <3>1, GoMoves
      <3>3. Sorts' /\ Spent'  BY <1>0, <2>1, <2>3, <3>1, <3>2, SMTT(30) DEF Sorts, Spent
      <3>4. AckTruth'  BY <1>0, <1>a, <2>1, <2>3, <2>4, <3>2, Zenon DEF AckTruth
      <3>5. Safe(n)'  BY <2>1, <2>3, Zenon DEF Safe
      <3>6. Answered'  BY <1>0, <2>1, <2>3, <3>1, <3>2, <3>5, Zenon DEF Sorts, Answered, Safe
      <3>7. QED  BY <3>3, <3>4, <3>6 DEF IInv
    <2>6. CASE row[n] = "none"
      <3>1. UNCHANGED <<row, stage>>  BY <2>1, <2>6 DEF AckRow
      <3>2. Sorts' /\ Spent'  BY <1>0, <2>1, <2>3, <3>1 DEF Sorts, Spent
      <3>3. AckTruth'  BY <1>0, <2>1, <2>4, <3>1, Zenon DEF AckTruth
      <3>4. Answered'  BY <1>0, <2>1, <3>1, Zenon DEF Answered, Safe
      <3>5. QED  BY <3>2, <3>3, <3>4 DEF IInv
    <2>7. QED  BY <2>5, <2>6
  <1>3. CASE MarkDelivered(m)
    <2> DEFINE s == IF m \in delivered THEN "idle" ELSE "emitDelivered"
    <2>1. /\ UNCHANGED <<stored, row, failed, box, lapsed, consumed, seen, surfaced,
                         fetched, dropping, toB, toA, late>>
          /\ stage["actor"][m] = "markDelivered"
          /\ delivered' = delivered \cup {m} /\ Go("actor", m, s)
      BY <1>3 DEF MarkDelivered
    <2>2. /\ stage' \in [Workers -> [Msgs -> Stages]]
          /\ stage'["actor"][m] = s
          /\ \A v \in Workers, k \in Msgs : v # "actor" \/ k # m => stage'[v][k] = stage[v][k]
      BY <1>s, <1>a, <1>t, <2>1, GoMoves
    <2>3. Sorts' /\ Spent'  BY <1>0, <2>1, <2>2 DEF Sorts, Spent
    <2>4. AckTruth'  BY <1>0, <1>a, <2>1, <2>2 DEF AckTruth
    <2>5. Answered'  BY <1>0, <2>1, <2>2 DEF Answered, Safe
    <2>6. QED  BY <2>3, <2>4, <2>5 DEF IInv
  <1>4. CASE MarkFailed(m)
    <2> DEFINE s == IF m \in delivered THEN "expireQuiet" ELSE "expire"
    <2>1. /\ UNCHANGED <<stored, row, delivered, box, lapsed, consumed, seen, surfaced,
                         fetched, dropping, toB, toA, late>>
          /\ failed' = failed \cup ({m} \ delivered) /\ Go("outbox", m, s)
      BY <1>4, Zenon DEF MarkFailed, Marked
    <2>2. /\ stage' \in [Workers -> [Msgs -> Stages]]
          /\ stage'["outbox"][m] = s
          /\ \A v \in Workers, k \in Msgs : v # "outbox" \/ k # m => stage'[v][k] = stage[v][k]
      BY <1>s, <1>a, <1>t, <2>1, GoMoves
    <2>3. Sorts' /\ Spent'  BY <1>0, <2>1, <2>2 DEF Sorts, Spent
    <2>4. AckTruth'  BY <1>0, <1>a, <2>1, <2>2 DEF AckTruth
    <2>5. Safe(m)'  BY <1>0, <2>1 DEF AckTruth, Safe
    <2>6. Answered'  BY <1>0, <2>1, <2>2, <2>5 DEF Answered, Safe
    <2>7. QED  BY <2>3, <2>4, <2>6 DEF IInv
  <1>5. CASE Retarget(w, m)
    <2>1. /\ UNCHANGED <<stored, delivered, failed, box, lapsed, consumed, seen, surfaced,
                         fetched, dropping, toB, toA, late>>
          /\ \/ row' = row /\ Go(w, m, "idle")
             \/ row' = [row EXCEPT ![m] = "mailbox"] /\ Go(w, m, "deposit")
      BY <1>5 DEF Retarget
    <2>2. /\ stage' \in [Workers -> [Msgs -> Stages]]
          /\ stage'[w][m] \in {"idle", "deposit"}
          /\ \A v \in Workers, k \in Msgs : v # w \/ k # m => stage'[v][k] = stage[v][k]
      BY <1>s, <1>t, <2>1, GoMoves
    <2>3. /\ row' \in [Msgs -> {"none", "direct", "mailbox"}]
          /\ \A k \in Msgs : row'[k] = "none" => row[k] = "none"
      BY <1>0, <2>1, Zenon DEF Sorts
    <2>4. Sorts' /\ Spent'  BY <1>0, <2>1, <2>2, <2>3 DEF Sorts, Spent
    <2>5. AckTruth'  BY <1>0, <1>a, <2>1, <2>2 DEF AckTruth
    <2>6. \A k \in Msgs : Safe(k) => Safe(k)'  BY <2>1 DEF Safe
    <2>7. ASSUME NEW v \in Workers, NEW k \in Msgs,
                 stage'[v][k] \in {"delete", "expire", "expireQuiet"}
          PROVE  stage[v][k] = stage'[v][k]
      BY <2>2, <2>7, SMTT(30)
    <2>8. \A v \in Workers, k \in Msgs :
             stage'[v][k] \in {"delete", "expire", "expireQuiet"} => Safe(k)'
      BY <1>0, <2>6, <2>7 DEF Answered
    <2>9. \A k \in stored' : row'[k] = "none" => Safe(k)'
      BY <1>0, <2>1, <2>3, <2>6 DEF Answered, Sorts
    <2>10. \A k \in Msgs : dropping'[k] # {} => surfaced'[k] > 0
      BY <1>0, <2>1, Zenon DEF Answered
    <2>11. Answered'  BY <2>8, <2>9, <2>10, Zenon DEF Answered
    <2>12. QED  BY <2>4, <2>5, <2>11 DEF IInv
  <1>6. CASE DeleteRow(w, m)
    <2> DEFINE s == CASE stage[w][m] = "delete" -> "emitDeposited"
                      [] stage[w][m] = "expire" -> "emitFailed"
                      [] OTHER                  -> "idle"
    <2>1. /\ UNCHANGED <<stored, delivered, failed, box, lapsed, consumed, seen, surfaced,
                         fetched, dropping, toB, toA, late>>
          /\ stage[w][m] \in {"delete", "expire", "expireQuiet"}
          /\ row' = [row EXCEPT ![m] = "none"] /\ Go(w, m, s)
      BY <1>6 DEF DeleteRow, Delete
    <2>2. s \in {"emitDeposited", "emitFailed", "idle"}  OBVIOUS
    <2>3. /\ stage' \in [Workers -> [Msgs -> Stages]]
          /\ stage'[w][m] = s
          /\ \A v \in Workers, k \in Msgs : v # w \/ k # m => stage'[v][k] = stage[v][k]
      BY <1>s, <1>t, <2>1, <2>2, GoMoves
    <2>4. Sorts' /\ Spent'  BY <1>0, <2>1, <2>3 DEF Sorts, Spent
    <2>5. AckTruth'  BY <1>0, <1>a, <2>1, <2>2, <2>3 DEF AckTruth
    <2>6. Safe(m) /\ Safe(m)'  BY <1>0, <2>1 DEF Answered, Safe
    <2>7. Answered'  BY <1>0, <2>1, <2>2, <2>3, <2>6, Zenon DEF Sorts, Answered, Safe
    <2>8. QED  BY <2>4, <2>5, <2>7 DEF IInv
  <1>7. QED  BY <1>1, <1>2, <1>3, <1>4, <1>5, <1>6

\* Deposits, and deposits that lapse.
LEMMA MailboxSteps ==
  ASSUME IInv, NEW w \in Workers, NEW m \in Msgs, NEW i \in Ids,
         DepositOk(w, m) \/ DepositFails(w, m) \/ DepositExpires(m, i) \/ PollDelete
  PROVE  IInv'
  <1> USE DEF boxVars, receiptVars, pollVars, wireVars, senderVars
  <1>0. Sorts /\ Spent /\ AckTruth /\ Answered  BY DEF IInv
  <1>s. stage \in [Workers -> [Msgs -> Stages]]  BY <1>0 DEF Sorts
  <1>t. {"idle", "deposit", "retarget", "delete"} \subseteq Stages  BY DEF Stages
  <1>1. CASE DepositOk(w, m) \/ DepositFails(w, m)
    <2>1. UNCHANGED <<stored, row, delivered, failed, lapsed, consumed, seen, surfaced,
                      fetched, dropping, toB, toA, late>>
      BY <1>1, Zenon DEF DepositOk, DepositFails
    <2>2. /\ box' \in [Msgs -> SUBSET Ids]
          /\ \A k \in Msgs : box[k] \subseteq box'[k]
          /\ DepositOk(w, m) => box'[m] # {}
      <3>0. box \in [Msgs -> SUBSET Ids]  BY <1>0 DEF Sorts
      <3>1. ASSUME Deposited(m)
            PROVE  /\ box' \in [Msgs -> SUBSET Ids] /\ box'[m] # {}
                   /\ \A k \in Msgs : box[k] \subseteq box'[k]
        <4>1. PICK d \in Ids : box' = [box EXCEPT ![m] = @ \cup {d}]
          BY <3>1, Zenon DEF Deposited
        <4>2. box'[m] = box[m] \cup {d} /\ \A k \in Msgs \ {m} : box'[k] = box[k]
          BY <3>0, <4>1
        <4>3. box' \in [Msgs -> SUBSET Ids]  BY <3>0, <4>1
        <4>4. QED  BY <4>2, <4>3
      <3>2. CASE Deposited(m)  BY <3>1, <3>2
      <3>3. CASE box' = box /\ ~DepositOk(w, m)  BY <3>0, <3>3
      <3>4. DepositOk(w, m) => Deposited(m)  BY DEF DepositOk
      <3>5. Deposited(m) \/ box' = box  BY <1>1 DEF DepositOk, DepositFails
      <3>6. QED  BY <3>2, <3>3, <3>4, <3>5
    <2>3. PICK s \in {"idle", "deposit", "retarget", "delete"} :
              Go(w, m, s) /\ (s = "delete" => DepositOk(w, m))
      BY <1>1, Zenon DEF DepositOk, DepositFails, AfterFailure
    <2>4. /\ stage' \in [Workers -> [Msgs -> Stages]]
          /\ stage'[w][m] = s
          /\ \A v \in Workers, k \in Msgs : v # w \/ k # m => stage'[v][k] = stage[v][k]
      BY <1>s, <1>t, <2>3, GoMoves
    <2>5. Sorts' /\ Spent'  BY <1>0, <2>1, <2>2, <2>4 DEF Sorts, Spent
    <2>6. AckTruth'  BY <1>0, <2>1, <2>3, <2>4, Zenon DEF AckTruth, Workers
    <2>7. \A k \in Msgs : Safe(k) => Safe(k)'  BY <2>1, <2>2, Zenon DEF Safe
    <2>8. s = "delete" => Safe(m)'  BY <2>2, <2>3, Zenon DEF Safe
    <2>9. Answered'
      <3>1. \A k \in Msgs : dropping'[k] # {} => surfaced'[k] > 0
        BY <1>0, <2>1, Zenon DEF Answered
      <3>2. \A v \in Workers, k \in Msgs :
                stage'[v][k] \in {"delete", "expire", "expireQuiet"} => Safe(k)'
        BY <1>0, <2>3, <2>4, <2>7, <2>8 DEF Answered
      <3>3. \A k \in stored' : row'[k] = "none" => Safe(k)'
        BY <1>0, <2>1, <2>7 DEF Answered, Sorts
      <3>4. QED  BY <3>1, <3>2, <3>3, SMTT(30) DEF Answered
    <2>10. QED  BY <2>5, <2>6, <2>9 DEF IInv
  <1>2. CASE DepositExpires(m, i) \/ PollDelete
    <2>1. UNCHANGED <<stored, row, delivered, failed, consumed, seen, surfaced, fetched,
                      stage, toB, toA, late>>
      BY <1>2 DEF DepositExpires, PollDelete
    <2>2. /\ box' \in [Msgs -> SUBSET Ids] /\ lapsed' \subseteq Msgs /\ lapsed \subseteq lapsed'
          /\ dropping' \in [Msgs -> SUBSET Ids]
          /\ \A k \in Msgs : dropping'[k] # {} => dropping[k] # {}
          /\ \A k \in Msgs : box[k] # {} => box'[k] # {} \/ k \in lapsed' \/ dropping[k] # {}
      <3>0. box \in [Msgs -> SUBSET Ids] /\ dropping \in [Msgs -> SUBSET Ids]
            /\ lapsed \subseteq Msgs
        BY <1>0 DEF Sorts
      <3>1. CASE DepositExpires(m, i)
        <4>1. /\ box' = [box EXCEPT ![m] = @ \ {i}]
              /\ lapsed' = lapsed \cup {m} /\ dropping' = dropping
          BY <3>1 DEF DepositExpires
        <4>2. box' \in [Msgs -> SUBSET Ids] /\ \A k \in Msgs \ {m} : box'[k] = box[k]
          BY <3>0, <4>1
        <4>3. QED  BY <3>0, <4>1, <4>2
      <3>2. CASE PollDelete
        <4>1. /\ box' = [k \in Msgs |-> box[k] \ dropping[k]]
              /\ lapsed' = lapsed /\ dropping' = [k \in Msgs |-> {}]
          BY <3>2, Zenon DEF PollDelete, None
        <4>2. /\ box' \in [Msgs -> SUBSET Ids]
              /\ \A k \in Msgs : box'[k] = box[k] \ dropping[k] /\ dropping'[k] = {}
          BY <3>0, <4>1
        <4>3. dropping' \in [Msgs -> SUBSET Ids]  BY <4>1
        <4>4. QED  BY <3>0, <4>1, <4>2, <4>3
      <3>3. QED  BY <1>2, <3>1, <3>2, Zenon
    <2>3. Sorts' /\ Spent'  BY <1>0, <2>1, <2>2 DEF Sorts, Spent
    <2>4. AckTruth'  BY <1>0, <2>1, Zenon DEF AckTruth
    <2>5. \A k \in Msgs : dropping[k] # {} => surfaced[k] > 0  BY <1>0, Zenon DEF Answered
    <2>6. \A k \in Msgs : Safe(k) => Safe(k)'  BY <2>1, <2>2, <2>5, Zenon DEF Safe
    <2>7. Answered'  BY <1>0, <2>1, <2>2, <2>5, <2>6, Zenon DEF Answered, Sorts
    <2>8. QED  BY <2>3, <2>4, <2>7 DEF IInv
  <1>3. QED  BY <1>1, <1>2

\* Acks in transit stay true while nothing surfaced is undone.
LEMMA AcksStay ==
  ASSUME Sorts, AckTruth, \A n \in Msgs : surfaced[n] > 0 => surfaced'[n] > 0
  PROVE  \A k \in 1..Len(toA) : surfaced'[toA[k]] > 0
  <1>1. toA \in Seq(Msgs)  BY DEF Sorts
  <1>2. SUFFICES ASSUME NEW k \in 1..Len(toA) PROVE surfaced'[toA[k]] > 0
    OBVIOUS
  <1>3. toA[k] \in Msgs  BY <1>1
  <1>4. surfaced[toA[k]] > 0  BY DEF AckTruth
  <1>5. QED  BY <1>3, <1>4

\* The recipient's steps: a frame, a late frame, a fetched deposit.
LEMMA RecipientSteps ==
  ASSUME IInv, NEW m \in Msgs, NEW i \in Ids,
         AppFrame \/ LateFrame(m) \/ PollDispatch(m, i)
  PROVE  IInv'
  <1> USE DEF boxVars, receiptVars, pollVars, wireVars, senderVars
  <1>0. Sorts /\ Spent /\ AckTruth /\ Answered  BY DEF IInv
  <1>1. UNCHANGED <<stored, row, delivered, failed, box, lapsed, stage>>
    BY Zenon DEF AppFrame, LateFrame, PollDispatch
  <1>2. SUFFICES
          /\ consumed' \subseteq Msgs /\ seen' \subseteq Msgs /\ surfaced' \in [Msgs -> Nat]
          /\ Spent'
          /\ \A n \in Msgs : surfaced[n] > 0 => surfaced'[n] > 0
          /\ toB' \in Seq(Msgs) /\ toA' \in Seq(Msgs) /\ late' \subseteq Msgs
          /\ \A k \in 1..Len(toA') : surfaced'[toA'[k]] > 0
          /\ fetched' \in [Msgs -> SUBSET Ids] /\ dropping' \in [Msgs -> SUBSET Ids]
          /\ \A n \in Msgs : dropping'[n] # {} => surfaced'[n] > 0
    <2>1. Sorts'  BY <1>0, <1>1, <1>2 DEF Sorts
    <2>2. AckTruth'  BY <1>0, <1>1, <1>2 DEF AckTruth, Sorts
    <2>3. \A n \in Msgs : Safe(n) => Safe(n)'  BY <1>1, <1>2, Zenon DEF Safe
    <2>4. Answered'  BY <1>0, <1>1, <1>2, <2>3 DEF Answered, Sorts
    <2>5. QED  BY <1>2, <2>1, <2>2, <2>4 DEF IInv
  <1>w. toA \in Seq(Msgs) /\ toB \in Seq(Msgs)  BY <1>0 DEF Sorts
  <1>3. CASE AppFrame
    <2>1. toB # <<>>  BY <1>3 DEF AppFrame
    <2>2. PICK n \in Msgs : n = Head(toB)  BY <1>w, <2>1
    <2>3. PICK o : /\ o = Outcome(n, TRUE) /\ Persist(n, Outcome(n, TRUE))
                   /\ toA' = IF Dispatched(o) THEN Append(toA, n) ELSE toA
                   /\ toB' = Tail(toB) /\ UNCHANGED <<late, fetched, dropping>>
      BY <1>3, <2>2, Zenon DEF AppFrame, Acks
    <2>4. /\ consumed' \subseteq Msgs /\ seen' \subseteq Msgs /\ surfaced' \in [Msgs -> Nat]
          /\ Spent'
          /\ \A k \in Msgs : surfaced[k] > 0 => surfaced'[k] > 0
          /\ Dispatched(o) => surfaced'[n] > 0
      BY <1>0, <2>3, PersistKeeps, Zenon
    <2>5. toB' \in Seq(Msgs) /\ toA' \in Seq(Msgs)
      <3>1. toB' \in Seq(Msgs)  BY <1>w, <2>1, <2>3
      <3>2. Append(toA, n) \in Seq(Msgs)  BY <1>w
      <3>3. QED  BY <1>w, <2>3, <3>1, <3>2, Zenon
    <2>6. \A k \in 1..Len(toA') : surfaced'[toA'[k]] > 0
      <3>1. \A k \in 1..Len(toA) : surfaced'[toA[k]] > 0
        BY <1>0, <2>4, AcksStay, Zenon
      <3>2. CASE Dispatched(o)
        <4>1. /\ Len(toA') = Len(toA) + 1 /\ toA'[Len(toA) + 1] = n
              /\ \A k \in 1..Len(toA) : toA'[k] = toA[k]
          BY <1>w, <2>3, <3>2
        <4>2. SUFFICES ASSUME NEW k \in 1..Len(toA') PROVE surfaced'[toA'[k]] > 0
          BY Zenon
        <4>3. k \in 1..Len(toA) \/ k = Len(toA) + 1
          <5>1. Len(toA) \in Nat  BY <1>w, SMTT(30)
          <5>2. QED  BY <4>1, <5>1
        <4>4. CASE k \in 1..Len(toA)
          <5>1. toA'[k] = toA[k]  BY <4>1, <4>4
          <5>2. surfaced'[toA[k]] > 0  BY <3>1, <4>4
          <5>3. QED  BY <5>1, <5>2, Zenon
        <4>5. CASE k = Len(toA) + 1
          <5>1. toA'[k] = n  BY <4>1, <4>5
          <5>2. surfaced'[n] > 0  BY <2>4, <3>2
          <5>3. QED  BY <5>1, <5>2
        <4>6. QED  BY <4>3, <4>4, <4>5
      <3>3. CASE ~Dispatched(o)  BY <2>3, <3>1, <3>3
      <3>4. QED  BY <3>2, <3>3
    <2>7. QED  BY <1>0, <2>3, <2>4, <2>5, <2>6, Zenon DEF Sorts, Answered
  <1>4. CASE LateFrame(m)
    <2>1. /\ late' \subseteq late /\ UNCHANGED <<toB, toA, fetched, dropping>>
          /\ Persist(m, Outcome(m, TRUE)) \/ UNCHANGED <<consumed, seen, surfaced>>
      BY <1>4, Zenon DEF LateFrame
    <2>2. /\ consumed' \subseteq Msgs /\ seen' \subseteq Msgs /\ surfaced' \in [Msgs -> Nat]
          /\ Spent'
          /\ \A k \in Msgs : surfaced[k] > 0 => surfaced'[k] > 0
      <3>1. CASE Persist(m, Outcome(m, TRUE))  BY <1>0, <3>1, PersistKeeps, Zenon
      <3>2. CASE UNCHANGED <<consumed, seen, surfaced>>  BY <1>0, <3>2 DEF Sorts, Spent
      <3>3. QED  BY <2>1, <3>1, <3>2, Zenon
    <2>3. \A k \in 1..Len(toA') : surfaced'[toA'[k]] > 0
      <3>1. \A k \in 1..Len(toA) : surfaced'[toA[k]] > 0  BY <1>0, <2>2, AcksStay, Zenon
      <3>2. QED  BY <2>1, <3>1, Zenon
    <2>4. QED  BY <1>0, <2>1, <2>2, <2>3 DEF Sorts, Answered
  <1>5. CASE PollDispatch(m, i)
    <2>1. PICK o : /\ o = Outcome(m, FALSE) /\ Persist(m, Outcome(m, FALSE))
                   /\ dropping' = IF Dispatched(o) THEN [dropping EXCEPT ![m] = @ \cup {i}]
                                  ELSE dropping
                   /\ fetched' = [fetched EXCEPT ![m] = @ \ {i}]
                   /\ UNCHANGED <<toB, toA, late>>
      BY <1>5, Zenon DEF PollDispatch
    <2>2. /\ consumed' \subseteq Msgs /\ seen' \subseteq Msgs /\ surfaced' \in [Msgs -> Nat]
          /\ Spent'
          /\ \A k \in Msgs : surfaced[k] > 0 => surfaced'[k] > 0
          /\ Dispatched(o) => surfaced'[m] > 0
      BY <1>0, <2>1, PersistKeeps, Zenon
    <2>3. /\ fetched' \in [Msgs -> SUBSET Ids] /\ dropping' \in [Msgs -> SUBSET Ids]
          /\ \A n \in Msgs : dropping'[n] # {} =>
                dropping[n] # {} \/ (n = m /\ Dispatched(o))
      BY <1>0, <2>1, Zenon DEF Sorts
    <2>4. \A n \in Msgs : dropping'[n] # {} => surfaced'[n] > 0
      BY <1>0, <2>2, <2>3, Zenon DEF Answered
    <2>5. \A k \in 1..Len(toA') : surfaced'[toA'[k]] > 0
      <3>1. \A k \in 1..Len(toA) : surfaced'[toA[k]] > 0  BY <1>0, <2>2, AcksStay, Zenon
      <3>2. QED  BY <2>1, <3>1, Zenon
    <2>6. QED  BY <1>0, <2>1, <2>2, <2>3, <2>4, <2>5, Zenon DEF Sorts
  <1>6. QED  BY <1>3, <1>4, <1>5

\* Every step keeps the invariant.
LEMMA NextIInv == IInv /\ [Next]_vars => IInv'
  <1> SUFFICES ASSUME IInv, [Next]_vars PROVE IInv'  OBVIOUS
  <1>1. CASE UNCHANGED vars
    <2>1. UNCHANGED <<restVars, stage, toB, toA, late>>
      BY <1>1 DEF vars, senderVars, wireVars, boxVars, receiptVars, pollVars, restVars
    <2>2. QED  BY <2>1, QuietStep DEF IInv, Sorts
  <1>2. CASE Next
    <2>0. "actor" \in Workers  BY DEF Workers
    <2>1. PICK m0 \in Msgs, i0 \in Ids : TRUE  BY BoundsAssumption
    <2>2. CASE Restart \/ CardChange \/ PollFetch \/ PollLost
      BY <2>1, <2>2, BackgroundQuiet
    <2>3. CASE AckFrame  BY <2>0, <2>1, <2>3, SenderSteps
    <2>4. CASE Disconnect  BY <2>1, <2>4, ActorQuiet
    <2>5. CASE AppFrame  BY <2>1, <2>5, RecipientSteps
    <2>6. CASE PollDelete  BY <2>0, <2>1, <2>6, MailboxSteps
    <2>7. ASSUME NEW S \in SUBSET Msgs, TickRead(S) \/ TickFails(S)
          PROVE  IInv'
      BY <2>1, <2>7, ActorQuiet
    <2>8. ASSUME NEW w \in Workers, NEW S \in SUBSET Msgs, SweepRead(w, S)
          PROVE  IInv'
      BY <2>1, <2>8, SweepQuiet
    <2>9. ASSUME NEW m \in Msgs, JobArm(m) \/ TickSend(m) \/ Evict(m)
          PROVE  IInv'
      BY <2>9, ActorQuiet
    <2>10. ASSUME NEW m \in Msgs, Send(m) \/ MarkDelivered(m) \/ MarkFailed(m)
           PROVE  IInv'
      BY <2>0, <2>10, SenderSteps
    <2>11. ASSUME NEW m \in Msgs, EmitDelivered(m) \/ EmitFailed(m)
           PROVE  IInv'
      BY <2>0, <2>11, SweepQuiet
    <2>12. ASSUME NEW m \in Msgs, LateFrame(m) \/ Forget(m) \/ Expire(m) \/ LeavesWindow(m)
           PROVE  IInv'
      BY <2>1, <2>12, RecipientSteps, BackgroundQuiet
    <2>13. ASSUME NEW w \in Workers, NEW m \in Msgs, Decide(w, m) \/ EmitDeposited(w, m)
           PROVE  IInv'
      BY <2>13, SweepQuiet
    <2>14. ASSUME NEW w \in Workers, NEW m \in Msgs, Retarget(w, m) \/ DeleteRow(w, m)
           PROVE  IInv'
      BY <2>14, SenderSteps
    <2>15. ASSUME NEW w \in Workers, NEW m \in Msgs, DepositOk(w, m) \/ DepositFails(w, m)
           PROVE  IInv'
      BY <2>1, <2>15, MailboxSteps
    <2>16. ASSUME NEW m \in Msgs, NEW i \in Ids, PollDispatch(m, i) \/ DepositExpires(m, i)
           PROVE  IInv'
      BY <2>0, <2>16, RecipientSteps, MailboxSteps
    <2>17. QED
      BY <1>2, <2>2, <2>3, <2>4, <2>5, <2>6, <2>7, <2>8, <2>9, <2>10, <2>11, <2>12, <2>13,
         <2>14, <2>15, <2>16 DEF Next
  <1>3. QED  BY <1>1, <1>2

LEMMA AlwaysIInv == Spec => []IInv
  BY InitIInv, NextIInv, PTL DEF Spec

\* delivered_at is set only for messages the recipient has persisted, whatever
\* is lost, repeated or raced (Frame::Ack arm, message_delivered).
THEOREM DeliveryReceipts == Spec => []DeliveredIsTrue
  <1>1. IInv => DeliveredIsTrue  BY DEF IInv, AckTruth, DeliveredIsTrue
  <1>2. QED  BY <1>1, AlwaysIInv, PTL

\* The recipient surfaces a message at most once, also when its dedup row and
\* its history row are gone (dispatch_for_group, receive_in_tx).
THEOREM AtMostOnce == Spec => []SurfacedAtMostOnce
  <1>1. IInv => SurfacedAtMostOnce  BY DEF IInv, Spent, SurfacedAtMostOnce
  <1>2. QED  BY <1>1, AlwaysIInv, PTL

\* Three concurrent depositors, a sweep that gives up, Acks, card changes and
\* restarts never make a row disappear without someone answering for the
\* message (run_mailbox_fallback, redeposit_mailbox_row, run_outbox_sweep).
THEOREM NoSilentLoss == Spec => []NothingLostSilently
  <1>1. IInv => NothingLostSilently
    BY DEF IInv, Answered, Safe, Sorts, NothingLostSilently
  <1>2. QED  BY <1>1, AlwaysIInv, PTL

-----------------------------------------------------------------------------
(* What the user is told *)

\* The message is where it was deposited, or was there for its whole ttl, or
\* the recipient has it.
Held(m) == box[m] # {} \/ m \in lapsed \/ surfaced[m] > 0

\* What must have happened before a worker reaches a stage with m, or before
\* the user interface is told a status of m.
Earned(m, s) ==
    /\ s \in {"markDelivered", "emitDelivered", "Delivered"} => surfaced[m] > 0
    /\ s \in {"delete", "emitDeposited", "Deposited"} => Held(m)
    /\ s \in {"expire", "emitFailed", "Failed"} => m \in failed

Told ==
    /\ shown = [m \in Msgs |-> shown[m]]
    /\ \A m \in Msgs : Earned(m, shown[m])
    /\ \A w \in Workers, m \in Msgs : Earned(m, stage[w][m])

\* What has been earned stays earned.
Lasting == \A m \in Msgs : \A s : Earned(m, s) => Earned(m, s)'

LEMMA LastsIf ==
    ASSUME failed \subseteq failed',
           \A m \in Msgs : surfaced[m] > 0 => surfaced'[m] > 0,
           \A m \in Msgs : Held(m) => Held(m)'
    PROVE  Lasting
BY Zenon DEF Lasting, Earned

LEMMA Same ==
    ASSUME UNCHANGED <<failed, surfaced, box, lapsed>> PROVE Lasting
<1>1. \A m \in Msgs : Held(m) => Held(m)'
      BY DEF Held
<1> QED BY <1>1, LastsIf

\* A step that tells nothing, and moves each worker to a stage it has earned.
LEMMA ToldStep ==
    ASSUME Told, Lasting, UNCHANGED shown,
           \A w \in Workers, m \in Msgs :
               stage'[w][m] = stage[w][m] \/ Earned(m, stage[w][m])'
    PROVE  Told'
<1>1. \A m \in Msgs : Earned(m, shown[m])'
      BY Zenon DEF Told, Lasting
<1>2. \A w \in Workers, m \in Msgs : Earned(m, stage[w][m])'
      BY Zenon DEF Told, Lasting
<1> QED BY <1>1, <1>2, Zenon DEF Told

LEMMA NothingToEarn ==
    ASSUME NEW m, NEW s \in {"idle", "due", "read", "retarget", "deposit", "mark", "expireQuiet",
                             "Queued"}
    PROVE  Earned(m, s) /\ Earned(m, s)'
BY DEF Earned

\* One worker moves with one message.
LEMMA ToldGo ==
    ASSUME Sorts, Told, Lasting, UNCHANGED shown, NEW w \in Workers, NEW m \in Msgs,
           NEW s \in Stages, Go(w, m, s), Earned(m, s)'
    PROVE  Told'
<1>1. /\ stage'[w][m] = s
      /\ \A v \in Workers, n \in Msgs : v # w \/ n # m => stage'[v][n] = stage[v][n]
      BY GoMoves DEF Sorts
<1> QED BY <1>1, ToldStep, Zenon

\* A worker reads a batch.
LEMMA ToldBatch ==
    ASSUME Sorts, Told, Lasting, UNCHANGED shown, NEW w \in Workers, NEW S \in SUBSET Msgs,
           NEW s \in {"due", "read"},
           stage' = [stage EXCEPT ![w] = [m \in Msgs |-> IF m \in S THEN s ELSE "idle"]]
    PROVE  Told'
<1>1. /\ \A n \in Msgs : stage'[w][n] \in {s, "idle"}
      /\ \A v \in Workers \ {w} : stage'[v] = stage[v]
      BY BatchMoves DEF Sorts
<1>2. \A n \in Msgs : Earned(n, stage[w][n])'
      BY <1>1, NothingToEarn
<1> QED BY <1>1, <1>2, ToldStep, Zenon

\* An event about m has been earned by the worker that emits it.
LEMMA ToldEmit ==
    ASSUME Sorts, Told, NEW w \in Workers, NEW m \in Msgs, NEW from, NEW status,
           Emit(w, m, from, status), Earned(m, from) => Earned(m, status)
    PROVE  Told'
<1>1. Lasting
      BY Same DEF Emit, boxVars, receiptVars
<1>2. PICK i \in Stages : i = "idle"
      BY DEF Stages
<1>3. /\ stage'[w][m] = "idle"
      /\ \A v \in Workers, n \in Msgs : v # w \/ n # m => stage'[v][n] = stage[v][n]
      BY <1>2, GoMoves DEF Sorts, Emit
<1>4. \A v \in Workers, n \in Msgs : Earned(n, stage[v][n])'
      BY <1>1, <1>3, NothingToEarn DEF Told, Lasting
<1>5. shown' = [n \in Msgs |-> IF n = m THEN status ELSE shown[n]]
      BY DEF Told, Emit
<1>6. Earned(m, status)
      BY DEF Told, Emit
<1>7. \A n \in Msgs : Earned(n, shown[n])'
      BY <1>1, <1>5, <1>6 DEF Told, Lasting
<1> QED BY <1>4, <1>5, <1>7 DEF Told

\* dispatch_for_group never takes back what was surfaced.
LEMMA PersistLasts ==
    ASSUME Sorts, Spent, NEW m \in Msgs, NEW direct \in BOOLEAN, Persist(m, Outcome(m, direct)),
           UNCHANGED <<failed, box, lapsed>>
    PROVE  Lasting
<1>1. \A n \in Msgs : surfaced[n] > 0 => surfaced'[n] > 0
      BY PersistKeeps
<1>2. \A n \in Msgs : Held(n) => Held(n)'
      BY <1>1, Zenon DEF Held
<1> QED BY <1>1, <1>2, LastsIf

LEMMA StagesToldOf ==
    {"idle", "due", "read", "retarget", "deposit", "mark", "expire", "expireQuiet", "delete",
     "emitDeposited", "emitFailed", "markDelivered", "emitDelivered"} \subseteq Stages
    /\ {"actor", "outbox"} \subseteq Workers
BY DEF Stages, Workers

\* Steps that move no worker and tell nothing.
LEMMA ToldFrame ==
    ASSUME Told, Lasting, UNCHANGED <<shown, stage>> PROVE Told'
BY ToldStep

LEMMA ToldActor ==
    ASSUME IInv, Told, NEW m \in Msgs, NEW S \in SUBSET Msgs,
           \/ Send(m) \/ JobArm(m) \/ TickSend(m) \/ Evict(m) \/ TickRead(S) \/ TickFails(S)
           \/ AckFrame \/ MarkDelivered(m) \/ Disconnect
    PROVE  Told'
<1> USE DEF boxVars, receiptVars
<1>s. Sorts /\ AckTruth
      BY DEF IInv
<1>l. Lasting /\ shown' = shown
      BY Same, Zenon DEF Send, JobArm, TickSend, Evict, TickRead, TickFails, AckFrame, MarkDelivered,
                  Disconnect
<1>1. CASE Send(m) \/ JobArm(m) \/ Evict(m) \/ Disconnect
      BY <1>1, <1>l, ToldFrame, Zenon DEF Send, JobArm, Evict, Disconnect
<1>2. CASE TickSend(m)
      BY <1>2, <1>l, <1>s, ToldGo, NothingToEarn, StagesToldOf, Zenon DEF TickSend
<1>3. CASE TickRead(S)
      BY <1>3, <1>l, <1>s, ToldBatch, StagesToldOf, Zenon DEF TickRead
<1>4. CASE TickFails(S)
      BY <1>4, <1>l, <1>s, ToldBatch, StagesToldOf, Zenon DEF TickFails
<1>5. CASE AckFrame
  <2>1. toA # <<>> /\ toA \in Seq(Msgs)
        BY <1>s, <1>5 DEF AckFrame, Sorts
  <2>2. PICK n \in Msgs : n = Head(toA)
        BY <2>1
  <2>3. surfaced[n] > 0
        BY <1>s, <2>1, <2>2 DEF AckTruth
  <2>4. AckRow(n) /\ surfaced' = surfaced
        BY <1>5, <2>2 DEF AckFrame
  <2>5. CASE UNCHANGED stage
        BY <1>l, <2>5, ToldFrame
  <2>6. CASE Go("actor", n, "markDelivered")
    <3>1. Earned(n, "markDelivered")'
          BY <2>3, <2>4 DEF Earned
    <3> QED BY <1>l, <1>s, <2>6, <3>1, ToldGo, StagesToldOf
  <2> QED BY <2>4, <2>5, <2>6 DEF AckRow
<1>6. CASE MarkDelivered(m)
  <2>1. surfaced[m] > 0 /\ surfaced' = surfaced
        BY <1>s, <1>6, Zenon DEF MarkDelivered, AckTruth
  <2>2. PICK s \in {"idle", "emitDelivered"} : Go("actor", m, s)
        BY <1>6, Zenon DEF MarkDelivered
  <2>3. Earned(m, s)'
        BY <2>1, <2>2 DEF Earned
  <2> QED BY <1>l, <1>s, <2>2, <2>3, ToldGo, StagesToldOf
<1> QED BY <1>1, <1>2, <1>3, <1>4, <1>5, <1>6

LEMMA ToldSweeps ==
    ASSUME IInv, Told, NEW w \in Workers, NEW m \in Msgs, NEW S \in SUBSET Msgs,
           \/ SweepRead(w, S) \/ Decide(w, m) \/ Retarget(w, m) \/ DeleteRow(w, m)
           \/ MarkFailed(m) \/ DepositOk(w, m) \/ DepositFails(w, m)
    PROVE  Told'
<1> USE DEF boxVars, receiptVars
<1>s. Sorts
      BY DEF IInv
<1>1. CASE SweepRead(w, S)
  <2>1. Lasting /\ shown' = shown
        BY <1>1, Same DEF SweepRead
  <2> QED BY <1>1, <1>s, <2>1, ToldBatch, Zenon DEF SweepRead
<1>2. CASE Decide(w, m)
  <2>1. Lasting /\ shown' = shown
        BY <1>2, Same, Zenon DEF Decide
  <2>2. PICK s \in {"deposit", "retarget", "mark", "idle"} : Go(w, m, s)
        BY <1>2 DEF Decide, Chosen
  <2> QED BY <1>s, <2>1, <2>2, ToldGo, NothingToEarn, StagesToldOf
<1>3. CASE Retarget(w, m)
  <2>1. Lasting /\ shown' = shown
        BY <1>3, Same, Zenon DEF Retarget
  <2>2. PICK s \in {"deposit", "idle"} : Go(w, m, s)
        BY <1>3, Zenon DEF Retarget
  <2> QED BY <1>s, <2>1, <2>2, ToldGo, NothingToEarn, StagesToldOf
<1>4. CASE DeleteRow(w, m)
  <2>1. Lasting /\ shown' = shown
        BY <1>4, Same DEF DeleteRow
  <2>2. PICK s \in {"emitDeposited", "emitFailed", "idle"} :
            /\ Go(w, m, s)
            /\ s = "emitDeposited" => stage[w][m] = "delete"
            /\ s = "emitFailed" => stage[w][m] = "expire"
        BY <1>4 DEF DeleteRow
  <2>3. Earned(m, s)
        BY <2>2 DEF Told, Earned
  <2>4. Earned(m, s)'
        BY <2>1, <2>3 DEF Lasting
  <2> QED BY <1>s, <2>1, <2>2, <2>4, ToldGo, StagesToldOf, Zenon
<1>5. CASE MarkFailed(m)
  <2>1. /\ failed' = failed \cup ({m} \ delivered) /\ shown' = shown
        /\ UNCHANGED <<surfaced, box, lapsed>>
        BY <1>5, Zenon DEF MarkFailed, Marked
  <2>2. Lasting
    <3>1. \A n \in Msgs : Held(n) => Held(n)'
          BY <2>1, Zenon DEF Held
    <3> QED BY <2>1, <3>1, LastsIf
  <2>3. PICK s \in {"expireQuiet", "expire"} : Go("outbox", m, s) /\ (s = "expire" => m \notin delivered)
        BY <1>5, Zenon DEF MarkFailed
  <2>4. Earned(m, s)'
        BY <2>1, <2>3 DEF Earned
  <2> QED BY <1>s, <2>1, <2>2, <2>3, <2>4, ToldGo, StagesToldOf
<1>6. CASE DepositOk(w, m) \/ DepositFails(w, m)
  <2>1. /\ UNCHANGED <<failed, surfaced, lapsed, shown>>
        /\ box \in [Msgs -> SUBSET Ids]
        BY <1>6, <1>s DEF DepositOk, DepositFails, Sorts
  <2>2. Deposited(m) =>
            box'[m] # {} /\ \A n \in Msgs : box[n] \subseteq box'[n]
        BY <2>1, Zenon DEF Deposited
  <2>3. \A n \in Msgs : box[n] \subseteq box'[n]
        BY <1>6, <2>2, Zenon DEF DepositOk, DepositFails
  <2>4. \A n \in Msgs : Held(n) => Held(n)'
        BY <2>1, <2>3, Zenon DEF Held
  <2>5. Lasting
        BY <2>1, <2>4, LastsIf
  <2>6. CASE DepositOk(w, m)
    <3>1. Earned(m, "delete")'
          BY <2>2, <2>6, Zenon DEF DepositOk, Earned, Held
    <3> QED BY <1>s, <2>1, <2>5, <2>6, <3>1, ToldGo, StagesToldOf, Zenon DEF DepositOk
  <2>7. CASE DepositFails(w, m)
    <3>1. PICK s \in {"deposit", "retarget", "idle"} : Go(w, m, s)
          BY <2>7, Zenon DEF DepositFails, AfterFailure
    <3> QED BY <1>s, <2>1, <2>5, <3>1, ToldGo, NothingToEarn, StagesToldOf
  <2> QED BY <1>6, <2>6, <2>7, SMTT(30)
<1> QED BY <1>1, <1>2, <1>3, <1>4, <1>5, <1>6

\* The status map after a restart is read from the marks in the table.
LEMMA ToldRestart == ASSUME IInv, Told, Restart PROVE Told'
<1> USE DEF boxVars, receiptVars
<1>1. Lasting
      BY Same DEF Restart
<1>2. stage' = Idle
      BY DEF Restart
<1>3. \A w \in Workers, m \in Msgs : Earned(m, stage[w][m])'
      BY <1>2, NothingToEarn DEF Idle
<1>4. shown' = [m \in Msgs |-> IF m \in delivered THEN "Delivered"
                                ELSE IF m \in failed THEN "Failed" ELSE "Queued"]
      BY DEF Restart
<1>5. \A m \in delivered : surfaced[m] > 0
      BY DEF IInv, AckTruth
<1>6. ASSUME NEW m \in Msgs PROVE Earned(m, shown'[m])
      BY <1>4, <1>5 DEF Earned
<1>7. \A m \in Msgs : Earned(m, shown[m])'
      BY <1>1, <1>6 DEF Lasting
<1> QED BY <1>3, <1>4, <1>7 DEF Told

\* The steps beside the sender's: none tells the user anything.
LEMMA ToldBeside ==
    ASSUME IInv, Told, NEW m \in Msgs, NEW i \in Ids,
           \/ CardChange \/ AppFrame \/ PollFetch \/ PollDelete \/ PollLost
           \/ PollDispatch(m, i) \/ DepositExpires(m, i) \/ LateFrame(m) \/ Forget(m)
           \/ Expire(m) \/ LeavesWindow(m)
    PROVE  Told'
<1> USE DEF boxVars, receiptVars, senderVars
<1>s. Sorts /\ Spent /\ Answered
      BY DEF IInv
<1>1. UNCHANGED <<shown, stage, failed>>
      BY Zenon DEF CardChange, AppFrame, PollFetch, PollDelete, PollLost, PollDispatch,
             DepositExpires, LateFrame, Forget, Expire, LeavesWindow
<1>2. CASE CardChange \/ PollFetch \/ PollLost \/ Forget(m) \/ Expire(m) \/ LeavesWindow(m)
      BY <1>1, <1>2, Same, ToldFrame, Zenon DEF CardChange, PollFetch, PollLost, Forget, Expire,
             LeavesWindow
<1>3. CASE AppFrame
  <2>1. toB # <<>> /\ toB \in Seq(Msgs)
        BY <1>s, <1>3 DEF AppFrame, Sorts
  <2>2. PICK n \in Msgs : n = Head(toB)
        BY <2>1
  <2>3. Persist(n, Outcome(n, TRUE)) /\ UNCHANGED <<failed, box, lapsed>>
        BY <1>1, <1>3, <2>2, Zenon DEF AppFrame
  <2> QED BY <1>1, <1>s, <2>3, PersistLasts, ToldFrame, Zenon
<1>4. CASE LateFrame(m)
  <2>1. UNCHANGED <<failed, box, lapsed>>
        BY <1>4 DEF LateFrame
  <2>2. Persist(m, Outcome(m, TRUE)) \/ UNCHANGED surfaced
        BY <1>4, Zenon DEF LateFrame
  <2> QED BY <1>1, <1>s, <2>1, <2>2, PersistLasts, Same, ToldFrame, Zenon
<1>5. CASE PollDispatch(m, i)
  <2>1. Persist(m, Outcome(m, FALSE)) /\ UNCHANGED <<failed, box, lapsed>>
        BY <1>5, Zenon DEF PollDispatch
  <2> QED BY <1>1, <1>s, <2>1, PersistLasts, ToldFrame, Zenon
<1>6. CASE PollDelete
  <2>1. UNCHANGED <<failed, surfaced, lapsed>> /\ box' = [n \in Msgs |-> box[n] \ dropping[n]]
        BY <1>6, Zenon DEF PollDelete
  <2>2. \A n \in Msgs : dropping[n] # {} => surfaced[n] > 0
        BY <1>s, Zenon DEF Answered
  <2>3. \A n \in Msgs : Held(n) => Held(n)'
        BY <2>1, <2>2, Zenon DEF Held
  <2> QED BY <1>1, <2>1, <2>3, LastsIf, ToldFrame, Zenon
<1>7. CASE DepositExpires(m, i)
  <2>1. /\ UNCHANGED <<failed, surfaced>> /\ lapsed' = lapsed \cup {m}
        /\ box' = [box EXCEPT ![m] = @ \ {i}] /\ box \in [Msgs -> SUBSET Ids]
        BY <1>7, <1>s DEF DepositExpires, Sorts
  <2>2. \A n \in Msgs : Held(n) => Held(n)'
        BY <2>1 DEF Held
  <2> QED BY <1>1, <2>1, <2>2, LastsIf, ToldFrame
<1> QED BY <1>2, <1>3, <1>4, <1>5, <1>6, <1>7

LEMMA ToldEvents ==
    ASSUME IInv, Told, NEW w \in Workers, NEW m \in Msgs,
           EmitDelivered(m) \/ EmitFailed(m) \/ EmitDeposited(w, m)
    PROVE  Told'
<1>1. Sorts
      BY DEF IInv
<1>2. /\ Earned(m, "emitDelivered") => Earned(m, "Delivered")
      /\ Earned(m, "emitFailed") => Earned(m, "Failed")
      /\ Earned(m, "emitDeposited") => Earned(m, "Deposited")
      BY DEF Earned
<1> QED BY <1>1, <1>2, ToldEmit, StagesToldOf DEF EmitDelivered, EmitFailed, EmitDeposited

LEMMA ToldNext == ASSUME IInv, Told, [Next]_vars PROVE Told'
<1>0. PICK m0 \in Msgs, i0 \in Ids : TRUE
      BY BoundsAssumption
<1>1. CASE UNCHANGED vars
      BY <1>1, Same, ToldFrame DEF vars, senderVars, boxVars, receiptVars
<1>2. ASSUME NEW m \in Msgs, NEW S \in SUBSET Msgs,
             \/ Send(m) \/ JobArm(m) \/ TickSend(m) \/ Evict(m) \/ TickRead(S) \/ TickFails(S)
             \/ AckFrame \/ MarkDelivered(m) \/ Disconnect
      PROVE  Told'
      BY <1>2, ToldActor
<1>3. ASSUME NEW w \in Workers, NEW m \in Msgs, NEW S \in SUBSET Msgs,
             \/ SweepRead(w, S) \/ Decide(w, m) \/ Retarget(w, m) \/ DeleteRow(w, m)
             \/ MarkFailed(m) \/ DepositOk(w, m) \/ DepositFails(w, m)
      PROVE  Told'
      BY <1>3, ToldSweeps
<1>4. ASSUME NEW w \in Workers, NEW m \in Msgs,
             EmitDelivered(m) \/ EmitFailed(m) \/ EmitDeposited(w, m)
      PROVE  Told'
      BY <1>4, ToldEvents
<1>5. ASSUME NEW m \in Msgs, NEW i \in Ids,
             \/ CardChange \/ AppFrame \/ PollFetch \/ PollDelete \/ PollLost
             \/ PollDispatch(m, i) \/ DepositExpires(m, i) \/ LateFrame(m) \/ Forget(m)
             \/ Expire(m) \/ LeavesWindow(m)
      PROVE  Told'
      BY <1>5, ToldBeside
<1>6. "actor" \in Workers /\ {} \in SUBSET Msgs
      BY DEF Workers
<1>7. ASSUME NEW m \in Msgs, Send(m) \/ JobArm(m) \/ TickSend(m) \/ Evict(m) PROVE Told'
      BY <1>2, <1>6, <1>7, Zenon
<1>8. ASSUME NEW S \in SUBSET Msgs, TickRead(S) \/ TickFails(S) PROVE Told'
      BY <1>0, <1>2, <1>8, Zenon
<1>9. CASE AckFrame \/ Disconnect
      BY <1>0, <1>2, <1>6, <1>9, Zenon
<1>10. ASSUME NEW m \in Msgs,
              MarkDelivered(m) \/ EmitDelivered(m) \/ MarkFailed(m) \/ EmitFailed(m)
       PROVE  Told'
      BY <1>2, <1>3, <1>4, <1>6, <1>10, Zenon
<1>11. ASSUME NEW w \in Workers, NEW S \in SUBSET Msgs, SweepRead(w, S) PROVE Told'
      BY <1>0, <1>3, <1>11, Zenon
<1>12. ASSUME NEW w \in Workers, NEW m \in Msgs,
              \/ Decide(w, m) \/ Retarget(w, m) \/ DepositOk(w, m) \/ DepositFails(w, m)
              \/ DeleteRow(w, m) \/ EmitDeposited(w, m)
       PROVE  Told'
      BY <1>3, <1>4, <1>6, <1>12, Zenon
<1>13. CASE Restart
      BY <1>13, ToldRestart
<1>14. CASE CardChange \/ AppFrame \/ PollFetch \/ PollDelete \/ PollLost
      BY <1>0, <1>5, <1>14, Zenon
<1>15. ASSUME NEW m \in Msgs, NEW i \in Ids, PollDispatch(m, i) \/ DepositExpires(m, i)
       PROVE  Told'
      BY <1>5, <1>15, Zenon
<1>16. ASSUME NEW m \in Msgs, LateFrame(m) \/ Forget(m) \/ Expire(m) \/ LeavesWindow(m)
       PROVE  Told'
      BY <1>0, <1>5, <1>16, Zenon
<1> QED BY <1>1, <1>7, <1>8, <1>9, <1>10, <1>11, <1>12, <1>13, <1>14, <1>15, <1>16, Zenon
        DEF Next

LEMMA ToldInit == Init => Told
<1> SUFFICES ASSUME Init PROVE Told
    OBVIOUS
<1>1. shown = [m \in Msgs |-> "Queued"] /\ stage = Idle
      BY DEF Init
<1>2. \A m \in Msgs : Earned(m, shown[m])
      BY <1>1, NothingToEarn
<1>3. \A w \in Workers, m \in Msgs : Earned(m, stage[w][m])
      BY <1>1, NothingToEarn DEF Idle
<1> QED BY <1>1, <1>2, <1>3 DEF Told

\* No status the user is shown is untrue, whatever the order in which the
\* events of three workers reach the map and wherever the sender restarts.
THEOREM StatusIsTrue == Spec => []ShownIsTrue
<1>1. Told => ShownIsTrue
      BY DEF Told, Earned, Held, ShownIsTrue
<1>2. IInv /\ Told /\ [Next]_vars => Told'
      BY ToldNext
<1> QED BY <1>1, <1>2, AlwaysIInv, ToldInit, PTL DEF Spec

=============================================================================
