---------------------------- MODULE ActorProofs ----------------------------
(***************************************************************************)
(* Proofs about the actors of the daemon.                                  *)
(*                                                                         *)
(* PeerActor, for any sets of messages and Welcomes and any backoff        *)
(* ladder: what is in flight, who is waiting, and what a step may not do.  *)
(*                                                                         *)
(* MailboxPolling, for any sets of mailboxes, deposits and clients and any *)
(* limits of the servers: what is deleted from a mailbox has been          *)
(* persisted, and a card version is signed once.                           *)
(***************************************************************************)
EXTENDS PeerActor, MailboxPolling, TLAPS

-----------------------------------------------------------------------------
(* PeerActor                                                               *)

\* The invariants below are inductive together: the timer invariant needs
\* that nothing is in flight without a connection, because a failed dial arms
\* the timer without draining.
IInv ==
    /\ TypeOK
    /\ PendingOnThisConn
    /\ ArmedMeansNothingInFlight
    /\ CallersAreOwned
    /\ AckedRowGone

\* A rung of the ladder stays within the backoff table (the min in full_run).
LEMMA NextRungType == \A l \in Ladders : NextRung(l) \in Ladders
BY StepAssumption DEF NextRung, Ladders

LEMMA FreshLadderType == FreshLadder \in Ladders
BY StepAssumption DEF FreshLadder, Ladders

LEMMA InitIInv == Init => IInv
<1> SUFFICES ASSUME Init PROVE IInv
  OBVIOUS
<1>1. TypeOK
  <2>1. restarts \in 0..MaxRestarts
    BY StepAssumption DEF Init
  <2>2. row \in [Msgs -> RowStates] /\ ticket \in [Ids -> TicketStates]
    BY DEF Init, RowStates, TicketStates
  <2> QED
    BY <2>1, <2>2, FreshLadderType, Zenon DEF Init, ActorInit, TypeOK
<1>2. PendingOnThisConn /\ ArmedMeansNothingInFlight
  BY DEF Init, ActorInit, PendingOnThisConn, ArmedMeansNothingInFlight
<1>3. CallersAreOwned
  BY DEF Init, ActorInit, CallersAreOwned
<1>4. AckedRowGone
  BY DEF Init, AckedRowGone, Ids
<1> QED
  BY <1>1, <1>2, <1>3, <1>4 DEF IInv

\* Dropping the connection (conn = None and drain_pending), or replacing it,
\* leaves no caller waiting; t is a caller table whose waiting callers are
\* those of live, and which tells Ok only where ticket does.
LEMMA DrainLemma ==
    ASSUME IInv, NEW t \in [Ids -> TicketStates], Drain(t),
           \A i \in Ids : t[i] = "flight" => i \in live,
           \A i \in Ids : t[i] = "ok" => ticket[i] = "ok"
    PROVE  /\ written' = {} /\ pending' = {} /\ live' = {} /\ aged' = {}
           /\ ticket' \in [Ids -> TicketStates]
           /\ \A i \in Ids : ticket'[i] # "flight"
           /\ \A m \in Msgs : ticket'[m] = "ok" => ticket[m] = "ok"
BY DEF Drain, Drained, TicketStates, Ids, IInv, TypeOK

LEMMA DrainTicket ==
    ASSUME IInv, Drain(ticket)
    PROVE  /\ written' = {} /\ pending' = {} /\ live' = {} /\ aged' = {}
           /\ ticket' \in [Ids -> TicketStates]
           /\ \A i \in Ids : ticket'[i] # "flight"
           /\ \A m \in Msgs : ticket'[m] = "ok" => ticket[m] = "ok"
<1>1. /\ ticket \in [Ids -> TicketStates]
      /\ \A i \in Ids : ticket[i] = "flight" => i \in live
  BY DEF IInv, TypeOK, CallersAreOwned
<1> QED
  BY <1>1, DrainLemma

\* The types of the variables an arm may change apart from pending and its
\* callers; each arm below establishes them and the matching part of IInv.
ScalarTypes ==
    /\ conn \in BOOLEAN /\ idle \in BOOLEAN /\ pongLate \in BOOLEAN
    /\ failure \in {"none", "armed", "elapsed"}
    /\ pong \in {"none", "own", "stale"}
    /\ outboxDial \in Ladders /\ chunkDial \in Ladders

\* An arm that drains pending and leaves the outbox alone keeps IInv.
LEMMA DrainingArm ==
    ASSUME IInv, ScalarTypes',
           NEW t \in [Ids -> TicketStates], Drain(t),
           \A i \in Ids : t[i] = "flight" => i \in live,
           \A i \in Ids : t[i] = "ok" => ticket[i] = "ok",
           UNCHANGED <<row, delivered, restarts>>
    PROVE  IInv'
<1>1. /\ written' = {} /\ pending' = {} /\ live' = {} /\ aged' = {}
      /\ ticket' \in [Ids -> TicketStates]
      /\ \A i \in Ids : ticket'[i] # "flight"
      /\ \A m \in Msgs : ticket'[m] = "ok" => ticket[m] = "ok"
  BY DrainLemma
<1>2. TypeOK'
  BY <1>1 DEF IInv, TypeOK, ScalarTypes
<1>3. PendingOnThisConn' /\ ArmedMeansNothingInFlight'
  BY <1>1 DEF PendingOnThisConn, ArmedMeansNothingInFlight
<1>4. CallersAreOwned'
  BY <1>1 DEF CallersAreOwned
<1>5. AckedRowGone'
  BY <1>1 DEF IInv, AckedRowGone
<1> QED
  BY <1>2, <1>3, <1>4, <1>5 DEF IInv

\* An arm that touches neither pending, the callers nor the outbox keeps IInv
\* if it leaves the connection up or down and does not arm the timer.
LEMMA QuietArm ==
    ASSUME IInv, ScalarTypes', conn' = conn,
           failure' # "none" => failure # "none",
           UNCHANGED <<written, pending, live, ticket, row, delivered, restarts>>,
           aged' \subseteq pending
    PROVE  IInv'
<1>1. TypeOK'
  BY DEF IInv, TypeOK, ScalarTypes
<1>2. PendingOnThisConn' /\ ArmedMeansNothingInFlight'
  BY DEF IInv, PendingOnThisConn, ArmedMeansNothingInFlight
<1>3. CallersAreOwned' /\ AckedRowGone'
  BY DEF IInv, CallersAreOwned, AckedRowGone
<1> QED
  BY <1>1, <1>2, <1>3 DEF IInv

LEMMA CallerSteps ==
    ASSUME IInv,
           \/ \E m \in Msgs : Enqueue(m) \/ Submit(m) \/ SweepRow(m) \/ RowComesDue(m)
           \/ \E w \in Welcomes : SubmitWelcome(w)
    PROVE  IInv'
<1> USE DEF IInv, TypeOK, PendingOnThisConn, ArmedMeansNothingInFlight,
            CallersAreOwned, AckedRowGone, actorVars, Told, Ids
<1>1. ASSUME NEW m \in Msgs, Enqueue(m) PROVE IInv'
  BY <1>1 DEF Enqueue, RowStates, TicketStates
<1>2. ASSUME NEW m \in Msgs, Submit(m) PROVE IInv'
  BY <1>2 DEF Submit, TicketStates
<1>3. ASSUME NEW m \in Msgs, SweepRow(m) PROVE IInv'
  BY <1>3 DEF SweepRow, RowStates
<1>4. ASSUME NEW m \in Msgs, RowComesDue(m) PROVE IInv'
  BY <1>4 DEF RowComesDue, RowStates
<1>5. ASSUME NEW w \in Welcomes, SubmitWelcome(w) PROVE IInv'
  BY <1>5, IdsAssumption DEF SubmitWelcome, TicketStates
<1> QED
  BY <1>1, <1>2, <1>3, <1>4, <1>5

LEMMA SendArmStep ==
    ASSUME IInv, NEW i \in Ids, SendArm(i)
    PROVE  IInv'
<1>1. ticket[i] = "queued" /\ UNCHANGED <<row, delivered, restarts>>
  BY DEF SendArm
<1>2. ScalarTypes
  BY DEF IInv, TypeOK, ScalarTypes
<1>3. CASE DialFails(i)
  <2>1. pending = {} /\ live = {}
    BY <1>3 DEF DialFails, IInv, PendingOnThisConn, TypeOK
  <2>2. TypeOK'
    BY <1>1, <1>3, <2>1 DEF DialFails, IInv, TypeOK, Told, Armed, TicketStates
  <2>3. PendingOnThisConn' /\ ArmedMeansNothingInFlight'
    BY <1>3, <2>1 DEF DialFails, PendingOnThisConn, ArmedMeansNothingInFlight
  <2>4. CallersAreOwned' /\ AckedRowGone'
    BY <1>1, <1>3, <2>1
    DEF DialFails, IInv, TypeOK, CallersAreOwned, AckedRowGone, Told, Ids
  <2> QED
    BY <2>2, <2>3, <2>4 DEF IInv
<1>4. CASE SendFails(i)
  <2> DEFINE t == Told(ticket, i, "err")
  <2>1. /\ t \in [Ids -> TicketStates]
        /\ \A j \in Ids : t[j] = "flight" => j \in live
        /\ \A j \in Ids : t[j] = "ok" => ticket[j] = "ok"
    BY DEF Told, IInv, TypeOK, CallersAreOwned, TicketStates
  <2>2. Drain(t)
    BY <1>4 DEF SendFails, DropConn
  <2>3. ScalarTypes'
    BY <1>2, <1>4, Zenon DEF SendFails, DropConn, Armed, Orphaned, ScalarTypes
  <2> HIDE DEF t
  <2> QED
    BY <1>1, <2>1, <2>2, <2>3, DrainingArm
<1>5. CASE SendWorks(i)
  <2>1. TypeOK'
    BY <1>1, <1>5, Zenon DEF SendWorks, IInv, TypeOK, Told, TicketStates
  <2>2. PendingOnThisConn' /\ ArmedMeansNothingInFlight'
    BY <1>5 DEF SendWorks, IInv, PendingOnThisConn, ArmedMeansNothingInFlight
  <2>3. CallersAreOwned' /\ AckedRowGone'
    BY <1>1, <1>5 DEF SendWorks, IInv, TypeOK, CallersAreOwned, AckedRowGone, Told, Ids
  <2> QED
    BY <2>1, <2>2, <2>3 DEF IInv
<1> QED
  BY <1>3, <1>4, <1>5 DEF SendArm

LEMMA AckFrameStep ==
    ASSUME IInv, NEW i \in Ids, AckFrame(i)
    PROVE  IInv'
<1>1. /\ pending' = pending \ {i} /\ live' = live \ {i} /\ aged' = aged \ {i}
      /\ idle' = FALSE
      /\ UNCHANGED <<conn, written, failure, pong, pongLate, outboxDial, chunkDial, restarts>>
  BY DEF AckFrame
<1>2. /\ row' \in [Msgs -> RowStates]
      /\ \A m \in Msgs : row'[m] = IF m = i THEN "absent" ELSE row[m]
  BY DEF AckFrame, RowAcked, IInv, TypeOK, RowStates
<1>3. /\ ticket' \in [Ids -> TicketStates]
      /\ \A j \in Ids : ticket'[j] = IF j = i /\ i \in live THEN "ok" ELSE ticket[j]
  BY DEF AckFrame, Told, IInv, TypeOK, TicketStates
<1>4. delivered' \subseteq Msgs
  BY DEF AckFrame, RowAcked, IInv, TypeOK
<1>5. TypeOK'
  BY <1>1, <1>2, <1>3, <1>4, Zenon DEF IInv, TypeOK
<1>6. PendingOnThisConn' /\ ArmedMeansNothingInFlight'
  BY <1>1 DEF IInv, PendingOnThisConn, ArmedMeansNothingInFlight
<1>7. CallersAreOwned' /\ AckedRowGone'
  BY <1>1, <1>2, <1>3 DEF IInv, TypeOK, CallersAreOwned, AckedRowGone, Ids
<1> QED
  BY <1>5, <1>6, <1>7 DEF IInv

LEMMA TickStep ==
    ASSUME IInv,
           NEW up1 \in BOOLEAN, NEW broke \in BOOLEAN, NEW fetch \in BOOLEAN,
           NEW up2 \in BOOLEAN, NEW sent1 \in SUBSET Due, NEW left \in FallbackOutcomes,
           Tick(up1, sent1, broke, left, fetch, up2)
    PROVE  IInv'
<1>1. sent1 \subseteq Msgs /\ sent1 \subseteq Ids
  BY DEF Due, Ids
<1>2. row' \in [Msgs -> RowStates] /\ \A m \in Msgs : row[m] = "absent" => row'[m] = "absent"
  <2>1. \A m \in Due : left[m] \in RowStates
    BY DEF FallbackOutcomes, RowStates
  <2>2. row' = [m \in Msgs |-> IF m \in sent1 THEN "later"
                               ELSE IF m \in Due THEN left[m] ELSE row[m]]
    BY DEF Tick
  <2> QED
    BY <2>1, <2>2 DEF IInv, TypeOK, Due, RowStates
<1>3. /\ ticket' \in [Ids -> TicketStates]
      /\ \A i \in Ids : ticket'[i] = "flight" <=> i \in live'
      /\ \A i \in Ids : ticket'[i] = "ok" => ticket[i] = "ok"
  <2>1. live \subseteq Ids /\ ticket \in [Ids -> TicketStates]
    BY DEF IInv, TypeOK
  <2>2. \A i \in Ids : ticket[i] = "flight" <=> i \in live
    BY DEF IInv, CallersAreOwned
  <2>3. CASE broke
    <3>1. live' = {}
      BY <2>3 DEF Tick
    <3>2. ticket' = [i \in Ids |-> IF i \in live \ Overdue THEN "err"
                                   ELSE [j \in Ids |-> IF j \in live \cap Overdue
                                                       THEN "dropped" ELSE ticket[j]][i]]
      BY <2>3 DEF Tick
    <3> QED
      BY <2>1, <2>2, <3>1, <3>2 DEF TicketStates
  <2>4. CASE ~broke
    <3>1. live' = live \ Overdue
      BY <2>4 DEF Tick
    <3>2. ticket' = [i \in Ids |-> IF i \in live \cap Overdue THEN "dropped" ELSE ticket[i]]
      BY <2>4 DEF Tick
    <3> QED
      BY <2>1, <2>2, <3>1, <3>2 DEF TicketStates
  <2> QED
    BY <2>3, <2>4
<1>4. PendingOnThisConn'
  <2>1. CASE broke
    BY <2>1 DEF Tick, PendingOnThisConn
  <2>2. CASE ~broke /\ up1
    BY <1>1, <2>2 DEF Tick, IInv, PendingOnThisConn
  <2>3. CASE ~broke /\ ~up1
    BY <2>3 DEF Tick, IInv, PendingOnThisConn
  <2> QED
    BY <2>1, <2>2, <2>3
<1>5. ArmedMeansNothingInFlight'
  <2>1. CASE broke
    BY <2>1 DEF Tick, ArmedMeansNothingInFlight
  <2>2. CASE ~broke /\ sent1 # {}
    BY <2>2 DEF Tick, ArmedMeansNothingInFlight
  <2>3. CASE ~broke /\ sent1 = {}
    BY <2>3 DEF Tick, IInv, PendingOnThisConn, ArmedMeansNothingInFlight, Armed, DialsFor
  <2> QED
    BY <2>1, <2>2, <2>3
<1>6. TypeOK'
  <2>1. outboxDial' \in Ladders /\ chunkDial' \in Ladders
    BY NextRungType, FreshLadderType DEF Tick, IInv, TypeOK
  <2>2. /\ failure' \in {"none", "armed", "elapsed"}
        /\ pong' \in {"none", "own", "stale"}
    BY DEF Tick, IInv, TypeOK, Armed
  <2>3. conn' \in BOOLEAN /\ idle' \in BOOLEAN /\ pongLate' \in BOOLEAN
    BY DEF Tick, IInv, TypeOK
  <2>4. written' \subseteq Ids
    BY <1>1 DEF Tick, IInv, TypeOK
  <2>5. pending' \subseteq Ids /\ live' \subseteq pending' /\ aged' \subseteq pending'
    BY <1>1 DEF Tick, IInv, TypeOK
  <2>6. delivered' \subseteq Msgs /\ restarts' \in 0..MaxRestarts
    BY DEF Tick, IInv, TypeOK
  <2> QED
    BY <1>2, <1>3, <2>1, <2>2, <2>3, <2>4, <2>5, <2>6 DEF TypeOK
<1>7. CallersAreOwned' /\ AckedRowGone'
  BY <1>2, <1>3 DEF IInv, CallersAreOwned, AckedRowGone, Ids
<1> QED
  BY <1>4, <1>5, <1>6, <1>7 DEF IInv

LEMMA ConnectionSteps ==
    ASSUME IInv, KeepaliveTick \/ ReplaceConn \/ CloseFrame \/ ChunkReplyFails
    PROVE  IInv'
<1>1. /\ ticket \in [Ids -> TicketStates]
      /\ \A i \in Ids : ticket[i] = "flight" => i \in live
  BY DEF IInv, TypeOK, CallersAreOwned
<1>2. ScalarTypes /\ aged \subseteq pending
  BY DEF IInv, TypeOK, ScalarTypes
<1>3. ASSUME Drain(ticket), ScalarTypes', UNCHANGED <<row, delivered, restarts>>
      PROVE  IInv'
  BY <1>1, <1>3, DrainingArm
<1>4. CASE KeepaliveTick /\ DropConn(ticket)
  <2>1. ScalarTypes'
    BY <1>2, <1>4, Zenon DEF KeepaliveTick, DropConn, ScalarTypes, Orphaned
  <2> QED
    BY <1>3, <1>4, <2>1 DEF KeepaliveTick, DropConn
<1>5. CASE KeepaliveTick /\ ~DropConn(ticket)
  <2>1. /\ UNCHANGED <<conn, written, pending, live, aged, failure, ticket>>
        /\ UNCHANGED <<idle, outboxDial, chunkDial, row, delivered, restarts>>
        /\ pong' \in {"none", "own", "stale"} /\ pongLate' \in BOOLEAN
    BY <1>2, <1>5, Zenon DEF KeepaliveTick, ScalarTypes
  <2>2. ScalarTypes'
    BY <1>2, <2>1 DEF ScalarTypes
  <2> QED
    BY <1>2, <2>1, <2>2, QuietArm
<1>6. CASE ReplaceConn
  <2>1. ScalarTypes'
    BY <1>6, FreshLadderType, Zenon DEF ReplaceConn, ScalarTypes
  <2> QED
    BY <1>3, <1>6, <2>1 DEF ReplaceConn
<1>7. CASE CloseFrame
  <2>1. ScalarTypes'
    BY <1>2, <1>7, Zenon DEF CloseFrame, DropConn, ScalarTypes
  <2> QED
    BY <1>3, <1>7, <2>1 DEF CloseFrame, DropConn
<1>8. CASE ChunkReplyFails
  <2>1. ScalarTypes'
    BY <1>2, <1>8, Zenon DEF ChunkReplyFails, DropConn, ScalarTypes, Orphaned
  <2> QED
    BY <1>3, <1>8, <2>1 DEF ChunkReplyFails, DropConn
<1> QED
  BY <1>4, <1>5, <1>6, <1>7, <1>8

LEMMA QuietSteps ==
    ASSUME IInv,
           \/ PongFrame \/ TrafficFrame \/ OutboxBackoffPasses \/ DeadlinePasses
           \/ \E i \in Ids : AgeEntry(i)
    PROVE  IInv'
<1>1. ScalarTypes /\ aged \subseteq pending
  BY DEF IInv, TypeOK, ScalarTypes
<1>2. CASE PongFrame
  BY <1>1, <1>2, QuietArm, Zenon DEF PongFrame, ScalarTypes
<1>3. CASE TrafficFrame
  BY <1>1, <1>3, QuietArm, Zenon DEF TrafficFrame, ScalarTypes
<1>4. CASE OutboxBackoffPasses
  <2>1. outboxDial' \in Ladders
    BY <1>1, <1>4, Zenon DEF OutboxBackoffPasses, ScalarTypes, Ladders
  <2> QED
    BY <1>1, <1>4, <2>1, QuietArm DEF OutboxBackoffPasses, ScalarTypes
<1>5. CASE DeadlinePasses
  <2>1. chunkDial' \in Ladders
    BY <1>1, <1>5, Zenon DEF DeadlinePasses, ScalarTypes, Ladders
  <2>2. ScalarTypes'
    BY <1>1, <1>5, <2>1, Zenon DEF DeadlinePasses, ScalarTypes
  <2> QED
    BY <1>1, <1>5, <2>2, QuietArm DEF DeadlinePasses
<1>6. ASSUME NEW i \in Ids, AgeEntry(i) PROVE IInv'
  BY <1>1, <1>6, QuietArm DEF AgeEntry, ScalarTypes
<1> QED
  BY <1>2, <1>3, <1>4, <1>5, <1>6

LEMMA RestartStep ==
    ASSUME IInv, Restart
    PROVE  IInv'
<1>1. restarts' \in 0..MaxRestarts
  BY StepAssumption DEF Restart, IInv, TypeOK
<1>2. /\ ticket' \in [Ids -> TicketStates]
      /\ \A i \in Ids : ticket'[i] # "flight"
      /\ \A i \in Ids : ticket'[i] = "ok" => ticket[i] = "ok"
  BY DEF Restart, IInv, TypeOK, TicketStates
<1>3. TypeOK'
  BY <1>1, <1>2, FreshLadderType, Zenon DEF Restart, IInv, TypeOK
<1>4. PendingOnThisConn' /\ ArmedMeansNothingInFlight' /\ CallersAreOwned'
  BY <1>2 DEF Restart, PendingOnThisConn, ArmedMeansNothingInFlight, CallersAreOwned
<1>5. AckedRowGone'
  BY <1>2 DEF Restart, IInv, AckedRowGone, Ids
<1> QED
  BY <1>3, <1>4, <1>5 DEF IInv

LEMMA NextIInv == IInv /\ [Next]_vars => IInv'
<1> SUFFICES ASSUME IInv, [Next]_vars PROVE IInv'
  OBVIOUS
<1>1. ASSUME NEW m \in Msgs, JobArm(m) PROVE IInv'
  BY <1>1, SendArmStep DEF JobArm, Ids
<1>2. ASSUME NEW w \in Welcomes, WelcomeArm(w) PROVE IInv'
  BY <1>2, SendArmStep DEF WelcomeArm, Ids
<1>3. CASE RetryTick
  BY <1>3, TickStep DEF RetryTick
<1>4. CASE UNCHANGED vars
  BY <1>4 DEF vars, actorVars, IInv, TypeOK, PendingOnThisConn,
              ArmedMeansNothingInFlight, CallersAreOwned, AckedRowGone
<1> QED
  BY <1>1, <1>2, <1>3, <1>4, CallerSteps, AckFrameStep, ConnectionSteps, QuietSteps,
     RestartStep DEF Next

LEMMA SpecIInv == Spec => []IInv
BY InitIInv, NextIInv, PTL DEF Spec

\* The actor's state keeps its declared types, the ladders their table bounds.
THEOREM TypeCorrect == Spec => []TypeOK
<1>1. IInv => TypeOK
  BY DEF IInv
<1> QED
  BY <1>1, SpecIInv, PTL

\* An in-flight entry belongs to the installed connection, and its oneshot to a
\* caller that waits: every arm of full_run that loses or replaces the
\* connection drains pending and tells the callers.
THEOREM InFlightOwned == Spec => []InFlightIsOwned
<1>1. IInv => InFlightIsOwned
  BY DEF IInv, InFlightIsOwned
<1> QED
  BY <1>1, SpecIInv, PTL

\* The fallback of the retry tick never handles a row that is in flight.
THEOREM FallbackFindsNothingInFlight == Spec => []ArmedMeansNothingInFlight
<1>1. IInv => ArmedMeansNothingInFlight
  BY DEF IInv
<1> QED
  BY <1>1, SpecIInv, PTL

\* A caller that was told Ok has no outbox row left.
THEOREM AckedRows == Spec => []AckedRowGone
<1>1. IInv => AckedRowGone
  BY DEF IInv
<1> QED
  BY <1>1, SpecIInv, PTL

LEMMA WelcomeStep ==
    ASSUME IInv, [Next]_vars, NEW w \in Welcomes,
           ticket[w] = "flight", ticket'[w] = "dropped"
    PROVE  restarts' # restarts
<1>1. w \in Ids /\ w \notin Msgs /\ ticket \in [Ids -> TicketStates]
  BY IdsAssumption DEF Ids, IInv, TypeOK
<1>2. CASE Restart
  BY <1>2 DEF Restart, IInv, TypeOK
<1>3. ASSUME NEW i \in Ids, NEW s \in {"err", "flight", "ok", "queued", "committed"},
             \/ ticket' = Told(ticket, i, s)
             \/ Drain(Told(ticket, i, s))
      PROVE  FALSE
  BY <1>1, <1>3 DEF Told, Drain, Drained
<1>4. ASSUME Drain(ticket) \/ UNCHANGED ticket PROVE FALSE
  BY <1>1, <1>4 DEF Drain, Drained
<1>5. ASSUME NEW i \in Ids, SendArm(i) PROVE FALSE
  BY <1>3, <1>5, Zenon DEF SendArm, DialFails, SendFails, SendWorks, DropConn
<1>6. ASSUME NEW i \in Ids, AckFrame(i) PROVE FALSE
  BY <1>3, <1>4, <1>6 DEF AckFrame
<1>7. ASSUME RetryTick PROVE FALSE
  <2>1. PICK up1 \in BOOLEAN, broke \in BOOLEAN, fetch \in BOOLEAN, up2 \in BOOLEAN,
             sent1 \in SUBSET Due, left \in FallbackOutcomes :
                Tick(up1, sent1, broke, left, fetch, up2)
    BY <1>7 DEF RetryTick
  <2>2. w \notin Overdue
    BY <1>1 DEF Overdue
  <2>3. ticket'[w] = IF broke /\ w \in live \ Overdue THEN "err" ELSE ticket[w]
    BY <1>1, <2>1, <2>2, Zenon DEF Tick
  <2> QED
    BY <2>3
<1>8. ASSUME NEW m \in Msgs, Enqueue(m) \/ Submit(m) \/ SweepRow(m) \/ RowComesDue(m)
      PROVE  FALSE
  BY <1>3, <1>4, <1>8 DEF Enqueue, Submit, SweepRow, RowComesDue, Ids
<1>9. ASSUME NEW v \in Welcomes, SubmitWelcome(v) PROVE FALSE
  BY <1>3, <1>9, Zenon DEF SubmitWelcome, Ids
<1>10. ASSUME KeepaliveTick \/ ReplaceConn \/ CloseFrame \/ ChunkReplyFails PROVE FALSE
  BY <1>4, <1>10 DEF KeepaliveTick, ReplaceConn, CloseFrame, ChunkReplyFails, DropConn
<1>11. ASSUME \/ PongFrame \/ TrafficFrame \/ OutboxBackoffPasses \/ DeadlinePasses
              \/ \E i \in Ids : AgeEntry(i)
       PROVE FALSE
  BY <1>4, <1>11 DEF PongFrame, TrafficFrame, OutboxBackoffPasses, DeadlinePasses, AgeEntry
<1> QED
  BY <1>2, <1>4, <1>5, <1>6, <1>7, <1>8, <1>9, <1>10, <1>11, SMTT(30)
  DEF Next, JobArm, WelcomeArm, Ids, vars

\* The retry tick's eviction never takes a Welcome's caller.
THEOREM WelcomeCallersKept == Spec => WelcomesAreNotEvicted
<1>1. IInv /\ [Next]_vars =>
        [\A w \in Welcomes : ticket[w] = "flight" /\ ticket'[w] = "dropped"
                             => restarts' # restarts]_vars
  BY WelcomeStep
<1> QED
  BY <1>1, SpecIInv, PTL DEF Spec, WelcomesAreNotEvicted

-----------------------------------------------------------------------------
(* MailboxPolling                                                          *)

Cards == [v : Nat, list : SUBSET Mailboxes]
Ops   == {"none", "add", "remove", "rotate"}
Steps == {"idle", "probe", "mark", "pending", "drain", "drained", "ctrl", "finalize",
          "list", "bump", "send"}
Cmds  == [op : Ops, mb : Mailboxes \cup {NoMb}, step : Steps, got : SUBSET Deposits, card : Cards]

\* What a tick or a drain is about to delete has been persisted.
Kept ==
  /\ held \in [Mailboxes -> SUBSET Deposits]
  /\ got \in [Mailboxes -> SUBSET Deposits]
  /\ \A m \in Mailboxes : got[m] \subseteq inbox
  /\ NothingDropped

CmdOK(k) == cmd[k] \in Cmds /\ cmd[k].got \subseteq inbox
Commands == cmd = [k \in Clients |-> cmd[k]] /\ \A k \in Clients : CmdOK(k)

\* The signed cards have versions up to the one in self_card_state.
Signed ==
  /\ version \in Nat
  /\ \A c \in issued : c.v \in Nat /\ c.v <= version
  /\ OneCardPerVersion

Inv == Kept /\ Commands /\ Signed

-----------------------------------------------------------------------------
(* Frames *)

LEMMA KeptFrame ==
  ASSUME Kept, UNCHANGED <<held, sent, inbox>>,
         got' = got \/ got' = [m \in Mailboxes |-> {}]
  PROVE  Kept'
<1>1. got' \in [Mailboxes -> SUBSET Deposits] /\ \A m \in Mailboxes : got'[m] \subseteq inbox
  BY DEF Kept
<1> QED
  BY <1>1 DEF Kept, NothingDropped

LEMMA CommandsFrame ==
  ASSUME Commands, UNCHANGED cmd, inbox \subseteq inbox' PROVE Commands'
BY DEF Commands, CmdOK

LEMMA SignedFrame == ASSUME Signed, UNCHANGED <<version, issued>> PROVE Signed'
BY DEF Signed, OneCardPerVersion

\* One client's command moves on.
LEMMA CommandStep ==
  ASSUME Commands, NEW k \in Clients, NEW x \in Cmds, x.got \subseteq inbox',
         cmd' = [cmd EXCEPT ![k] = x], inbox \subseteq inbox'
  PROVE  Commands'
<1>1. /\ cmd' = [j \in Clients |-> cmd'[j]]
      /\ \A j \in Clients : cmd'[j] = IF j = k THEN x ELSE cmd[j]
  BY DEF Commands
<1>2. \A j \in Clients : CmdOK(j)'
  BY <1>1 DEF Commands, CmdOK
<1> QED
  BY <1>1, <1>2 DEF Commands

LEMMA IdleType == Idle \in Cmds /\ Idle.got = {}
BY DEF Idle, Cmds, NoCard, Cards, Ops, Steps

LEMMA DoneStep ==
  ASSUME Commands, NEW k \in Clients, Done(k), UNCHANGED inbox PROVE Commands'
BY IdleType, CommandStep, Zenon DEF Done

\* A step that only moves the program counter.
LEMMA GotoStep ==
  ASSUME Commands, NEW k \in Clients, NEW s \in Steps, Goto(k, s), UNCHANGED inbox
  PROVE  Commands'
<1> DEFINE x == [cmd[k] EXCEPT !.step = s]
<1>1. cmd[k] \in Cmds /\ cmd[k].got \subseteq inbox
  BY DEF Commands, CmdOK
<1>2. x \in Cmds /\ x.got = cmd[k].got
  BY <1>1 DEF Cmds
<1>3. cmd' = [cmd EXCEPT ![k] = x]
  BY DEF Goto
<1> HIDE DEF x
<1> QED
  BY <1>1, <1>2, <1>3, CommandStep, Zenon

-----------------------------------------------------------------------------
(* Deposits *)

\* A delete of persisted deposits.
LEMMA Dropped ==
  ASSUME Kept, NEW m, NEW S, S \subseteq inbox, held' = Without(m, S),
         UNCHANGED <<sent, inbox>>
  PROVE  held' \in [Mailboxes -> SUBSET Deposits] /\ NothingDropped'
<1>1. /\ held' \in [Mailboxes -> SUBSET Deposits]
      /\ \A n \in Mailboxes : held[n] \ S \subseteq held'[n]
  BY Zenon DEF Kept, Without
<1> QED
  BY <1>1 DEF Kept, NothingDropped

\* How a tick ends.
LEMMA TickEndKept ==
  ASSUME Kept, NEW m \in Mailboxes, TickEnds(m), UNCHANGED inbox,
         held' = held \/ held' = Without(m, got[m])
  PROVE  Kept'
<1>1. got' \in [Mailboxes -> SUBSET Deposits] /\ \A n \in Mailboxes : got'[n] \subseteq inbox
  BY DEF TickEnds, Kept
<1>2. sent' = sent
  BY DEF TickEnds
<1>3. CASE held' = held
  BY <1>1, <1>2, <1>3 DEF Kept, NothingDropped
<1>4. CASE held' = Without(m, got[m])
  <2>1. got[m] \subseteq inbox
    BY DEF Kept
  <2> QED
    BY <1>1, <1>2, <1>4, <2>1, Dropped DEF Kept
<1> QED
  BY <1>3, <1>4

LEMMA TickEndRest ==
  ASSUME Inv, NEW m, TickEnds(m), UNCHANGED inbox PROVE Commands' /\ Signed'
BY CommandsFrame, SignedFrame DEF Inv, TickEnds, cards

LEMMA InvDeposit ==
  ASSUME Inv, NEW m \in Mailboxes, NEW d \in Deposits, Deposit(d, m) PROVE Inv'
<1>1. /\ sent' = sent \cup {d} /\ held' = [held EXCEPT ![m] = @ \cup {d}]
      /\ UNCHANGED <<inbox, got, cmd, version, issued>>
  BY DEF Deposit, actors, cards
<1>2. /\ held' \in [Mailboxes -> SUBSET Deposits] /\ d \in held'[m]
      /\ \A n \in Mailboxes : held[n] \subseteq held'[n]
  BY <1>1 DEF Inv, Kept
<1>3. Kept'
  BY <1>1, <1>2 DEF Inv, Kept, NothingDropped
<1> QED
  BY <1>1, <1>3, CommandsFrame, SignedFrame DEF Inv

LEMMA InvTickFetch ==
  ASSUME Inv, NEW m \in Mailboxes, NEW D \in SUBSET held[m], TickFetch(m, D) PROVE Inv'
<1>1. inbox' = inbox \cup D
  BY DEF TickFetch
<1>2. CASE D = {}
  <2>1. TickEnds(m) /\ held' = held /\ inbox' = inbox
    BY <1>1, <1>2 DEF TickFetch, TickOk
  <2> QED
    BY <2>1, TickEndKept, TickEndRest DEF Inv
<1>3. CASE D # {}
  <2>1. /\ got' = [got EXCEPT ![m] = D]
        /\ UNCHANGED <<held, sent, cmd, version, issued>>
    BY <1>3, Zenon DEF TickFetch, server, cards
  <2>2. D \in SUBSET Deposits
    BY DEF Inv, Kept
  <2>3. got' \in [Mailboxes -> SUBSET Deposits] /\ \A n \in Mailboxes : got'[n] \subseteq inbox'
    BY <1>1, <2>1, <2>2 DEF Inv, Kept
  <2>4. Kept'
    BY <1>1, <2>1, <2>3 DEF Inv, Kept, NothingDropped
  <2> QED
    BY <1>1, <2>1, <2>4, CommandsFrame, SignedFrame, ZenonT(60) DEF Inv
<1> QED
  BY <1>2, <1>3, SMTT(30)

LEMMA InvTickEnd ==
  ASSUME Inv, NEW m \in Mailboxes, TickDelete(m) \/ TickError(m) PROVE Inv'
<1>1. TickEnds(m) /\ inbox' = inbox /\ (held' = held \/ held' = Without(m, got[m]))
  BY Zenon DEF TickDelete, TickError, TickOk, TickFails, TickLimited
<1> QED
  BY <1>1, TickEndKept, TickEndRest DEF Inv

\* Steps of the actors, the supervisor and the contact that touch neither
\* deposits nor commands nor signed cards.
LEMMA InvQuiet ==
  ASSUME Inv, UNCHANGED <<held, sent, inbox, got, cmd, version, issued>> PROVE Inv'
BY KeptFrame, CommandsFrame, SignedFrame DEF Inv

LEMMA InvOthers ==
  ASSUME Inv, NEW m \in Mailboxes,
         \/ ActorStart(m) \/ ActorQuit(m) \/ TickStart(m) \/ SupStep \/ Boot
         \/ \E c \in wire : RecvCard(c)
  PROVE  Inv'
<1>1. UNCHANGED <<held, sent, inbox, got, cmd, version, issued>>
  BY Zenon DEF ActorStart, ActorQuit, TickStart, SupStep, SupAdd, SupRemove, SupJoined, Boot,
         RecvCard, server, actors, cards
<1> QED
  BY <1>1, InvQuiet

LEMMA InvStop == ASSUME Inv, Stop PROVE Inv'
<1>1. /\ UNCHANGED <<held, sent, inbox, version, issued>>
      /\ got' = [m \in Mailboxes |-> {}] /\ cmd' = [k \in Clients |-> Idle]
  BY DEF Stop, server, cards
<1>2. Commands'
  BY <1>1, IdleType DEF Commands, CmdOK
<1> QED
  BY <1>1, <1>2, KeptFrame, SignedFrame DEF Inv

-----------------------------------------------------------------------------
(* Commands *)

LEMMA InvBegin ==
  ASSUME Inv, NEW k \in Clients, NEW op \in {"add", "remove", "rotate"},
         NEW m \in Mailboxes, Begin(k, op, m)
  PROVE  Inv'
<1> DEFINE s == CASE op = "add" -> "probe" [] op = "remove" -> "pending"
                  [] op = "rotate" -> "list"
           x == [Idle EXCEPT !.op = op, !.mb = m, !.step = s]
<1>1. cmd' = [cmd EXCEPT ![k] = x] /\ UNCHANGED <<held, sent, inbox, got, version, issued>>
  BY DEF Begin, server, actors, cards
<1>2. s \in Steps
  BY DEF Steps
<1> HIDE DEF s
<1>3. x \in Cmds /\ x.got = {}
  BY <1>2, IdleType, Zenon DEF Idle, Cmds, Ops
<1> HIDE DEF x
<1>4. Commands'
  BY <1>1, <1>3, CommandStep, Zenon DEF Inv
<1> QED
  BY <1>1, <1>4, KeptFrame, SignedFrame DEF Inv

LEMMA InvGoto ==
  ASSUME Inv, NEW k \in Clients,
         \/ AddRow(k) \/ AddReachable(k) \/ RemovePending(k) \/ SendCtrl(k) \/ RemoveFinal(k)
  PROVE  Inv'
<1>1. UNCHANGED <<held, sent, inbox, got, version, issued>>
  BY Zenon DEF AddRow, AddReachable, RemovePending, SendCtrl, RemoveFinal, server, actors, cards
<1>2. \E s \in Steps : Goto(k, s)
  BY Zenon DEF AddRow, AddReachable, RemovePending, SendCtrl, RemoveFinal, Steps
<1> QED
  BY <1>1, <1>2, GotoStep, KeptFrame, SignedFrame DEF Inv

LEMMA InvDone ==
  ASSUME Inv, NEW k \in Clients, AddFails(k) \/ SendCard(k) PROVE Inv'
<1>1. Done(k) /\ UNCHANGED <<held, sent, inbox, got, version, issued>>
  BY DEF AddFails, SendCard, server, actors, cards
<1> QED
  BY <1>1, DoneStep, KeptFrame, SignedFrame DEF Inv

\* The drain of handle_remove_mailbox, and the list of publish_self_card_update.
LEMMA Fetching ==
  ASSUME Commands, NEW k \in Clients, NEW s \in Steps, NEW D \in SUBSET Deposits,
         D \subseteq inbox', inbox \subseteq inbox',
         cmd' = [cmd EXCEPT ![k].step = s, ![k].got = D]
  PROVE  Commands'
<1> DEFINE x == [cmd[k] EXCEPT !.step = s, !.got = D]
<1>1. cmd[k] \in Cmds /\ cmd = [j \in Clients |-> cmd[j]]
  BY DEF Commands, CmdOK
<1>2. x \in Cmds /\ x.got = D
  BY <1>1 DEF Cmds
<1>3. cmd' = [cmd EXCEPT ![k] = x]
  BY <1>1, Zenon
<1> HIDE DEF x
<1> QED
  BY <1>2, <1>3, CommandStep, Zenon

LEMMA InvDrain ==
  ASSUME Inv, NEW k \in Clients,
         \/ DrainDelete(k) \/ DrainEnds(k)
         \/ \E D \in SUBSET Deposits : DrainFetch(k, D)
  PROVE  Inv'
<1>1. "ctrl" \in Steps /\ "drained" \in Steps /\ {} \in SUBSET Deposits
  BY DEF Steps
<1>2. CASE DrainDelete(k)
  <2>1. /\ held' = Without(cmd[k].mb, cmd[k].got)
        /\ cmd' = [cmd EXCEPT ![k].step = "ctrl", ![k].got = {}]
        /\ UNCHANGED <<sent, inbox, got, version, issued>>
    BY <1>2 DEF DrainDelete, actors, cards
  <2>2. cmd[k].got \subseteq inbox
    BY DEF Inv, Commands, CmdOK
  <2>3. Kept'
    BY <2>1, <2>2, Dropped DEF Inv, Kept
  <2>4. Commands'
    BY <1>1, <2>1, Fetching, Zenon DEF Inv
  <2> QED
    BY <2>1, <2>3, <2>4, SignedFrame DEF Inv
<1>3. CASE DrainEnds(k)
  <2>1. /\ cmd' = [cmd EXCEPT ![k].step = "ctrl", ![k].got = {}]
        /\ UNCHANGED <<held, sent, inbox, got, version, issued>>
    BY <1>3 DEF DrainEnds, server, actors, cards
  <2>2. Commands'
    BY <1>1, <2>1, Fetching, Zenon DEF Inv
  <2> QED
    BY <2>1, <2>2, KeptFrame, SignedFrame DEF Inv
<1>4. ASSUME NEW D \in SUBSET Deposits, DrainFetch(k, D) PROVE Inv'
  <2>1. /\ inbox' = inbox \cup D
        /\ cmd' = [cmd EXCEPT ![k].step = "drained", ![k].got = D]
        /\ UNCHANGED <<held, sent, got, version, issued>>
    BY <1>4 DEF DrainFetch, server, actors, cards
  <2>2. Commands'
    BY <1>1, <2>1, Fetching, Zenon DEF Inv
  <2>3. Kept'
    BY <2>1 DEF Inv, Kept, NothingDropped
  <2> QED
    BY <2>1, <2>2, <2>3, SignedFrame DEF Inv
<1> QED
  BY <1>2, <1>3, <1>4

LEMMA InvReadList == ASSUME Inv, NEW k \in Clients, ReadList(k) PROVE Inv'
<1> DEFINE c == [v |-> version, list |-> ReachableMine]
           x == [cmd[k] EXCEPT !.step = "bump", !.card = c]
<1>1. /\ cmd' = [cmd EXCEPT ![k].step = "bump", ![k].card = c]
      /\ UNCHANGED <<held, sent, inbox, got, version, issued>>
  BY DEF ReadList, server, actors, cards
<1>2. c \in Cards
  BY DEF Inv, Signed, Cards, ReachableMine, ListMine
<1> HIDE DEF c
<1>3. cmd[k] \in Cmds /\ cmd[k].got \subseteq inbox /\ cmd = [j \in Clients |-> cmd[j]]
  BY DEF Inv, Commands, CmdOK
<1>4. x \in Cmds /\ x.got = cmd[k].got
  BY <1>2, <1>3, Zenon DEF Cmds, Steps
<1>5. cmd' = [cmd EXCEPT ![k] = x]
  BY <1>1, <1>3, Zenon
<1> HIDE DEF x
<1>6. Commands'
  BY <1>1, <1>3, <1>4, <1>5, CommandStep, Zenon DEF Inv
<1> QED
  BY <1>1, <1>6, KeptFrame, SignedFrame DEF Inv

LEMMA InvBumpVersion == ASSUME Inv, NEW k \in Clients, BumpVersion(k) PROVE Inv'
<1> DEFINE n == version + 1
           c == [cmd[k].card EXCEPT !.v = n]
           x == [cmd[k] EXCEPT !.step = "send", !.card = c]
<1>1. /\ version' = n /\ issued' = issued \cup {c}
      /\ cmd' = [cmd EXCEPT ![k].step = "send", ![k].card.v = n]
      /\ UNCHANGED <<held, sent, inbox, got>>
  BY DEF BumpVersion, NextVersion, server, actors
<1>2. n \in Nat /\ version \in Nat /\ version < n
  BY DEF Inv, Signed
<1>3. cmd[k] \in Cmds /\ cmd[k].got \subseteq inbox /\ cmd = [j \in Clients |-> cmd[j]]
  BY DEF Inv, Commands, CmdOK
<1> HIDE DEF n
<1>4. c \in Cards /\ c.v = n
  BY <1>2, <1>3 DEF Cmds, Cards
<1>5. cmd' = [cmd EXCEPT ![k] = x]
  BY <1>1, <1>3, Zenon
<1> HIDE DEF c
<1>6. x \in Cmds /\ x.got = cmd[k].got
  BY <1>3, <1>4, Zenon DEF Cmds, Steps
<1> HIDE DEF x
<1>7. Commands'
  BY <1>1, <1>3, <1>5, <1>6, CommandStep, Zenon DEF Inv
<1>8. Signed'
  <2>1. \A e \in issued : e.v \in Nat /\ e.v <= n /\ e.v # n
    BY <1>2 DEF Inv, Signed
  <2> QED
    BY <1>1, <1>2, <1>4, <2>1 DEF Inv, Signed, OneCardPerVersion
<1> QED
  BY <1>1, <1>7, <1>8, KeptFrame DEF Inv

-----------------------------------------------------------------------------
(* The theorems *)

LEMMA InvInit == PollInit => Inv
<1> SUFFICES ASSUME PollInit PROVE Inv
  OBVIOUS
<1>1. Kept
  BY DEF PollInit, Kept, NothingDropped
<1>2. Commands
  BY IdleType DEF PollInit, Commands, CmdOK
<1>3. Signed
  BY DEF PollInit, Signed, OneCardPerVersion
<1> QED
  BY <1>1, <1>2, <1>3 DEF Inv

LEMMA InvNext == Inv /\ [PollNext]_pvars => Inv'
<1> SUFFICES ASSUME Inv, [PollNext]_pvars PROVE Inv'
  OBVIOUS
<1>1. CASE UNCHANGED pvars
  BY <1>1, InvQuiet DEF pvars, server, actors, cards
<1>2. ASSUME NEW m \in Mailboxes, ActorStep(m) \/ \E d \in Deposits : Deposit(d, m) PROVE Inv'
  BY <1>2, InvOthers, InvTickFetch, InvTickEnd, InvDeposit, Zenon DEF ActorStep
<1>3. CASE SupStep \/ Boot \/ \E c \in wire : RecvCard(c)
  <2>1. UNCHANGED <<held, sent, inbox, got, cmd, version, issued>>
    BY <1>3, Zenon DEF SupStep, SupAdd, SupRemove, SupJoined, Boot, RecvCard, server, actors, cards
  <2> QED
    BY <2>1, InvQuiet
<1>4. ASSUME NEW k \in Clients, CmdStep(k) PROVE Inv'
  BY <1>4, InvGoto, InvDone, InvDrain, InvReadList, InvBumpVersion DEF CmdStep
<1>5. ASSUME NEW k \in Clients, NEW op \in {"add", "remove", "rotate"}, NEW m \in Mailboxes,
             Begin(k, op, m)
      PROVE  Inv'
  BY <1>5, InvBegin
<1>6. CASE Stop
  BY <1>6, InvStop
<1> QED
  BY <1>1, <1>2, <1>3, <1>4, <1>5, <1>6 DEF PollNext

\* The invariant holds in every reachable state.
THEOREM InvHolds == PollSpec => []Inv
BY InvInit, InvNext, PTL DEF PollSpec

\* For any mailboxes, deposits and clients and any limits of the servers: a
\* deposit leaves its mailbox only after the inbound pipeline has persisted it
\* (poll_dispatch_once dispatches before it deletes), whatever ticks, drains
\* of RemoveMailbox, lost answers and stops of the daemon interleave.
THEOREM DepositIsKept == PollSpec => []NothingDropped
<1>1. Inv => NothingDropped
  BY DEF Inv, Kept
<1> QED
  BY <1>1, InvHolds, PTL

\* For any number of clients: commands that publish at the same time sign their
\* cards with different versions (the version is taken in a transaction of its
\* own, after the list was read).
THEOREM VersionIsSignedOnce == PollSpec => []OneCardPerVersion
<1>1. Inv => OneCardPerVersion
  BY DEF Inv, Signed
<1> QED
  BY <1>1, InvHolds, PTL

=============================================================================
