---------------------------- MODULE Conversation ----------------------------
(***************************************************************************)
(* A conversation from the tables of the daemon to the screen: the rows    *)
(* and read cursors (storage/messages.rs, storage/read_state.rs), the      *)
(* commands on them (daemon/dispatch.rs), the retention sweep, the event   *)
(* stream, the conversation store of the UI (stores/conversation.ts) and   *)
(* the export loop of the CLI.  Sending and receiving go through the       *)
(* ratchet of GroupRatchet.                                                *)
(*                                                                         *)
(* Every request of the UI has a connection of its own, so requests are    *)
(* executed and answered in any order, and each may fail before or after   *)
(* its effect.  Rows are ordered by id: the epoch that orders them first   *)
(* never changes in a two-member group.                                    *)
(***************************************************************************)
EXTENDS GroupRatchet, Integers, FiniteSets, FiniteSetsExt

CONSTANTS
    Temps,        \* the UI's sends; a subset of Workers
    Receivers,    \* the inbound tasks; a subset of Workers
    Publishers,   \* the card publishers; a subset of Workers
    PageSize,     \* limit of one recent_messages or export_history page
    BusCapacity,  \* events the broadcast channel keeps for a subscriber
    MaxOps        \* bound: operations begun, arrivals, prunes and faults

ASSUME PageAssumption == PageSize \in Nat \ {0}
ASSUME ActorsAssumption == Temps \cup Receivers \cup Publishers \subseteq Workers

VARIABLES
    rows,     \* table messages: id -> contact
    lastId,   \* sqlite_sequence of messages
    cursor,   \* read_state.last_read_message_id per contact
    bus,      \* message_received events not yet forwarded to the UI
    lagged,   \* the subscriber has fallen behind the channel
    calls,    \* requests of the UI that have not been answered
    view,     \* the conversation store
    token,    \* loadToken
    pending,  \* the debounced mark-read
    bubble,   \* what became of the placeholder of each send
    export,   \* the CLI's export
    choice,   \* the contact the user selected last (history)
    ops       \* operations, arrivals, prunes and faults so far

besidesOps == <<rows, lastId, cursor, bus, lagged, calls, view, token, pending, bubble,
                export, choice>>
cvars  == <<besidesOps, ops>>
uiVars == <<view, token, pending, bubble, choice>>
vars  == <<rvars, cvars>>

\* An entry of the view: a stored row, or the placeholder of a send.
Row(id, c) == [row |-> id, of |-> c, temp |-> NoWorker]
Bubble(t, c) == [row |-> 0, of |-> c, temp |-> t]

Closed == [contact |-> NoContact, messages |-> <<>>, nextBefore |-> 0, loading |-> FALSE,
           readCursor |-> 0, load |-> 0]
NoTimer == [contact |-> NoContact, row |-> 0, load |-> 0]
NoExport == [pc |-> "idle", contact |-> NoContact, after |-> 0, out |-> <<>>, base |-> {}]

\* A request: tag is the load token of an open or an older page and the sender
\* of a send, arg the row a page ends before or a mark reaches.
Call(kind, c, tag, arg) ==
    [kind |-> kind, contact |-> c, tag |-> tag, arg |-> arg,
     st |-> "asked", page |-> <<>>, next |-> 0, temp |-> NoWorker]

IsSend(k) == k.kind \in {"send", "file"}

ConversationInit ==
    /\ rows = <<>> /\ lastId = 0
    /\ cursor = [c \in Contacts |-> 0]
    /\ bus = <<>> /\ lagged = FALSE
    /\ calls = {} /\ view = Closed /\ token = 0
    /\ pending = NoTimer /\ bubble = [t \in Temps |-> "new"]
    /\ export = NoExport /\ choice = NoContact /\ ops = 0

Init == RatchetInit /\ ConversationInit

Op == ops < MaxOps /\ ops' = ops + 1

-----------------------------------------------------------------------------
(* The tables. *)

\* INSERT INTO messages; the id is AUTOINCREMENT, so it is never given twice.
NextId == 1 + lastId

Insert(c) ==
    /\ rows' = [i \in DOMAIN rows \cup {NextId} |-> IF i = NextId THEN c ELSE rows[i]]
    /\ lastId' = NextId

RowsOf(c) == {i \in DOMAIN rows : rows[i] = c}

\* The n largest, the n smallest members of a set of ids.
Newest(S, n) == {i \in S : Cardinality({j \in S : j > i}) < n}
Oldest(S, n) == {i \in S : Cardinality({j \in S : j < i}) < n}

\* The ids of a page in ascending order, and its records, oldest first.
Ascending(page) ==
    CHOOSE q \in [1 .. Cardinality(page) -> page] :
        \A m, n \in 1 .. Cardinality(page) : m < n => q[m] < q[n]
Records(page) == [n \in 1 .. Cardinality(page) |->
                     LET id == Ascending(page)[n] IN Row(id, rows[id])]

\* MessageRepo::recent and recent_before, in the order the UI shows the page.
Recent(c, before) ==
    Newest({i \in RowsOf(c) : before = 0 \/ i < before}, PageSize)

\* recent_messages: next_before_id is set for a full page only.
NextBefore(page) == IF Cardinality(page) = PageSize THEN Min(page) ELSE 0

\* MessageRepo::export_page, and next_after_id of export_history.
ExportPage(c, after) == Oldest({i \in RowsOf(c) : i > after}, PageSize)
NextAfter_Short(page) == IF Cardinality(page) > PageSize THEN Max(page) ELSE 0
NextAfter(page) == IF Cardinality(page) = PageSize THEN Max(page) ELSE 0

\* The broadcast channel drops what a slow subscriber has not read.
Emit(record) ==
    IF lagged \/ Len(bus) = BusCapacity
    THEN lagged' = TRUE /\ UNCHANGED bus
    ELSE bus' = Append(bus, record) /\ UNCHANGED lagged

-----------------------------------------------------------------------------
(* The daemon: commands that read or mark. *)

Answer(k, st, page, next) ==
    calls' = (calls \ {k}) \cup {[k EXCEPT !.st = st, !.page = page, !.next = next]}

\* recent_messages for an open (arg = 0) or an older page.
RecentMessages(k) ==
    /\ k.kind \in {"open", "older"} /\ k.st = "asked"
    /\ LET page == Recent(k.contact, k.arg) IN Answer(k, "ok", Records(page), NextBefore(page))
    /\ UNCHANGED <<rvars, uiVars, rows, lastId, cursor, bus, lagged, export, ops>>

\* ReadStateRepo::set: the last row that was read.
ReadUpTo_Exclusive(id) == id + 1
ReadUpTo(id) == id

\* mark_read overwrites the cursor.
MarkRead(k) ==
    /\ k.kind = "mark" /\ k.st = "asked"
    /\ cursor' = [cursor EXCEPT ![k.contact] = ReadUpTo(k.arg)]
    /\ Answer(k, "ok", <<>>, 0)
    /\ UNCHANGED <<rvars, uiVars, rows, lastId, bus, lagged, export, ops>>

\* The request fails before it is executed, or its reply is lost afterwards;
\* after a commit the hub may refuse the message, which is an error as well.
RequestFails(k) ==
    /\ Op
    /\ k.st # "err"
    /\ IsSend(k) => work[k.temp] = Idle
    /\ Answer(k, "err", <<>>, 0)
    /\ UNCHANGED <<rvars, uiVars, rows, lastId, cursor, bus, lagged, export>>

-----------------------------------------------------------------------------
(* The daemon: tasks that use the ratchet. *)

\* send_message, and the send_message inside send_file.
SendLoad(k) ==
    /\ IsSend(k) /\ k.st = "asked"
    /\ LoadForSend(k.temp, k.contact)
    /\ UNCHANGED cvars

SendPersist(k) ==
    /\ IsSend(k) /\ k.st = "asked"
    /\ CommitSend(k.temp)
    /\ Insert(k.contact)
    /\ Answer(k, "ok", <<Row(NextId, k.contact)>>, 0)
    /\ UNCHANGED <<uiVars, cursor, bus, lagged, export, ops>>

SendAborts(k) ==
    /\ IsSend(k) /\ k.st = "asked"
    /\ Op
    /\ Abort(k.temp)
    /\ Answer(k, "err", <<>>, 0)
    /\ UNCHANGED <<uiVars, rows, lastId, cursor, bus, lagged, export>>

\* dispatch_for_group: the row and the ratchet in one transaction, then
\* Event::MessageReceived.
ReceiveLoad(w, c, g) == LoadForRecv(w, c, g) /\ Op /\ UNCHANGED besidesOps

ReceivePersist(w) ==
    /\ CommitRecv(w)
    /\ Insert(work[w].contact)
    /\ Emit(Row(NextId, work[w].contact))
    /\ UNCHANGED <<uiVars, cursor, calls, export, ops>>

\* An aborted receive or card update.
TaskAborts(w) ==
    /\ Op
    /\ Abort(w)
    /\ UNCHANGED <<uiVars, rows, lastId, cursor, bus, lagged, calls, export>>

CardLoad(w, c) == LoadForCard(w, c) /\ Op /\ UNCHANGED besidesOps
CardStep(w) == (SaveCard(w) \/ HandOffCard(w)) /\ UNCHANGED cvars

-----------------------------------------------------------------------------
(* The daemon: pruning, restart, event stream. *)

Prune(doomed) ==
    /\ Op
    /\ doomed # {}
    /\ rows' = [i \in DOMAIN rows \ doomed |-> rows[i]]
    /\ UNCHANGED <<rvars, uiVars, lastId, cursor, bus, lagged, calls, export>>

\* prune_before for every group: the retention sweep and prune --before.
PruneBefore(id) == Prune({i \in DOMAIN rows : i <= id})

\* prune_keep_last of one group.
PruneKeepLast(c, n) == Prune(RowsOf(c) \ Newest(RowsOf(c), n))

\* The process, daemon and UI in one, ends and is started again: the tables
\* are what is left.  The CLI's export ends with an error.
Restart ==
    /\ Op
    /\ RatchetCrash
    /\ bus' = <<>> /\ lagged' = FALSE /\ calls' = {} /\ export' = NoExport
    /\ view' = Closed /\ token' = 0 /\ pending' = NoTimer /\ choice' = NoContact
    /\ bubble' = [t \in Temps |-> IF bubble[t] = "new" THEN "new" ELSE "left"]
    /\ UNCHANGED <<rows, lastId, cursor>>

\* ipc:stream-closed: handleStreamClosed subscribes anew, at the first or a
\* later attempt; the events in between are lost.
StreamClosed ==
    /\ Op
    /\ bus' = <<>> /\ lagged' = FALSE
    /\ UNCHANGED <<rvars, uiVars, rows, lastId, cursor, calls, export>>

\* RecvError::Lagged: handle_connection subscribes again and the events in
\* between are lost.
Resubscribe ==
    /\ lagged
    /\ bus' = <<>> /\ lagged' = FALSE
    /\ UNCHANGED <<rvars, uiVars, rows, lastId, cursor, calls, export, ops>>

\* An event reaches the UI: appendMessage.
Forward ==
    /\ ~lagged /\ bus # <<>>
    /\ bus' = Tail(bus)
    /\ view' = IF Head(bus).of = view.contact
               THEN [view EXCEPT !.messages = Append(@, Head(bus))] ELSE view
    /\ UNCHANGED <<rvars, rows, lastId, cursor, lagged, calls, token, pending, bubble,
                   export, choice, ops>>

-----------------------------------------------------------------------------
(* The UI: opening a conversation and paging. *)

\* selectContact on the open contact: closeConversation.
CloseConversation ==
    /\ Op
    /\ token' = token + 1
    /\ view.contact # NoContact
    /\ view' = Closed /\ choice' = NoContact
    /\ UNCHANGED <<rvars, rows, lastId, cursor, bus, lagged, calls, pending, bubble,
                   export>>

\* selectContact on another contact: openConversationFromSummary up to its
\* request.  arg 0 asks for the newest page.
OpenConversation(c) ==
    /\ Op
    /\ token' = token + 1
    /\ view.contact # c
    /\ calls' = calls \cup {Call("open", c, token', 0)}
    /\ choice' = c
    /\ UNCHANGED <<rvars, rows, lastId, cursor, bus, lagged, view, pending, bubble,
                   export>>

\* Only the newest load commits its response.
Current_Any(k) == TRUE
Current(k) == k.tag = token

\* The page replaces the conversation.  anchor is the last_read_row_id of the
\* contact list: the cursor, or none if the list is older.  The largest row of
\* the page is marked read without waiting.
Opened(k, anchor) ==
    /\ view' = [contact |-> k.contact, messages |-> k.page, nextBefore |-> k.next,
                loading |-> FALSE, readCursor |-> anchor, load |-> k.tag]
    /\ calls' = (calls \ {k}) \cup
                (IF k.page = <<>> THEN {} ELSE {Call("mark", k.contact, 0, k.page[Len(k.page)].row)})

\* The rest of openConversationFromSummary; an error leaves the conversation
\* that was open.
OpenReturns(k) ==
    /\ k.kind = "open" /\ k.st # "asked"
    /\ \/ /\ Current(k) /\ k.st = "ok"
          /\ \E anchor \in {0, cursor[k.contact]} : Opened(k, anchor)
          /\ UNCHANGED choice
       \/ /\ Current(k) /\ k.st = "err"
          /\ calls' = calls \ {k} /\ choice' = view.contact
          /\ UNCHANGED view
       \/ /\ ~Current(k)
          /\ calls' = calls \ {k}
          /\ UNCHANGED <<view, choice>>
    /\ UNCHANGED <<rvars, rows, lastId, cursor, bus, lagged, token, pending, bubble,
                   export, ops>>

LoadOlder ==
    /\ Op
    /\ view.contact # NoContact /\ ~view.loading /\ view.nextBefore # 0
    /\ view' = [view EXCEPT !.loading = TRUE]
    /\ calls' = calls \cup {Call("older", view.contact, token, view.nextBefore)}
    /\ UNCHANGED <<rvars, rows, lastId, cursor, bus, lagged, token, pending, bubble,
                   export, choice>>

\* pubkeyEq(s.contact, reqContact), the check of every response handler.
StillOpen_Any(k) == view.contact # NoContact
StillOpen(k) == view.contact = k.contact

OlderReturns(k) ==
    /\ k.kind = "older" /\ k.st # "asked"
    /\ calls' = calls \ {k}
    /\ view' = IF ~StillOpen(k) THEN view
               ELSE IF k.st = "err" THEN [view EXCEPT !.loading = FALSE]
               ELSE [view EXCEPT !.messages = k.page \o @, !.nextBefore = k.next,
                                 !.loading = FALSE]
    /\ UNCHANGED <<rvars, rows, lastId, cursor, bus, lagged, token, pending, bubble,
                   export, choice, ops>>

-----------------------------------------------------------------------------
(* The UI: sending. *)

\* send and sendFile up to the request; the composer sends to the open contact.
Send(t, kind) ==
    /\ Op
    /\ view.contact # NoContact
    /\ bubble[t] = "new"
    /\ bubble' = [bubble EXCEPT ![t] = "asked"]
    /\ view' = [view EXCEPT !.messages = Append(@, Bubble(t, view.contact))]
    /\ calls' = calls \cup {[Call(kind, view.contact, 0, 0) EXCEPT !.temp = t]}
    /\ UNCHANGED <<rvars, rows, lastId, cursor, bus, lagged, token, pending,
                   export, choice>>

\* reconcile: the row takes the placeholder's place, if it is still there.
Reconciled(messages, t, record) ==
    [n \in DOMAIN messages |-> IF messages[n].temp = t THEN record ELSE messages[n]]

\* The fate of the placeholder: the user has left the conversation, the send
\* failed, the row replaced it, or (a file) it was promoted.
Outcome_Silent(k) == IF StillOpen(k) /\ k.st = "ok" THEN k.kind ELSE "left"
Outcome(k) == IF ~StillOpen(k) THEN "left" ELSE IF k.st = "err" THEN "failed" ELSE k.kind

SendReturns(k) ==
    /\ IsSend(k) /\ k.st # "asked"
    /\ calls' = calls \ {k}
    /\ bubble' = [bubble EXCEPT ![k.temp] = Outcome(k)]
    /\ view' = IF Outcome(k) = "send"
               THEN [view EXCEPT !.messages = Reconciled(@, k.temp, Head(k.page))] ELSE view
    /\ UNCHANGED <<rvars, rows, lastId, cursor, bus, lagged, token, pending,
                   export, choice, ops>>

-----------------------------------------------------------------------------
(* The UI: marking read. *)

\* The bottom sentinel: the last entry that is a stored row, 0 if there is none.
LastRow == Max({0} \cup {view.messages[n].row : n \in
                  Newest({m \in DOMAIN view.messages : view.messages[m].row > 0}, 1)})

\* markReadIfAtBottom for that row.
MarkReadIfAtBottom ==
    /\ Op
    /\ view.contact # NoContact /\ LastRow > view.readCursor
    /\ pending' = [contact |-> view.contact, row |-> Max({pending.row, LastRow}),
                   load |-> view.load]
    /\ UNCHANGED <<rvars, rows, lastId, cursor, bus, lagged, calls, view, token, bubble,
                   export, choice>>

\* The debounce timer.  The scheduled and the open contact are compared by
\* reference: a conversation reopened meanwhile may hold the same key or a
\* fresh copy.
TimerFires ==
    /\ pending # NoTimer
    /\ pending' = NoTimer
    /\ \/ /\ view.contact # NoContact /\ view.contact = pending.contact
          /\ pending.row > view.readCursor
          /\ calls' = calls \cup {Call("mark", view.contact, 1, pending.row)}
       \/ /\ view.contact # pending.contact \/ view.load # pending.load
             \/ pending.row <= view.readCursor
          /\ UNCHANGED calls
    /\ UNCHANGED <<rvars, rows, lastId, cursor, bus, lagged, view, token, bubble,
                   export, choice, ops>>

\* The reply to mark_read: the timer's sets readCursor of whatever is open,
\* unless the request was rejected; an error reply of the daemon is not.
MarkReturns(k) ==
    /\ k.kind = "mark" /\ k.st # "asked"
    /\ calls' = calls \ {k}
    /\ \/ k.tag = 1 /\ view' = [view EXCEPT !.readCursor = k.arg]
       \/ (k.tag = 0 \/ k.st = "err") /\ UNCHANGED view
    /\ UNCHANGED <<rvars, rows, lastId, cursor, bus, lagged, token, pending, bubble,
                   export, choice, ops>>

-----------------------------------------------------------------------------
(* The CLI: export. *)

\* base is what the history holds when the export begins.
ExportBegin(c) ==
    /\ Op
    /\ export = NoExport
    /\ RowsOf(c) # {}
    /\ export' = [pc |-> "page", contact |-> c, after |-> 0, out |-> <<>>, base |-> RowsOf(c)]
    /\ UNCHANGED <<rvars, uiVars, rows, lastId, cursor, bus, lagged, calls>>

\* One turn of the loop: export_history on a new connection, the records
\* written, and the cursor moved to next_after_id.
ExportTurn ==
    /\ export.pc = "page"
    /\ LET page == ExportPage(export.contact, export.after)
           next == NextAfter(page)
       IN export' = [export EXCEPT !.out = @ \o Ascending(page), !.after = next,
                                   !.pc = IF next = 0 THEN "done" ELSE "page"]
    /\ UNCHANGED <<rvars, uiVars, rows, lastId, cursor, bus, lagged, calls, ops>>

-----------------------------------------------------------------------------
Serve(k) == RecentMessages(k) \/ MarkRead(k) \/ SendLoad(k) \/ SendPersist(k)

Fails(k) == RequestFails(k) \/ SendAborts(k)

Returns(k) == OpenReturns(k) \/ OlderReturns(k) \/ SendReturns(k) \/ MarkReturns(k)

Next ==
    \/ \E k \in calls : Serve(k) \/ Fails(k) \/ Returns(k)
    \/ \E w \in Receivers, c \in Contacts, g \in PeerGens : ReceiveLoad(w, c, g)
    \/ \E w \in Receivers : ReceivePersist(w)
    \/ \E w \in Publishers, c \in Contacts : CardLoad(w, c)
    \/ \E w \in Publishers : CardStep(w)
    \/ \E w \in Receivers \cup Publishers : TaskAborts(w)
    \/ \E id \in DOMAIN rows : PruneBefore(id)
    \/ \E c \in Contacts, n \in 0 .. 1 : PruneKeepLast(c, n)
    \/ Restart \/ StreamClosed \/ Resubscribe \/ Forward
    \/ CloseConversation \/ LoadOlder \/ MarkReadIfAtBottom \/ TimerFires
    \/ \E c \in Contacts : OpenConversation(c) \/ ExportBegin(c)
    \/ \E t \in Temps, kind \in {"send", "file"} : Send(t, kind)
    \/ ExportTurn

Spec == Init /\ [][Next]_vars

-----------------------------------------------------------------------------
(* Properties. *)

\* Nothing of another contact is ever on the screen of a conversation,
\* whatever page, event or send reply arrives after the user has switched
\* (stores/conversation.ts).
NoForeignRows ==
    \A n \in DOMAIN view.messages : view.messages[n].of = view.contact

\* Once the newest load has been answered the open conversation is the one
\* the user chose last: no late response reopens a conversation that was
\* closed or overrides a later selection.
LastChoiceWins ==
    (\A k \in calls : k.kind = "open" => k.tag # token) => view.contact = choice

\* A new row is unread: its id is above the read cursor of its contact, also
\* after the newest rows were read and pruned.
NewIsUnread ==
    [][\A i \in DOMAIN rows' \ DOMAIN rows : i > cursor'[rows'[i]]]_vars

\* A finished export holds every row of the contact that was there when it
\* began and has not been pruned, each row once and in order, whatever is
\* inserted or pruned between its pages.
ExportWhole ==
    /\ \A i, j \in DOMAIN export.out : i < j => export.out[i] < export.out[j]
    /\ export.pc = "done" => export.base \cap DOMAIN rows \subseteq Range(export.out)

\* The placeholder of a send on the screen that is neither replaced by its
\* row, promoted nor marked failed has a request under way whose answer will
\* settle it: no bubble is left as sending for ever, however the user switches
\* and whatever fails.
Hanging(t) ==
    /\ bubble[t] \in {"asked", "left"}
    /\ \E n \in DOMAIN view.messages : view.messages[n].temp = t
BubblesAreAnswered ==
    \A t \in Temps : Hanging(t) => \E k \in calls : k.temp = t /\ StillOpen(k)

=============================================================================
