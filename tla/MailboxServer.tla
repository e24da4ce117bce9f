--------------------------- MODULE MailboxServer ---------------------------
(***************************************************************************)
(* The mailbox server (crates/mailbox): connections with their rate        *)
(* limiters, the four request handlers, the deposit table with its caps,   *)
(* the challenge table and the background sweeps.                          *)
(*                                                                         *)
(* A client is a connection; a user stands for an identity key and its     *)
(* hash.  Time is counted in the steps in which a token bucket gains one   *)
(* token; sizes are in units of ciphertext.                                *)
(***************************************************************************)
EXTENDS Integers, FiniteSetsExt

CONSTANTS
    Users, NoUser,
    Ids,              \* deposit ids the server may draw
    Nonces,           \* challenge nonces the server may draw
    Conns,            \* client connections
    Sizes,            \* ciphertext lengths
    Ttls,             \* ttl_request values
    MaxTime,          \* bound: length of a run
    MaxRestarts,      \* bound: restarts of the server
    MaxDepositSize, MinTtl, MaxTtl, DefaultTtl,       \* Policy
    RecipientCap, GlobalCap, MaxRecipients, MaxConnections, MaxDeleteIds,
    DepositsPerMin, FetchesPerMin, GlobalPerMin,
    ChallengeTtl      \* CHALLENGE_TTL_SECS

ASSUME UsersAssumption == NoUser \notin Users
ASSUME TimeAssumption == {MaxTime, MaxRestarts, ChallengeTtl} \subseteq Nat
ASSUME TtlAssumption ==
    Ttls \subseteq Nat /\ {MinTtl, MaxTtl, DefaultTtl} \subseteq Nat \ {0}
ASSUME SizeAssumption == Sizes \subseteq Nat
ASSUME LimitAssumption ==
    {MaxDepositSize, RecipientCap, GlobalCap, MaxRecipients, MaxConnections,
     MaxDeleteIds, DepositsPerMin, FetchesPerMin, GlobalPerMin} \subseteq Nat

VARIABLES
    now,
    restarts,
    row,        \* the deposits table: recipient, length, times
    issue,      \* the challenge table: to whom each nonce was issued, and when
    uses,       \* requests verified with each nonce since it was issued
    accepted,   \* number of deposits accepted so far
    global,     \* the global token bucket
    conn        \* the two token buckets of each open connection

store    == <<row, accepted>>
auth     == <<issue, uses>>
limits   == <<global, conn>>
vars     == <<now, restarts, store, auth, limits>>

NoRow   == [to |-> NoUser, len |-> 0, at |-> 0, exp |-> 0]
NoIssue == [to |-> NoUser, at |-> 0]
stored  == {i \in Ids : row[i] # NoRow}
open    == {n \in Nonces : issue[n] # NoIssue}
Full(max) == [avail |-> max, last |-> now]
Closed  == [up |-> FALSE, dep |-> [avail |-> 0, last |-> 0], fet |-> [avail |-> 0, last |-> 0]]

Init ==
    /\ now = 0 /\ restarts = 0
    /\ row = [i \in Ids |-> NoRow] /\ accepted = 0
    /\ issue = [n \in Nonces |-> NoIssue] /\ uses = [n \in Nonces |-> 0]
    /\ global = [avail |-> GlobalPerMin, last |-> 0]
    /\ conn = [c \in Conns |-> Closed]

-----------------------------------------------------------------------------
(* policy.rs                                                               *)

\* TokenBucket::try_acquire: refill by the time that has passed, then take one
\* token if there is one.  The refill stays when the acquisition fails.
\* Mutant: the time of the last refill is not moved.
Refilled_StaleClock(b, max) == [b EXCEPT !.avail = Min({b.avail + (now - b.last), max})]
Refilled(b, max) == [avail |-> Min({b.avail + (now - b.last), max}), last |-> now]
Granted(b, max)  == Refilled(b, max).avail >= 1
Acquired(b, max) ==
    LET r == Refilled(b, max) IN
    IF r.avail >= 1 THEN [r EXCEPT !.avail = @ - 1] ELSE r

\* Policy::resolve_ttl.
TtlOk(ttl)      == ttl = 0 \/ (MinTtl <= ttl /\ ttl <= MaxTtl)
ResolveTtl(ttl) == IF ttl = 0 THEN DefaultTtl ELSE ttl

-----------------------------------------------------------------------------
(* store.rs                                                                *)

Bytes(S)     == MapThenSumSet(LAMBDA i : row[i].len, S)
RowsOf(u, S) == {i \in S : row[i].to = u}
\* Mutant: a deposit is evicted in the second in which it expires.
Stale_Early(S) == {i \in S : row[i].exp <= now}
Stale(S)     == {i \in S : row[i].exp < now}
RowsWithout(S) == [i \in Ids |-> IF i \in S THEN NoRow ELSE row[i]]

\* evict_expired_for and evict_expired_global: the oldest candidates, one by
\* one, until enough is freed or none is left.
Evicts(E, candidates, target) ==
    /\ E \subseteq candidates
    /\ \A i \in E, j \in candidates \ E : row[i].at <= row[j].at
    /\ Bytes(E) >= target \/ E = candidates
    /\ E # {} => \E i \in E : /\ \A j \in E : row[j].at <= row[i].at
                              /\ Bytes(E \ {i}) < target

\* What is evicted from S to bring `used` plus a new deposit below a cap.
MakesRoom(E, candidates, used, len, cap) ==
    IF used + len > cap THEN Evicts(E, candidates, used + len - cap) ELSE E = {}

\* The three caps, on what is left after the evictions (Store::insert).
RecipientFits(u, len, S) == Bytes(RowsOf(u, S)) + len <= RecipientCap
\* Mutant: one recipient too many.
KnownRecipient_OffByOne(u, S) ==
    RowsOf(u, S) # {} \/ Cardinality({row[i].to : i \in S}) <= MaxRecipients
KnownRecipient(u, S)     ==
    RowsOf(u, S) # {} \/ Cardinality({row[i].to : i \in S}) < MaxRecipients
ServerFits(len, S)       == Bytes(S) + len <= GlobalCap

\* Store::insert for recipient u: one transaction, rolled back when a cap does
\* not hold.
Insert(u, len, ttl) ==
    \E own \in SUBSET Stale(RowsOf(u, stored)), any \in SUBSET Stale(stored) :
        LET left  == stored \ own
            final == left \ any
            fits1 == RecipientFits(u, len, left) /\ KnownRecipient(u, left) IN
        /\ MakesRoom(own, Stale(RowsOf(u, stored)), Bytes(RowsOf(u, stored)), len, RecipientCap)
        /\ IF fits1 THEN MakesRoom(any, Stale(left), Bytes(left), len, GlobalCap) ELSE any = {}
        /\ IF fits1 /\ ServerFits(len, final)
           THEN \E i \in Ids :
                    /\ row[i] = NoRow
                    /\ row' = [RowsWithout(own \cup any) EXCEPT ![i] = [to |-> u, len |-> len, at |-> now,
                                                  exp |-> now + ResolveTtl(ttl)]]
                    /\ accepted' = accepted + 1
           ELSE UNCHANGED store

\* Store::delete: ids of another recipient, or gone, do nothing.
Deleted(u, S) ==
    /\ row' = RowsWithout(RowsOf(u, S))
    /\ UNCHANGED accepted

-----------------------------------------------------------------------------
(* auth.rs                                                                 *)

\* Challenges::verify: unknown, too old, or of another identity; a nonce that
\* is too old is dropped at once, one that verifies is consumed.
TooOld(n)      == now - issue[n].at > ChallengeTtl
Verifies(u, n) == n \in open /\ ~TooOld(n) /\ issue[n].to = u
\* Mutant: the nonce is dropped only when it is too old.
Verify_Keeps(u, n) ==
    /\ issue' = IF n \in open /\ TooOld(n) THEN [issue EXCEPT ![n] = NoIssue] ELSE issue
    /\ uses' = IF Verifies(u, n) THEN [uses EXCEPT ![n] = @ + 1] ELSE uses
Verify(u, n) ==
    /\ issue' = IF n \in open /\ (TooOld(n) \/ Verifies(u, n))
                THEN [issue EXCEPT ![n] = NoIssue] ELSE issue
    /\ uses' = IF Verifies(u, n) THEN [uses EXCEPT ![n] = @ + 1] ELSE uses

-----------------------------------------------------------------------------
(* server.rs, dispatch.rs, background.rs                                   *)

\* serve_connection: above max_connections the stream is dropped.
Connect(c) ==
    /\ ~conn[c].up
    /\ Cardinality({d \in Conns : conn[d].up}) < MaxConnections
    /\ conn' = [conn EXCEPT ![c] = [up |-> TRUE, dep |-> Full(DepositsPerMin),
                                    fet |-> Full(FetchesPerMin)]]
    /\ UNCHANGED <<now, restarts, store, auth, global>>

\* accept_loop returns: end of stream, an I/O error or idle_timeout.
Disconnect(c) ==
    /\ conn[c].up
    /\ conn' = [conn EXCEPT ![c] = Closed]
    /\ UNCHANGED <<now, restarts, store, auth, global>>

\* handle_deposit: size, the connection's bucket, the global bucket, the ttl,
\* the table, in this order; an error leaves what was done before it.
HandleDeposit(c, u, len, ttl) ==
    LET dep == conn[c].dep IN
    /\ conn[c].up
    /\ IF len > MaxDepositSize THEN UNCHANGED <<store, global, conn>>
       ELSE /\ conn' = [conn EXCEPT ![c].dep = Acquired(dep, DepositsPerMin)]
            /\ IF ~Granted(dep, DepositsPerMin) THEN UNCHANGED <<store, global>>
               ELSE /\ global' = Acquired(global, GlobalPerMin)
                    /\ IF Granted(global, GlobalPerMin) /\ TtlOk(ttl)
                       THEN Insert(u, len, ttl) ELSE UNCHANGED store
    /\ UNCHANGED <<now, restarts, auth>>

\* handle_challenge.
HandleChallenge(c, u) ==
    /\ conn[c].up
    /\ \E n \in Nonces :
        /\ issue[n] = NoIssue
        /\ issue' = [issue EXCEPT ![n] = [to |-> u, at |-> now]]
        /\ uses' = [uses EXCEPT ![n] = 0]
    /\ UNCHANGED <<now, restarts, store, limits>>

\* handle_fetch: the bucket first, then the nonce; the table is only read.
HandleFetch(c, u, n) ==
    LET fet == conn[c].fet IN
    /\ conn[c].up
    /\ conn' = [conn EXCEPT ![c].fet = Acquired(fet, FetchesPerMin)]
    /\ IF Granted(fet, FetchesPerMin) THEN Verify(u, n) ELSE UNCHANGED auth
    /\ UNCHANGED <<now, restarts, store, global>>

\* handle_delete: the number of ids, the nonce, the table.
HandleDelete(c, u, n, S) ==
    /\ conn[c].up
    /\ IF Cardinality(S) > MaxDeleteIds THEN UNCHANGED <<store, auth>>
       ELSE /\ Verify(u, n)
            /\ IF Verifies(u, n) THEN Deleted(u, S) ELSE UNCHANGED store
    /\ UNCHANGED <<now, restarts, limits>>

\* spawn_expire_sweep and spawn_challenge_sweep.
ExpireSweep ==
    /\ row' = RowsWithout(Stale(stored))
    /\ UNCHANGED <<now, restarts, accepted, auth, limits>>
ChallengeSweep ==
    /\ issue' = [n \in Nonces |-> IF n \in open /\ TooOld(n) THEN NoIssue ELSE issue[n]]
    /\ UNCHANGED <<now, restarts, store, uses, limits>>

Tick ==
    /\ now < MaxTime /\ now' = now + 1
    /\ UNCHANGED <<restarts, store, auth, limits>>

\* The server process stops and starts: the deposits are in the database, the
\* challenges and the buckets are not.
Restart ==
    /\ restarts < MaxRestarts /\ restarts' = restarts + 1
    /\ issue' = [n \in Nonces |-> NoIssue]
    /\ conn' = [c \in Conns |-> Closed]
    /\ global' = Full(GlobalPerMin)
    /\ UNCHANGED <<now, store, uses>>

Next ==
    \/ Tick \/ ExpireSweep \/ ChallengeSweep \/ Restart
    \/ \E c \in Conns :
        \/ Connect(c) \/ Disconnect(c)
        \/ \E u \in Users :
            \/ \E len \in Sizes, ttl \in Ttls : HandleDeposit(c, u, len, ttl)
            \/ HandleChallenge(c, u)
            \/ \E n \in Nonces : \/ HandleFetch(c, u, n)
                                 \/ \E S \in SUBSET stored : HandleDelete(c, u, n, S)

Spec == Init /\ [][Next]_vars

-----------------------------------------------------------------------------
(* Properties.                                                             *)

\* The caps of Store::insert hold in every state: bytes per recipient, number
\* of recipients, bytes in all, although every check is on sums read before
\* the evictions.
CapsHold ==
    /\ \A u \in Users : Bytes(RowsOf(u, stored)) <= RecipientCap
    /\ Cardinality({row[i].to : i \in stored}) <= MaxRecipients
    /\ Bytes(stored) <= GlobalCap

\* A nonce answers one request, whatever Fetches and Deletes of any
\* connections use it, and whatever the sweep does in between.
NonceUsedOnce == \A n \in Nonces : uses[n] <= 1

\* The global bucket bounds the deposits of all connections together: in any
\* run no more than its capacity and one for every token of time, although a
\* refused deposit also takes a token.  A restart forgets the bucket and
\* grants its capacity again.
RateBounded == accepted <= GlobalPerMin * (restarts + 1) + now

Promise == INSTANCE MailboxStore WITH
    to   <- [i \in Ids |-> row[i].to],
    past <- {i \in stored : row[i].exp < now}

\* The server keeps the promise of MailboxStore, "accepted non-expired rows are
\* never evicted": a deposit leaves the table by a verified Delete of its own
\* recipient, or after its ttl, whichever connection's deposit, sweep or restart
\* made room.
KeepsPromise == Promise!Spec
=============================================================================
