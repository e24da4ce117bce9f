--------------------------- MODULE MailboxProofs ---------------------------
(***************************************************************************)
(* Theorems about MailboxServer, for any sets of users, deposits, nonces   *)
(* and connections and any policy: a nonce is used once, the global bucket *)
(* bounds the deposits, the server implements MailboxStore, and the caps   *)
(* on what the table holds are kept.                                       *)
(***************************************************************************)
EXTENDS MailboxServer, FiniteSetTheorems, TLAPS

-----------------------------------------------------------------------------
(* Nonces.                                                                 *)

\* A nonce that can still be used has not been used.
NonceInv ==
    /\ issue \in [Nonces -> [to : Users \cup {NoUser}, at : Nat]]
    /\ uses \in [Nonces -> Nat]
    /\ now \in Nat
    /\ \A n \in Nonces : uses[n] <= 1
    /\ \A n \in Nonces : n \in open => uses[n] = 0

LEMMA VerifyKeepsNonceInv ==
    ASSUME NonceInv, NEW u \in Users, NEW n \in Nonces, Verify(u, n), now' = now
    PROVE  NonceInv'
<1>1. NoIssue \in [to : Users \cup {NoUser}, at : Nat]
      BY DEF NoIssue
<1>2. /\ issue' \in [Nonces -> [to : Users \cup {NoUser}, at : Nat]]
      /\ \A m \in Nonces : m # n => issue'[m] = issue[m]
      BY <1>1 DEF Verify, NonceInv
<1>3. Verifies(u, n) => n \in open /\ issue'[n] = NoIssue
      BY DEF Verify, Verifies, NonceInv
<1>4. issue'[n] = issue[n] \/ issue'[n] = NoIssue
      BY DEF Verify, NonceInv
<1>5. /\ uses' \in [Nonces -> Nat]
      /\ \A m \in Nonces : m # n => uses'[m] = uses[m]
      /\ Verifies(u, n) => uses'[n] = uses[n] + 1
      /\ ~Verifies(u, n) => uses'[n] = uses[n]
      BY DEF Verify, NonceInv
<1>6. \A m \in Nonces : uses'[m] <= 1
      BY <1>3, <1>5 DEF NonceInv
<1>7. \A m \in Nonces : issue'[m] # NoIssue => uses'[m] = 0
  <2> SUFFICES ASSUME NEW m \in Nonces, issue'[m] # NoIssue PROVE uses'[m] = 0
      OBVIOUS
  <2>1. issue[m] # NoIssue
        BY <1>2, <1>4
  <2>2. uses[m] = 0
        BY <2>1 DEF NonceInv, open
  <2>3. m = n => ~Verifies(u, n)
        BY <1>3
  <2> QED BY <2>2, <2>3, <1>5
<1> QED BY <1>2, <1>5, <1>6, <1>7 DEF NonceInv, open

\* An issued nonce is dropped: its count stays.
LEMMA DropKeepsNonceInv ==
    ASSUME NonceInv, now' \in Nat, uses' = uses,
           issue' \in [Nonces -> [to : Users \cup {NoUser}, at : Nat]],
           \A n \in Nonces : issue'[n] = issue[n] \/ issue'[n] = NoIssue
    PROVE  NonceInv'
BY DEF NonceInv, open

LEMMA NonceStep == NonceInv /\ [Next]_vars => NonceInv'
<1> SUFFICES ASSUME NonceInv, [Next]_vars PROVE NonceInv'
    OBVIOUS
<1>0. /\ NoIssue \in [to : Users \cup {NoUser}, at : Nat]
      /\ now \in Nat /\ issue \in [Nonces -> [to : Users \cup {NoUser}, at : Nat]]
      BY DEF NoIssue, NonceInv
<1>1. ASSUME UNCHANGED auth, now' \in Nat
      PROVE  NonceInv'
      BY <1>1, <1>0, DropKeepsNonceInv DEF auth
<1>2. CASE Tick \/ ExpireSweep
      BY <1>0, <1>1, <1>2 DEF Tick, ExpireSweep
<1>3. CASE ChallengeSweep \/ Restart
      BY <1>0, <1>3, DropKeepsNonceInv DEF ChallengeSweep, Restart
<1>4. ASSUME NEW c \in Conns, Connect(c) \/ Disconnect(c)
      PROVE  NonceInv'
      BY <1>0, <1>1, <1>4 DEF Connect, Disconnect
<1>5. ASSUME NEW c \in Conns, NEW u \in Users, NEW len \in Sizes, NEW ttl \in Ttls,
             HandleDeposit(c, u, len, ttl)
      PROVE  NonceInv'
      BY <1>0, <1>1, <1>5 DEF HandleDeposit
<1>6. ASSUME NEW c \in Conns, NEW u \in Users, HandleChallenge(c, u)
      PROVE  NonceInv'
      BY <1>6 DEF HandleChallenge, NonceInv, open
<1>7. ASSUME NEW c \in Conns, NEW u \in Users, NEW n \in Nonces, HandleFetch(c, u, n)
      PROVE  NonceInv'
      BY <1>0, <1>1, <1>7, VerifyKeepsNonceInv DEF HandleFetch
<1>8. ASSUME NEW c \in Conns, NEW u \in Users, NEW n \in Nonces, NEW S \in SUBSET stored,
             HandleDelete(c, u, n, S)
      PROVE  NonceInv'
      BY <1>0, <1>1, <1>8, VerifyKeepsNonceInv DEF HandleDelete
<1>9. CASE UNCHANGED vars
      BY <1>0, <1>1, <1>9 DEF vars
<1> QED BY <1>2, <1>3, <1>4, <1>5, <1>6, <1>7, <1>8, <1>9 DEF Next

\* A nonce of Challenges authorises at most one Fetch or Delete, for any
\* number of connections, identities, sweeps and restarts.
THEOREM NonceSafe == Spec => []NonceUsedOnce
<1>1. Init => NonceInv
      BY DEF Init, NonceInv, NoIssue, open
<1>2. NonceInv => NonceUsedOnce
      BY DEF NonceInv, NonceUsedOnce
<1> QED BY <1>1, <1>2, NonceStep, PTL DEF Spec

-----------------------------------------------------------------------------
(* The global bucket.                                                      *)

\* Tokens granted by starting the server r times again.
Grants(r) == GlobalPerMin * (r + 1)

LEMMA GrantsFacts ==
    ASSUME NEW r \in Nat
    PROVE  Grants(r) \in Nat /\ Grants(r + 1) = Grants(r) + GlobalPerMin
<1>1. GlobalPerMin \in Nat
      BY LimitAssumption
<1>2. GlobalPerMin * (r + 1) \in Nat /\ GlobalPerMin * (r + 2) = GlobalPerMin * (r + 1) + GlobalPerMin
      BY <1>1, SMT
<1> QED BY <1>2 DEF Grants

\* What was accepted and what can still be granted come from the capacity, the
\* restarts and the time up to the last refill.
RateInv ==
    /\ now \in Nat /\ restarts \in Nat /\ accepted \in Nat
    /\ global \in [avail : Nat, last : Nat]
    /\ global.last <= now
    /\ accepted + global.avail <= Grants(restarts) + global.last

LEMMA MinOfTwo ==
    ASSUME NEW x \in Nat, NEW y \in Nat
    PROVE  Min({x, y}) \in {x, y} /\ Min({x, y}) <= x
<1>1. \E z \in {x, y} : \A v \in {x, y} : z <= v
  <2>1. CASE x <= y
        BY <2>1
  <2>2. CASE y <= x
        BY <2>2
  <2> QED BY <2>1, <2>2
<1> QED BY <1>1 DEF Min

\* A refill never adds more than the time that has passed, and an acquisition
\* takes one token when it is granted.
LEMMA AcquireFacts ==
    ASSUME NEW b \in [avail : Nat, last : Nat], NEW max \in Nat, now \in Nat, b.last <= now
    PROVE  /\ Acquired(b, max) \in [avail : Nat, last : Nat]
           /\ Acquired(b, max).last = now
           /\ Acquired(b, max).avail <= b.avail + (now - b.last)
           /\ Granted(b, max) => Acquired(b, max).avail + 1 <= b.avail + (now - b.last)
<1> DEFINE m == Min({b.avail + (now - b.last), max})
           r == Refilled(b, max)
<1>1. m \in Nat /\ m <= b.avail + (now - b.last)
  <2>1. b.avail + (now - b.last) \in Nat
        OBVIOUS
  <2> QED BY <2>1, MinOfTwo
<1>2. r = [avail |-> m, last |-> now]
      BY DEF Refilled
<1> HIDE DEF m, r
<1>3. r \in [avail : Nat, last : Nat] /\ r.avail = m /\ r.last = now
      BY <1>1, <1>2
<1>4. CASE r.avail >= 1
  <2>1. Acquired(b, max) = [r EXCEPT !.avail = @ - 1]
        BY <1>4 DEF Acquired, r
  <2>2. /\ [r EXCEPT !.avail = @ - 1] \in [avail : Nat, last : Nat]
        /\ [r EXCEPT !.avail = @ - 1].avail = m - 1
        /\ [r EXCEPT !.avail = @ - 1].last = now
        BY <1>1, <1>3, <1>4
  <2> QED BY <2>1, <2>2, <1>1
<1>5. CASE ~(r.avail >= 1)
  <2>1. Acquired(b, max) = r /\ ~Granted(b, max)
        BY <1>5 DEF Acquired, Granted, r
  <2> QED BY <2>1, <1>1, <1>3
<1> QED BY <1>4, <1>5

LEMMA RateStep == RateInv /\ [Next]_vars => RateInv'
<1> SUFFICES ASSUME RateInv, [Next]_vars PROVE RateInv'
    OBVIOUS
<1>0. /\ now \in Nat /\ restarts \in Nat /\ accepted \in Nat /\ GlobalPerMin \in Nat
      /\ global \in [avail : Nat, last : Nat] /\ global.avail \in Nat /\ global.last \in Nat
      /\ global.last <= now
      /\ accepted + global.avail <= Grants(restarts) + global.last
      /\ Grants(restarts) \in Nat
      BY GrantsFacts, LimitAssumption DEF RateInv
<1>1. ASSUME accepted' = accepted, restarts' = restarts, global' = global,
             now' \in Nat, now <= now'
      PROVE  RateInv'
      BY <1>0, <1>1 DEF RateInv
<1>2. CASE Tick \/ ExpireSweep \/ ChallengeSweep
      BY <1>0, <1>1, <1>2 DEF Tick, ExpireSweep, ChallengeSweep, store, limits
<1>3. CASE Restart
  <2>1. /\ restarts' = restarts + 1 /\ now' = now /\ accepted' = accepted
        /\ global' = [avail |-> GlobalPerMin, last |-> now]
        BY <1>3 DEF Restart, Full, store
  <2>2. Grants(restarts') = Grants(restarts) + GlobalPerMin
        BY <1>0, <2>1, GrantsFacts
  <2>3. /\ global'.avail = GlobalPerMin /\ global'.last = now
        /\ global' \in [avail : Nat, last : Nat]
        BY <1>0, <2>1
  <2>4. accepted' + global'.avail <= Grants(restarts') + global'.last
        BY <1>0, <2>1, <2>2, <2>3
  <2> QED BY <1>0, <2>1, <2>3, <2>4 DEF RateInv
<1>4. ASSUME NEW c \in Conns, Connect(c) \/ Disconnect(c)
      PROVE  RateInv'
      BY <1>0, <1>1, <1>4 DEF Connect, Disconnect, store
<1>5. ASSUME NEW c \in Conns, NEW u \in Users, NEW len \in Sizes, NEW ttl \in Ttls,
             HandleDeposit(c, u, len, ttl)
      PROVE  RateInv'
  <2>1. now' = now /\ restarts' = restarts
        BY <1>5 DEF HandleDeposit
  <2>2. CASE UNCHANGED <<store, global>>
        BY <1>0, <1>1, <2>1, <2>2 DEF store
  <2>3. CASE /\ global' = Acquired(global, GlobalPerMin)
             /\ \/ Granted(global, GlobalPerMin) /\ accepted' = accepted + 1
                \/ accepted' = accepted
    <3> DEFINE g == Acquired(global, GlobalPerMin)
    <3>1. /\ g \in [avail : Nat, last : Nat] /\ g.last = now
          /\ g.avail <= global.avail + (now - global.last)
          /\ Granted(global, GlobalPerMin) => g.avail + 1 <= global.avail + (now - global.last)
          BY <1>0, AcquireFacts
    <3> HIDE DEF g
    <3>2. global' = g
          BY <2>3 DEF g
    <3>3. accepted' + g.avail <= accepted + (global.avail + (now - global.last))
      <4>1. g.avail \in Nat
            BY <3>1
      <4> QED BY <1>0, <2>3, <3>1, <4>1
    <3>4. accepted' + g.avail <= Grants(restarts) + now
      <4>1. g.avail \in Nat /\ accepted' \in Nat
            BY <1>0, <2>3, <3>1
      <4> QED BY <1>0, <3>3, <4>1
    <3> QED BY <1>0, <2>1, <2>3, <3>1, <3>2, <3>4 DEF RateInv
  <2>4. Insert(u, len, ttl) => accepted' = accepted + 1 \/ accepted' = accepted
        BY DEF Insert, store
  <2> QED BY <1>5, <2>2, <2>3, <2>4 DEF HandleDeposit, store
<1>6. ASSUME NEW c \in Conns, NEW u \in Users, HandleChallenge(c, u)
      PROVE  RateInv'
      BY <1>0, <1>1, <1>6 DEF HandleChallenge, store, limits
<1>7. ASSUME NEW c \in Conns, NEW u \in Users, NEW n \in Nonces, HandleFetch(c, u, n)
      PROVE  RateInv'
      BY <1>0, <1>1, <1>7 DEF HandleFetch, store
<1>8. ASSUME NEW c \in Conns, NEW u \in Users, NEW n \in Nonces, NEW S \in SUBSET stored,
             HandleDelete(c, u, n, S)
      PROVE  RateInv'
      BY <1>0, <1>1, <1>8 DEF HandleDelete, Deleted, store, limits
<1>9. CASE UNCHANGED vars
      BY <1>0, <1>1, <1>9 DEF vars, store, limits
<1> QED BY <1>2, <1>3, <1>4, <1>5, <1>6, <1>7, <1>8, <1>9 DEF Next

\* The accepted deposits are bounded by the capacity of the global bucket, the
\* time and the restarts, for any number of connections and any policy.
THEOREM RateSafe == Spec => []RateBounded
<1>1. Init => RateInv
  <2> SUFFICES ASSUME Init PROVE RateInv
      OBVIOUS
  <2>1. Grants(0) = GlobalPerMin /\ GlobalPerMin \in Nat
        BY LimitAssumption DEF Grants
  <2> QED BY <2>1 DEF Init, RateInv
<1>2. RateInv => RateBounded
  <2> SUFFICES ASSUME RateInv PROVE RateBounded
      OBVIOUS
  <2>1. Grants(restarts) \in Nat
        BY GrantsFacts DEF RateInv
  <2>2. accepted <= Grants(restarts) + now
        BY <2>1 DEF RateInv
  <2> QED BY <2>2 DEF RateBounded, Grants
<1> QED BY <1>1, <1>2, RateStep, PTL DEF Spec

-----------------------------------------------------------------------------
(* The promise of MailboxStore.                                            *)

Rows == [to : Users \cup {NoUser}, len : Nat, at : Nat, exp : Nat]

\* A row of the table belongs to a user.
StoreInv ==
    /\ now \in Nat
    /\ row \in [Ids -> Rows]
    /\ \A i \in Ids : row[i] = NoRow \/ row[i].to # NoUser

recipient == [i \in Ids |-> row[i].to]
expired   == {i \in stored : row[i].exp < now}

LEMMA HeldIsStored ==
    ASSUME StoreInv
    PROVE  /\ Promise!Held = stored
           /\ \A i \in Ids : i \notin stored => recipient[i] = NoUser
           /\ expired \subseteq stored /\ stored \subseteq Ids
BY DEF StoreInv, Promise!Held, stored, recipient, expired, NoRow

\* Rows that leave the table leave it in the abstract store.
LEMMA LeavingRows ==
    ASSUME StoreInv, NEW S \in SUBSET stored, row' = RowsWithout(S), now' = now
    PROVE  /\ StoreInv'
           /\ recipient' = Promise!Without(S)
           /\ expired' = expired \ S
<1>0. NoRow \in Rows /\ NoRow.to = NoUser
      BY DEF NoRow, Rows
<1>1. \A i \in Ids : row'[i] = IF i \in S THEN NoRow ELSE row[i]
      BY DEF RowsWithout
<1>2. row' \in [Ids -> Rows]
      BY <1>0 DEF RowsWithout, StoreInv
<1>3. StoreInv'
      BY <1>1, <1>2 DEF StoreInv
<1>4. recipient' = Promise!Without(S)
      BY <1>0, <1>1 DEF recipient, Promise!Without
<1>5. \A i \in Ids : i \in stored' <=> i \in stored /\ i \notin S
      BY <1>1 DEF stored
<1>6. expired' = expired \ S
      BY <1>1, <1>5 DEF expired, stored
<1> QED BY <1>3, <1>4, <1>6

\* A deposit that is accepted takes a free id, and what was evicted for it had
\* expired; its own ttl has not.
LEMMA InsertAccepts ==
    ASSUME StoreInv, NEW u \in Users, NEW len \in Sizes, NEW ttl \in Ttls,
           Insert(u, len, ttl), now' = now
    PROVE  /\ StoreInv'
           /\ \/ recipient' = recipient /\ expired' = expired
              \/ \E i \in Ids, freed \in SUBSET expired :
                    /\ i \notin Promise!Held
                    /\ recipient' = [Promise!Without(freed) EXCEPT ![i] = u]
                    /\ expired' = expired \ freed
<1>1. CASE row' = row
      BY <1>1 DEF StoreInv, recipient, expired, stored
<1>2. ASSUME NEW freed \in SUBSET expired, NEW i \in Ids, row[i] = NoRow,
             row' = [RowsWithout(freed) EXCEPT ![i] =
                        [to |-> u, len |-> len, at |-> now, exp |-> now + ResolveTtl(ttl)]]
      PROVE  /\ StoreInv'
             /\ i \notin Promise!Held
             /\ recipient' = [Promise!Without(freed) EXCEPT ![i] = u]
             /\ expired' = expired \ freed
  <2> DEFINE new == [to |-> u, len |-> len, at |-> now, exp |-> now + ResolveTtl(ttl)]
  <2>0. NoRow \in Rows /\ NoRow.to = NoUser /\ now \in Nat
        BY DEF NoRow, Rows, StoreInv
  <2>1. ResolveTtl(ttl) \in Nat \ {0}
        BY TtlAssumption DEF ResolveTtl
  <2>2. new \in Rows /\ new.to = u /\ new.exp > now /\ new # NoRow
        BY <2>0, <2>1, SizeAssumption, UsersAssumption DEF Rows, NoRow
  <2> HIDE DEF new
  <2>3. row' = [RowsWithout(freed) EXCEPT ![i] = new]
        BY <1>2 DEF new
  <2>4. /\ row'[i] = new
        /\ \A j \in Ids : j # i => row'[j] = IF j \in freed THEN NoRow ELSE row[j]
        BY <2>3 DEF RowsWithout
  <2>5. row' \in [Ids -> Rows]
        BY <2>0, <2>2, <2>3 DEF RowsWithout, StoreInv
  <2>6. StoreInv'
        BY <2>0, <2>2, <2>4, <2>5, UsersAssumption DEF StoreInv
  <2>7. i \notin stored /\ i \notin freed /\ i \notin expired
        BY <1>2 DEF stored, expired
  <2>8. recipient' = [Promise!Without(freed) EXCEPT ![i] = u]
        BY <2>0, <2>2, <2>4, Zenon DEF recipient, Promise!Without
  <2>9. expired' = expired \ freed
    <3>1. \A j \in Ids : j # i => (j \in stored' <=> j \in stored /\ j \notin freed)
          BY <2>4 DEF stored
    <3>2. i \notin expired'
          BY <2>0, <2>2, <2>4 DEF expired, Rows
    <3> QED BY <2>4, <2>7, <3>1, <3>2 DEF expired, stored
  <2> QED BY <2>6, <2>7, <2>8, <2>9, HeldIsStored
<1>3. ASSUME row' # row
      PROVE  \E freed \in SUBSET expired, i \in Ids :
                /\ row[i] = NoRow
                /\ row' = [RowsWithout(freed) EXCEPT ![i] =
                        [to |-> u, len |-> len, at |-> now, exp |-> now + ResolveTtl(ttl)]]
  <2>1. PICK own \in SUBSET Stale(RowsOf(u, stored)), any \in SUBSET Stale(stored), i \in Ids :
             /\ row[i] = NoRow
             /\ row' = [RowsWithout(own \cup any) EXCEPT ![i] =
                        [to |-> u, len |-> len, at |-> now, exp |-> now + ResolveTtl(ttl)]]
        BY <1>3, Zenon DEF Insert, store
  <2>2. own \cup any \in SUBSET expired
        BY DEF Stale, RowsOf, expired
  <2> QED BY <2>1, <2>2, Zenon
<1> QED BY <1>1, <1>2, <1>3

LEMMA PromiseStep ==
    ASSUME StoreInv, [Next]_vars
    PROVE  StoreInv' /\ [Promise!Next]_<<recipient, expired>>
<1> DEFINE Goal == StoreInv' /\ [Promise!Next]_<<recipient, expired>>
<1>0. now \in Nat /\ expired \subseteq stored /\ Promise!Held = stored
      BY HeldIsStored DEF StoreInv
<1>1. ASSUME row' = row, now' = now
      PROVE  Goal
      BY <1>1 DEF StoreInv, recipient, expired, stored
<1>2. CASE Tick
  <2>1. row' = row /\ now' = now + 1
        BY <1>2 DEF Tick, store
  <2>2. StoreInv'
        BY <2>1 DEF StoreInv
  <2>3. recipient' = recipient /\ expired \subseteq expired' /\ expired' \subseteq stored
        BY <2>1, <1>0 DEF recipient, expired, stored, StoreInv, Rows
  <2>4. Promise!TimePasses
        BY <2>3, <1>0 DEF Promise!TimePasses, recipient, expired
  <2> QED BY <2>2, <2>4 DEF Promise!Next
<1>3. CASE ExpireSweep
  <2>1. row' = RowsWithout(expired) /\ now' = now
        BY <1>3 DEF ExpireSweep, Stale, expired
  <2>2. StoreInv' /\ recipient' = Promise!Without(expired) /\ expired' = expired \ expired
        BY <1>0, <2>1, LeavingRows
  <2>3. PICK freed \in SUBSET expired : freed = expired
        OBVIOUS
  <2>4. recipient' = Promise!Without(freed) /\ expired' = expired \ freed
        BY <2>2, <2>3 DEF Promise!Without
  <2>5. Promise!Reclaim(freed)
        BY <2>4 DEF Promise!Reclaim, recipient, expired
  <2>6. Promise!Next
        BY <2>5 DEF Promise!Next, expired
  <2> QED BY <2>2, <2>6
<1>4. CASE ChallengeSweep \/ Restart
      BY <1>1, <1>4 DEF ChallengeSweep, Restart, store
<1>5. ASSUME NEW c \in Conns, Connect(c) \/ Disconnect(c)
      PROVE  Goal
      BY <1>1, <1>5 DEF Connect, Disconnect, store
<1>6. ASSUME NEW c \in Conns, NEW u \in Users, NEW len \in Sizes, NEW ttl \in Ttls,
             HandleDeposit(c, u, len, ttl)
      PROVE  Goal
  <2>1. now' = now /\ (row' = row \/ Insert(u, len, ttl))
        BY <1>6 DEF HandleDeposit, store
  <2>2. CASE row' = row
        BY <1>1, <2>1, <2>2
  <2>3. CASE Insert(u, len, ttl)
    <3>1. /\ StoreInv'
          /\ \/ recipient' = recipient /\ expired' = expired
             \/ \E i \in Ids, freed \in SUBSET expired :
                   /\ i \notin Promise!Held
                   /\ recipient' = [Promise!Without(freed) EXCEPT ![i] = u]
                   /\ expired' = expired \ freed
          BY <2>1, <2>3, InsertAccepts
    <3>2. ASSUME NEW i \in Ids, NEW freed \in SUBSET expired,
                 i \notin Promise!Held,
                 recipient' = [Promise!Without(freed) EXCEPT ![i] = u],
                 expired' = expired \ freed
          PROVE  Promise!Next
      <4>1. Promise!Accept(i, u, freed)
            BY <3>2 DEF Promise!Accept, recipient, expired
      <4> QED BY <4>1 DEF Promise!Next, expired
    <3> QED BY <3>1, <3>2
  <2> QED BY <2>1, <2>2, <2>3
<1>7. ASSUME NEW c \in Conns, NEW u \in Users, HandleChallenge(c, u)
      PROVE  Goal
      BY <1>1, <1>7 DEF HandleChallenge, store
<1>8. ASSUME NEW c \in Conns, NEW u \in Users, NEW n \in Nonces, HandleFetch(c, u, n)
      PROVE  Goal
      BY <1>1, <1>8 DEF HandleFetch, store
<1>9. ASSUME NEW c \in Conns, NEW u \in Users, NEW n \in Nonces, NEW S \in SUBSET stored,
             HandleDelete(c, u, n, S)
      PROVE  Goal
  <2>1. now' = now /\ (row' = row \/ row' = RowsWithout(RowsOf(u, S)))
        BY <1>9 DEF HandleDelete, Deleted, store
  <2>2. CASE row' = RowsWithout(RowsOf(u, S))
    <3>1. RowsOf(u, S) \in SUBSET stored
          BY DEF RowsOf
    <3>2. PICK T \in SUBSET stored : T = RowsOf(u, S)
          BY <3>1
    <3>3. row' = RowsWithout(T)
          BY <2>2, <3>2 DEF RowsWithout
    <3>4. StoreInv' /\ recipient' = Promise!Without(T) /\ expired' = expired \ T
          BY <2>1, <3>3, LeavingRows
    <3>5. \A i \in T : recipient[i] = u
          BY <3>2 DEF RowsOf, recipient, stored
    <3>6. Promise!Take(u, T)
          BY <3>4, <3>5 DEF Promise!Take, recipient, expired
    <3>7. Promise!Next
          BY <1>0, <3>6 DEF Promise!Next
    <3> QED BY <3>4, <3>7
  <2> QED BY <1>1, <2>1, <2>2
<1>10. CASE UNCHANGED vars
      BY <1>1, <1>10 DEF vars, store
<1> QED BY <1>2, <1>3, <1>4, <1>5, <1>6, <1>7, <1>8, <1>9, <1>10 DEF Next

\* The server implements the abstract store: for any users, deposits, caps and
\* sweeps, an accepted deposit leaves the table by a verified Delete of its
\* recipient or after its ttl.
THEOREM PromiseKept == Spec => KeepsPromise
<1>1. Init => StoreInv /\ Promise!Init
  <2> SUFFICES ASSUME Init PROVE StoreInv /\ Promise!Init
      OBVIOUS
  <2>1. NoRow \in Rows /\ NoRow.to = NoUser
        BY DEF NoRow, Rows
  <2>2. StoreInv
        BY <2>1 DEF Init, StoreInv
  <2>3. Promise!Init
        BY <2>1 DEF Init, Promise!Init, stored
  <2> QED BY <2>2, <2>3
<1>2. StoreInv /\ [Next]_vars => StoreInv'
      BY PromiseStep
<1>3. StoreInv /\ [Next]_vars => [Promise!Next]_<<recipient, expired>>
      BY PromiseStep
<1> QED BY <1>1, <1>2, <1>3, PTL DEF Spec, KeepsPromise, Promise!Spec, recipient, expired

-----------------------------------------------------------------------------
(* Sums.  Bytes is a fold of the community modules, a recursive function    *)
(* over the subsets of its argument: what it computes for a finite set.     *)

\* Induction over the naturals, for a set.
LEMMA SetInduction ==
    ASSUME NEW S, 0 \in S, \A n \in Nat : n \in S => n + 1 \in S
    PROVE  Nat \subseteq S
<1> SUFFICES ASSUME Nat \ S # {} PROVE FALSE
    OBVIOUS
<1>1. PICK x \in Nat \ S : \A y \in Nat \ S : ~ (<<y, x>> \in OpToRel(<, Nat))
      BY NatLessThanWellFounded, WFMin, Zenon
<1>2. \A y \in Nat \ S : ~(y < x)
      BY <1>1, Zenon DEF OpToRel
<1>3. x # 0 /\ x - 1 \in Nat /\ x - 1 < x /\ (x - 1) + 1 = x
      OBVIOUS
<1> QED BY <1>2, <1>3

Any(s) == CHOOSE x \in s : TRUE
SumIn(r, S) == MapThenSumSet(LAMBDA i : r[i].len, S)
Term(r, h, s) == IF s = {} THEN 0 ELSE r[Any(s)].len + h[s \ {Any(s)}]
Unfolds(r, h, D) == h = [s \in D |-> Term(r, h, s)]

LEMMA SumDef ==
    ASSUME NEW r, NEW S
    PROVE  SumIn(r, S) = (CHOOSE h : Unfolds(r, h, SUBSET S))[S]
BY DEF SumIn, MapThenSumSet, MapThenFoldSet, Unfolds, Term, Any

\* A finite set without one of its members.
LEMMA Smaller ==
    ASSUME NEW S, IsFiniteSet(S), S # {}
    PROVE  /\ Any(S) \in S /\ IsFiniteSet(S \ {Any(S)})
           /\ Cardinality(S \ {Any(S)}) = Cardinality(S) - 1 /\ Cardinality(S) \in Nat \ {0}
<1>1. Any(S) \in S
      BY DEF Any
<1> QED BY <1>1, FS_RemoveElement, FS_CardinalityType, FS_EmptySet

Small(S, n) == {s \in SUBSET S : Cardinality(s) <= n}

\* The recursive function exists.
LEMMA SumExists ==
    ASSUME NEW r, NEW S, IsFiniteSet(S), \A i \in S : r[i].len \in Nat
    PROVE  \E h \in [SUBSET S -> Nat] : Unfolds(r, h, SUBSET S)
<1> DEFINE P == {n \in Nat : \E h \in [Small(S, n) -> Nat] : Unfolds(r, h, Small(S, n))}
<1>1. 0 \in P
  <2> DEFINE h == [s \in Small(S, 0) |-> 0]
  <2>1. \A s \in Small(S, 0) : s = {}
        BY FS_Subset, FS_EmptySet, FS_CardinalityType DEF Small
  <2>2. h \in [Small(S, 0) -> Nat]
        OBVIOUS
  <2>3. Unfolds(r, h, Small(S, 0))
        BY <2>1 DEF Unfolds, Term
  <2> QED BY <2>2, <2>3
<1>2. ASSUME NEW n \in Nat, n \in P PROVE n + 1 \in P
  <2>1. PICK h \in [Small(S, n) -> Nat] : Unfolds(r, h, Small(S, n))
        BY <1>2
  <2> DEFINE g == [s \in Small(S, n + 1) |-> Term(r, h, s)]
  <2>2. ASSUME NEW s \in Small(S, n + 1), s # {}
        PROVE  s \ {Any(s)} \in Small(S, n) /\ Any(s) \in S
    <3>1. s \subseteq S /\ IsFiniteSet(s) /\ Cardinality(s) <= n + 1
          BY FS_Subset DEF Small
    <3>2. Any(s) \in s /\ Cardinality(s \ {Any(s)}) = Cardinality(s) - 1 /\ Cardinality(s) \in Nat
          BY <2>2, <3>1, Smaller, Zenon
    <3> QED BY <3>1, <3>2 DEF Small
  <2>3. ASSUME NEW s \in Small(S, n + 1) PROVE Term(r, h, s) \in Nat
    <3>1. CASE s = {}
          BY <3>1 DEF Term
    <3>2. CASE s # {}
      <4>1. r[Any(s)].len \in Nat /\ h[s \ {Any(s)}] \in Nat
            BY <2>2, <3>2
      <4> QED BY <3>2, <4>1 DEF Term
    <3> QED BY <3>1, <3>2
  <2>4. g \in [Small(S, n + 1) -> Nat]
        BY <2>3
  <2>5. \A s \in Small(S, n) : s \in Small(S, n + 1)
    <3>1. \A s \in SUBSET S : Cardinality(s) \in Nat
          BY FS_Subset, FS_CardinalityType
    <3> QED BY <3>1 DEF Small
  <2>6. \A s \in Small(S, n) : g[s] = h[s]
        BY <2>1, <2>5 DEF Unfolds
  <2>7. ASSUME NEW s \in Small(S, n + 1) PROVE Term(r, h, s) = Term(r, g, s)
    <3>1. CASE s = {}
          BY <3>1 DEF Term
    <3>2. CASE s # {}
      <4>1. h[s \ {Any(s)}] = g[s \ {Any(s)}]
            BY <2>2, <2>6, <3>2
      <4> HIDE DEF g
      <4> QED BY <3>2, <4>1 DEF Term
    <3> QED BY <3>1, <3>2
  <2>8. Unfolds(r, g, Small(S, n + 1))
    <3>1. g = [s \in Small(S, n + 1) |-> Term(r, g, s)]
          BY <2>7
    <3> HIDE DEF g
    <3> QED BY <3>1 DEF Unfolds
  <2> HIDE DEF g
  <2> QED BY <2>4, <2>8
<1> HIDE DEF P
<1>3. Nat \subseteq P
      BY <1>1, <1>2, SetInduction
<1>4. Cardinality(S) \in P
      BY <1>3, FS_CardinalityType
<1>5. Small(S, Cardinality(S)) = SUBSET S
      BY FS_Subset DEF Small
<1> QED BY <1>4, <1>5, Zenon DEF P

\* Two such functions agree where both are defined and the terms are the same.
LEMMA SumsAgree ==
    ASSUME NEW r, NEW q, NEW S, IsFiniteSet(S), NEW T \in SUBSET S, NEW h, NEW g,
           Unfolds(r, h, SUBSET S), Unfolds(q, g, SUBSET T),
           \A i \in T : r[i].len = q[i].len
    PROVE  \A s \in SUBSET T : h[s] = g[s]
<1> DEFINE P == {n \in Nat : \A s \in SUBSET T : Cardinality(s) = n => h[s] = g[s]}
<1>1. \A s \in SUBSET T : h[s] = Term(r, h, s) /\ g[s] = Term(q, g, s)
      BY DEF Unfolds
<1>2. \A s \in SUBSET T : IsFiniteSet(s) /\ Cardinality(s) \in Nat
      BY FS_Subset, FS_CardinalityType
<1>3. 0 \in P
  <2>1. ASSUME NEW s \in SUBSET T, Cardinality(s) = 0 PROVE h[s] = g[s]
    <3>1. s = {}
          BY <1>2, <2>1, FS_EmptySet
    <3> QED BY <1>1, <3>1 DEF Term
  <2> QED BY <2>1
<1>4. ASSUME NEW n \in Nat, n \in P PROVE n + 1 \in P
  <2>1. ASSUME NEW s \in SUBSET T, Cardinality(s) = n + 1 PROVE h[s] = g[s]
    <3>1. s # {}
          BY <2>1, FS_EmptySet
    <3>2. Any(s) \in s /\ Cardinality(s \ {Any(s)}) = n
          BY <1>2, <2>1, <3>1, Smaller
    <3>3. h[s \ {Any(s)}] = g[s \ {Any(s)}]
          BY <1>4, <3>2
    <3>4. r[Any(s)].len = q[Any(s)].len
          BY <3>2
    <3> QED BY <1>1, <3>1, <3>3, <3>4 DEF Term
  <2> QED BY <2>1
<1> HIDE DEF P
<1>5. Nat \subseteq P
      BY <1>3, <1>4, SetInduction
<1> QED BY <1>2, <1>5 DEF P

\* One function computes the sums of all subsets.
Computes(h, r, S) ==
    /\ h \in [SUBSET S -> Nat]
    /\ Unfolds(r, h, SUBSET S)
    /\ \A T \in SUBSET S : SumIn(r, T) = h[T]

LEMMA SumIsComputed ==
    ASSUME NEW r, NEW S, IsFiniteSet(S), \A i \in S : r[i].len \in Nat
    PROVE  \E h : Computes(h, r, S)
<1>1. PICK h \in [SUBSET S -> Nat] : Unfolds(r, h, SUBSET S)
      BY SumExists, Zenon
<1>2. ASSUME NEW T \in SUBSET S PROVE SumIn(r, T) = h[T]
  <2>1. IsFiniteSet(T) /\ \A i \in T : r[i].len \in Nat
        BY FS_Subset
  <2>2. \E g : Unfolds(r, g, SUBSET T)
        BY <2>1, SumExists, Zenon
  <2>3. PICK g : g = (CHOOSE f : Unfolds(r, f, SUBSET T))
        OBVIOUS
  <2>4. Unfolds(r, g, SUBSET T)
        BY <2>2, <2>3, Zenon
  <2>5. h[T] = g[T]
        BY <1>1, <2>4, SumsAgree, SMTT(30)
  <2> QED BY <2>3, <2>5, SumDef
<1>3. Computes(h, r, S)
      BY <1>1, <1>2 DEF Computes
<1> QED BY <1>3

LEMMA SumFacts ==
    ASSUME NEW r, NEW S, IsFiniteSet(S), \A i \in S : r[i].len \in Nat
    PROVE  /\ SumIn(r, S) \in Nat
           /\ S = {} => SumIn(r, S) = 0
           /\ S # {} => SumIn(r, S) = r[Any(S)].len + SumIn(r, S \ {Any(S)})
<1>1. PICK h : Computes(h, r, S)
      BY SumIsComputed
<1>2. SumIn(r, S) = h[S] /\ h[S] = Term(r, h, S) /\ h[S] \in Nat
      BY <1>1, Zenon DEF Computes, Unfolds
<1>3. SumIn(r, S \ {Any(S)}) = h[S \ {Any(S)}]
      BY <1>1 DEF Computes
<1> QED BY <1>2, <1>3 DEF Term

\* The order in which the terms are taken does not matter.
LEMMA SumWithout ==
    ASSUME NEW r, NEW S, IsFiniteSet(S), \A i \in S : r[i].len \in Nat, NEW x \in S
    PROVE  SumIn(r, S) = r[x].len + SumIn(r, S \ {x})
<1> DEFINE Q(s) == \A y \in s : SumIn(r, s) = r[y].len + SumIn(r, s \ {y})
           P == {n \in Nat : \A s \in SUBSET S : Cardinality(s) = n => Q(s)}
<1>1. \A s \in SUBSET S : IsFiniteSet(s) /\ Cardinality(s) \in Nat
      BY FS_Subset, FS_CardinalityType
<1>2. 0 \in P
      BY <1>1, FS_EmptySet
<1>3. ASSUME NEW n \in Nat, n \in P PROVE n + 1 \in P
  <2>1. ASSUME NEW s \in SUBSET S, Cardinality(s) = n + 1, NEW y \in s
        PROVE  SumIn(r, s) = r[y].len + SumIn(r, s \ {y})
    <3>1. IsFiniteSet(s) /\ (\A i \in s : r[i].len \in Nat) /\ s # {}
          BY <1>1
    <3>2. PICK x0 \in s : x0 = Any(s)
          BY <3>1, Smaller
    <3>3. SumIn(r, s) = r[x0].len + SumIn(r, s \ {x0})
          BY <3>1, <3>2, SumFacts
    <3>4. CASE y = x0
          BY <3>3, <3>4
    <3>5. CASE y # x0
      <4>1. PICK a \in SUBSET S : a = s \ {x0}
            BY Zenon
      <4>2. PICK b \in SUBSET S : b = s \ {y}
            BY Zenon
      <4>3. Cardinality(a) = n /\ Cardinality(b) = n
        <5>1. Cardinality(s \ {x0}) = Cardinality(s) - 1
              BY <3>1, FS_RemoveElement, Zenon
        <5>2. Cardinality(s \ {y}) = Cardinality(s) - 1
              BY <3>1, FS_RemoveElement, Zenon
        <5> QED BY <2>1, <4>1, <4>2, <5>1, <5>2
      <4>4. Q(a) /\ Q(b)
            BY <1>3, <4>3
      <4>5. PICK c \in SUBSET S : c = s \ {x0, y}
            BY Zenon
      <4>6. a \ {y} = c /\ b \ {x0} = c /\ y \in a /\ x0 \in b
            BY <3>5, <4>1, <4>2, <4>5
      <4>7. SumIn(r, a) = r[y].len + SumIn(r, c) /\ SumIn(r, b) = r[x0].len + SumIn(r, c)
            BY <4>4, <4>6
      <4>8. SumIn(r, c) \in Nat
            BY <1>1, SumFacts, Zenon
      <4>9. r[y].len \in Nat /\ r[x0].len \in Nat
            BY <3>1
      <4> QED BY <3>3, <4>1, <4>2, <4>7, <4>8, <4>9
    <3> QED BY <3>4, <3>5
  <2> QED BY <2>1
<1> HIDE DEF P
<1>4. Nat \subseteq P
      BY <1>2, <1>3, SetInduction
<1> QED BY <1>1, <1>4 DEF P

\* A subset has no larger a sum.
LEMMA SumOfSubset ==
    ASSUME NEW r, NEW S, IsFiniteSet(S), \A i \in S : r[i].len \in Nat, NEW T \in SUBSET S
    PROVE  SumIn(r, T) <= SumIn(r, S)
<1> DEFINE P == {n \in Nat : \A s \in SUBSET S :
                     Cardinality(s) = n /\ T \subseteq s => SumIn(r, T) <= SumIn(r, s)}
<1>1. \A s \in SUBSET S : /\ IsFiniteSet(s) /\ Cardinality(s) \in Nat
                          /\ SumIn(r, s) \in Nat /\ \A i \in s : r[i].len \in Nat
      BY FS_Subset, FS_CardinalityType, SumFacts, Zenon
<1>2. 0 \in P
  <2>1. ASSUME NEW s \in SUBSET S, Cardinality(s) = 0, T \subseteq s PROVE T = s
        BY <1>1, <2>1, FS_EmptySet
  <2> QED BY <1>1, <2>1
<1>3. ASSUME NEW n \in Nat, n \in P PROVE n + 1 \in P
  <2>1. ASSUME NEW s \in SUBSET S, Cardinality(s) = n + 1, T \subseteq s
        PROVE  SumIn(r, T) <= SumIn(r, s)
    <3>1. CASE T = s
          BY <1>1, <3>1
    <3>2. ASSUME NEW x \in s, x \notin T PROVE SumIn(r, T) <= SumIn(r, s)
      <4>1. PICK a \in SUBSET S : a = s \ {x}
            BY Zenon
      <4>2. Cardinality(a) = n
            BY <1>1, <2>1, <4>1, FS_RemoveElement
      <4>3. SumIn(r, T) <= SumIn(r, a)
            BY <1>3, <2>1, <3>2, <4>1, <4>2
      <4>4. SumIn(r, s) = r[x].len + SumIn(r, a)
            BY <1>1, <4>1, SumWithout
      <4>5. r[x].len \in Nat /\ SumIn(r, T) \in Nat /\ SumIn(r, a) \in Nat
            BY <1>1
      <4> QED BY <4>3, <4>4, <4>5
    <3> QED BY <2>1, <3>1, <3>2
  <2> QED BY <2>1
<1> HIDE DEF P
<1>4. Nat \subseteq P
      BY <1>2, <1>3, SetInduction
<1> QED BY <1>1, <1>4 DEF P

\* Only the members' terms count.
LEMMA SumOfSame ==
    ASSUME NEW r, NEW q, NEW S, IsFiniteSet(S), \A i \in S : r[i].len \in Nat,
           \A i \in S : q[i].len = r[i].len
    PROVE  SumIn(q, S) = SumIn(r, S)
<1>1. PICK h : Computes(h, r, S)
      BY SumIsComputed
<1>2. \A i \in S : q[i].len \in Nat
      OBVIOUS
<1>3. PICK g : Computes(g, q, S)
      BY <1>2, SumIsComputed
<1>4. SumIn(r, S) = h[S] /\ SumIn(q, S) = g[S]
      BY <1>1, <1>3 DEF Computes
<1>5. Unfolds(r, h, SUBSET S) /\ Unfolds(q, g, SUBSET S)
      BY <1>1, <1>3 DEF Computes
<1>6. h[S] = g[S]
  <2>1. \A s \in SUBSET S : h[s] = g[s]
        BY <1>5, SumsAgree
  <2> QED BY <2>1
<1> QED BY <1>4, <1>6

-----------------------------------------------------------------------------
(* The caps.  They are stated of a table, so that they can be compared      *)
(* between the table before a step and the one after it.                    *)

Tables       == [Ids -> Rows]
HeldBy(r)    == {i \in Ids : r[i] # NoRow}
Of(r, u, S)  == {i \in S : r[i].to = u}
Owners(r, S) == {r[i].to : i \in S}

\* The inductive invariant: a cardinality and a sum say something only of a
\* finite set, and that the table holds finitely many rows is inductive.
Capped(r) ==
    /\ IsFiniteSet(HeldBy(r)) /\ IsFiniteSet(Owners(r, HeldBy(r)))
    /\ \A u \in Users : SumIn(r, Of(r, u, HeldBy(r))) <= RecipientCap
    /\ Cardinality(Owners(r, HeldBy(r))) <= MaxRecipients
    /\ SumIn(r, HeldBy(r)) <= GlobalCap

LEMMA CapsAreNumbers == RecipientCap \in Nat /\ MaxRecipients \in Nat /\ GlobalCap \in Nat
BY LimitAssumption

LEMMA SumsOfTable ==
    ASSUME NEW r \in Tables, NEW S \in SUBSET Ids, IsFiniteSet(S), NEW T \in SUBSET S
    PROVE  /\ IsFiniteSet(T)
           /\ SumIn(r, T) \in Nat /\ SumIn(r, S) \in Nat /\ SumIn(r, T) <= SumIn(r, S)
<1>1. IsFiniteSet(T)
      BY FS_Subset
<1>2. \A i \in S : r[i].len \in Nat
      BY DEF Tables, Rows
<1>3. SumIn(r, S) \in Nat
      BY <1>2, SumFacts, Zenon
<1>4. SumIn(r, T) \in Nat
      BY <1>1, <1>2, SumFacts, Zenon
<1>5. SumIn(r, T) <= SumIn(r, S)
      BY <1>2, SumOfSubset
<1> QED BY <1>1, <1>3, <1>4, <1>5

LEMMA SumsOfCopy ==
    ASSUME NEW r \in Tables, NEW q, NEW S \in SUBSET Ids, IsFiniteSet(S),
           \A i \in S : q[i] = r[i]
    PROVE  SumIn(q, S) = SumIn(r, S)
<1>1. \A i \in S : r[i].len \in Nat /\ q[i].len = r[i].len
      BY DEF Tables, Rows
<1> QED BY <1>1, SumOfSame

\* Rows that leave the table leave the caps held.
LEMMA CapsWhenRowsLeave ==
    ASSUME NEW r \in Tables, Capped(r), NEW q \in Tables, HeldBy(q) \subseteq HeldBy(r),
           \A i \in HeldBy(q) : q[i] = r[i]
    PROVE  Capped(q)
<1> DEFINE R == HeldBy(r)
           Q == HeldBy(q)
<1>1. R \in SUBSET Ids /\ IsFiniteSet(R) /\ Q \in SUBSET R /\ \A i \in Q : q[i] = r[i]
      BY Zenon DEF Capped, HeldBy
<1>2. IsFiniteSet(Q) /\ SumIn(r, Q) <= SumIn(r, R) /\ SumIn(r, Q) \in Nat /\ SumIn(r, R) \in Nat
      BY <1>1, SumsOfTable
<1>3. SumIn(q, Q) = SumIn(r, Q)
      BY <1>1, <1>2, SumsOfCopy
<1>4. SumIn(q, Q) <= GlobalCap
  <2>1. SumIn(r, R) <= GlobalCap
        BY DEF Capped
  <2> QED BY <1>2, <1>3, <2>1, CapsAreNumbers
<1>5. Owners(q, Q) \subseteq Owners(r, R) /\ IsFiniteSet(Owners(r, R))
      BY <1>1 DEF Owners, Capped
<1>6. IsFiniteSet(Owners(q, Q)) /\ Cardinality(Owners(q, Q)) <= MaxRecipients
  <2>1. /\ IsFiniteSet(Owners(q, Q))
        /\ Cardinality(Owners(q, Q)) <= Cardinality(Owners(r, R))
        BY <1>5, FS_Subset
  <2>2. Cardinality(Owners(q, Q)) \in Nat /\ Cardinality(Owners(r, R)) \in Nat
        BY <1>5, <2>1, FS_CardinalityType
  <2>3. Cardinality(Owners(r, R)) <= MaxRecipients
        BY DEF Capped
  <2> QED BY <2>1, <2>2, <2>3, CapsAreNumbers
<1>7. ASSUME NEW u \in Users PROVE SumIn(q, Of(q, u, Q)) <= RecipientCap
  <2>1. PICK A : A = Of(r, u, R)
        OBVIOUS
  <2>2. PICK B : B = Of(q, u, Q)
        OBVIOUS
  <2>3. A \in SUBSET R /\ B \in SUBSET A /\ B \in SUBSET Ids /\ A \in SUBSET Ids
        BY <1>1, <2>1, <2>2 DEF Of
  <2>4. IsFiniteSet(A)
        BY <1>1, <2>3, SumsOfTable
  <2>5. IsFiniteSet(B) /\ SumIn(r, B) <= SumIn(r, A) /\ SumIn(r, B) \in Nat /\ SumIn(r, A) \in Nat
        BY <2>3, <2>4, SumsOfTable
  <2>6. \A i \in B : q[i] = r[i]
        BY <1>1, <2>2 DEF Of
  <2>7. SumIn(q, B) = SumIn(r, B)
        BY <2>3, <2>5, <2>6, SumsOfCopy
  <2>8. SumIn(r, A) <= RecipientCap
        BY <2>1 DEF Capped
  <2> QED BY <2>2, <2>5, <2>7, <2>8, CapsAreNumbers
<1> QED BY <1>2, <1>4, <1>6, <1>7, ZenonT(60) DEF Capped

\* One more row: its recipient's rows are among those the check summed, and so
\* are the recipients it counted; what is evicted after the two checks only
\* lowers the sums.
LEMMA CapsWhenRowAdded ==
    ASSUME NEW r \in Tables, Capped(r), NEW q \in Tables,
           NEW L \in SUBSET HeldBy(r), NEW F \in SUBSET L,
           NEW i \in Ids, i \notin HeldBy(r), HeldBy(q) = F \cup {i},
           \A j \in F : q[j] = r[j],
           NEW u \in Users, NEW len \in Nat, q[i].to = u, q[i].len = len,
           SumIn(r, Of(r, u, L)) + len <= RecipientCap,
           Of(r, u, L) # {} \/ Cardinality(Owners(r, L)) < MaxRecipients,
           SumIn(r, F) + len <= GlobalCap
    PROVE  Capped(q)
<1> DEFINE R == HeldBy(r)
           Q == HeldBy(q)
<1>1. R \in SUBSET Ids /\ IsFiniteSet(R)
      BY DEF Capped, HeldBy
<1>2. IsFiniteSet(F) /\ IsFiniteSet(L) /\ i \notin F /\ F \in SUBSET Ids /\ L \in SUBSET Ids
      BY <1>1, FS_Subset
<1>3. IsFiniteSet(Q) /\ Q \in SUBSET Ids /\ Q = F \cup {i}
      BY <1>2, FS_AddElement
<1>4. \A j \in Q : q[j].len \in Nat
      BY <1>3 DEF Tables, Rows
<1>5. SumIn(q, Q) <= GlobalCap
  <2>1. Q \ {i} = F /\ i \in Q
        BY <1>2, <1>3, ZenonT(60)
  <2>2. SumIn(q, Q) = len + SumIn(q, F)
        BY <1>3, <1>4, <2>1, SumWithout
  <2>3. SumIn(q, F) = SumIn(r, F)
        BY <1>2, SumsOfCopy, Zenon
  <2>4. SumIn(r, F) \in Nat
        BY <1>2, SumsOfTable, ZenonT(60)
  <2> QED BY <2>2, <2>3, <2>4, CapsAreNumbers
<1>6. IsFiniteSet(Owners(q, Q)) /\ Cardinality(Owners(q, Q)) <= MaxRecipients
  <2>1. PICK A : A = Owners(r, R)
        BY Zenon
  <2>2. PICK B : B = Owners(r, L)
        OBVIOUS
  <2>3. PICK C : C = Owners(q, Q)
        OBVIOUS
  <2>4. B \subseteq A /\ C \subseteq B \cup {u}
        BY <1>3, <2>1, <2>2, <2>3, ZenonT(60) DEF Owners
  <2>5. IsFiniteSet(A) /\ Cardinality(A) <= MaxRecipients
        BY <2>1, Zenon DEF Capped
  <2>6. IsFiniteSet(B) /\ Cardinality(B) <= Cardinality(A)
        BY <2>4, <2>5, FS_Subset, Zenon
  <2>7. Cardinality(A) \in Nat /\ Cardinality(B) \in Nat
        BY <2>5, <2>6, FS_CardinalityType, ZenonT(60)
  <2>8. CASE Of(r, u, L) # {}
    <3>1. u \in B
          BY <2>2, <2>8 DEF Of, Owners
    <3>2. C \subseteq B
          BY <2>4, <3>1
    <3>3. IsFiniteSet(C) /\ Cardinality(C) <= Cardinality(B)
          BY <2>6, <3>2, FS_Subset, ZenonT(60)
    <3>4. Cardinality(C) \in Nat
          BY <3>3, FS_CardinalityType, ZenonT(60)
    <3> QED BY <2>3, <2>5, <2>6, <2>7, <3>3, <3>4, CapsAreNumbers
  <2>9. CASE Cardinality(B) < MaxRecipients
    <3>1. PICK D : D = B \cup {u}
          BY ZenonT(60)
    <3>2. IsFiniteSet(D) /\ Cardinality(D) <= Cardinality(B) + 1
      <4>1. CASE u \in B
        <5>1. D = B
              BY <3>1, <4>1, Zenon
        <5> QED BY <2>6, <2>7, <5>1
      <4>2. CASE u \notin B
        <5>1. IsFiniteSet(D) /\ Cardinality(D) = Cardinality(B) + 1
              BY <2>6, <3>1, <4>2, FS_AddElement
        <5> QED BY <2>7, <5>1
      <4> QED BY <4>1, <4>2, Zenon
    <3>3. IsFiniteSet(C) /\ Cardinality(C) <= Cardinality(D)
          BY <2>4, <3>1, <3>2, FS_Subset, ZenonT(60)
    <3>4. Cardinality(C) \in Nat /\ Cardinality(D) \in Nat
          BY <3>2, <3>3, FS_CardinalityType, ZenonT(60)
    <3>5. Cardinality(C) <= MaxRecipients
          BY <2>7, <2>9, <3>2, <3>3, <3>4, CapsAreNumbers
    <3> QED BY <2>3, <3>3, <3>5, Zenon
  <2> QED BY <2>2, <2>8, <2>9, ZenonT(60)
<1>7. ASSUME NEW v \in Users PROVE SumIn(q, Of(q, v, Q)) <= RecipientCap
  <2>1. PICK E : E = Of(q, v, Q)
        BY Zenon
  <2>2. PICK G : G = Of(r, v, F)
        BY Zenon
  <2>3. E \in SUBSET Q /\ G \in SUBSET F /\ E \in SUBSET Ids /\ G \in SUBSET Ids
        BY <1>2, <1>3, <2>1, <2>2, ZenonT(60) DEF Of
  <2>4. IsFiniteSet(E) /\ IsFiniteSet(G) /\ \A j \in E : q[j].len \in Nat
        BY <1>2, <1>3, <1>4, <2>3, FS_Subset, Zenon
  <2>5. SumIn(q, G) = SumIn(r, G)
        BY <2>3, <2>4, SumsOfCopy, SMTT(30)
  <2>6. CASE v = u
    <3>1. i \in E /\ E \ {i} = G
          BY <1>2, <1>3, <2>1, <2>2, <2>6, ZenonT(60) DEF Of
    <3>2. SumIn(q, E) = len + SumIn(q, G)
          BY <2>4, <3>1, SumWithout
    <3>3. PICK A : A = Of(r, u, L)
          OBVIOUS
    <3>4. A \in SUBSET L /\ A \in SUBSET Ids /\ G \in SUBSET A
          BY <1>2, <2>2, <2>6, <3>3, ZenonT(60) DEF Of
    <3>5. IsFiniteSet(A)
          BY <1>2, <3>4, FS_Subset, ZenonT(60)
    <3>6. SumIn(r, G) <= SumIn(r, A) /\ SumIn(r, G) \in Nat /\ SumIn(r, A) \in Nat
          BY <3>4, <3>5, SumsOfTable, ZenonT(60)
    <3>7. SumIn(r, A) + len <= RecipientCap
          BY <3>3, Zenon
    <3>8. SumIn(q, Of(q, v, Q)) = len + SumIn(r, G)
          BY <2>1, <2>5, <3>2, Zenon
    <3> QED BY <3>6, <3>7, <3>8, CapsAreNumbers
  <2>7. CASE v # u
    <3>1. E = G
          BY <1>2, <1>3, <2>1, <2>2, <2>7, Zenon DEF Of
    <3>2. PICK A : A = Of(r, v, R)
          BY Zenon
    <3>3. A \in SUBSET R /\ A \in SUBSET Ids /\ G \in SUBSET A
          BY <1>1, <2>2, <3>2, ZenonT(60) DEF Of
    <3>4. IsFiniteSet(A)
          BY <1>1, <3>3, FS_Subset, ZenonT(60)
    <3>5. SumIn(r, G) <= SumIn(r, A) /\ SumIn(r, G) \in Nat /\ SumIn(r, A) \in Nat
          BY <3>3, <3>4, SumsOfTable, ZenonT(60)
    <3>6. SumIn(r, A) <= RecipientCap
          BY <3>2, Zenon DEF Capped
    <3>7. SumIn(q, Of(q, v, Q)) = SumIn(r, G)
          BY <2>1, <2>5, <3>1, Zenon
    <3> QED BY <3>5, <3>6, <3>7, CapsAreNumbers
  <2> QED BY <2>6, <2>7, Zenon
<1> QED BY <1>3, <1>5, <1>6, <1>7, Zenon DEF Capped

\* The specification's operators, of the table it has.
LEMMA TableTerms ==
    ASSUME NEW S
    PROVE  Bytes(S) = SumIn(row, S) /\ stored = HeldBy(row)
<1>1. Bytes(S) = SumIn(row, S)
      BY DEF Bytes, SumIn
<1> QED BY <1>1 DEF stored, HeldBy

LEMMA InsertKeepsCaps ==
    ASSUME StoreInv, StoreInv', Capped(row), NEW u \in Users, NEW len \in Sizes,
           NEW ttl \in Ttls, Insert(u, len, ttl)
    PROVE  Capped(row')
<1>0. row \in Tables /\ row' \in Tables /\ len \in Nat
      BY SizeAssumption DEF StoreInv, Tables
<1>1. CASE row' = row
      BY <1>1
<1>2. CASE row' # row
  <2>1. PICK own \in SUBSET Stale(RowsOf(u, stored)), any \in SUBSET Stale(stored), i \in Ids :
             /\ RecipientFits(u, len, stored \ own) /\ KnownRecipient(u, stored \ own)
             /\ ServerFits(len, (stored \ own) \ any)
             /\ row[i] = NoRow
             /\ row' = [RowsWithout(own \cup any) EXCEPT ![i] =
                        [to |-> u, len |-> len, at |-> now, exp |-> now + ResolveTtl(ttl)]]
        BY <1>2, Zenon DEF Insert, store
  <2>2. PICK L : L = stored \ own
        BY Zenon
  <2>3. PICK F : F = L \ any
        BY Zenon
  <2>4. PICK r : r = row
        OBVIOUS
  <2>5. PICK q : q = row'
        OBVIOUS
  <2>6. r \in Tables /\ q \in Tables /\ Capped(r) /\ stored = HeldBy(r)
        BY <1>0, <2>4, <2>5, TableTerms
  <2>7. L \in SUBSET HeldBy(r) /\ F \in SUBSET L /\ i \notin HeldBy(r)
        BY <2>1, <2>2, <2>3, <2>4, <2>6, ZenonT(60) DEF HeldBy
  <2>8. /\ q[i].to = u /\ q[i].len = len
        /\ \A j \in Ids : j # i => q[j] = IF j \in own \cup any THEN NoRow ELSE r[j]
        BY <2>1, <2>4, <2>5, ZenonT(60) DEF RowsWithout
  <2>9. q[i] # NoRow
        BY <2>8, UsersAssumption DEF NoRow
  <2>10. HeldBy(q) = F \cup {i} /\ \A j \in F : q[j] = r[j]
    <3>1. i \notin F /\ F \subseteq Ids
          BY <2>7 DEF HeldBy
    <3>2. \A j \in Ids : j # i => (j \in F <=> j \in HeldBy(r) /\ j \notin own \cup any)
          BY <2>2, <2>3, <2>6
    <3>3. \A j \in Ids : j # i => (q[j] # NoRow <=> j \in F)
          BY <2>8, <3>2 DEF HeldBy
    <3>4. \A j \in F : q[j] = r[j]
          BY <2>8, <3>1, <3>2
    <3> QED BY <2>9, <3>1, <3>3, <3>4 DEF HeldBy
  <2>11. SumIn(r, Of(r, u, L)) + len <= RecipientCap
    <3>1. Bytes(RowsOf(u, L)) + len <= RecipientCap
          BY <2>1, <2>2 DEF RecipientFits
    <3>2. RowsOf(u, L) = Of(r, u, L)
          BY <2>4 DEF RowsOf, Of
    <3>3. Bytes(RowsOf(u, L)) = SumIn(r, RowsOf(u, L))
          BY <2>4, TableTerms
    <3> QED BY <3>1, <3>2, <3>3
  <2>12. Of(r, u, L) # {} \/ Cardinality(Owners(r, L)) < MaxRecipients
    <3>1. RowsOf(u, L) # {} \/ Cardinality({row[j].to : j \in L}) < MaxRecipients
          BY <2>1, <2>2, Zenon DEF KnownRecipient
    <3> QED BY <2>4, <3>1 DEF RowsOf, Of, Owners
  <2>13. SumIn(r, F) + len <= GlobalCap
    <3>1. Bytes(F) + len <= GlobalCap
          BY <2>1, <2>2, <2>3 DEF ServerFits
    <3>2. Bytes(F) = SumIn(r, F)
          BY <2>4, TableTerms
    <3> QED BY <3>1, <3>2
  <2>14. Capped(q)
         BY <1>0, <2>6, <2>7, <2>8, <2>10, <2>11, <2>12, <2>13, CapsWhenRowAdded, Zenon
  <2> QED BY <2>5, <2>14
<1> QED BY <1>1, <1>2

LEMMA LeavingKeepsCaps ==
    ASSUME StoreInv, StoreInv', Capped(row), NEW S, row' = RowsWithout(S)
    PROVE  Capped(row')
<1>1. PICK r : r = row
      OBVIOUS
<1>2. PICK q : q = row'
      OBVIOUS
<1>3. r \in Tables /\ q \in Tables /\ Capped(r)
      BY <1>1, <1>2 DEF StoreInv, Tables
<1>4. \A i \in Ids : q[i] = IF i \in S THEN NoRow ELSE r[i]
      BY <1>1, <1>2 DEF RowsWithout
<1>5. HeldBy(q) \subseteq HeldBy(r) /\ \A i \in HeldBy(q) : q[i] = r[i]
      BY <1>4 DEF HeldBy
<1>6. Capped(q)
      BY <1>3, <1>5, CapsWhenRowsLeave
<1> QED BY <1>2, <1>6

LEMMA CapsStep == StoreInv /\ Capped(row) /\ [Next]_vars => StoreInv' /\ Capped(row)'
<1> SUFFICES ASSUME StoreInv, Capped(row), [Next]_vars
             PROVE  StoreInv' /\ Capped(row')
    OBVIOUS
<1>0. StoreInv'
      BY PromiseStep
<1>1. CASE row' = row
      BY <1>0, <1>1
<1>2. CASE ExpireSweep
  <2>1. row' = RowsWithout(Stale(stored))
        BY <1>2 DEF ExpireSweep
  <2> QED BY <1>0, <2>1, LeavingKeepsCaps
<1>3. CASE Tick \/ ChallengeSweep \/ Restart \/ UNCHANGED vars
      BY <1>1, <1>3 DEF Tick, ChallengeSweep, Restart, vars, store
<1>4. ASSUME NEW c \in Conns, Connect(c) \/ Disconnect(c)
      PROVE  Capped(row')
      BY <1>1, <1>4 DEF Connect, Disconnect, store
<1>5. ASSUME NEW c \in Conns, NEW u \in Users, NEW len \in Sizes, NEW ttl \in Ttls,
             HandleDeposit(c, u, len, ttl)
      PROVE  Capped(row')
  <2>1. row' = row \/ Insert(u, len, ttl)
        BY <1>5 DEF HandleDeposit, store
  <2> QED BY <1>0, <1>1, <2>1, InsertKeepsCaps
<1>6. ASSUME NEW c \in Conns, NEW u \in Users, HandleChallenge(c, u)
      PROVE  Capped(row')
      BY <1>1, <1>6 DEF HandleChallenge, store
<1>7. ASSUME NEW c \in Conns, NEW u \in Users, NEW n \in Nonces, HandleFetch(c, u, n)
      PROVE  Capped(row')
      BY <1>1, <1>7 DEF HandleFetch, store
<1>8. ASSUME NEW c \in Conns, NEW u \in Users, NEW n \in Nonces, NEW S \in SUBSET stored,
             HandleDelete(c, u, n, S)
      PROVE  Capped(row')
  <2>1. row' = row \/ row' = RowsWithout(RowsOf(u, S))
        BY <1>8 DEF HandleDelete, Deleted, store
  <2>2. CASE row' = RowsWithout(RowsOf(u, S))
        BY <1>0, <2>2, LeavingKeepsCaps
  <2> QED BY <1>1, <2>1, <2>2
<1> QED BY <1>0, <1>2, <1>3, <1>4, <1>5, <1>6, <1>7, <1>8 DEF Next

LEMMA CapsStart == Init => StoreInv /\ Capped(row)
<1> SUFFICES ASSUME Init PROVE StoreInv /\ Capped(row)
    OBVIOUS
<1>1. NoRow \in Rows /\ NoRow.to = NoUser
      BY DEF NoRow, Rows
<1>2. StoreInv
      BY <1>1 DEF Init, StoreInv
<1>3. HeldBy(row) = {}
      BY DEF Init, HeldBy
<1>4. Owners(row, {}) = {} /\ \A u : Of(row, u, {}) = {}
      BY DEF Owners, Of
<1>5. SumIn(row, {}) = 0
  <2>1. PICK r : r = row
        OBVIOUS
  <2>2. SumIn(r, {}) = 0
        BY FS_EmptySet, SumFacts, Zenon
  <2> QED BY <2>1, <2>2
<1>6. IsFiniteSet({}) /\ Cardinality({}) = 0
      BY FS_EmptySet
<1>7. 0 <= RecipientCap /\ 0 <= MaxRecipients /\ 0 <= GlobalCap
      BY CapsAreNumbers
<1>8. Capped(row)
      BY <1>3, <1>4, <1>5, <1>6, <1>7 DEF Capped
<1> QED BY <1>2, <1>8

\* The table never holds more bytes for a recipient, more recipients or more
\* bytes in all than the policy allows: for any users, deposits, sizes and
\* caps, whatever Store::insert evicts between its checks and its INSERT, and
\* whatever the sweep and the Deletes of other connections remove.
THEOREM CapsAreKept == Spec => []CapsHold
<1>1. StoreInv /\ Capped(row) => CapsHold
  <2> SUFFICES ASSUME Capped(row) PROVE CapsHold
      OBVIOUS
  <2>1. stored = HeldBy(row) /\ Bytes(stored) = SumIn(row, stored)
        BY TableTerms
  <2>2. ASSUME NEW u \in Users PROVE Bytes(RowsOf(u, stored)) <= RecipientCap
    <3>1. Bytes(RowsOf(u, stored)) = SumIn(row, RowsOf(u, stored))
          BY TableTerms
    <3>2. RowsOf(u, stored) = Of(row, u, HeldBy(row))
          BY <2>1 DEF RowsOf, Of
    <3> QED BY <3>1, <3>2 DEF Capped
  <2>3. Cardinality({row[i].to : i \in stored}) <= MaxRecipients
        BY <2>1 DEF Capped, Owners
  <2>4. Bytes(stored) <= GlobalCap
        BY <2>1 DEF Capped
  <2> QED BY <2>2, <2>3, <2>4 DEF CapsHold
<1> QED BY <1>1, CapsStart, CapsStep, PTL DEF Spec

=============================================================================
