------------------------- MODULE ConversationProofs -------------------------
(***************************************************************************)
(* Proofs about a conversation, for any number of contacts, requests,      *)
(* tasks, messages, pages and restarts and any page size above 0.          *)
(*                                                                         *)
(* First the stored ratchet of a group, which follows its history: proved  *)
(* of GroupRatchet, and of Conversation because each of its steps is a     *)
(* step of GroupRatchet or leaves the ratchet alone.  Then what the user   *)
(* sees: the screen holds rows of the chosen contact, the last selection   *)
(* wins, a placeholder is answered, an export is whole, and a new row is   *)
(* unread.                                                                 *)
(***************************************************************************)
EXTENDS Conversation, FiniteSetTheorems, SequenceTheorems, TLAPS

Locked == {"send", "card", "recv"}

\* A task that has loaded a group holds its lock ...
HoldsLock ==
    \A w \in Workers : work[w].op \in Locked => lock[work[w].contact] = w

\* ... so the stored group is still the one it loaded.
FreshCopy ==
    \A w \in Workers :
        /\ work[w].op \in {"send", "card"} =>
              /\ work[w].copy = Encrypted(blob[work[w].contact])
              /\ work[w].gen = blob[work[w].contact].next
        /\ work[w].op = "recv" =>
              /\ work[w].gen \in PeerGens
              /\ work[w].copy = Decrypted(blob[work[w].contact], work[w].gen)

\* A ciphertext between the save and hub.send has a generation of its own.
HandsApart ==
    \A w \in Workers : work[w].op = "hand" =>
        /\ work[w].gen \in Nat
        /\ work[w].gen < blob[work[w].contact].next
        /\ \A i \in 1 .. Len(cipher[work[w].contact]) :
              cipher[work[w].contact][i] # work[w].gen
        /\ \A v \in Workers :
              work[v].op = "hand" /\ work[v].contact = work[w].contact
              /\ work[v].gen = work[w].gen => v = w

RatchetInv ==
    RatchetTypeOK /\ HoldsLock /\ FreshCopy /\ HandsApart /\ RatchetFollowsHistory

-----------------------------------------------------------------------------
\* What the operators on a stored group change.
LEMMA BlobFacts ==
    ASSUME NEW b \in Blobs, NEW g \in PeerGens
    PROVE  /\ Encrypted(b) \in Blobs /\ Encrypted(b).next = b.next + 1
           /\ Encrypted(b).spent = b.spent
           /\ Decrypted(b, g) \in Blobs /\ Decrypted(b, g).next = b.next
           /\ Decrypted(b, g).spent = b.spent \cup {g}
BY DEF Blobs, Encrypted, Decrypted

\* A generation that is new to a sequence of distinct ones, appended to it.
LEMMA AppendFresh ==
    ASSUME NEW s \in Seq(Nat), NEW g \in Nat, NEW n \in Nat, g < n,
           \A i \in 1 .. Len(s) : s[i] < n /\ s[i] # g,
           \A i, j \in 1 .. Len(s) : s[i] = s[j] => i = j
    PROVE  \A i, j \in 1 .. Len(Append(s, g)) :
              /\ Append(s, g)[i] < n
              /\ Append(s, g)[i] = Append(s, g)[j] => i = j
<1>1. /\ Len(s) \in Nat /\ Len(Append(s, g)) = Len(s) + 1
      /\ Append(s, g)[Len(s) + 1] = g
      /\ \A i \in 1 .. Len(s) : Append(s, g)[i] = s[i]
      OBVIOUS
<1> DEFINE t == Append(s, g)
<1> HIDE DEF t
<1>2. \A i \in 1 .. Len(t) : i \in 1 .. Len(s) \/ i = Len(s) + 1
      BY <1>1 DEF t
<1>3. \A i \in 1 .. Len(s) : t[i] < n /\ t[i] # g
      BY <1>1, Zenon DEF t
<1>4. t[Len(s) + 1] = g
      BY <1>1, Zenon DEF t
<1>5. \A i, j \in 1 .. Len(s) : t[i] = t[j] => i = j
      BY <1>1, Zenon DEF t
<1>6. \A i, j \in 1 .. Len(t) : t[i] < n /\ (t[i] = t[j] => i = j)
      BY <1>2, <1>3, <1>4, <1>5, Zenon
<1> QED BY <1>6 DEF t

\* Nobody holds a copy of a group whose lock is free: loading keeps the copies
\* fresh.
LEMMA LoadKeepsInv ==
    ASSUME RatchetInv, NEW w \in Workers, NEW c \in Contacts,
           NEW op \in Locked, NEW copy \in Blobs, NEW gen \in Nat \cup PeerGens,
           Load(w, c, op, copy, gen),
           op \in {"send", "card"} => copy = Encrypted(blob[c]) /\ gen = blob[c].next,
           op = "recv" => gen \in PeerGens /\ copy = Decrypted(blob[c], gen)
    PROVE  RatchetInv'
<1> DEFINE job == [op |-> op, contact |-> c, copy |-> copy, gen |-> gen]
<1>0. /\ job \in Jobs /\ job.op = op /\ job.contact = c /\ job.copy = copy /\ job.gen = gen
      BY Zenon DEF Jobs, Locked
<1> HIDE DEF job
<1>1. /\ work[w] = Idle /\ lock[c] = NoWorker
      /\ lock' = [lock EXCEPT ![c] = w] /\ work' = [work EXCEPT ![w] = job]
      /\ blob' = blob /\ cipher' = cipher /\ received' = received
      BY Zenon DEF Load, LockFree, job
<1>2. RatchetTypeOK'
      BY <1>0, <1>1, Zenon DEF RatchetInv, RatchetTypeOK
<1>3. \A v \in Workers : v # w => work'[v] = work[v]
      BY <1>1, Zenon DEF RatchetInv, RatchetTypeOK
<1>4. work'[w] = job
      BY <1>1, Zenon DEF RatchetInv, RatchetTypeOK
<1>5. HoldsLock'
  <2> SUFFICES ASSUME NEW v \in Workers, work'[v].op \in Locked
               PROVE  lock'[work'[v].contact] = v
      BY Zenon DEF HoldsLock
  <2>1. CASE v = w
        BY <2>1, <1>0, <1>1, <1>4, Zenon DEF RatchetInv, RatchetTypeOK
  <2>2. CASE v # w
    <3>1. lock[work[v].contact] = v
          BY <2>2, <1>3, Zenon DEF RatchetInv, HoldsLock
    <3>2. work[v].contact # c
          BY <3>1, <1>1, WorkersAssumption, Zenon
    <3> QED BY <3>1, <3>2, <2>2, <1>1, <1>3 DEF RatchetInv, RatchetTypeOK
  <2> QED BY <2>1, <2>2
<1>6. FreshCopy'
  <2> SUFFICES ASSUME NEW v \in Workers
               PROVE  /\ work'[v].op \in {"send", "card"} =>
                            /\ work'[v].copy = Encrypted(blob[work'[v].contact])
                            /\ work'[v].gen = blob[work'[v].contact].next
                      /\ work'[v].op = "recv" =>
                            /\ work'[v].gen \in PeerGens
                            /\ work'[v].copy = Decrypted(blob[work'[v].contact], work'[v].gen)
      BY <1>1, Zenon DEF FreshCopy, Encrypted, Decrypted
  <2>1. CASE v = w
        BY <2>1, <1>0, <1>4, Zenon
  <2>2. CASE v # w
        BY <2>2, <1>3, Zenon DEF RatchetInv, FreshCopy
  <2> QED BY <2>1, <2>2
<1>7. HandsApart'
      BY <1>0, <1>1, <1>3, <1>4 DEF RatchetInv, HandsApart, Locked
<1>8. RatchetFollowsHistory'
      BY <1>1, Zenon DEF RatchetInv, RatchetFollowsHistory, GenerationUsedOnce, SpentMeansReceived
<1> QED BY <1>2, <1>5, <1>6, <1>7, <1>8 DEF RatchetInv

\* Another task that has loaded a group has loaded another group.
LEMMA OtherGroups ==
    ASSUME RatchetInv, NEW w \in Workers, work[w].op \in Locked,
           NEW v \in Workers, v # w, work[v].op \in Locked
    PROVE  work[v].contact # work[w].contact
BY Zenon DEF RatchetInv, HoldsLock

\* The fields of a task that has loaded a group have their types.
LEMMA JobFacts ==
    ASSUME RatchetInv, NEW w \in Workers, work[w].op # "idle"
    PROVE  /\ work[w] \in Jobs /\ work[w].contact \in Contacts
           /\ work[w].copy \in Blobs /\ work[w].op \in Locked \cup {"hand"}
BY DEF RatchetInv, RatchetTypeOK, Jobs, Idle, Locked

\* A task that lets go of its group and ends disturbs no other task that has
\* loaded one, if only its own group is changed.
LEMMA ReleaseKeepsLoaded ==
    ASSUME RatchetInv, NEW w \in Workers, work[w].op \in Locked,
           NEW job, job.op \notin Locked, RatchetTypeOK',
           lock' = [lock EXCEPT ![work[w].contact] = NoWorker],
           work' = [work EXCEPT ![w] = job],
           \A c \in Contacts : c # work[w].contact => blob'[c] = blob[c]
    PROVE  HoldsLock' /\ FreshCopy'
<1>1. /\ work'[w] = job
      /\ \A v \in Workers : v # w => work'[v] = work[v]
      BY Zenon DEF RatchetInv, RatchetTypeOK
<1>2. SUFFICES ASSUME NEW v \in Workers, work'[v].op \in Locked
               PROVE  /\ lock'[work'[v].contact] = v
                      /\ work'[v].contact \in Contacts
                      /\ blob'[work'[v].contact] = blob[work'[v].contact]
                      /\ work'[v] = work[v]
  <2>1. HoldsLock'
        BY <1>2, Zenon DEF HoldsLock
  <2>2. ASSUME NEW v \in Workers
        PROVE  /\ work'[v].op \in {"send", "card"} =>
                     /\ work'[v].copy = Encrypted(blob'[work'[v].contact])
                     /\ work'[v].gen = blob'[work'[v].contact].next
               /\ work'[v].op = "recv" =>
                     /\ work'[v].gen \in PeerGens
                     /\ work'[v].copy = Decrypted(blob'[work'[v].contact], work'[v].gen)
    <3>1. work'[v].op \in Locked =>
             blob'[work'[v].contact] = blob[work[v].contact] /\ work'[v] = work[v]
          BY <1>2, Zenon
    <3> QED BY <3>1 DEF RatchetInv, FreshCopy, Locked
  <2>3. FreshCopy'
        BY <2>2, Zenon DEF FreshCopy, Encrypted, Decrypted
  <2> QED BY <2>1, <2>3
<1>3. v # w
      BY <1>1, <1>2, Zenon
<1>4. work'[v] = work[v] /\ work[v].op \in Locked
      BY <1>1, <1>2, <1>3, Zenon
<1>5. work[v].contact # work[w].contact
      BY <1>3, <1>4, OtherGroups, Zenon
<1>6. work[v].contact \in Contacts
      BY <1>4, JobFacts, Zenon DEF Locked
<1>7. lock[work[v].contact] = v
      BY <1>4, Zenon DEF RatchetInv, HoldsLock
<1>8. lock'[work[v].contact] = v
      BY <1>5, <1>6, <1>7, Zenon DEF RatchetInv, RatchetTypeOK
<1> QED BY <1>4, <1>5, <1>6, <1>8

LEMMA AbortKeepsInv ==
    ASSUME RatchetInv, NEW w \in Workers, Abort(w)
    PROVE  RatchetInv'
<1>1. /\ work[w].op \in Locked
      /\ lock' = [lock EXCEPT ![work[w].contact] = NoWorker]
      /\ work' = [work EXCEPT ![w] = Idle]
      /\ blob' = blob /\ cipher' = cipher /\ received' = received
      BY Zenon DEF Abort, Unlock, Finish, Locked
<1>2. Idle.op \notin Locked /\ Idle.op # "hand"
      BY Zenon DEF Idle, Locked
<1>3. RatchetTypeOK'
      BY <1>1, Zenon DEF RatchetInv, RatchetTypeOK
<1>4. HoldsLock' /\ FreshCopy'
      BY <1>1, <1>2, <1>3, ReleaseKeepsLoaded, Zenon
<1>5. /\ work'[w].op # "hand"
      /\ \A v \in Workers : v # w => work'[v] = work[v]
      BY <1>1, <1>2, Zenon DEF RatchetInv, RatchetTypeOK
<1>6. HandsApart'
      BY <1>1, <1>5 DEF RatchetInv, HandsApart
<1>7. RatchetFollowsHistory'
      BY <1>1, Zenon DEF RatchetInv, RatchetFollowsHistory, GenerationUsedOnce, SpentMeansReceived
<1> QED BY <1>3, <1>4, <1>6, <1>7 DEF RatchetInv

\* A transaction writes an encrypted copy: the next generation grows by one and
\* what can be decrypted does not change.
LEMMA SavedEncryption ==
    ASSUME RatchetInv, NEW w \in Workers, work[w].op \in {"send", "card"},
           blob' = [blob EXCEPT ![work[w].contact] = work[w].copy]
    PROVE  /\ blob' \in [Contacts -> Blobs]
           /\ work[w].gen = blob[work[w].contact].next
           /\ blob'[work[w].contact].next = blob[work[w].contact].next + 1
           /\ blob'[work[w].contact].spent = blob[work[w].contact].spent
           /\ \A c \in Contacts : c # work[w].contact => blob'[c] = blob[c]
<1>1. /\ work[w].contact \in Contacts /\ work[w].copy \in Blobs
      BY JobFacts, Zenon
<1>2. blob \in [Contacts -> Blobs]
      BY Zenon DEF RatchetInv, RatchetTypeOK
<1>3. /\ work[w].copy = Encrypted(blob[work[w].contact])
      /\ work[w].gen = blob[work[w].contact].next
      BY Zenon DEF RatchetInv, FreshCopy
<1>4. /\ work[w].copy.next = blob[work[w].contact].next + 1
      /\ work[w].copy.spent = blob[work[w].contact].spent
      BY <1>1, <1>2, <1>3, Zenon DEF Encrypted, Blobs
<1> QED BY <1>1, <1>2, <1>3, <1>4

LEMMA CommitSendKeepsInv ==
    ASSUME RatchetInv, NEW w \in Workers, CommitSend(w)
    PROVE  RatchetInv'
<1> DEFINE c0 == work[w].contact
           g0 == work[w].gen
<1>1. /\ work[w].op = "send" /\ work[w].op \in Locked
      /\ blob' = [blob EXCEPT ![work[w].contact] = work[w].copy]
      /\ lock' = [lock EXCEPT ![work[w].contact] = NoWorker]
      /\ work' = [work EXCEPT ![w] = Idle]
      /\ cipher' = [cipher EXCEPT ![c0] = Append(@, g0)] /\ received' = received
      BY Zenon DEF CommitSend, Save, Unlock, Finish, Locked
<1>2. Idle.op \notin Locked /\ Idle.op # "hand"
      BY Zenon DEF Idle, Locked
<1>3. /\ blob' \in [Contacts -> Blobs] /\ g0 = blob[c0].next
      /\ blob'[c0].next = blob[c0].next + 1 /\ blob'[c0].spent = blob[c0].spent
      /\ \A c \in Contacts : c # c0 => blob'[c] = blob[c]
      BY <1>1, SavedEncryption, Zenon
<1>4. c0 \in Contacts /\ blob[c0].next \in Nat /\ g0 \in Nat /\ cipher[c0] \in Seq(Nat)
  <2>1. c0 \in Contacts
        BY <1>1, JobFacts, Zenon
  <2> QED BY <2>1, <1>3 DEF RatchetInv, RatchetTypeOK, Blobs
<1>5. RatchetTypeOK'
      BY <1>1, <1>3, <1>4 DEF RatchetInv, RatchetTypeOK
<1>6. HoldsLock' /\ FreshCopy'
      BY <1>1, <1>2, <1>3, <1>5, ReleaseKeepsLoaded, Zenon
<1>7. /\ work'[w].op # "hand"
      /\ \A v \in Workers : v # w => work'[v] = work[v]
      BY <1>1, <1>2, Zenon DEF RatchetInv, RatchetTypeOK
<1>8. cipher'[c0] = Append(cipher[c0], g0) /\ \A c \in Contacts : c # c0 => cipher'[c] = cipher[c]
       BY <1>1, <1>4, Zenon DEF RatchetInv, RatchetTypeOK
<1>9. /\ \A c \in Contacts : c # c0 => cipher'[c] = cipher[c]
      /\ Len(cipher'[c0]) = Len(cipher[c0]) + 1 /\ Len(cipher[c0]) \in Nat
      /\ cipher'[c0][Len(cipher[c0]) + 1] = g0
      /\ \A i \in 1 .. Len(cipher[c0]) : cipher'[c0][i] = cipher[c0][i]
  <2> HIDE DEF c0, g0
  <2> QED BY <1>8, <1>4
<1> HIDE DEF c0, g0
<1>10. HandsApart'
  <2> SUFFICES ASSUME NEW v \in Workers, work'[v].op = "hand"
               PROVE  /\ work'[v].gen \in Nat
                      /\ work'[v].gen < blob'[work'[v].contact].next
                      /\ \A i \in 1 .. Len(cipher'[work'[v].contact]) :
                            cipher'[work'[v].contact][i] # work'[v].gen
                      /\ \A u \in Workers :
                            work'[u].op = "hand" /\ work'[u].contact = work'[v].contact
                            /\ work'[u].gen = work'[v].gen => u = v
      BY Zenon DEF HandsApart
  <2>1. v # w /\ work'[v] = work[v] /\ work[v].op = "hand"
        BY <1>7, Zenon
  <2>2. work[v].contact \in Contacts
        BY <2>1, JobFacts, Zenon
  <2>3. /\ work[v].gen \in Nat /\ work[v].gen < blob[work[v].contact].next
        /\ \A i \in 1 .. Len(cipher[work[v].contact]) : cipher[work[v].contact][i] # work[v].gen
        BY <2>1, Zenon DEF RatchetInv, HandsApart
  <2>4. \A u \in Workers :
           work'[u].op = "hand" /\ work'[u].contact = work'[v].contact
           /\ work'[u].gen = work'[v].gen => u = v
        BY <2>1, <1>7 DEF RatchetInv, HandsApart
  <2>5. CASE work[v].contact = c0
    <3>1. /\ work[v].gen < blob'[c0].next /\ work[v].gen # g0
          BY <2>3, <2>5, <1>3, <1>4
    <3>2. \A i \in 1 .. Len(cipher'[c0]) : cipher'[c0][i] # work[v].gen
          BY <3>1, <2>3, <2>5, <1>9
    <3> QED BY <3>1, <3>2, <2>1, <2>3, <2>4, <2>5
  <2>6. CASE work[v].contact # c0
    <3>1. /\ blob'[work[v].contact] = blob[work[v].contact]
          /\ cipher'[work[v].contact] = cipher[work[v].contact]
          BY <2>2, <2>6, <1>3, <1>9, Zenon
    <3> QED BY <3>1, <2>1, <2>3, <2>4
  <2> QED BY <2>5, <2>6
<1>11. GenerationUsedOnce'
  <2> SUFFICES ASSUME NEW c \in Contacts,
                      NEW i \in 1 .. Len(cipher'[c]), NEW j \in 1 .. Len(cipher'[c])
               PROVE  /\ cipher'[c][i] < blob'[c].next
                      /\ cipher'[c][i] = cipher'[c][j] => i = j
      BY Zenon DEF GenerationUsedOnce
  <2>1. CASE c # c0
        BY <2>1, <1>3, <1>9 DEF RatchetInv, RatchetFollowsHistory, GenerationUsedOnce
  <2>2. CASE c = c0
    <3>1. \A n \in 1 .. Len(cipher[c0]) : cipher[c0][n] \in Nat /\ cipher[c0][n] < blob[c0].next
          BY <1>4 DEF RatchetInv, RatchetFollowsHistory, GenerationUsedOnce
    <3>3. \A n \in 1 .. Len(cipher[c0]) : cipher[c0][n] < blob'[c0].next /\ cipher[c0][n] # g0
          BY <3>1, <1>3, <1>4
    <3>4. blob'[c0].next \in Nat /\ g0 < blob'[c0].next
          BY <1>3, <1>4
    <3>2. \A n, m \in 1 .. Len(cipher[c0]) : cipher[c0][n] = cipher[c0][m] => n = m
          BY <1>4, Zenon DEF RatchetInv, RatchetFollowsHistory, GenerationUsedOnce
    <3>5. \A n, m \in 1 .. Len(Append(cipher[c0], g0)) :
             /\ Append(cipher[c0], g0)[n] < blob'[c0].next
             /\ Append(cipher[c0], g0)[n] = Append(cipher[c0], g0)[m] => n = m
          BY <3>2, <3>3, <3>4, <1>4, AppendFresh, Zenon
    <3> QED BY <3>5, <2>2, <1>8
  <2> QED BY <2>1, <2>2
<1>12. SpentMeansReceived'
      BY <1>1, <1>3, <1>4, Zenon DEF RatchetInv, RatchetFollowsHistory, SpentMeansReceived
<1> QED BY <1>5, <1>6, <1>10, <1>11, <1>12 DEF RatchetInv, RatchetFollowsHistory

LEMMA SaveCardKeepsInv ==
    ASSUME RatchetInv, NEW w \in Workers, SaveCard(w)
    PROVE  RatchetInv'
<1> DEFINE c0 == work[w].contact
           g0 == work[w].gen
           job == [work[w] EXCEPT !.op = "hand"]
<1>1. /\ work[w].op = "card" /\ work[w].op \in Locked
      /\ blob' = [blob EXCEPT ![work[w].contact] = work[w].copy]
      /\ lock' = [lock EXCEPT ![work[w].contact] = NoWorker]
      /\ work' = [work EXCEPT ![w].op = "hand"]
      /\ cipher' = cipher /\ received' = received
      BY Zenon DEF SaveCard, Save, Unlock, Locked
<1>2. /\ job \in Jobs /\ job.op = "hand" /\ job.contact = c0 /\ job.gen = g0
      /\ job.op \notin Locked
  <2>1. work[w] \in Jobs
        BY <1>1, JobFacts, Zenon
  <2> QED BY <2>1 DEF Jobs, Locked
<1>3. work' = [work EXCEPT ![w] = job]
      BY <1>1, Zenon
<1> HIDE DEF job
<1>4. /\ blob' \in [Contacts -> Blobs] /\ g0 = blob[c0].next
      /\ blob'[c0].next = blob[c0].next + 1 /\ blob'[c0].spent = blob[c0].spent
      /\ \A c \in Contacts : c # c0 => blob'[c] = blob[c]
      BY <1>1, SavedEncryption, Zenon
<1>5. c0 \in Contacts /\ blob[c0].next \in Nat /\ g0 \in Nat /\ cipher[c0] \in Seq(Nat)
  <2>1. c0 \in Contacts
        BY <1>1, JobFacts, Zenon
  <2> QED BY <2>1, <1>4 DEF RatchetInv, RatchetTypeOK, Blobs
<1>6. RatchetTypeOK'
      BY <1>1, <1>2, <1>3, <1>4, <1>5, ZenonT(60) DEF RatchetInv, RatchetTypeOK
<1>7. HoldsLock' /\ FreshCopy'
      BY <1>1, <1>2, <1>3, <1>4, <1>6, ReleaseKeepsLoaded, Zenon
<1>8. work'[w] = job /\ \A v \in Workers : v # w => work'[v] = work[v]
      BY <1>3, Zenon DEF RatchetInv, RatchetTypeOK
<1> HIDE DEF c0, g0
<1>9. \A i \in 1 .. Len(cipher[c0]) : cipher[c0][i] \in Nat /\ cipher[c0][i] < blob[c0].next
      BY <1>5 DEF RatchetInv, RatchetFollowsHistory, GenerationUsedOnce
<1>10. \A v \in Workers : v # w /\ work'[v].op = "hand" =>
          /\ work[v].contact \in Contacts
          /\ work[v].gen \in Nat /\ work[v].gen < blob[work[v].contact].next
          /\ \A i \in 1 .. Len(cipher[work[v].contact]) :
                cipher[work[v].contact][i] # work[v].gen
       BY <1>8, JobFacts, Zenon DEF RatchetInv, HandsApart
<1>11. HandsApart'
  <2> SUFFICES ASSUME NEW v \in Workers, work'[v].op = "hand"
               PROVE  /\ work'[v].gen \in Nat
                      /\ work'[v].gen < blob'[work'[v].contact].next
                      /\ \A i \in 1 .. Len(cipher'[work'[v].contact]) :
                            cipher'[work'[v].contact][i] # work'[v].gen
                      /\ \A u \in Workers :
                            work'[u].op = "hand" /\ work'[u].contact = work'[v].contact
                            /\ work'[u].gen = work'[v].gen => u = v
      BY Zenon DEF HandsApart
  <2>1. /\ work'[v].gen \in Nat
        /\ work'[v].gen < blob'[work'[v].contact].next
        /\ \A i \in 1 .. Len(cipher[work'[v].contact]) :
              cipher[work'[v].contact][i] # work'[v].gen
    <3>1. CASE v = w
          BY <3>1, <1>2, <1>4, <1>5, <1>8, <1>9
    <3>2. CASE v # w
      <4>1. work'[v] = work[v]
            BY <3>2, <1>8, Zenon
      <4>2. CASE work[v].contact = c0
            BY <3>2, <4>1, <4>2, <1>4, <1>5, <1>10, SMTT(30)
      <4>3. CASE work[v].contact # c0
            BY <3>2, <4>1, <4>3, <1>4, <1>10, Zenon
      <4> QED BY <4>2, <4>3
    <3> QED BY <3>1, <3>2
  <2>2. ASSUME NEW u \in Workers, work'[u].op = "hand",
               work'[u].contact = work'[v].contact, work'[u].gen = work'[v].gen, u # v
        PROVE  FALSE
    <3>1. CASE u # w /\ v # w
          BY <2>2, <3>1, <1>8, Zenon DEF RatchetInv, HandsApart
    <3>2. CASE u = w
          BY <2>2, <3>2, <1>2, <1>4, <1>5, <1>8, <1>10
    <3>3. CASE v = w
          BY <2>2, <3>3, <1>2, <1>4, <1>5, <1>8, <1>10
    <3> QED BY <3>1, <3>2, <3>3
  <2> QED BY <2>1, <2>2, <1>1
<1>12. GenerationUsedOnce'
  <2> SUFFICES ASSUME NEW c \in Contacts,
                      NEW i \in 1 .. Len(cipher[c]), NEW j \in 1 .. Len(cipher[c])
               PROVE  /\ cipher[c][i] < blob'[c].next
                      /\ cipher[c][i] = cipher[c][j] => i = j
      BY <1>1, Zenon DEF GenerationUsedOnce
  <2>1. /\ cipher[c][i] < blob[c].next
        /\ cipher[c][i] = cipher[c][j] => i = j
        BY Zenon DEF RatchetInv, RatchetFollowsHistory, GenerationUsedOnce
  <2>2. CASE c = c0
    <3>1. cipher[c][i] \in Nat /\ cipher[c][i] < blob[c].next
          BY <2>2, <1>9, Zenon
    <3>2. blob[c].next \in Nat /\ blob'[c].next = blob[c].next + 1
          BY <2>2, <1>4, <1>5, Zenon
    <3>3. cipher[c][i] < blob'[c].next
          BY <3>1, <3>2
    <3> QED BY <2>1, <3>3
  <2>3. CASE c # c0
        BY <2>1, <2>3, <1>4, Zenon
  <2> QED BY <2>2, <2>3
<1>13. SpentMeansReceived'
  <2>1. \A c \in Contacts : blob'[c].spent = blob[c].spent
        BY <1>4, Zenon
  <2> QED BY <2>1, <1>1 DEF RatchetInv, RatchetFollowsHistory, SpentMeansReceived
<1> QED BY <1>6, <1>7, <1>11, <1>12, <1>13 DEF RatchetInv, RatchetFollowsHistory

LEMMA HandOffCardKeepsInv ==
    ASSUME RatchetInv, NEW w \in Workers, HandOffCard(w)
    PROVE  RatchetInv'
<1> DEFINE c0 == work[w].contact
           g0 == work[w].gen
<1>1. /\ work[w].op = "hand"
      /\ work' = [work EXCEPT ![w] = Idle]
      /\ cipher' = [cipher EXCEPT ![c0] = Append(@, g0)]
      /\ blob' = blob /\ lock' = lock /\ received' = received
      BY Zenon DEF HandOffCard, Finish
<1>2. Idle.op \notin Locked /\ Idle.op # "hand"
      BY Zenon DEF Idle, Locked
<1>3. /\ g0 \in Nat /\ g0 < blob[c0].next
      /\ \A i \in 1 .. Len(cipher[c0]) : cipher[c0][i] # g0
      BY <1>1, Zenon DEF RatchetInv, HandsApart
<1>4. c0 \in Contacts /\ blob[c0].next \in Nat /\ cipher[c0] \in Seq(Nat)
  <2>1. c0 \in Contacts
        BY <1>1, JobFacts, Zenon
  <2> QED BY <2>1 DEF RatchetInv, RatchetTypeOK, Blobs
<1>5. RatchetTypeOK'
      BY <1>1, <1>3, <1>4 DEF RatchetInv, RatchetTypeOK
<1>6. work'[w] = Idle /\ \A v \in Workers : v # w => work'[v] = work[v]
      BY <1>1, Zenon DEF RatchetInv, RatchetTypeOK
<1>7. HoldsLock'
      BY <1>1, <1>2, <1>6, Zenon DEF RatchetInv, HoldsLock
<1>8. FreshCopy'
  <2> SUFFICES ASSUME NEW v \in Workers, work'[v].op \in Locked
               PROVE  work'[v] = work[v]
      BY <1>1 DEF RatchetInv, FreshCopy, Encrypted, Decrypted, Locked
  <2> QED BY <1>2, <1>6
<1>9. cipher'[c0] = Append(cipher[c0], g0) /\ \A c \in Contacts : c # c0 => cipher'[c] = cipher[c]
      BY <1>1, <1>4, Zenon DEF RatchetInv, RatchetTypeOK
<1> HIDE DEF c0, g0
<1>10. /\ Len(cipher'[c0]) = Len(cipher[c0]) + 1 /\ Len(cipher[c0]) \in Nat
       /\ cipher'[c0][Len(cipher[c0]) + 1] = g0
       /\ \A i \in 1 .. Len(cipher[c0]) : cipher'[c0][i] = cipher[c0][i]
       BY <1>3, <1>4, <1>9
<1>11. HandsApart'
  <2> SUFFICES ASSUME NEW v \in Workers, work'[v].op = "hand"
               PROVE  /\ work'[v].gen \in Nat
                      /\ work'[v].gen < blob[work'[v].contact].next
                      /\ \A i \in 1 .. Len(cipher'[work'[v].contact]) :
                            cipher'[work'[v].contact][i] # work'[v].gen
                      /\ \A u \in Workers :
                            work'[u].op = "hand" /\ work'[u].contact = work'[v].contact
                            /\ work'[u].gen = work'[v].gen => u = v
      BY <1>1, Zenon DEF HandsApart
  <2>1. v # w /\ work'[v] = work[v] /\ work[v].op = "hand"
        BY <1>2, <1>6, Zenon
  <2>2. work[v].contact \in Contacts
        BY <2>1, JobFacts, Zenon
  <2>3. /\ work[v].gen \in Nat /\ work[v].gen < blob[work[v].contact].next
        /\ \A i \in 1 .. Len(cipher[work[v].contact]) : cipher[work[v].contact][i] # work[v].gen
        BY <2>1, Zenon DEF RatchetInv, HandsApart
  <2>4. \A u \in Workers :
           work'[u].op = "hand" /\ work'[u].contact = work'[v].contact
           /\ work'[u].gen = work'[v].gen => u = v
        BY <2>1, <1>2, <1>6 DEF RatchetInv, HandsApart
  <2>5. CASE work[v].contact = c0
    <3>1. work[v].gen # g0
          BY <2>1, <2>5, <1>1, Zenon DEF RatchetInv, HandsApart, c0, g0
    <3>2. \A i \in 1 .. Len(cipher'[c0]) : cipher'[c0][i] # work[v].gen
          BY <3>1, <2>3, <2>5, <1>10
    <3> QED BY <3>2, <2>1, <2>3, <2>4, <2>5
  <2>6. CASE work[v].contact # c0
    <3>1. cipher'[work[v].contact] = cipher[work[v].contact]
          BY <2>2, <2>6, <1>9, Zenon
    <3> QED BY <3>1, <2>1, <2>3, <2>4
  <2> QED BY <2>5, <2>6
<1>12. GenerationUsedOnce'
  <2> SUFFICES ASSUME NEW c \in Contacts,
                      NEW i \in 1 .. Len(cipher'[c]), NEW j \in 1 .. Len(cipher'[c])
               PROVE  /\ cipher'[c][i] < blob[c].next
                      /\ cipher'[c][i] = cipher'[c][j] => i = j
      BY <1>1, Zenon DEF GenerationUsedOnce
  <2>1. CASE c # c0
        BY <2>1, <1>9 DEF RatchetInv, RatchetFollowsHistory, GenerationUsedOnce
  <2>2. CASE c = c0
    <3>1. /\ \A n \in 1 .. Len(cipher[c0]) : cipher[c0][n] < blob[c0].next /\ cipher[c0][n] # g0
          /\ \A n, m \in 1 .. Len(cipher[c0]) : cipher[c0][n] = cipher[c0][m] => n = m
          BY <1>3, <1>4, Zenon DEF RatchetInv, RatchetFollowsHistory, GenerationUsedOnce
    <3>2. \A n, m \in 1 .. Len(Append(cipher[c0], g0)) :
             /\ Append(cipher[c0], g0)[n] < blob[c0].next
             /\ Append(cipher[c0], g0)[n] = Append(cipher[c0], g0)[m] => n = m
          BY <3>1, <1>3, <1>4, AppendFresh, Zenon
    <3> QED BY <3>2, <2>2, <1>9
  <2> QED BY <2>1, <2>2
<1>13. SpentMeansReceived'
      BY <1>1, Zenon DEF RatchetInv, RatchetFollowsHistory, SpentMeansReceived
<1> QED BY <1>5, <1>7, <1>8, <1>11, <1>12, <1>13 DEF RatchetInv, RatchetFollowsHistory

LEMMA CommitRecvKeepsInv ==
    ASSUME RatchetInv, NEW w \in Workers, CommitRecv(w)
    PROVE  RatchetInv'
<1> DEFINE c0 == work[w].contact
           g0 == work[w].gen
<1>1. /\ work[w].op = "recv" /\ work[w].op \in Locked
      /\ blob' = [blob EXCEPT ![work[w].contact] = work[w].copy]
      /\ lock' = [lock EXCEPT ![work[w].contact] = NoWorker]
      /\ work' = [work EXCEPT ![w] = Idle]
      /\ received' = [received EXCEPT ![c0] = @ \cup {g0}] /\ cipher' = cipher
      BY Zenon DEF CommitRecv, Save, Unlock, Finish, Locked
<1>2. Idle.op \notin Locked /\ Idle.op # "hand"
      BY Zenon DEF Idle, Locked
<1>3. c0 \in Contacts /\ work[w].copy \in Blobs /\ blob[c0] \in Blobs
  <2>1. c0 \in Contacts /\ work[w].copy \in Blobs
        BY <1>1, JobFacts, Zenon
  <2> QED BY <2>1 DEF RatchetInv, RatchetTypeOK
<1>4. g0 \in PeerGens /\ work[w].copy = Decrypted(blob[c0], g0)
      BY <1>1, Zenon DEF RatchetInv, FreshCopy
<1>5. /\ blob' \in [Contacts -> Blobs] /\ blob'[c0] = work[w].copy
      /\ \A c \in Contacts : c # c0 => blob'[c] = blob[c]
      BY <1>1, <1>3, Zenon DEF RatchetInv, RatchetTypeOK
<1>6. blob'[c0].next = blob[c0].next /\ blob'[c0].spent = blob[c0].spent \cup {g0}
  <2> HIDE DEF c0, g0
  <2>1. /\ Decrypted(blob[c0], g0).next = blob[c0].next
        /\ Decrypted(blob[c0], g0).spent = blob[c0].spent \cup {g0}
        BY <1>3, <1>4, BlobFacts, Zenon
  <2> QED BY <2>1, <1>4, <1>5
<1>7. /\ received' \in [Contacts -> SUBSET PeerGens] /\ received'[c0] = received[c0] \cup {g0}
      /\ \A c \in Contacts : c # c0 => received'[c] = received[c]
      BY <1>1, <1>3, <1>4, Zenon DEF RatchetInv, RatchetTypeOK
<1>8. RatchetTypeOK'
      BY <1>1, <1>5, <1>7, Zenon DEF RatchetInv, RatchetTypeOK
<1>9. HoldsLock' /\ FreshCopy'
      BY <1>1, <1>2, <1>5, <1>8, ReleaseKeepsLoaded, Zenon
<1>10. work'[w] = Idle /\ \A v \in Workers : v # w => work'[v] = work[v]
      BY <1>1, Zenon DEF RatchetInv, RatchetTypeOK
<1>11. \A c \in Contacts : blob'[c].next = blob[c].next
      BY <1>5, <1>6, Zenon
<1> HIDE DEF c0, g0
<1>12. HandsApart'
  <2>1. \A v \in Workers : work'[v].op = "hand" =>
           work'[v] = work[v] /\ work[v].contact \in Contacts
        BY <1>2, <1>10, JobFacts, Zenon
  <2>2. \A v \in Workers : work'[v].op = "hand" =>
           blob'[work'[v].contact].next = blob[work[v].contact].next
        BY <2>1, <1>11, Zenon
  <2> SUFFICES ASSUME NEW v \in Workers, work'[v].op = "hand"
               PROVE  /\ work'[v].gen \in Nat
                      /\ work'[v].gen < blob'[work'[v].contact].next
                      /\ \A i \in 1 .. Len(cipher[work'[v].contact]) :
                            cipher[work'[v].contact][i] # work'[v].gen
                      /\ \A u \in Workers :
                            work'[u].op = "hand" /\ work'[u].contact = work'[v].contact
                            /\ work'[u].gen = work'[v].gen => u = v
      BY <1>1, Zenon DEF HandsApart
  <2> QED BY <2>1, <2>2, ZenonT(60) DEF RatchetInv, HandsApart
<1>13. GenerationUsedOnce'
      BY <1>1, <1>11, Zenon DEF RatchetInv, RatchetFollowsHistory, GenerationUsedOnce
<1>14. SpentMeansReceived'
  <2> SUFFICES ASSUME NEW c \in Contacts PROVE blob'[c].spent = received'[c]
      BY Zenon DEF SpentMeansReceived
  <2>1. blob[c].spent = received[c]
        BY Zenon DEF RatchetInv, RatchetFollowsHistory, SpentMeansReceived
  <2> QED BY <2>1, <1>5, <1>6, <1>7, Zenon
<1> QED BY <1>8, <1>9, <1>12, <1>13, <1>14 DEF RatchetInv, RatchetFollowsHistory

LEMMA CrashKeepsInv ==
    ASSUME RatchetInv, RatchetCrash
    PROVE  RatchetInv'
<1>1. Idle.op \notin Locked /\ Idle.op \notin {"hand", "send", "card", "recv"}
      BY Zenon DEF Idle, Locked
<1>2. \A w \in Workers : work'[w] = Idle
      BY Zenon DEF RatchetCrash
<1>3. RatchetTypeOK'
      BY Zenon DEF RatchetCrash, RatchetInv, RatchetTypeOK
<1>4. HoldsLock' /\ FreshCopy' /\ HandsApart'
      BY <1>1, <1>2, Zenon DEF HoldsLock, FreshCopy, HandsApart
<1>5. RatchetFollowsHistory'
      BY Zenon DEF RatchetCrash, RatchetInv, RatchetFollowsHistory, GenerationUsedOnce,
             SpentMeansReceived
<1> QED BY <1>3, <1>4, <1>5 DEF RatchetInv

LEMMA RatchetStep ==
    RatchetInv /\ [RatchetNext]_rvars => RatchetInv'
<1> SUFFICES ASSUME RatchetInv, [RatchetNext]_rvars PROVE RatchetInv'
    OBVIOUS
<1>1. ASSUME NEW w \in Workers, NEW c \in Contacts, LoadForSend(w, c) \/ LoadForCard(w, c)
      PROVE  RatchetInv'
  <2>1. blob[c] \in Blobs /\ blob[c].next \in Nat
        BY Zenon DEF RatchetInv, RatchetTypeOK, Blobs
  <2>2. Encrypted(blob[c]) \in Blobs
        BY <2>1 DEF Encrypted, Blobs
  <2>3. PICK op \in {"send", "card"} : Load(w, c, op, Encrypted(blob[c]), blob[c].next)
        BY <1>1, Zenon DEF LoadForSend, LoadForCard
  <2>4. op \in Locked /\ op # "recv"
        BY Zenon DEF Locked
  <2> QED BY <2>1, <2>2, <2>3, <2>4, LoadKeepsInv
<1>2. ASSUME NEW w \in Workers, NEW c \in Contacts, NEW g \in PeerGens, LoadForRecv(w, c, g)
      PROVE  RatchetInv'
  <2>1. blob[c] \in Blobs
        BY Zenon DEF RatchetInv, RatchetTypeOK
  <2>2. Decrypted(blob[c], g) \in Blobs
        BY <2>1, BlobFacts, Zenon
  <2>3. "recv" \in Locked /\ "recv" \notin {"send", "card"}
        BY Zenon DEF Locked
  <2>4. Load(w, c, "recv", Decrypted(blob[c], g), g)
        BY <1>2, Zenon DEF LoadForRecv
  <2> QED BY <2>2, <2>3, <2>4, LoadKeepsInv, Zenon
<1>3. ASSUME NEW w \in Workers,
             CommitSend(w) \/ SaveCard(w) \/ HandOffCard(w) \/ CommitRecv(w) \/ Abort(w)
      PROVE  RatchetInv'
      BY <1>3, CommitSendKeepsInv, SaveCardKeepsInv, HandOffCardKeepsInv, CommitRecvKeepsInv,
         AbortKeepsInv, Zenon
<1>4. CASE RatchetCrash
      BY <1>4, CrashKeepsInv, Zenon
<1>5. CASE UNCHANGED rvars
  <2>1. /\ blob' = blob /\ lock' = lock /\ work' = work
        /\ cipher' = cipher /\ received' = received
        BY <1>5, Zenon DEF rvars
  <2>2. RatchetTypeOK' /\ HoldsLock' /\ HandsApart'
        BY <2>1, Zenon DEF RatchetInv, RatchetTypeOK, HoldsLock, HandsApart
  <2>3. FreshCopy'
        BY <2>1, Zenon DEF RatchetInv, FreshCopy, Encrypted, Decrypted
  <2>4. RatchetFollowsHistory'
        BY <2>1, Zenon DEF RatchetInv, RatchetFollowsHistory, GenerationUsedOnce, SpentMeansReceived
  <2> QED BY <2>2, <2>3, <2>4 DEF RatchetInv
<1> QED BY <1>1, <1>2, <1>3, <1>4, <1>5 DEF RatchetNext

LEMMA RatchetStart == RatchetInit => RatchetInv
<1> SUFFICES ASSUME RatchetInit PROVE RatchetInv
    OBVIOUS
<1>1. Idle.op \notin Locked /\ Idle.op \notin {"hand", "send", "card", "recv"}
      BY Zenon DEF Idle, Locked
<1>2. \A w \in Workers : work[w] = Idle
      BY Zenon DEF RatchetInit
<1>3. RatchetTypeOK
      BY DEF RatchetInit, RatchetTypeOK, Blobs
<1>4. HoldsLock /\ FreshCopy /\ HandsApart
      BY <1>1, <1>2, Zenon DEF HoldsLock, FreshCopy, HandsApart
<1>5. RatchetFollowsHistory
      BY DEF RatchetInit, RatchetFollowsHistory, GenerationUsedOnce, SpentMeansReceived
<1> QED BY <1>3, <1>4, <1>5 DEF RatchetInv

\* Whatever sends, card updates and receives overlap and wherever the daemon
\* crashes, the tasks of dispatch.rs and inbound.rs never use a generation
\* twice and never restore a spent one.
THEOREM RatchetSafe == RatchetSpec => []RatchetFollowsHistory
<1>1. RatchetInv => RatchetFollowsHistory
      BY Zenon DEF RatchetInv
<1> QED BY RatchetStart, RatchetStep, <1>1, PTL DEF RatchetSpec

-----------------------------------------------------------------------------
\* The contact on the screen is none or a known one.
ViewTyped ==
    /\ "contact" \in DOMAIN view
    /\ view.contact \in Contacts \cup {NoContact}

\* A request names a known contact, and a send its own task.
CallTyped(k) ==
    /\ {"contact", "kind", "temp"} \subseteq DOMAIN k
    /\ k.contact \in Contacts
    /\ IsSend(k) => k.temp \in Temps

CallsTyped == ViewTyped /\ \A k \in calls : CallTyped(k)

LEMMA NewCallTyped ==
    ASSUME NEW kind \in {"open", "older", "mark"}, NEW c \in Contacts, NEW tag, NEW arg
    PROVE  CallTyped(Call(kind, c, tag, arg))
BY Zenon DEF CallTyped, Call, IsSend

LEMMA NewSendTyped ==
    ASSUME NEW kind \in {"send", "file"}, NEW c \in Contacts, NEW t \in Temps
    PROVE  CallTyped([Call(kind, c, 0, 0) EXCEPT !.temp = t])
BY Zenon DEF CallTyped, Call, IsSend

LEMMA AnsweredTyped ==
    ASSUME NEW k, CallTyped(k), NEW st, NEW page, NEW next
    PROVE  CallTyped([k EXCEPT !.st = st, !.page = page, !.next = next])
BY Zenon DEF CallTyped, IsSend

\* The daemon's steps keep the requests well formed.
LEMMA DaemonKeepsCalls ==
    ASSUME CallsTyped, UNCHANGED view,
           \/ UNCHANGED calls
           \/ \E k \in calls : \E st, page, next : Answer(k, st, page, next)
           \/ calls' = {[k EXCEPT !.st = "err", !.page = <<>>, !.next = 0] : k \in calls}
    PROVE  CallsTyped'
<1>1. ViewTyped'
      BY Zenon DEF CallsTyped, ViewTyped
<1>2. \A k \in calls' : CallTyped(k)
  <2>1. CASE UNCHANGED calls
        BY <2>1, Zenon DEF CallsTyped
  <2>2. ASSUME NEW k \in calls, NEW st, NEW page, NEW next, Answer(k, st, page, next)
        PROVE  \A j \in calls' : CallTyped(j)
    <3>1. CallTyped([k EXCEPT !.st = st, !.page = page, !.next = next])
          BY AnsweredTyped, Zenon DEF CallsTyped
    <3> QED BY <2>2, <3>1, Zenon DEF Answer, CallsTyped
  <2>3. CASE calls' = {[k EXCEPT !.st = "err", !.page = <<>>, !.next = 0] : k \in calls}
    <3> SUFFICES ASSUME NEW j \in calls' PROVE CallTyped(j)
        BY Zenon
    <3>1. PICK k \in calls : j = [k EXCEPT !.st = "err", !.page = <<>>, !.next = 0]
          BY <2>3, Zenon
    <3>2. CallTyped([k EXCEPT !.st = "err", !.page = <<>>, !.next = 0])
          BY AnsweredTyped, Zenon DEF CallsTyped
    <3> QED BY <3>1, <3>2, Zenon
  <2> QED BY <2>1, <2>2, <2>3, Zenon
<1> QED BY <1>1, <1>2, Zenon DEF CallsTyped, CallTyped

\* What a step of the UI has to show; CallTyped is about the request alone.
LEMMA UiKeepsCalls ==
    ASSUME ViewTyped', \A k \in calls' : CallTyped(k)
    PROVE  CallsTyped'
BY Zenon DEF CallsTyped, CallTyped

\* Every step of Conversation is a step of the ratchet or leaves it alone.
LEMMA ConversationStep ==
    ASSUME CallsTyped, Next
    PROVE  [RatchetNext]_rvars
<1>1. ASSUME NEW k \in calls, Serve(k) \/ Fails(k) \/ Returns(k)
      PROVE  [RatchetNext]_rvars
  <2>1. CASE SendLoad(k) \/ SendPersist(k) \/ SendAborts(k)
    <3>1. k.temp \in Workers /\ k.contact \in Contacts
          BY <2>1, ActorsAssumption, Zenon DEF SendLoad, SendPersist, SendAborts, CallsTyped, CallTyped
    <3>2. LoadForSend(k.temp, k.contact) \/ CommitSend(k.temp) \/ Abort(k.temp)
          BY <2>1, Zenon DEF SendLoad, SendPersist, SendAborts
    <3> QED BY <3>1, <3>2, Zenon DEF RatchetNext
  <2>2. CASE RecentMessages(k) \/ MarkRead(k) \/ RequestFails(k)
        BY <2>2, Zenon DEF RecentMessages, MarkRead, RequestFails
  <2>3. CASE Returns(k)
        BY <2>3, Zenon DEF Returns, OpenReturns, OlderReturns, SendReturns, MarkReturns
  <2> QED BY <1>1, <2>1, <2>2, <2>3 DEF Serve, Fails
<1>2. ASSUME NEW w \in Receivers, NEW c \in Contacts, NEW g \in PeerGens, ReceiveLoad(w, c, g)
      PROVE  [RatchetNext]_rvars
      BY <1>2, ActorsAssumption, Zenon DEF ReceiveLoad, RatchetNext
<1>3. ASSUME NEW w \in Receivers, ReceivePersist(w)
      PROVE  [RatchetNext]_rvars
      BY <1>3, ActorsAssumption, Zenon DEF ReceivePersist, RatchetNext
<1>4. ASSUME NEW w \in Publishers, NEW c \in Contacts, CardLoad(w, c)
      PROVE  [RatchetNext]_rvars
      BY <1>4, ActorsAssumption, Zenon DEF CardLoad, RatchetNext
<1>5. ASSUME NEW w \in Publishers, CardStep(w)
      PROVE  [RatchetNext]_rvars
      BY <1>5, ActorsAssumption, Zenon DEF CardStep, RatchetNext
<1>6. ASSUME NEW w \in Receivers \cup Publishers, TaskAborts(w)
      PROVE  [RatchetNext]_rvars
      BY <1>6, ActorsAssumption, Zenon DEF TaskAborts, RatchetNext
<1>7. CASE \/ \E id \in DOMAIN rows : PruneBefore(id)
           \/ \E c \in Contacts, n \in 0 .. 1 : PruneKeepLast(c, n)
      BY <1>7, Zenon DEF PruneBefore, PruneKeepLast, Prune
<1>8. CASE Restart
      BY <1>8, Zenon DEF Restart, RatchetNext
<1>9. CASE \/ StreamClosed \/ Resubscribe \/ Forward
           \/ CloseConversation \/ LoadOlder \/ ExportTurn
      BY <1>9, Zenon DEF StreamClosed, Resubscribe, Forward, CloseConversation, LoadOlder, ExportTurn
<1>10. CASE MarkReadIfAtBottom \/ TimerFires
      BY <1>10, Zenon DEF MarkReadIfAtBottom, TimerFires
<1>11. CASE \E c \in Contacts : OpenConversation(c) \/ ExportBegin(c)
      BY <1>11, Zenon DEF OpenConversation, ExportBegin
<1>12. CASE \E t \in Temps, kind \in {"send", "file"} : Send(t, kind)
      BY <1>12, Zenon DEF Send
<1> QED BY <1>1, <1>2, <1>3, <1>4, <1>5, <1>6, <1>7, <1>8, <1>9, <1>10, <1>11, <1>12
           DEF Next

LEMMA CallsStep ==
    ASSUME CallsTyped, [Next]_vars
    PROVE  CallsTyped'
<1>0. ViewTyped /\ \A k \in calls : CallTyped(k)
      BY Zenon DEF CallsTyped
<1>1. ASSUME NEW k \in calls, Serve(k) \/ Fails(k)
      PROVE  CallsTyped'
  <2>1. UNCHANGED view
        BY <1>1, Zenon DEF Serve, Fails, RecentMessages, MarkRead, SendLoad, SendPersist,
                    RequestFails, SendAborts, uiVars, cvars, besidesOps
  <2>2. UNCHANGED calls \/ \E st, page, next : Answer(k, st, page, next)
        BY <1>1, Zenon DEF Serve, Fails, RecentMessages, MarkRead, SendLoad, SendPersist,
                           RequestFails, SendAborts, cvars, besidesOps
  <2> QED BY <2>1, <2>2, DaemonKeepsCalls, Zenon
<1>2. ASSUME NEW k \in calls, OpenReturns(k)
      PROVE  CallsTyped'
  <2>1. k.contact \in Contacts
        BY <1>0, Zenon DEF CallTyped
  <2>2. CASE \E anchor \in {0, cursor[k.contact]} : Opened(k, anchor)
    <3>1. PICK anchor \in {0, cursor[k.contact]} : Opened(k, anchor)
          BY <2>2, Zenon
    <3>2. ViewTyped'
          BY <2>1, <3>1, Zenon DEF Opened, ViewTyped
    <3>3. CallTyped(Call("mark", k.contact, 0, k.page[Len(k.page)].row))
          BY <2>1, NewCallTyped, Zenon
    <3>4. calls' \subseteq calls \cup {Call("mark", k.contact, 0, k.page[Len(k.page)].row)}
          BY <3>1, Zenon DEF Opened
    <3>5. \A j \in calls' : CallTyped(j)
          BY <1>0, <3>3, <3>4, Zenon
    <3> QED BY <3>2, <3>5, UiKeepsCalls
  <2>3. CASE calls' = calls \ {k} /\ UNCHANGED view
    <3>1. ViewTyped'
          BY <1>0, <2>3, Zenon DEF ViewTyped
    <3>2. \A j \in calls' : CallTyped(j)
          BY <1>0, <2>3, Zenon
    <3> QED BY <3>1, <3>2, UiKeepsCalls
  <2> QED BY <1>2, <2>2, <2>3 DEF OpenReturns
<1>3. ASSUME NEW k \in calls, OlderReturns(k) \/ SendReturns(k) \/ MarkReturns(k)
      PROVE  CallsTyped'
  <2>1. ViewTyped'
        BY <1>0, <1>3, Zenon DEF OlderReturns, SendReturns, MarkReturns, ViewTyped
  <2>2. \A j \in calls' : CallTyped(j)
        BY <1>0, <1>3, Zenon DEF OlderReturns, SendReturns, MarkReturns
  <2> QED BY <2>1, <2>2, UiKeepsCalls
<1>4. CASE \/ \E w \in Receivers, c \in Contacts, g \in PeerGens : ReceiveLoad(w, c, g)
           \/ \E w \in Receivers : ReceivePersist(w)
           \/ \E w \in Publishers, c \in Contacts : CardLoad(w, c)
           \/ \E w \in Publishers : CardStep(w)
           \/ \E w \in Receivers \cup Publishers : TaskAborts(w)
  <2>1. UNCHANGED view /\ UNCHANGED calls
        BY <1>4, Zenon DEF ReceiveLoad, ReceivePersist, CardLoad, CardStep, TaskAborts,
                    uiVars, cvars, besidesOps
  <2> QED BY <2>1, DaemonKeepsCalls
<1>5. CASE \/ \E id \in DOMAIN rows : PruneBefore(id)
           \/ \E c \in Contacts, n \in 0 .. 1 : PruneKeepLast(c, n)
           \/ StreamClosed \/ Resubscribe
           \/ ExportTurn \/ \E c \in Contacts : ExportBegin(c)
           \/ MarkReadIfAtBottom \/ UNCHANGED vars
  <2>1. UNCHANGED view /\ UNCHANGED calls
        BY <1>5, Zenon DEF PruneBefore, PruneKeepLast, Prune, StreamClosed, Resubscribe, ExportTurn, ExportBegin,
                    MarkReadIfAtBottom, uiVars, vars, cvars, besidesOps
  <2> QED BY <2>1, DaemonKeepsCalls
<1>6. CASE Restart
  <2>1. ViewTyped' /\ \A j \in calls' : CallTyped(j)
        BY <1>6, Zenon DEF Restart, ViewTyped, Closed
  <2> QED BY <2>1, UiKeepsCalls
<1>7. CASE Forward \/ CloseConversation
  <2>1. ViewTyped'
        BY <1>0, <1>7 DEF Forward, CloseConversation, ViewTyped, Closed
  <2>2. \A j \in calls' : CallTyped(j)
        BY <1>0, <1>7, Zenon DEF Forward, CloseConversation
  <2> QED BY <2>1, <2>2, UiKeepsCalls
<1>8. CASE LoadOlder
  <2>1. ViewTyped' /\ view.contact \in Contacts
        BY <1>0, <1>8, Zenon DEF LoadOlder, ViewTyped
  <2>2. CallTyped(Call("older", view.contact, token, view.nextBefore))
        BY <2>1, NewCallTyped, Zenon
  <2>3. calls' = calls \cup {Call("older", view.contact, token, view.nextBefore)}
        BY <1>8, Zenon DEF LoadOlder
  <2>4. \A j \in calls' : CallTyped(j)
        BY <1>0, <2>2, <2>3, Zenon
  <2> QED BY <2>1, <2>4, UiKeepsCalls
<1>9. CASE TimerFires
  <2>1. view' = view
        BY <1>9, Zenon DEF TimerFires
  <2>2. CASE UNCHANGED calls
        BY <2>1, <2>2, DaemonKeepsCalls, Zenon
  <2>3. CASE /\ view.contact = pending.contact
             /\ calls' = calls \cup {Call("mark", view.contact, 1, pending.row)}
             /\ view.contact \in Contacts
    <3>1. CallTyped(Call("mark", view.contact, 1, pending.row))
          BY <2>3, NewCallTyped, Zenon
    <3>2. ViewTyped'
          BY <1>0, <2>1, Zenon DEF ViewTyped
    <3>3. \A j \in calls' : CallTyped(j)
          BY <1>0, <2>3, <3>1, Zenon
    <3> QED BY <3>2, <3>3, UiKeepsCalls
  <2> QED BY <1>0, <1>9, <2>2, <2>3 DEF TimerFires, ViewTyped
<1>10. ASSUME NEW c \in Contacts, OpenConversation(c)
       PROVE  CallsTyped'
  <2>1. CallTyped(Call("open", c, token', 0))
        BY NewCallTyped, Zenon
  <2>2. ViewTyped' /\ calls' = calls \cup {Call("open", c, token', 0)}
        BY <1>0, <1>10, Zenon DEF OpenConversation, ViewTyped
  <2>3. \A j \in calls' : CallTyped(j)
        BY <1>0, <2>1, <2>2, Zenon
  <2> QED BY <2>2, <2>3, UiKeepsCalls
<1>11. ASSUME NEW t \in Temps, NEW kind \in {"send", "file"}, Send(t, kind)
       PROVE  CallsTyped'
  <2>1. ViewTyped' /\ view.contact \in Contacts
        BY <1>0, <1>11, Zenon DEF Send, ViewTyped
  <2>2. CallTyped([Call(kind, view.contact, 0, 0) EXCEPT !.temp = t])
        BY <2>1, NewSendTyped, Zenon
  <2>3. calls' = calls \cup {[Call(kind, view.contact, 0, 0) EXCEPT !.temp = t]}
        BY <1>11, Zenon DEF Send
  <2>4. \A j \in calls' : CallTyped(j)
        BY <1>0, <2>2, <2>3, Zenon
  <2> QED BY <2>1, <2>4, UiKeepsCalls
<1> QED BY <1>1, <1>2, <1>3, <1>4, <1>5, <1>6, <1>7, <1>8, <1>9, <1>10, <1>11, Zenon
           DEF Next, Returns

\* The conversation implements the ratchet specification: whatever the UI, the
\* CLI and the sweeps do between them, sends, receives and card updates follow
\* the protocol of GroupRatchet ...
THEOREM ConversationUsesRatchet == Spec => RatchetSpec
<1>1. Init => RatchetInit /\ CallsTyped
      BY DEF Init, ConversationInit, CallsTyped, ViewTyped, Closed
<1>2. CallsTyped /\ [Next]_vars => CallsTyped'
      BY CallsStep, Zenon
<1>3. CallsTyped /\ [Next]_vars => [RatchetNext]_rvars
      BY ConversationStep, Zenon DEF vars
<1> QED BY <1>1, <1>2, <1>3, PTL DEF Spec, RatchetSpec

\* ... and so the stored ratchets follow the history of the conversations.
THEOREM ConversationRatchetSafe == Spec => []RatchetFollowsHistory
BY ConversationUsesRatchet, RatchetSafe, PTL

-----------------------------------------------------------------------------
(* Pages of ids *)

\* Induction over the naturals, for a set.
LEMMA SetInduction ==
  ASSUME NEW S, 0 \in S, \A n \in Nat : n \in S => n+1 \in S
  PROVE  Nat \subseteq S
<1> SUFFICES ASSUME Nat \ S # {} PROVE FALSE
  OBVIOUS
<1>1. PICK x \in Nat \ S : \A y \in Nat \ S : ~ (<<y, x>> \in OpToRel(<,Nat))
  BY NatLessThanWellFounded, WFMin, Zenon
<1>2. \A y \in Nat \ S : ~(y < x)
  BY <1>1, Zenon DEF OpToRel
<1>3. x # 0 /\ x-1 \in Nat /\ x - 1 < x /\ (x-1)+1 = x
  OBVIOUS
<1> QED
  BY <1>2, <1>3

LEMMA Smallest ==
  ASSUME NEW S \in SUBSET Nat, S # {} PROVE \E x \in S : \A y \in S : x <= y
<1>1. PICK x \in S : \A y \in S : ~ (<<y, x>> \in OpToRel(<,Nat))
  BY NatLessThanWellFounded, WFMin, Zenon
<1>2. \A y \in S : ~(y < x)
  BY <1>1, Zenon DEF OpToRel
<1> QED
  BY <1>2

LEMMA MaxFacts ==
  ASSUME NEW S \in SUBSET Nat, S # {}, NEW b \in Nat, \A x \in S : x <= b
  PROVE  Max(S) \in S /\ \A y \in S : y <= Max(S)
<1> DEFINE T == {b - x : x \in S}
<1>1. T \in SUBSET Nat /\ T # {}
  <2>1. \A x \in S : x \in Nat /\ x <= b /\ b - x \in Nat
    OBVIOUS
  <2> QED
    BY <2>1, Zenon
<1>2. PICK t \in T : \A u \in T : t <= u
  <2> HIDE DEF T
  <2> QED
    BY <1>1, Smallest
<1>3. PICK x \in S : t = b - x
  OBVIOUS
<1>4. \A y \in S : x >= y
  BY <1>2, <1>3
<1>5. /\ Max(S) \in S /\ \A y \in S : Max(S) >= y
  BY <1>4, Zenon DEF Max
<1> QED
  BY <1>5

LEMMA FinitePage ==
  ASSUME NEW b \in Nat, NEW P \in SUBSET (0 .. b)
  PROVE  IsFiniteSet(P) /\ Cardinality(P) \in Nat /\ \A x \in P : x \in Nat /\ x <= b
<1>1. 0 \in Int /\ b \in Int
  OBVIOUS
<1>2. IsFiniteSet(0 .. b)
  BY <1>1, FS_Interval, Zenon
<1>3. IsFiniteSet(P)
  BY <1>2, FS_Subset, Zenon
<1>4. Cardinality(P) \in Nat
  BY <1>3, FS_CardinalityType, Zenon
<1> QED
  BY <1>3, <1>4

\* Ascending enumerates a page.
Enumerates(q, P) ==
  /\ q \in [1 .. Cardinality(P) -> P]
  /\ \A m, n \in 1 .. Cardinality(P) : m < n => q[m] < q[n]

LEMMA AscendingExists ==
  ASSUME NEW b \in Nat
  PROVE  \A n \in Nat : \A P \in SUBSET (0 .. b) :
            Cardinality(P) = n => \E q : Enumerates(q, P)
<1> DEFINE S == {n \in Nat : \A P \in SUBSET (0 .. b) :
                    Cardinality(P) = n => \E q : Enumerates(q, P)}
<1>0. \A P \in SUBSET (0 .. b) : IsFiniteSet(P) /\ Cardinality(P) \in Nat
  BY FinitePage, Zenon
<1>1. 0 \in S
  <2> SUFFICES ASSUME NEW P \in SUBSET (0 .. b), Cardinality(P) = 0
               PROVE  \E q : Enumerates(q, P)
    OBVIOUS
  <2>1. Enumerates([i \in 1 .. 0 |-> 0], P)
    BY DEF Enumerates
  <2> QED
    BY <2>1
<1>2. ASSUME NEW n \in Nat, n \in S PROVE n + 1 \in S
  <2> SUFFICES ASSUME NEW P \in SUBSET (0 .. b), Cardinality(P) = n + 1
               PROVE  \E q : Enumerates(q, P)
    OBVIOUS
  <2>1. P # {} /\ IsFiniteSet(P)
    BY <1>0, FS_EmptySet
  <2> DEFINE m == Max(P)
             Q == P \ {m}
  <2>2. m \in P /\ \A y \in P : y <= m
    BY <2>1, MaxFacts
  <2> HIDE DEF m
  <2>3. Q \in SUBSET (0 .. b) /\ Cardinality(Q) = n
    BY <2>1, <2>2, FS_RemoveElement
  <2>4. \A y \in Q : y < m /\ y \in P
    BY <2>2
  <2>5. PICK r : Enumerates(r, Q)
    BY <1>2, <2>3
  <2> HIDE DEF Q
  <2> DEFINE q == [i \in 1 .. (n + 1) |-> IF i = n + 1 THEN m ELSE r[i]]
  <2>6. r \in [1 .. n -> Q] /\ \A i, j \in 1 .. n : i < j => r[i] < r[j]
    BY <2>3, <2>5 DEF Enumerates
  <2>7. q \in [1 .. (n + 1) -> P]
    BY <2>2, <2>4, <2>6
  <2>8. ASSUME NEW i \in 1 .. (n + 1), NEW j \in 1 .. (n + 1), i < j PROVE q[i] < q[j]
    <3>1. i \in 1 .. n /\ q[i] = r[i] /\ r[i] \in Q
      BY <2>6, <2>8
    <3>2. CASE j = n + 1
      BY <2>4, <3>1, <3>2
    <3>3. CASE j # n + 1
      BY <2>6, <2>8, <3>1, <3>3
    <3> QED
      BY <3>2, <3>3
  <2> HIDE DEF q
  <2>9. Enumerates(q, P)
    BY <2>7, <2>8 DEF Enumerates
  <2> QED
    BY <2>9
<1> HIDE DEF S
<1>3. Nat \subseteq S
  BY <1>1, <1>2, SetInduction
<1> QED
  BY <1>3 DEF S

LEMMA AscendingFacts ==
  ASSUME NEW b \in Nat, NEW P \in SUBSET (0 .. b)
  PROVE  /\ IsFiniteSet(P) /\ Cardinality(P) \in Nat
         /\ Ascending(P) \in [1 .. Cardinality(P) -> P]
         /\ \A m, n \in 1 .. Cardinality(P) : m < n => Ascending(P)[m] < Ascending(P)[n]
         /\ \A x \in P : \E n \in 1 .. Cardinality(P) : Ascending(P)[n] = x
<1>1. IsFiniteSet(P) /\ Cardinality(P) \in Nat /\ \A x \in P : x \in Nat
  BY FinitePage, Zenon
<1>2. \E q : Enumerates(q, P)
  BY <1>1, AscendingExists
<1> DEFINE q == Ascending(P)
           N == Cardinality(P)
<1>3. q \in [1 .. N -> P] /\ \A m, n \in 1 .. N : m < n => q[m] < q[n]
  BY <1>2, Zenon DEF Ascending, Enumerates
<1> HIDE DEF q
<1>4. ASSUME NEW m \in 1 .. N, NEW n \in 1 .. N, q[m] = q[n] PROVE m = n
  <2>1. q[m] \in Nat /\ q[n] \in Nat
    BY <1>1, <1>3, Zenon
  <2> QED
    BY <1>1, <1>3, <1>4, <2>1
<1>5. q \in Injection(1 .. N, P)
  BY <1>3, <1>4 DEF Injection, IsInjective
<1>6. Cardinality(1 .. N) = N
  BY <1>1, FS_Interval
<1>7. q \in Surjection(1 .. N, P)
  BY <1>1, <1>5, <1>6, FS_Injection
<1>8. \A x \in P : \E n \in 1 .. N : q[n] = x
  BY <1>7 DEF Surjection
<1> QED
  BY <1>1, <1>3, <1>8 DEF q

\* A page of the oldest ids: all of them, or n, and then none that it leaves out
\* is below its last.
LEMMA OldestFacts ==
  ASSUME NEW b \in Nat, NEW S \in SUBSET (0 .. b), NEW n \in Nat \ {0}
  PROVE  /\ Oldest(S, n) \in SUBSET S
         /\ \A i \in S, j \in Oldest(S, n) : i <= j => i \in Oldest(S, n)
         /\ Cardinality(Oldest(S, n)) # n => Oldest(S, n) = S
<1> DEFINE O == Oldest(S, n)
           Under(i) == {j \in S : j < i}
<1>00. S \in SUBSET Nat /\ (\A x \in S : x <= b) /\ IsFiniteSet(S)
  BY FinitePage, Zenon
<1>0. /\ \A T \in SUBSET S : IsFiniteSet(T) /\ Cardinality(T) \in Nat
      /\ \A T \in SUBSET S : \A U \in SUBSET T : Cardinality(U) <= Cardinality(T)
  <2>2. \A T \in SUBSET S : IsFiniteSet(T)
    BY <1>00, FS_Subset, Zenon
  <2> QED
    BY <2>2, FS_CardinalityType, FS_Subset, Zenon
<1>1. O = {i \in S : Cardinality(Under(i)) < n}
  BY DEF Oldest
<1> HIDE DEF O
<1>2. ASSUME NEW i \in S, NEW j \in O, i <= j PROVE i \in O
  <2>1. Under(i) \in SUBSET Under(j) /\ Under(j) \in SUBSET S /\ Under(i) \in SUBSET S
    <3>1. i \in Nat /\ j \in Nat /\ \A x \in S : x < i => x < j
      BY <1>00, <1>1, <1>2
    <3> QED
      BY <3>1, Zenon
  <2>2. Cardinality(Under(i)) <= Cardinality(Under(j)) /\ Cardinality(Under(j)) < n
    BY <1>0, <1>1, <2>1
  <2>3. Cardinality(Under(i)) \in Nat /\ Cardinality(Under(j)) \in Nat
    BY <1>0, <2>1
  <2>4. Cardinality(Under(i)) < n
    BY <2>2, <2>3
  <2> QED
    BY <1>1, <2>4
<1>3. ASSUME O # S PROVE Cardinality(O) = n
  <2>1. S \ O \in SUBSET Nat /\ S \ O # {} /\ O \in SUBSET S
    BY <1>00, <1>1, <1>3, Zenon
  <2>2. PICK x \in S \ O : \A y \in S \ O : x <= y
    BY <2>1, Smallest, Zenon
  <2>3. Under(x) \in SUBSET O
    <3>1. \A y \in S : y < x => ~(x <= y)
      BY <1>00, <2>2
    <3> QED
      BY <2>2, <3>1, Zenon
  <2>4. ~(Cardinality(Under(x)) < n) /\ Under(x) \in SUBSET S
    BY <1>1, <2>2
  <2>5. Cardinality(O) >= n
    BY <1>0, <2>1, <2>3, <2>4
  <2>6. O # {} /\ IsFiniteSet(O) /\ Cardinality(O) \in Nat
    BY <1>0, <2>1, <2>5, FS_EmptySet
  <2> DEFINE m == Max(O)
  <2>7. m \in O /\ \A y \in O : y <= m
    <3>1. O \in SUBSET Nat /\ \A y \in O : y <= b
      BY <1>00, <2>1, Zenon
    <3> QED
      BY <2>6, <3>1, MaxFacts, Zenon
  <2> HIDE DEF m
  <2>8. O \ {m} \in SUBSET Under(m) /\ Under(m) \in SUBSET S
    BY <2>1, <2>7
  <2>9. Cardinality(Under(m)) < n /\ Cardinality(Under(m)) \in Nat
    BY <1>0, <1>1, <2>7, <2>8
  <2>10. Cardinality(O \ {m}) = Cardinality(O) - 1
    BY <2>6, <2>7, FS_RemoveElement, Zenon
  <2>11. Cardinality(O \ {m}) <= Cardinality(Under(m))
    BY <1>0, <2>8
  <2> QED
    BY <2>5, <2>6, <2>9, <2>10, <2>11
<1> QED
  BY <1>1, <1>2, <1>3 DEF O

-----------------------------------------------------------------------------
(* The tables and the export. *)

\* Ids are given in order, and neither a cursor nor a scheduled mark is ahead
\* of the last one.
Tables ==
    /\ lastId \in Nat
    /\ DOMAIN rows \subseteq 1 .. lastId
    /\ cursor \in [Contacts -> 0 .. lastId]

\* What the steps on the tables do: rows appear above lastId, and those that
\* stay do not change.
TablesGrow ==
    /\ lastId' \in Nat /\ lastId <= lastId'
    /\ \A i \in DOMAIN rows' : i <= lastId => i \in DOMAIN rows /\ rows'[i] = rows[i]

\* An export under way has what was there at its start up to the row it has
\* reached, and reads on above it.
ExportInv ==
    /\ export = [pc |-> export.pc, contact |-> export.contact, after |-> export.after,
                 out |-> export.out, base |-> export.base]
    /\ export.out \in Seq(Nat)
    /\ export.base \subseteq 1 .. lastId
    /\ export.pc = "page" =>
          /\ export.after \in Nat
          /\ \A n \in DOMAIN export.out : export.out[n] <= export.after
          /\ \A i \in export.base \cap DOMAIN rows :
                /\ rows[i] = export.contact
                /\ i <= export.after => i \in Range(export.out)
    /\ ExportWhole

LEMMA ExportFrame ==
    ASSUME Tables, ExportInv, TablesGrow, export' = export
    PROVE  ExportInv'
<1>1. \A i \in export.base \cap DOMAIN rows' : i \in DOMAIN rows /\ rows'[i] = rows[i]
      BY DEF Tables, ExportInv, TablesGrow
<1>2. export.base \subseteq 1 .. lastId'
      BY DEF Tables, ExportInv, TablesGrow
<1>3. \A i \in export'.base \cap DOMAIN rows' : i \in export.base \cap DOMAIN rows
      BY <1>1
<1> QED BY <1>1, <1>2, <1>3 DEF ExportInv, ExportWhole

\* A page above what has been written continues it in order.
Ordered(q) == \A i, j \in DOMAIN q : i < j => q[i] < q[j]
UpTo(q, after) == \A i \in DOMAIN q : q[i] <= after

LEMMA Between == \A x, y, z \in Nat : x <= y /\ z > y => x < z
OBVIOUS

LEMMA Concatenated ==
    ASSUME NEW s \in Seq(Nat), NEW N \in Nat, NEW q \in [1 .. N -> Nat]
    PROVE  /\ Len(s) \in Nat /\ s \o q \in Seq(Nat)
           /\ DOMAIN (s \o q) = 1 .. (Len(s) + N)
           /\ s \o q \in [1 .. (Len(s) + N) -> Nat]
           /\ \A i \in 1 .. Len(s) : i \in 1 .. (Len(s) + N) /\ (s \o q)[i] = s[i]
           /\ \A i \in 1 .. N : Len(s) + i \in 1 .. (Len(s) + N) /\ (s \o q)[Len(s) + i] = q[i]
           /\ \A i \in 1 .. (Len(s) + N) : i \in 1 .. Len(s) \/ \E j \in 1 .. N : i = Len(s) + j
<1>1. q \in Seq(Nat) /\ Len(q) = N
      OBVIOUS
<1>2. /\ s \o q \in Seq(Nat) /\ Len(s \o q) = Len(s) + Len(q)
      /\ \A i \in 1 .. Len(s) + Len(q) : (s \o q)[i] = IF i <= Len(s) THEN s[i] ELSE q[i - Len(s)]
      BY <1>1, ConcatProperties, Zenon
<1> DEFINE o == s \o q
           L == Len(s)
<1>3. L \in Nat
      OBVIOUS
<1> HIDE DEF o, L
<1>4. /\ o \in Seq(Nat) /\ Len(o) = L + N
      /\ \A i \in 1 .. (L + N) : o[i] = IF i <= L THEN s[i] ELSE q[i - L]
      BY <1>1, <1>2 DEF o, L
<1>5. DOMAIN o = 1 .. (L + N) /\ o \in [1 .. (L + N) -> Nat]
      BY <1>3, <1>4
<1>6. \A i \in 1 .. L : i \in 1 .. (L + N) /\ o[i] = s[i]
      BY <1>3, <1>4
<1>7. \A i \in 1 .. N : L + i \in 1 .. (L + N) /\ o[L + i] = q[i]
  <2>1. \A i \in 1 .. N : L + i \in 1 .. (L + N) /\ ~(L + i <= L) /\ (L + i) - L = i
        BY <1>3
  <2> QED BY <1>4, <2>1, Zenon
<1>8. \A i \in 1 .. (L + N) : i \in 1 .. L \/ \E j \in 1 .. N : i = L + j
  <2>1. \A i \in 1 .. (L + N) : i \notin 1 .. L => i - L \in 1 .. N /\ i = L + (i - L)
        BY <1>3
  <2> QED BY <2>1
<1> QED BY <1>3, <1>4, <1>5, <1>6, <1>7, <1>8 DEF o, L

LEMMA Continues ==
    ASSUME NEW b \in Nat, NEW P \in SUBSET (0 .. b), NEW out \in Seq(Nat), NEW after \in Nat,
           Ordered(out), UpTo(out, after), \A x \in P : x > after
    PROVE  LET o == out \o Ascending(P)
           IN /\ o \in Seq(Nat) /\ Ordered(o)
              /\ \A i \in DOMAIN o : (\E j \in DOMAIN out : o[i] = out[j]) \/ o[i] \in P
              /\ Range(out) \cup P \subseteq Range(o)
<1> DEFINE q == Ascending(P)
           N == Cardinality(P)
           L == Len(out)
           o == out \o q
<1>1. /\ N \in Nat /\ q \in [1 .. N -> P]
      /\ \A m, n \in 1 .. N : m < n => q[m] < q[n]
      /\ \A x \in P : \E n \in 1 .. N : q[n] = x
      BY AscendingFacts, Zenon
<1>2. P \subseteq Nat
      BY FinitePage, Zenon
<1> HIDE DEF q, N
<1>3. q \in [1 .. N -> Nat]
      BY <1>1, <1>2, Zenon
<1>4. DOMAIN out = 1 .. L
      OBVIOUS
<1>5. /\ L \in Nat /\ o \in Seq(Nat)
      /\ DOMAIN o = 1 .. (L + N)
      /\ o \in [1 .. (L + N) -> Nat]
      /\ \A i \in 1 .. L : i \in 1 .. (L + N) /\ o[i] = out[i]
      /\ \A i \in 1 .. N : L + i \in 1 .. (L + N) /\ o[L + i] = q[i]
      /\ \A i \in 1 .. (L + N) : i \in 1 .. L \/ \E j \in 1 .. N : i = L + j
      BY <1>1, <1>3, Concatenated, Zenon
<1> HIDE DEF o, L
<1>6. ASSUME NEW i \in 1 .. (L + N), NEW j \in 1 .. (L + N), i < j
      PROVE  o[i] < o[j]
  <2>1. CASE i \in 1 .. L /\ j \in 1 .. L
        BY <2>1, <1>4, <1>5, <1>6, Zenon DEF Ordered
  <2>2. ASSUME i \in 1 .. L, NEW n \in 1 .. N, j = L + n
        PROVE  o[i] < o[j]
    <3>1. o[i] = out[i] /\ out[i] <= after /\ o[j] = q[n] /\ q[n] > after
          BY <2>2, <1>1, <1>4, <1>5, Zenon DEF UpTo
    <3>2. o[i] \in Nat /\ o[j] \in Nat
          BY <1>5, Zenon
    <3> QED BY <3>1, <3>2, Between, Zenon
  <2>3. ASSUME NEW m \in 1 .. N, i = L + m, NEW n \in 1 .. N, j = L + n
        PROVE  o[i] < o[j]
    <3>1. m < n
          BY <2>3, <1>1, <1>5, <1>6
    <3> QED BY <3>1, <2>3, <1>1, <1>5, Zenon
  <2>4. ~((\E m \in 1 .. N : i = L + m) /\ j \in 1 .. L)
        BY <1>1, <1>5, <1>6
  <2> QED BY <2>1, <2>2, <2>3, <2>4, <1>5, Zenon
<1>7. Ordered(o)
      BY <1>5, <1>6, Zenon DEF Ordered
<1>8. \A i \in DOMAIN o : (\E j \in DOMAIN out : o[i] = out[j]) \/ o[i] \in P
  <2> SUFFICES ASSUME NEW i \in 1 .. (L + N)
               PROVE  (\E j \in DOMAIN out : o[i] = out[j]) \/ o[i] \in P
      BY <1>5, Zenon
  <2>1. CASE i \in 1 .. L
        BY <2>1, <1>4, <1>5, Zenon
  <2>2. ASSUME NEW j \in 1 .. N, i = L + j PROVE o[i] \in P
        BY <2>2, <1>1, <1>5, Zenon
  <2> QED BY <2>1, <2>2, <1>5, Zenon
<1>9. Range(out) \subseteq Range(o)
      BY <1>4, <1>5, Zenon DEF Range
<1>10. P \subseteq Range(o)
      BY <1>1, <1>5, Zenon DEF Range
<1> QED BY <1>5, <1>7, <1>8, <1>9, <1>10, Zenon DEF o, q

LEMMA ExportTurnKeeps ==
    ASSUME Tables, ExportInv, ExportTurn
    PROVE  ExportInv'
<1> DEFINE c == export.contact
           S == {i \in RowsOf(c) : i > export.after}
           P == ExportPage(c, export.after)
           o == export.out \o Ascending(P)
           next == NextAfter(P)
<1>1. /\ export.pc = "page" /\ export.after \in Nat /\ lastId \in Nat
      /\ rows' = rows /\ lastId' = lastId
      BY DEF ExportTurn, ExportInv, Tables
<1>2. export' = [pc |-> IF next = 0 THEN "done" ELSE "page", contact |-> c, after |-> next,
                 out |-> o, base |-> export.base]
  <2> DEFINE e == export
  <2>1. e = [pc |-> e.pc, contact |-> e.contact, after |-> e.after, out |-> e.out, base |-> e.base]
        BY DEF ExportInv
  <2>2. export' = [e EXCEPT !.out = o, !.after = next, !.pc = IF next = 0 THEN "done" ELSE "page"]
        BY DEF ExportTurn
  <2> HIDE DEF o, next
  <2> QED BY <2>1, <2>2, Zenon
<1>3. S \in SUBSET (0 .. lastId) /\ \A i \in S : i > export.after /\ i \in 1 .. lastId
      BY <1>1 DEF Tables, RowsOf
<1>4. /\ P \in SUBSET S
      /\ \A i \in S, j \in P : i <= j => i \in P
      /\ Cardinality(P) # PageSize => P = S
  <2>1. P = Oldest(S, PageSize)
        BY DEF ExportPage
  <2> HIDE DEF S, P
  <2> QED BY <2>1, <1>1, <1>3, OldestFacts, PageAssumption, Zenon
<1> HIDE DEF S, P
<1>5. P \in SUBSET (0 .. lastId) /\ \A x \in P : x > export.after /\ x \in 1 .. lastId
      BY <1>3, <1>4
<1>6. /\ export.out \in Seq(Nat)
      /\ Ordered(export.out) /\ UpTo(export.out, export.after)
      BY <1>1 DEF ExportInv, ExportWhole, Ordered, UpTo
<1>7. /\ o \in Seq(Nat) /\ Ordered(o)
      /\ \A i \in DOMAIN o : (\E j \in DOMAIN export.out : o[i] = export.out[j]) \/ o[i] \in P
      /\ Range(export.out) \cup P \subseteq Range(o)
      BY <1>1, <1>5, <1>6, Continues, Zenon
<1> HIDE DEF o
<1>8. \A i \in export.base \cap DOMAIN rows : i \in Nat /\ rows[i] = c /\ (i \in Range(o) \/ i \in S)
  <2> SUFFICES ASSUME NEW i \in export.base \cap DOMAIN rows
               PROVE  i \in Nat /\ rows[i] = c /\ (i \in Range(o) \/ i \in S)
      OBVIOUS
  <2>1. rows[i] = c /\ (i <= export.after => i \in Range(export.out)) /\ i \in Nat
        BY <1>1 DEF ExportInv, Tables
  <2>2. CASE i <= export.after
        BY <2>1, <2>2, <1>7
  <2>3. CASE ~(i <= export.after)
        BY <1>1, <2>1, <2>3 DEF S, RowsOf
  <2> QED BY <2>1, <2>2, <2>3
<1>9. CASE Cardinality(P) = PageSize
  <2>1. P # {}
        BY <1>9, FS_EmptySet, PageAssumption
  <2>2. Max(P) \in P /\ \A y \in P : y <= Max(P)
    <3>1. P \in SUBSET Nat /\ \A x \in P : x <= lastId
          BY <1>5
    <3> QED BY <1>1, <2>1, <3>1, MaxFacts, Zenon
  <2>3. next = Max(P) /\ next \in P /\ next \in Nat /\ next # 0 /\ next > export.after
    <3>1. next = Max(P)
          BY <1>9 DEF NextAfter
    <3> HIDE DEF next
    <3>2. next \in P
          BY <2>2, <3>1, Zenon
    <3>3. next \in 1 .. lastId /\ next > export.after
          BY <1>5, <3>2, Zenon
    <3> QED BY <3>1, <3>2, <3>3, <1>1
  <2> HIDE DEF next
  <2>4. \A i \in DOMAIN o : o[i] <= next
    <3> SUFFICES ASSUME NEW i \in DOMAIN o PROVE o[i] <= next
        OBVIOUS
    <3>1. CASE o[i] \in P
          BY <3>1, <2>2, <2>3, Zenon
    <3>2. ASSUME NEW j \in DOMAIN export.out, o[i] = export.out[j] PROVE o[i] <= next
      <4>1. export.out[j] \in Nat /\ export.out[j] <= export.after
            BY <1>6 DEF UpTo
      <4> QED BY <4>1, <3>2, <2>3, <1>1
    <3> QED BY <3>1, <3>2, <1>7
  <2>5. \A i \in export.base \cap DOMAIN rows : rows[i] = c /\ (i <= next => i \in Range(o))
        BY <1>4, <1>7, <1>8, <2>3
  <2>6. /\ export'.pc = "page" /\ export'.contact = c /\ export'.after = next /\ export'.out = o
        /\ export'.base = export.base
        BY <1>2, <2>3
  <2> QED BY <1>1, <1>2, <1>7, <2>3, <2>4, <2>5, <2>6 DEF ExportInv, ExportWhole, Ordered
<1>10. CASE Cardinality(P) # PageSize
  <2>1. next = 0
        BY <1>10 DEF NextAfter
  <2>2. export.base \cap DOMAIN rows \subseteq Range(o)
        BY <1>4, <1>7, <1>8, <1>10
  <2> HIDE DEF next
  <2>3. export'.pc = "done" /\ export'.out = o /\ export'.base = export.base
        BY <1>2, <2>1
  <2> QED BY <1>1, <1>2, <1>7, <2>2, <2>3 DEF ExportInv, ExportWhole, Ordered
<1> QED BY <1>9, <1>10

LEMMA ExportBeginKeeps ==
    ASSUME Tables, NEW c, ExportBegin(c)
    PROVE  ExportInv'
<1>1. /\ export'.pc = "page" /\ export'.contact = c /\ export'.after = 0 /\ export'.out = <<>>
      /\ export'.base = RowsOf(c) /\ rows' = rows /\ lastId' = lastId
      /\ export' = [pc |-> "page", contact |-> c, after |-> 0, out |-> <<>>, base |-> RowsOf(c)]
      BY DEF ExportBegin
<1>2. RowsOf(c) \subseteq 1 .. lastId /\ \A i \in RowsOf(c) : rows[i] = c /\ ~(i <= 0)
      BY DEF Tables, RowsOf
<1> QED BY <1>1, <1>2 DEF ExportInv, ExportWhole

LEMMA NoExportHolds ==
    ASSUME lastId' \in Nat, export' = NoExport
    PROVE  ExportInv'
BY DEF ExportInv, ExportWhole, NoExport

-----------------------------------------------------------------------------
(* The screen. *)

\* The rows of a contact up to an id, and what its conversation may show.
Stored(c, l) == {Row(i, c) : i \in 1 .. l}
Entries(c, l) == Stored(c, l) \cup {Bubble(t, c) : t \in Temps}

\* A request, and its answer if it has one, are about its own contact.
RequestOK(k, l) ==
    /\ k = [kind |-> k.kind, contact |-> k.contact, tag |-> k.tag, arg |-> k.arg,
            st |-> k.st, page |-> k.page, next |-> k.next, temp |-> k.temp]
    /\ k.contact \in Contacts /\ k.st \in {"asked", "ok", "err"}
    /\ k.page \in Seq(Stored(k.contact, l))
    /\ k.kind = "mark" => k.arg \in 0 .. l
    /\ k.kind = "open" => k.tag \in Nat
    /\ IsSend(k) => k.temp \in Temps /\ (k.st = "ok" => k.page # <<>>)
    /\ ~IsSend(k) => k.temp = NoWorker

ViewOK(v, l) ==
    /\ v = [contact |-> v.contact, messages |-> v.messages, nextBefore |-> v.nextBefore,
            loading |-> v.loading, readCursor |-> v.readCursor, load |-> v.load]
    /\ v.contact \in Contacts \cup {NoContact}
    /\ v.messages \in Seq(Entries(v.contact, l))

Screen ==
    /\ bus \in Seq(UNION {Stored(c, lastId) : c \in Contacts})
    /\ pending.row \in 0 .. lastId
    /\ ViewOK(view, lastId)
    /\ \A k \in calls : RequestOK(k, lastId)

\* Each load has a token of its own, and the newest is for the last choice.
Loads ==
    /\ token \in Nat
    /\ \A k \in calls : k.kind = "open" =>
          k.tag \in Nat /\ k.tag <= token /\ (k.tag = token => k.contact = choice)
    /\ \A j, k \in calls : j.kind = "open" /\ k.kind = "open" /\ j.tag = k.tag => j = k
    /\ LastChoiceWins

\* Each send has one request while it waits, and a placeholder on the screen
\* is settled or waits for a request to the open contact.
Waits(t, K, c) == \E k \in K : IsSend(k) /\ k.temp = t /\ k.contact = c
Fates == {"new", "asked", "left", "failed", "send", "file"}
Placeholders ==
    /\ bubble \in [Temps -> Fates]
    /\ \A k \in calls : IsSend(k) => bubble[k.temp] = "asked"
    /\ \A j, k \in calls : IsSend(j) /\ IsSend(k) /\ j.temp = k.temp => j = k
    /\ \A n \in DOMAIN view.messages : \A t \in Temps :
          view.messages[n].temp = t =>
             bubble[t] \in {"failed", "file"} \/ Waits(t, calls, view.contact)

-----------------------------------------------------------------------------
(* Requests and entries. *)

LEMMA WiderSeq ==
    ASSUME NEW S, NEW T, S \subseteq T, NEW s \in Seq(S)
    PROVE  s \in Seq(T)
<1>1. Len(s) \in Nat /\ s \in [1 .. Len(s) -> S]
      OBVIOUS
<1>2. s \in [1 .. Len(s) -> T]
      BY <1>1
<1> QED BY <1>1, <1>2

LEMMA StoredGrows ==
    ASSUME NEW l \in Nat, NEW m \in Nat, l <= m, NEW c
    PROVE  Stored(c, l) \subseteq Stored(c, m) /\ Entries(c, l) \subseteq Entries(c, m)
<1>1. 1 .. l \subseteq 1 .. m
      OBVIOUS
<1> QED BY <1>1, Zenon DEF Stored, Entries

LEMMA EntryFacts ==
    ASSUME NEW l \in Nat, NEW c, NEW e \in Entries(c, l)
    PROVE  /\ e.of = c /\ e.row \in 0 .. l
           /\ e.temp \in Temps \cup {NoWorker}
           /\ e \in Stored(c, l) => e.temp = NoWorker
BY DEF Entries, Stored, Row, Bubble

LEMMA RequestGrows ==
    ASSUME NEW l \in Nat, NEW m \in Nat, l <= m, NEW k, RequestOK(k, l)
    PROVE  RequestOK(k, m)
<1>1. k.page \in Seq(Stored(k.contact, m))
      BY StoredGrows, WiderSeq, Zenon DEF RequestOK
<1>2. k.kind = "mark" => k.arg \in 0 .. m
      BY DEF RequestOK
<1> QED BY <1>1, <1>2, Zenon DEF RequestOK

LEMMA ViewGrows ==
    ASSUME NEW l \in Nat, NEW m \in Nat, l <= m, NEW v, ViewOK(v, l)
    PROVE  ViewOK(v, m)
<1>1. v.messages \in Seq(Entries(v.contact, m))
      BY StoredGrows, WiderSeq, Zenon DEF ViewOK
<1> QED BY <1>1, Zenon DEF ViewOK

\* What an answer changes in a request, and what it does not.
AnswerTo(k, st, page, next) == [k EXCEPT !.st = st, !.page = page, !.next = next]

LEMMA Answered ==
    ASSUME NEW l \in Nat, NEW k, RequestOK(k, l), NEW st \in {"ok", "err"}, NEW next,
           NEW page \in Seq(Stored(k.contact, l)), IsSend(k) /\ st = "ok" => page # <<>>,
           NEW a, a = AnswerTo(k, st, page, next)
    PROVE  /\ RequestOK(a, l)
           /\ a.kind = k.kind /\ a.contact = k.contact /\ a.tag = k.tag /\ a.temp = k.temp
           /\ (IsSend(a) <=> IsSend(k))
<1>1. a = [kind |-> k.kind, contact |-> k.contact, tag |-> k.tag, arg |-> k.arg,
           st |-> st, page |-> page, next |-> next, temp |-> k.temp]
      BY Zenon DEF RequestOK, AnswerTo
<1>2. /\ a.kind = k.kind /\ a.contact = k.contact /\ a.tag = k.tag /\ a.arg = k.arg
      /\ a.st = st /\ a.page = page /\ a.next = next /\ a.temp = k.temp
      BY <1>1
<1>3. (IsSend(a) <=> IsSend(k)) /\ a.st \in {"asked", "ok", "err"}
      BY <1>2 DEF IsSend
<1>4. a = [kind |-> a.kind, contact |-> a.contact, tag |-> a.tag, arg |-> a.arg,
           st |-> a.st, page |-> a.page, next |-> a.next, temp |-> a.temp]
      BY <1>1, <1>2, Zenon
<1>5. RequestOK(a, l)
      BY <1>2, <1>3, <1>4, Zenon DEF RequestOK
<1> QED BY <1>2, <1>3, <1>5, Zenon

LEMMA NewRequest ==
    ASSUME NEW l \in Nat, NEW kind \in {"open", "older", "mark"}, NEW c \in Contacts,
           NEW tag, NEW arg,
           kind = "mark" => arg \in 0 .. l, kind = "open" => tag \in Nat,
           NEW k, k = Call(kind, c, tag, arg)
    PROVE  /\ RequestOK(k, l)
           /\ k.kind = kind /\ k.contact = c /\ k.tag = tag /\ ~IsSend(k)
<1>1. k = [kind |-> kind, contact |-> c, tag |-> tag, arg |-> arg,
           st |-> "asked", page |-> <<>>, next |-> 0, temp |-> NoWorker]
      BY DEF Call
<1>2. <<>> \in Seq(Stored(c, l))
      OBVIOUS
<1>3. /\ k.kind = kind /\ k.contact = c /\ k.tag = tag /\ k.arg = arg /\ k.st = "asked"
      /\ k.page = <<>> /\ k.next = 0 /\ k.temp = NoWorker
      BY <1>1
<1>4. ~IsSend(k) /\ k.st \in {"asked", "ok", "err"}
      BY <1>3 DEF IsSend
<1> QED BY <1>1, <1>2, <1>3, <1>4, Zenon DEF RequestOK

SendCall(kind, c, t) == [Call(kind, c, 0, 0) EXCEPT !.temp = t]

LEMMA NewSend ==
    ASSUME NEW l \in Nat, NEW kind \in {"send", "file"}, NEW c \in Contacts, NEW t \in Temps,
           NEW k, k = SendCall(kind, c, t)
    PROVE  /\ RequestOK(k, l)
           /\ k.kind = kind /\ k.contact = c /\ k.temp = t /\ IsSend(k)
<1>1. k = [kind |-> kind, contact |-> c, tag |-> 0, arg |-> 0,
           st |-> "asked", page |-> <<>>, next |-> 0, temp |-> t]
      BY DEF SendCall, Call
<1>2. <<>> \in Seq(Stored(c, l))
      OBVIOUS
<1>3. /\ k.kind = kind /\ k.contact = c /\ k.tag = 0 /\ k.arg = 0 /\ k.st = "asked"
      /\ k.page = <<>> /\ k.next = 0 /\ k.temp = t
      BY <1>1
<1>4. /\ IsSend(k) /\ k.kind # "mark" /\ k.kind # "open" /\ k.st # "ok"
      /\ k.st \in {"asked", "ok", "err"}
      BY <1>3 DEF IsSend
<1> QED BY <1>1, <1>2, <1>3, <1>4, Zenon DEF RequestOK

-----------------------------------------------------------------------------
(* The daemon's steps. *)

BusRows(l) == UNION {Stored(c, l) : c \in Contacts}

LEMMA ScreenGrows ==
    ASSUME Tables, Screen, NEW l \in Nat, lastId <= l
    PROVE  /\ bus \in Seq(BusRows(l)) /\ pending.row \in 0 .. l
           /\ ViewOK(view, l) /\ \A k \in calls : RequestOK(k, l)
<1>0. lastId \in Nat
      BY DEF Tables
<1>1. BusRows(lastId) \subseteq BusRows(l)
  <2> SUFFICES ASSUME NEW c \in Contacts, NEW e \in Stored(c, lastId)
               PROVE  e \in BusRows(l)
      BY DEF BusRows
  <2>1. e \in Stored(c, l)
        BY <1>0, StoredGrows, Zenon
  <2> QED BY <2>1, Zenon DEF BusRows
<1>2. bus \in Seq(BusRows(l))
  <2>1. bus \in Seq(BusRows(lastId))
        BY Zenon DEF Screen, BusRows
  <2> QED BY <1>1, <2>1, WiderSeq, Zenon
<1>3. pending.row \in 0 .. l
      BY <1>0 DEF Screen
<1>4. ViewOK(view, l) /\ \A k \in calls : RequestOK(k, l)
      BY <1>0, ViewGrows, RequestGrows, Zenon DEF Screen
<1> QED BY <1>2, <1>3, <1>4

LEMMA UiFrame ==
    ASSUME Loads, Placeholders, UNCHANGED <<uiVars, calls>>
    PROVE  Loads' /\ Placeholders'
BY DEF Loads, Placeholders, LastChoiceWins, uiVars, Waits, IsSend

LEMMA AnswerKeeps ==
    ASSUME Tables, Screen, Loads, Placeholders,
           NEW k \in calls, NEW st \in {"ok", "err"}, NEW page, NEW next, Answer(k, st, page, next),
           UNCHANGED uiVars, bus' = bus, lastId' \in Nat, lastId <= lastId',
           page \in Seq(Stored(k.contact, lastId')), IsSend(k) /\ st = "ok" => page # <<>>
    PROVE  Screen' /\ Loads' /\ Placeholders'
<1>0. /\ view' = view /\ token' = token /\ pending' = pending /\ bubble' = bubble
      /\ choice' = choice
      BY DEF uiVars
<1>1. /\ bus \in Seq(BusRows(lastId')) /\ pending.row \in 0 .. lastId'
      /\ ViewOK(view, lastId') /\ \A j \in calls : RequestOK(j, lastId')
      BY ScreenGrows, Zenon
<1>2. PICK a : a = AnswerTo(k, st, page, next)
      OBVIOUS
<1>3. calls' = (calls \ {k}) \cup {a}
      BY <1>2 DEF Answer, AnswerTo
<1>4. /\ RequestOK(a, lastId')
      /\ a.kind = k.kind /\ a.contact = k.contact /\ a.tag = k.tag /\ a.temp = k.temp
      /\ (IsSend(a) <=> IsSend(k))
  <2>1. PICK l \in Nat : l = lastId'
        OBVIOUS
  <2>2. RequestOK(k, l) /\ page \in Seq(Stored(k.contact, l))
        BY <1>1, <2>1, Zenon
  <2>3. /\ RequestOK(a, l)
        /\ a.kind = k.kind /\ a.contact = k.contact /\ a.tag = k.tag /\ a.temp = k.temp
        /\ (IsSend(a) <=> IsSend(k))
        BY <1>2, <2>2, Answered
  <2> QED BY <2>1, <2>3, Zenon
<1>5. Screen'
      BY <1>0, <1>1, <1>3, <1>4, Zenon DEF Screen, BusRows
<1>6. ASSUME NEW j \in calls'
      PROVE  \E i \in calls :
         /\ i.kind = j.kind /\ i.contact = j.contact /\ i.tag = j.tag /\ i.temp = j.temp
         /\ (IsSend(i) <=> IsSend(j)) /\ (j = a => i = k) /\ (j # a => i = j /\ i # k)
  <2>1. CASE j = a
        BY <1>4, <2>1, Zenon
  <2>2. CASE j # a
        BY <1>3, <2>2, Zenon
  <2> QED BY <2>1, <2>2
<1>7. \A i \in calls : \E j \in calls' :
         /\ i.kind = j.kind /\ i.contact = j.contact /\ i.tag = j.tag /\ i.temp = j.temp
         /\ (IsSend(i) <=> IsSend(j))
      BY <1>3, <1>4, Zenon
<1>8. ASSUME NEW i \in calls', NEW j \in calls'
      PROVE  /\ i.kind = "open" /\ j.kind = "open" /\ i.tag = j.tag => i = j
             /\ IsSend(i) /\ IsSend(j) /\ i.temp = j.temp => i = j
  <2>1. PICK x \in calls :
         /\ x.kind = i.kind /\ x.contact = i.contact /\ x.tag = i.tag /\ x.temp = i.temp
         /\ (IsSend(x) <=> IsSend(i)) /\ (i = a => x = k) /\ (i # a => x = i /\ x # k)
        BY <1>6, Zenon
  <2>2. PICK y \in calls :
         /\ y.kind = j.kind /\ y.contact = j.contact /\ y.tag = j.tag /\ y.temp = j.temp
         /\ (IsSend(y) <=> IsSend(j)) /\ (j = a => y = k) /\ (j # a => y = j /\ y # k)
        BY <1>6, Zenon
  <2>3. x = y => i = j
        BY <2>1, <2>2, Zenon
  <2>4. x.kind = "open" /\ y.kind = "open" /\ x.tag = y.tag => x = y
        BY Zenon DEF Loads
  <2>5. IsSend(x) /\ IsSend(y) /\ x.temp = y.temp => x = y
        BY Zenon DEF Placeholders
  <2> QED BY <2>1, <2>2, <2>3, <2>4, <2>5
<1>10. Loads'
  <2>1. ASSUME NEW j \in calls', j.kind = "open"
        PROVE  j.tag \in Nat /\ j.tag <= token /\ (j.tag = token => j.contact = choice)
    <3>1. PICK i \in calls : i.kind = j.kind /\ i.contact = j.contact /\ i.tag = j.tag
          BY <1>6, Zenon
    <3>2. i.kind = "open" => i.tag \in Nat /\ i.tag <= token /\ (i.tag = token => i.contact = choice)
          BY Zenon DEF Loads
    <3> QED BY <2>1, <3>1, <3>2
  <2>2. LastChoiceWins'
    <3> SUFFICES ASSUME \A j \in calls' : j.kind = "open" => j.tag # token
                 PROVE  view.contact = choice
        BY <1>0, Zenon DEF LastChoiceWins
    <3>1. \A i \in calls : i.kind = "open" => i.tag # token
          BY <1>7, Zenon
    <3> QED BY <3>1, Zenon DEF Loads, LastChoiceWins
  <2> QED BY <1>0, <1>8, <2>1, <2>2, Zenon DEF Loads
<1>11. Placeholders'
  <2>1. ASSUME NEW j \in calls', IsSend(j) PROVE bubble[j.temp] = "asked"
    <3>1. PICK i \in calls : IsSend(i) /\ i.temp = j.temp
          BY <1>6, <2>1, Zenon
    <3>2. bubble[i.temp] = "asked"
          BY <3>1, Zenon DEF Placeholders
    <3> QED BY <3>1, <3>2
  <2>2. ASSUME NEW t \in Temps, Waits(t, calls, view.contact) PROVE Waits(t, calls', view.contact)
    <3>1. PICK i \in calls : IsSend(i) /\ i.temp = t /\ i.contact = view.contact
          BY <2>2 DEF Waits
    <3>2. CASE i = k
          BY <1>3, <1>4, <3>1, <3>2, Zenon DEF Waits
    <3>3. CASE i # k
          BY <1>3, <3>1, <3>3, Zenon DEF Waits
    <3> QED BY <3>2, <3>3
  <2> QED BY <1>0, <1>8, <2>1, <2>2, Zenon DEF Placeholders
<1> QED BY <1>5, <1>10, <1>11

LEMMA RecordsOfContact ==
    ASSUME Tables, NEW c, NEW before
    PROVE  Records(Recent(c, before)) \in Seq(Stored(c, lastId))
<1> DEFINE P == Recent(c, before)
           N == Cardinality(P)
           q == Ascending(P)
<1>0. lastId \in Nat
      BY DEF Tables
<1>1. P \in SUBSET RowsOf(c)
      BY DEF Recent, Newest
<1>2. RowsOf(c) \subseteq 1 .. lastId /\ \A i \in RowsOf(c) : rows[i] = c
      BY DEF Tables, RowsOf
<1>3. P \in SUBSET (0 .. lastId)
      BY <1>0, <1>1, <1>2
<1> HIDE DEF P
<1>4. N \in Nat /\ q \in [1 .. N -> P]
      BY <1>0, <1>3, AscendingFacts, Zenon
<1> HIDE DEF N, q
<1>5. \A n \in 1 .. N : Row(q[n], rows[q[n]]) \in Stored(c, lastId)
      BY <1>1, <1>2, <1>4, Zenon DEF Stored
<1>6. Records(P) = [n \in 1 .. N |-> Row(q[n], rows[q[n]])]
      BY DEF Records, N, q
<1>7. Records(P) \in [1 .. N -> Stored(c, lastId)]
      BY <1>5, <1>6, Zenon
<1>8. Records(P) \in Seq(Stored(c, lastId))
      BY <1>4, <1>7
<1> QED BY <1>8 DEF P

\* Reading a page, marking, failing.
LEMMA CommandKeeps ==
    ASSUME Tables, Screen, Loads, Placeholders, NEW k \in calls,
           RecentMessages(k) \/ MarkRead(k) \/ RequestFails(k) \/ SendAborts(k)
    PROVE  Tables' /\ TablesGrow /\ Screen' /\ Loads' /\ Placeholders' /\ export' = export
<1>0. lastId \in Nat /\ lastId' = lastId /\ lastId <= lastId /\ rows' = rows /\ bus' = bus
      /\ export' = export /\ UNCHANGED uiVars
      BY DEF Tables, RecentMessages, MarkRead, RequestFails, SendAborts, uiVars
<1>1. TablesGrow
      BY <1>0 DEF TablesGrow
<1>2. RequestOK(k, lastId)
      BY DEF Screen
<1>3. <<>> \in Seq(Stored(k.contact, lastId))
      OBVIOUS
<1>4. Tables'
  <2>1. CASE cursor' = cursor
        BY <1>0, <2>1 DEF Tables
  <2>2. CASE MarkRead(k)
    <3>1. k.arg \in 0 .. lastId /\ k.contact \in Contacts
          BY <1>2, <2>2 DEF MarkRead, RequestOK
    <3>2. cursor' = [cursor EXCEPT ![k.contact] = k.arg]
          BY <2>2 DEF MarkRead, ReadUpTo
    <3> QED BY <1>0, <3>1, <3>2 DEF Tables
  <2> QED BY <2>1, <2>2, Zenon DEF RecentMessages, RequestFails, SendAborts
<1>5. CASE RecentMessages(k)
  <2>1. ~IsSend(k)
        BY <1>5 DEF RecentMessages, IsSend
  <2>2. PICK next : Answer(k, "ok", Records(Recent(k.contact, k.arg)), next)
        BY <1>5, Zenon DEF RecentMessages
  <2>3. Records(Recent(k.contact, k.arg)) \in Seq(Stored(k.contact, lastId'))
        BY <1>0, RecordsOfContact, Zenon
  <2>4. Screen' /\ Loads' /\ Placeholders'
        BY <1>0, <2>1, <2>2, <2>3, AnswerKeeps, Zenon
  <2> QED BY <1>0, <1>1, <1>4, <2>4
<1>6. CASE MarkRead(k) \/ RequestFails(k) \/ SendAborts(k)
  <2>1. PICK st \in {"ok", "err"} : Answer(k, st, <<>>, 0) /\ (st = "err" \/ ~IsSend(k))
        BY <1>6, Zenon DEF MarkRead, RequestFails, SendAborts, IsSend
  <2>2. IsSend(k) /\ st = "ok" => <<>> # <<>>
        BY <2>1
  <2>3. Screen' /\ Loads' /\ Placeholders'
        BY <1>0, <1>3, <2>1, <2>2, AnswerKeeps, Zenon
  <2> QED BY <1>0, <1>1, <1>4, <2>3
<1> QED BY <1>5, <1>6

\* A row that a step adds is above the cursor of its contact.
AddsUnread == \A i \in DOMAIN rows' \ DOMAIN rows : i > cursor'[rows'[i]]

LEMMA TablesFrame ==
    ASSUME Tables, UNCHANGED <<rows, lastId, cursor>>
    PROVE  Tables' /\ TablesGrow /\ AddsUnread
BY DEF Tables, TablesGrow, AddsUnread

LEMMA InsertFacts ==
    ASSUME Tables, NEW c \in Contacts, Insert(c), cursor' = cursor
    PROVE  /\ Tables' /\ TablesGrow /\ AddsUnread
           /\ NextId = lastId' /\ lastId' \in Nat /\ lastId <= lastId'
           /\ Row(NextId, c) \in Stored(c, lastId')
<1>1. /\ lastId \in Nat /\ NextId = lastId + 1 /\ lastId' = lastId + 1
      /\ DOMAIN rows \subseteq 1 .. lastId
      BY DEF Tables, Insert, NextId
<1>2. rows' = [i \in DOMAIN rows \cup {NextId} |-> IF i = NextId THEN c ELSE rows[i]]
      BY DEF Insert
<1> HIDE DEF NextId
<1>3. /\ DOMAIN rows' = DOMAIN rows \cup {NextId} /\ rows'[NextId] = c
      /\ \A i \in DOMAIN rows : i # NextId => rows'[i] = rows[i]
      BY <1>2
<1>4. cursor' \in [Contacts -> 0 .. lastId']
  <2>1. 0 .. lastId \subseteq 0 .. lastId'
        BY <1>1
  <2> QED BY <2>1 DEF Tables
<1>5. DOMAIN rows' \subseteq 1 .. lastId'
      BY <1>1, <1>3
<1>6. Tables'
      BY <1>1, <1>4, <1>5 DEF Tables
<1>7. TablesGrow
      BY <1>1, <1>3 DEF TablesGrow
<1>8. AddsUnread
  <2>1. cursor'[c] \in 0 .. lastId
        BY DEF Tables
  <2>2. NextId > cursor'[c]
        BY <1>1, <2>1
  <2> QED BY <1>3, <2>2, Zenon DEF AddsUnread
<1>9. Row(NextId, c) \in Stored(c, lastId')
  <2>1. NextId \in 1 .. lastId'
        BY <1>1
  <2> QED BY <2>1, Zenon DEF Stored
<1> QED BY <1>1, <1>6, <1>7, <1>8, <1>9

LEMMA SendPersistKeeps ==
    ASSUME Tables, Screen, Loads, Placeholders, NEW k \in calls, SendPersist(k)
    PROVE  Tables' /\ TablesGrow /\ AddsUnread /\ Screen' /\ Loads' /\ Placeholders'
<1>1. k.contact \in Contacts
      BY DEF Screen, RequestOK
<1>2. /\ Insert(k.contact) /\ cursor' = cursor /\ bus' = bus /\ UNCHANGED uiVars
      /\ Answer(k, "ok", <<Row(NextId, k.contact)>>, 0)
      BY Zenon DEF SendPersist, uiVars
<1>3. /\ Tables' /\ TablesGrow /\ AddsUnread
      /\ lastId' \in Nat /\ lastId <= lastId'
      /\ Row(NextId, k.contact) \in Stored(k.contact, lastId')
      BY <1>1, <1>2, InsertFacts, Zenon
<1>4. PICK r : r = Row(NextId, k.contact)
      OBVIOUS
<1>5. <<r>> \in Seq(Stored(k.contact, lastId')) /\ <<r>> # <<>>
      BY <1>3, <1>4
<1>6. Answer(k, "ok", <<r>>, 0)
      BY <1>2, <1>4
<1>7. Screen' /\ Loads' /\ Placeholders'
      BY <1>2, <1>3, <1>5, <1>6, AnswerKeeps, Zenon
<1> QED BY <1>3, <1>7

\* A task that is receiving knows the contact.
ReceiverTyped == \A w \in Workers : work[w].op = "recv" => work[w].contact \in Contacts

LEMMA ReceivePersistKeeps ==
    ASSUME Tables, Screen, Loads, Placeholders, ReceiverTyped,
           NEW w \in Workers, ReceivePersist(w)
    PROVE  Tables' /\ TablesGrow /\ AddsUnread /\ Screen' /\ Loads' /\ Placeholders'
<1>1. PICK c \in Contacts : c = work[w].contact
      BY DEF ReceivePersist, CommitRecv, ReceiverTyped
<1>2. /\ Insert(c) /\ cursor' = cursor /\ UNCHANGED uiVars /\ UNCHANGED calls
      /\ Emit(Row(NextId, c))
      BY <1>1 DEF ReceivePersist, uiVars
<1>3. /\ Tables' /\ TablesGrow /\ AddsUnread
      /\ lastId' \in Nat /\ lastId <= lastId'
      /\ Row(NextId, c) \in Stored(c, lastId')
      BY <1>2, InsertFacts, Zenon
<1>4. PICK r : r = Row(NextId, c)
      OBVIOUS
<1>5. /\ bus \in Seq(BusRows(lastId')) /\ pending.row \in 0 .. lastId'
      /\ ViewOK(view, lastId') /\ \A k \in calls : RequestOK(k, lastId')
      BY <1>3, ScreenGrows, Zenon
<1>6. r \in BusRows(lastId')
      BY <1>3, <1>4, Zenon DEF BusRows
<1>7. bus' = bus \/ bus' = Append(bus, r)
      BY <1>2, <1>4, Zenon DEF Emit
<1>8. bus' \in Seq(BusRows(lastId'))
      BY <1>5, <1>6, <1>7
<1>9. Screen'
  <2>1. pending' = pending /\ view' = view /\ calls' = calls
        BY <1>2 DEF uiVars
  <2> QED BY <1>5, <1>8, <2>1, Zenon DEF Screen, BusRows
<1>10. Loads' /\ Placeholders'
      BY <1>2, UiFrame
<1> QED BY <1>3, <1>9, <1>10, SMTT(30)

LEMMA PruneKeeps ==
    ASSUME Tables, Screen, Loads, Placeholders, NEW doomed, Prune(doomed)
    PROVE  Tables' /\ TablesGrow /\ AddsUnread /\ Screen' /\ Loads' /\ Placeholders'
<1>1. /\ rows' = [i \in DOMAIN rows \ doomed |-> rows[i]] /\ UNCHANGED uiVars
      /\ lastId' = lastId /\ cursor' = cursor /\ bus' = bus /\ calls' = calls
      BY DEF Prune, uiVars
<1>2. DOMAIN rows' = DOMAIN rows \ doomed /\ \A i \in DOMAIN rows' : rows'[i] = rows[i]
      BY <1>1
<1>3. Tables' /\ TablesGrow /\ AddsUnread
  <2>1. Tables'
        BY <1>1, <1>2 DEF Tables
  <2>2. TablesGrow
        BY <1>1, <1>2 DEF TablesGrow, Tables
  <2>3. AddsUnread
        BY <1>2 DEF AddsUnread
  <2> QED BY <2>1, <2>2, <2>3
<1>4. Screen'
      BY <1>1 DEF Screen, uiVars
<1>5. Loads' /\ Placeholders'
      BY <1>1, UiFrame
<1> QED BY <1>3, <1>4, <1>5

\* Steps that touch neither the tables nor what the UI holds.
LEMMA QuietKeeps ==
    ASSUME Tables, Screen, Loads, Placeholders, UNCHANGED <<rows, lastId, cursor, calls, uiVars>>,
           bus' = bus \/ bus' = <<>>
    PROVE  Tables' /\ TablesGrow /\ AddsUnread /\ Screen' /\ Loads' /\ Placeholders'
<1>1. Tables' /\ TablesGrow /\ AddsUnread
      BY TablesFrame
<1>2. /\ view' = view /\ pending' = pending /\ calls' = calls /\ lastId' = lastId
      BY DEF uiVars
<1>3. <<>> \in Seq(UNION {Stored(c, lastId) : c \in Contacts})
      OBVIOUS
<1>4. Screen'
      BY <1>2, <1>3, Zenon DEF Screen
<1>5. Loads' /\ Placeholders'
      BY UiFrame
<1> QED BY <1>1, <1>4, <1>5

LEMMA RestartKeeps ==
    ASSUME Tables, Placeholders, Restart
    PROVE  Tables' /\ TablesGrow /\ AddsUnread /\ Screen' /\ Loads' /\ Placeholders'
<1>1. Tables' /\ TablesGrow /\ AddsUnread
      BY TablesFrame DEF Restart
<1>2. /\ bus' = <<>> /\ calls' = {} /\ view' = Closed /\ token' = 0 /\ pending' = NoTimer
      /\ choice' = NoContact /\ lastId' = lastId /\ lastId \in Nat
      /\ bubble' = [t \in Temps |-> IF bubble[t] = "new" THEN "new" ELSE "left"]
      BY DEF Restart, Tables
<1>3. ViewOK(view', lastId')
  <2>1. <<>> \in Seq(Entries(NoContact, lastId'))
        OBVIOUS
  <2> QED BY <1>2, <2>1 DEF ViewOK, Closed
<1>4. Screen'
  <2>1. bus' \in Seq(UNION {Stored(c, lastId') : c \in Contacts}) /\ pending'.row \in 0 .. lastId'
        BY <1>2 DEF NoTimer
  <2> QED BY <1>2, <1>3, <2>1, Zenon DEF Screen
<1>5. Loads'
      BY <1>2 DEF Loads, LastChoiceWins, Closed
<1>6. Placeholders'
  <2>1. bubble' \in [Temps -> Fates]
        BY <1>2 DEF Fates
  <2>2. DOMAIN view'.messages = {}
        BY <1>2 DEF Closed
  <2> QED BY <1>2, <2>1, <2>2, Zenon DEF Placeholders
<1> QED BY <1>1, <1>4, <1>5, <1>6

-----------------------------------------------------------------------------
(* The steps of the UI. *)

LEMMA NoTempIsNone == NoWorker \notin Temps
BY WorkersAssumption, ActorsAssumption

LEMMA LoadsFrame ==
    ASSUME Loads, token' = token, choice' = choice, view'.contact = view.contact,
           \A k : k.kind = "open" => (k \in calls' <=> k \in calls)
    PROVE  Loads'
BY Zenon DEF Loads, LastChoiceWins

LEMMA PlaceholdersFrame ==
    ASSUME Placeholders, bubble' = bubble, view'.contact = view.contact,
           \A k : IsSend(k) => (k \in calls' <=> k \in calls),
           \A n \in DOMAIN view'.messages : view'.messages[n].temp \in Temps =>
              \E m \in DOMAIN view.messages : view.messages[m].temp = view'.messages[n].temp
    PROVE  Placeholders'
<1>1. \A t \in Temps : Waits(t, calls, view.contact) => Waits(t, calls', view'.contact)
      BY Zenon DEF Waits
<1>2. ASSUME NEW n \in DOMAIN view'.messages, NEW t \in Temps, view'.messages[n].temp = t
      PROVE  bubble'[t] \in {"failed", "file"} \/ Waits(t, calls', view'.contact)
  <2>1. PICK m \in DOMAIN view.messages : view.messages[m].temp = t
        BY <1>2
  <2>2. bubble[t] \in {"failed", "file"} \/ Waits(t, calls, view.contact)
        BY <2>1, Zenon DEF Placeholders
  <2> QED BY <1>1, <2>2
<1>3. /\ \A k \in calls' : IsSend(k) => bubble'[k.temp] = "asked"
      /\ \A j, k \in calls' : IsSend(j) /\ IsSend(k) /\ j.temp = k.temp => j = k
      BY Zenon DEF Placeholders
<1>4. bubble' \in [Temps -> Fates]
      BY DEF Placeholders
<1> QED BY <1>2, <1>3, <1>4, Zenon DEF Placeholders

\* The view with other messages, flags and cursor.
ViewWith(v, messages, nextBefore, loading, readCursor) ==
    [contact |-> v.contact, messages |-> messages, nextBefore |-> nextBefore,
     loading |-> loading, readCursor |-> readCursor, load |-> v.load]

LEMMA ViewWithOK ==
    ASSUME NEW l, NEW v, ViewOK(v, l), NEW ms \in Seq(Entries(v.contact, l)),
           NEW nb, NEW ld, NEW rc, NEW x, x = ViewWith(v, ms, nb, ld, rc)
    PROVE  ViewOK(x, l) /\ x.contact = v.contact /\ x.messages = ms
<1>1. /\ x.contact = v.contact /\ x.messages = ms /\ x.nextBefore = nb /\ x.loading = ld
      /\ x.readCursor = rc /\ x.load = v.load
      BY DEF ViewWith
<1>2. x = [contact |-> x.contact, messages |-> x.messages, nextBefore |-> x.nextBefore,
           loading |-> x.loading, readCursor |-> x.readCursor, load |-> x.load]
      BY DEF ViewWith
<1> QED BY <1>1, <1>2, Zenon DEF ViewOK

LEMMA ViewExcept ==
    ASSUME NEW l, NEW v, ViewOK(v, l), NEW ms, NEW ld, NEW rc
    PROVE  /\ [v EXCEPT !.messages = ms] = ViewWith(v, ms, v.nextBefore, v.loading, v.readCursor)
           /\ [v EXCEPT !.loading = ld] =
                 ViewWith(v, v.messages, v.nextBefore, ld, v.readCursor)
           /\ [v EXCEPT !.readCursor = rc] =
                 ViewWith(v, v.messages, v.nextBefore, v.loading, rc)
<1>0. v = [contact |-> v.contact, messages |-> v.messages, nextBefore |-> v.nextBefore,
           loading |-> v.loading, readCursor |-> v.readCursor, load |-> v.load]
      BY DEF ViewOK
<1>1. [v EXCEPT !.messages = ms] = ViewWith(v, ms, v.nextBefore, v.loading, v.readCursor)
      BY <1>0 DEF ViewWith
<1>2. [v EXCEPT !.loading = ld] = ViewWith(v, v.messages, v.nextBefore, ld, v.readCursor)
      BY <1>0 DEF ViewWith
<1>3. [v EXCEPT !.readCursor = rc] = ViewWith(v, v.messages, v.nextBefore, v.loading, rc)
      BY <1>0 DEF ViewWith
<1> QED BY <1>1, <1>2, <1>3, Zenon

LEMMA ViewPaged ==
    ASSUME NEW l, NEW v, ViewOK(v, l), NEW ms, NEW nb, NEW ld
    PROVE  [v EXCEPT !.messages = ms, !.nextBefore = nb, !.loading = ld] =
              ViewWith(v, ms, nb, ld, v.readCursor)
<1>1. PICK a, b, c, d, e, f :
         v = [contact |-> a, messages |-> b, nextBefore |-> c, loading |-> d,
              readCursor |-> e, load |-> f]
      BY Zenon DEF ViewOK
<1>2. v.contact = a /\ v.readCursor = e /\ v.load = f
      BY <1>1
<1>3. PICK x : x = [v EXCEPT !.messages = ms]
      BY Zenon
<1>4. x = [contact |-> a, messages |-> ms, nextBefore |-> c, loading |-> d,
           readCursor |-> e, load |-> f]
      BY <1>1, <1>3
<1>5. PICK y : y = [x EXCEPT !.nextBefore = nb]
      BY Zenon
<1>6. y = [contact |-> a, messages |-> ms, nextBefore |-> nb, loading |-> d,
           readCursor |-> e, load |-> f]
      BY <1>4, <1>5
<1>7. [y EXCEPT !.loading = ld] = [contact |-> a, messages |-> ms, nextBefore |-> nb,
                                   loading |-> ld, readCursor |-> e, load |-> f]
      BY <1>6
<1>8. [v EXCEPT !.messages = ms, !.nextBefore = nb, !.loading = ld] =
         [[[v EXCEPT !.messages = ms] EXCEPT !.nextBefore = nb] EXCEPT !.loading = ld]
      OBVIOUS
<1> QED BY <1>2, <1>3, <1>5, <1>7, <1>8, Zenon DEF ViewWith

LEMMA SameView ==
    ASSUME NEW l, NEW v, ViewOK(v, l)
    PROVE  v = ViewWith(v, v.messages, v.nextBefore, v.loading, v.readCursor)
BY DEF ViewOK, ViewWith

LEMMA ForwardKeeps ==
    ASSUME Tables, Screen, Loads, Placeholders, Forward
    PROVE  Screen' /\ Loads' /\ Placeholders'
<1> DEFINE e == Head(bus)
           ms == Append(view.messages, e)
<1>1. /\ bus # <<>> /\ bus' = Tail(bus) /\ lastId' = lastId /\ calls' = calls /\ token' = token
      /\ pending' = pending /\ bubble' = bubble /\ choice' = choice /\ lastId \in Nat
      BY DEF Forward, Tables
<1>2. bus \in Seq(BusRows(lastId))
      BY Zenon DEF Screen, BusRows
<1>3. e \in BusRows(lastId) /\ bus' \in Seq(BusRows(lastId))
      BY <1>1, <1>2
<1>4. PICK c \in Contacts : e \in Stored(c, lastId)
      BY <1>3, Zenon DEF BusRows
<1> HIDE DEF e
<1>5. e \in Entries(c, lastId) /\ e.of = c /\ e.temp \notin Temps
  <2>1. e \in Entries(c, lastId)
        BY <1>4, Zenon DEF Entries
  <2> QED BY <1>1, <1>4, <2>1, EntryFacts, NoTempIsNone, Zenon
<1>6. ViewOK(view, lastId)
      BY Zenon DEF Screen
<1>7. view' = view \/ (c = view.contact /\ view' = [view EXCEPT !.messages = ms])
      BY <1>5 DEF Forward, e
<1>8. CASE view' = view
  <2>1. Screen'
        BY <1>1, <1>3, <1>8, Zenon DEF Screen, BusRows
  <2>2. UNCHANGED <<uiVars, calls>>
        BY <1>1, <1>8 DEF uiVars
  <2> QED BY <2>1, <2>2, UiFrame
<1>9. CASE c = view.contact /\ view' = [view EXCEPT !.messages = ms]
  <2>0. view.messages \in Seq(Entries(view.contact, lastId))
        BY <1>6 DEF ViewOK
  <2>1. /\ ms \in Seq(Entries(view.contact, lastId))
        /\ \A n \in DOMAIN ms : ms[n] = e \/ (n \in DOMAIN view.messages /\ ms[n] = view.messages[n])
        BY <1>5, <1>9, <2>0
  <2> HIDE DEF ms
  <2>2. view' = ViewWith(view, ms, view.nextBefore, view.loading, view.readCursor)
        BY <1>6, <1>9, ViewExcept, Zenon
  <2>3. ViewOK(view', lastId) /\ view'.contact = view.contact /\ view'.messages = ms
        BY <1>6, <2>1, <2>2, ViewWithOK
  <2>4. Screen'
        BY <1>1, <1>3, <2>3, Zenon DEF Screen, BusRows
  <2>5. Loads'
        BY <1>1, <2>3, LoadsFrame
  <2>6. Placeholders'
        BY <1>1, <1>5, <2>1, <2>3, PlaceholdersFrame, Zenon
  <2> QED BY <2>4, <2>5, <2>6
<1> QED BY <1>7, <1>8, <1>9

LEMMA CloseKeeps ==
    ASSUME Tables, Screen, Loads, Placeholders, CloseConversation
    PROVE  Screen' /\ Loads' /\ Placeholders'
<1>1. /\ bus' = bus /\ lastId' = lastId /\ calls' = calls /\ token' = token + 1 /\ view' = Closed
      /\ pending' = pending /\ bubble' = bubble /\ choice' = NoContact
      BY DEF CloseConversation
<1>2. view'.contact = NoContact /\ view'.messages = <<>> /\ DOMAIN view'.messages = {}
      BY <1>1 DEF Closed
<1>3. ViewOK(view', lastId)
  <2>1. <<>> \in Seq(Entries(NoContact, lastId))
        OBVIOUS
  <2> QED BY <1>1, <2>1 DEF ViewOK, Closed
<1>4. Screen'
      BY <1>1, <1>3, Zenon DEF Screen
<1>5. Loads'
  <2>1. /\ token' \in Nat
        /\ \A k \in calls : k.kind = "open" => k.tag \in Nat /\ k.tag <= token' /\ k.tag # token'
        BY <1>1 DEF Loads
  <2>2. LastChoiceWins'
        BY <1>1, <1>2 DEF LastChoiceWins
  <2> QED BY <1>1, <2>1, <2>2, Zenon DEF Loads
<1>6. Placeholders'
      BY <1>1, <1>2, Zenon DEF Placeholders
<1> QED BY <1>4, <1>5, <1>6

LEMMA OpenKeeps ==
    ASSUME Tables, Screen, Loads, Placeholders, NEW c \in Contacts, OpenConversation(c)
    PROVE  Screen' /\ Loads' /\ Placeholders'
<1>1. PICK k : k = Call("open", c, token', 0)
      OBVIOUS
<1>2. /\ bus' = bus /\ lastId' = lastId /\ calls' = calls \cup {k} /\ token' = token + 1
      /\ view' = view /\ pending' = pending /\ bubble' = bubble /\ choice' = c
      /\ lastId \in Nat /\ token \in Nat /\ token' \in Nat
      BY <1>1 DEF OpenConversation, Tables, Loads
<1>3. RequestOK(k, lastId) /\ k.kind = "open" /\ k.contact = c /\ k.tag = token' /\ ~IsSend(k)
  <2>1. PICK tag \in Nat : tag = token'
        BY <1>2
  <2>2. k = Call("open", c, tag, 0)
        BY <1>1, <2>1
  <2>3. RequestOK(k, lastId) /\ k.kind = "open" /\ k.contact = c /\ k.tag = tag /\ ~IsSend(k)
        BY <1>2, <2>2, NewRequest
  <2> QED BY <2>1, <2>3
<1>4. Screen'
      BY <1>2, <1>3, Zenon DEF Screen
<1>5. Loads'
  <2>1. \A j \in calls : j.kind = "open" => j.tag \in Nat /\ j.tag <= token' /\ j.tag # token'
        BY <1>2 DEF Loads
  <2>2. \A j \in calls' : j.kind = "open" =>
           j.tag \in Nat /\ j.tag <= token' /\ (j.tag = token' => j.contact = choice')
        BY <1>2, <1>3, <2>1
  <2>3. \A i, j \in calls' : i.kind = "open" /\ j.kind = "open" /\ i.tag = j.tag => i = j
    <3> SUFFICES ASSUME NEW i \in calls', NEW j \in calls', i.kind = "open", j.kind = "open",
                        i.tag = j.tag
                 PROVE  i = j
        OBVIOUS
    <3>1. CASE i = k \/ j = k
          BY <1>2, <1>3, <2>1, <3>1, Zenon
    <3>2. CASE i # k /\ j # k
          BY <1>2, <3>2, Zenon DEF Loads
    <3> QED BY <3>1, <3>2
  <2>4. LastChoiceWins'
    <3>1. k \in calls'
          BY <1>2
    <3> QED BY <1>3, <3>1, Zenon DEF LastChoiceWins
  <2> QED BY <1>2, <2>2, <2>3, <2>4, Zenon DEF Loads
<1>6. Placeholders'
  <2>1. \A j : IsSend(j) => (j \in calls' <=> j \in calls)
        BY <1>2, <1>3, Zenon
  <2> QED BY <1>2, <2>1, PlaceholdersFrame, Zenon
<1> QED BY <1>4, <1>5, <1>6

LEMMA OpenReturnsKeeps ==
    ASSUME Tables, Screen, Loads, Placeholders, NEW k \in calls, OpenReturns(k)
    PROVE  Screen' /\ Loads' /\ Placeholders'
<1>1. /\ bus' = bus /\ lastId' = lastId /\ token' = token /\ pending' = pending
      /\ bubble' = bubble /\ lastId \in Nat /\ k.kind = "open" /\ ~IsSend(k)
      BY DEF OpenReturns, Tables, IsSend
<1>2. /\ RequestOK(k, lastId) /\ ViewOK(view, lastId)
      /\ \A j \in calls : RequestOK(j, lastId)
      BY Zenon DEF Screen
<1>3. \A j \in calls : j.kind = "open" /\ j.tag = k.tag => j = k
      BY <1>1, Zenon DEF Loads
<1>4. CASE /\ Current(k) /\ k.st = "ok" /\ choice' = choice
           /\ \E anchor \in {0, cursor[k.contact]} : Opened(k, anchor)
  <2>1. PICK anchor : Opened(k, anchor)
        BY <1>4
  <2>2. k.tag = token /\ k.contact = choice
        BY <1>1, <1>4, SMTT(30) DEF Current, Loads
  <2>3. view' = [contact |-> k.contact, messages |-> k.page, nextBefore |-> k.next,
                 loading |-> FALSE, readCursor |-> anchor, load |-> k.tag]
        BY <2>1 DEF Opened
  <2>4. view'.contact = k.contact /\ view'.messages = k.page
        BY <2>3
  <2>5. k.page \in Seq(Entries(k.contact, lastId)) /\ k.page \in Seq(Stored(k.contact, lastId))
    <3>1. k.page \in Seq(Stored(k.contact, lastId)) /\ Stored(k.contact, lastId) \subseteq Entries(k.contact, lastId)
          BY <1>2, Zenon DEF RequestOK, Entries
    <3> QED BY <3>1, WiderSeq, Zenon
  <2>6. ViewOK(view', lastId)
    <3>1. k.contact \in Contacts
          BY <1>2, SMTT(30) DEF RequestOK
    <3> QED BY <2>3, <2>5, <3>1, SMTT(30) DEF ViewOK
  <2>7. ASSUME NEW j \in calls' 
        PROVE  RequestOK(j, lastId) /\ ((j \in calls /\ j # k) \/ (j.kind = "mark" /\ ~IsSend(j)))
    <3>1. CASE j \in calls \ {k}
          BY <1>2, <3>1
    <3>2. CASE k.page # <<>> /\ j = Call("mark", k.contact, 0, k.page[Len(k.page)].row)
      <4>1. k.page[Len(k.page)] \in Stored(k.contact, lastId)
            BY <2>5, <3>2
      <4>2. k.page[Len(k.page)] \in Entries(k.contact, lastId)
            BY <4>1, Zenon DEF Entries
      <4>3. k.page[Len(k.page)].row \in 0 .. lastId
            BY <1>1, <4>2, EntryFacts, Zenon
      <4>4. PICK r \in 0 .. lastId : r = k.page[Len(k.page)].row
            BY <4>3, SMTT(30)
      <4>5. k.contact \in Contacts /\ j = Call("mark", k.contact, 0, r)
            BY <1>2, <3>2, <4>4, SMTT(30) DEF RequestOK
      <4>6. RequestOK(j, lastId) /\ j.kind = "mark" /\ ~IsSend(j)
            BY <1>1, <4>5, NewRequest
      <4> QED BY <4>6
    <3>3. j \in calls \ {k} \/ (k.page # <<>> /\ j = Call("mark", k.contact, 0, k.page[Len(k.page)].row))
          BY <2>1, Zenon DEF Opened
    <3> QED BY <3>1, <3>2, <3>3
  <2>8. calls \ {k} \subseteq calls'
        BY <2>1, Zenon DEF Opened
  <2>9. Screen'
        BY <1>1, <2>6, <2>7, Zenon DEF Screen
  <2>10. Loads'
    <3>1. \A j \in calls' : j.kind = "open" => j \in calls
          BY <2>7, Zenon
    <3>2. LastChoiceWins'
          BY <1>4, <2>2, <2>4 DEF LastChoiceWins
    <3> QED BY <1>1, <1>4, <3>1, <3>2, Zenon DEF Loads
  <2>11. Placeholders'
    <3>1. \A j : IsSend(j) => (j \in calls' <=> j \in calls)
          BY <1>1, <2>7, <2>8, Zenon
    <3>2. \A n \in DOMAIN view'.messages : view'.messages[n].temp \notin Temps
      <4> SUFFICES ASSUME NEW n \in DOMAIN k.page PROVE k.page[n].temp \notin Temps
          BY <2>4
      <4>1. k.page[n] \in Stored(k.contact, lastId)
            BY <2>5
      <4>2. k.page[n] \in Entries(k.contact, lastId)
            BY <4>1, Zenon DEF Entries
      <4> QED BY <1>1, <4>1, <4>2, EntryFacts, NoTempIsNone, ZenonT(60)
    <3>3. \A j \in calls' : IsSend(j) => bubble'[j.temp] = "asked"
          BY <1>1, <3>1, Zenon DEF Placeholders
    <3>4. \A i, j \in calls' : IsSend(i) /\ IsSend(j) /\ i.temp = j.temp => i = j
          BY <3>1, Zenon DEF Placeholders
    <3>5. bubble' \in [Temps -> Fates]
          BY <1>1, Zenon DEF Placeholders
    <3> QED BY <3>2, <3>3, <3>4, <3>5, Zenon DEF Placeholders
  <2> QED BY <2>9, <2>10, <2>11
<1>5. CASE calls' = calls \ {k} /\ view' = view
  <2>1. Screen'
        BY <1>1, <1>5, Zenon DEF Screen
  <2>2. Placeholders'
    <3>1. \A j : IsSend(j) => (j \in calls' <=> j \in calls)
          BY <1>1, <1>5, Zenon
    <3> QED BY <1>1, <1>5, <3>1, PlaceholdersFrame, Zenon
  <2>3. CASE Current(k) /\ choice' = view.contact
    <3>1. \A j \in calls' : j.kind = "open" => j.tag # token
          BY <1>3, <1>5, <2>3, Zenon DEF Current
    <3>2. LastChoiceWins'
          BY <1>5, <2>3 DEF LastChoiceWins
    <3> QED BY <1>1, <1>5, <2>1, <2>2, <3>1, <3>2, Zenon DEF Loads
  <2>4. CASE ~Current(k) /\ choice' = choice
    <3>1. LastChoiceWins'
          BY <1>1, <1>5, <2>4, Zenon DEF LastChoiceWins, Loads, Current
    <3>2. Loads'
          BY <1>1, <1>5, <2>4, <3>1, Zenon DEF Loads
    <3> QED BY <2>1, <2>2, <3>2
  <2> QED BY <1>4, <1>5, <2>3, <2>4, Zenon DEF OpenReturns
<1> QED BY <1>4, <1>5, Zenon DEF OpenReturns

\* The requests for pages and marks have no part in loads and placeholders.
LEMMA SideRequest ==
    ASSUME Tables, Screen, Loads, Placeholders,
           \A k : k \in calls' => RequestOK(k, lastId),
           \A k : k.kind = "open" \/ IsSend(k) => (k \in calls' <=> k \in calls),
           UNCHANGED <<bus, lastId, token, bubble, choice>>, pending'.row \in 0 .. lastId,
           ViewOK(view', lastId), view'.contact = view.contact,
           \A n \in DOMAIN view'.messages : view'.messages[n].temp \in Temps =>
              \E m \in DOMAIN view.messages : view.messages[m].temp = view'.messages[n].temp
    PROVE  Screen' /\ Loads' /\ Placeholders'
<1>1. Screen'
      BY Zenon DEF Screen
<1>2. Loads'
      BY LoadsFrame, Zenon
<1>3. Placeholders'
      BY PlaceholdersFrame, Zenon
<1> QED BY <1>1, <1>2, <1>3, Zenon

LEMMA LoadOlderKeeps ==
    ASSUME Tables, Screen, Loads, Placeholders, LoadOlder
    PROVE  Screen' /\ Loads' /\ Placeholders'
<1>1. /\ UNCHANGED <<bus, lastId, token, pending, bubble, choice>> /\ lastId \in Nat
      /\ view.contact # NoContact /\ view' = [view EXCEPT !.loading = TRUE]
      /\ calls' = calls \cup {Call("older", view.contact, token, view.nextBefore)}
      BY DEF LoadOlder, Tables
<1>2. ViewOK(view, lastId) /\ pending.row \in 0 .. lastId /\ \A k \in calls : RequestOK(k, lastId)
      BY Zenon DEF Screen
<1>3. view.contact \in Contacts /\ view.messages \in Seq(Entries(view.contact, lastId))
      BY <1>1, <1>2 DEF ViewOK
<1>4. PICK k : k = Call("older", view.contact, token, view.nextBefore)
      OBVIOUS
<1>5. RequestOK(k, lastId) /\ k.kind = "older" /\ ~IsSend(k)
      BY <1>1, <1>3, <1>4, NewRequest
<1>6. PICK ld : view' = ViewWith(view, view.messages, view.nextBefore, ld, view.readCursor)
      BY <1>1, <1>2, ViewExcept, Zenon
<1>7. ViewOK(view', lastId) /\ view'.contact = view.contact /\ view'.messages = view.messages
      BY <1>2, <1>3, <1>6, ViewWithOK
<1>8. /\ \A j : j \in calls' => RequestOK(j, lastId)
      /\ \A j : j.kind = "open" \/ IsSend(j) => (j \in calls' <=> j \in calls)
      BY <1>1, <1>2, <1>4, <1>5
<1> QED BY <1>1, <1>2, <1>7, <1>8, SideRequest, Zenon

LEMMA OlderReturnsKeeps ==
    ASSUME Tables, Screen, Loads, Placeholders, NEW k \in calls, OlderReturns(k)
    PROVE  Screen' /\ Loads' /\ Placeholders'
<1>1. /\ UNCHANGED <<bus, lastId, token, pending, bubble, choice>> /\ lastId \in Nat
      /\ calls' = calls \ {k} /\ k.kind = "older" /\ ~IsSend(k)
      BY DEF OlderReturns, Tables, IsSend
<1>2. ViewOK(view, lastId) /\ pending.row \in 0 .. lastId /\ \A j \in calls : RequestOK(j, lastId)
      BY Zenon DEF Screen
<1>3. view.messages \in Seq(Entries(view.contact, lastId))
      BY <1>2 DEF ViewOK
<1>4. /\ \A j : j \in calls' => RequestOK(j, lastId)
      /\ \A j : j.kind = "open" \/ IsSend(j) => (j \in calls' <=> j \in calls)
      BY <1>1, <1>2
<1> DEFINE ms == k.page \o view.messages
<1>5. \/ view' = view
      \/ view' = [view EXCEPT !.loading = FALSE]
      \/ /\ view.contact = k.contact
         /\ view' = [view EXCEPT !.messages = ms, !.nextBefore = k.next, !.loading = FALSE]
      BY DEF OlderReturns, StillOpen
<1> HIDE DEF ms
<1>6. CASE view' = view
      BY <1>1, <1>2, <1>4, <1>6, SideRequest, Zenon
<1>7. CASE view' = [view EXCEPT !.loading = FALSE]
  <2>1. PICK ld : view' = ViewWith(view, view.messages, view.nextBefore, ld, view.readCursor)
        BY <1>2, <1>7, ViewExcept, Zenon
  <2>2. ViewOK(view', lastId) /\ view'.contact = view.contact /\ view'.messages = view.messages
        BY <1>2, <1>3, <2>1, ViewWithOK
  <2> QED BY <1>1, <1>2, <1>4, <2>2, SideRequest, Zenon
<1>8. CASE /\ view.contact = k.contact
           /\ view' = [view EXCEPT !.messages = ms, !.nextBefore = k.next, !.loading = FALSE]
  <2>1. k.page \in Seq(Stored(view.contact, lastId))
        BY <1>2, <1>8 DEF RequestOK
  <2>2. Stored(view.contact, lastId) \subseteq Entries(view.contact, lastId)
        BY Zenon DEF Entries
  <2>3. k.page \in Seq(Entries(view.contact, lastId))
        BY <2>1, <2>2, WiderSeq, Zenon
  <2>4. ms \in Seq(Entries(view.contact, lastId))
        BY <1>3, <2>3, ConcatProperties, Zenon DEF ms
  <2>5. \A n \in DOMAIN ms : \/ \E m \in DOMAIN k.page : ms[n] = k.page[m]
                             \/ \E m \in DOMAIN view.messages : ms[n] = view.messages[m]
    <3> SUFFICES ASSUME NEW n \in DOMAIN ms
                 PROVE  \/ \E m \in DOMAIN k.page : ms[n] = k.page[m]
                        \/ \E m \in DOMAIN view.messages : ms[n] = view.messages[m]
        BY SMTT(30)
    <3> DEFINE L == Len(k.page)
               M == Len(view.messages)
    <3>1. /\ L \in Nat /\ M \in Nat /\ DOMAIN k.page = 1 .. L /\ DOMAIN view.messages = 1 .. M
          BY <1>3, <2>3
    <3>2. /\ Len(ms) = L + M
          /\ \A i \in 1 .. (L + M) : ms[i] = IF i <= L THEN k.page[i] ELSE view.messages[i - L]
          BY <1>3, <2>3, ConcatProperties, Zenon DEF ms
    <3>3. DOMAIN ms = 1 .. Len(ms)
          BY <2>4
    <3> HIDE DEF L, M
    <3>4. CASE n <= L
      <4>1. n \in 1 .. L /\ ms[n] = k.page[n]
            BY <3>1, <3>2, <3>3, <3>4
      <4> QED BY <3>1, <4>1, Zenon
    <3>5. CASE ~(n <= L)
      <4>1. n - L \in 1 .. M /\ ms[n] = view.messages[n - L]
            BY <3>1, <3>2, <3>3, <3>5
      <4> QED BY <3>1, <4>1, Zenon
    <3> QED BY <3>4, <3>5, SMTT(30)
  <2>6. \A m \in DOMAIN k.page : k.page[m].temp \notin Temps
    <3> SUFFICES ASSUME NEW m \in DOMAIN k.page PROVE k.page[m].temp \notin Temps
        OBVIOUS
    <3>1. k.page[m] \in Stored(view.contact, lastId)
          BY <2>1
    <3> QED BY <1>1, <2>2, <3>1, EntryFacts, NoTempIsNone, Zenon
  <2>7. PICK ld : view' = ViewWith(view, ms, k.next, ld, view.readCursor)
        BY <1>2, <1>8, ViewPaged, Zenon
  <2>8. ViewOK(view', lastId) /\ view'.contact = view.contact /\ view'.messages = ms
        BY <1>2, <2>4, <2>7, ViewWithOK
  <2>9. \A n \in DOMAIN view'.messages : view'.messages[n].temp \in Temps =>
           \E m \in DOMAIN view.messages : view.messages[m].temp = view'.messages[n].temp
    <3> SUFFICES ASSUME NEW n \in DOMAIN ms, ms[n].temp \in Temps
                 PROVE  \E m \in DOMAIN view.messages : view.messages[m].temp = ms[n].temp
        BY <2>8
    <3> QED BY <2>5, <2>6, Zenon
  <2> QED BY <1>1, <1>2, <1>4, <2>8, <2>9, SideRequest, Zenon
<1> QED BY <1>5, <1>6, <1>7, <1>8

LEMMA SendKeeps ==
    ASSUME Tables, Screen, Loads, Placeholders,
           NEW t \in Temps, NEW kind \in {"send", "file"}, Send(t, kind)
    PROVE  Screen' /\ Loads' /\ Placeholders'
<1> DEFINE e == Bubble(t, view.contact)
           ms == Append(view.messages, e)
<1>1. /\ UNCHANGED <<bus, lastId, token, pending, choice>> /\ lastId \in Nat
      /\ view.contact # NoContact /\ bubble[t] = "new" /\ bubble' = [bubble EXCEPT ![t] = "asked"]
      /\ view' = [view EXCEPT !.messages = ms]
      /\ calls' = calls \cup {[Call(kind, view.contact, 0, 0) EXCEPT !.temp = t]}
      BY DEF Send, Tables
<1>2. ViewOK(view, lastId) /\ pending.row \in 0 .. lastId /\ \A k \in calls : RequestOK(k, lastId)
      BY Zenon DEF Screen
<1>3. view.contact \in Contacts /\ view.messages \in Seq(Entries(view.contact, lastId))
      BY <1>1, <1>2 DEF ViewOK
<1>4. PICK k : k = SendCall(kind, view.contact, t)
      OBVIOUS
<1>5. /\ RequestOK(k, lastId) /\ k.kind # "open"
      /\ k.contact = view.contact /\ k.temp = t /\ IsSend(k)
  <2>1. RequestOK(k, lastId) /\ k.kind = kind /\ k.contact = view.contact /\ k.temp = t /\ IsSend(k)
        BY <1>1, <1>3, <1>4, NewSend
  <2> QED BY <2>1
<1>6. calls' = calls \cup {k}
      BY <1>1, <1>4, Zenon DEF SendCall
<1>7. e \in Entries(view.contact, lastId) /\ e.temp = t
      BY DEF Entries, Bubble
<1> HIDE DEF e
<1>8. /\ ms \in Seq(Entries(view.contact, lastId))
      /\ \A n \in DOMAIN ms : ms[n] = e \/ (n \in DOMAIN view.messages /\ ms[n] = view.messages[n])
      BY <1>3, <1>7
<1> HIDE DEF ms
<1>9. view' = ViewWith(view, ms, view.nextBefore, view.loading, view.readCursor)
      BY <1>1, <1>2, ViewExcept, Zenon
<1>10. ViewOK(view', lastId) /\ view'.contact = view.contact /\ view'.messages = ms
      BY <1>2, <1>8, <1>9, ViewWithOK, SMTT(30)
<1>11. Screen'
  <2>1. \A j \in calls' : RequestOK(j, lastId)
        BY <1>2, <1>5, <1>6
  <2> QED BY <1>1, <1>2, <1>10, <2>1, Zenon DEF Screen
<1>12. Loads'
  <2>1. \A j : j.kind = "open" => (j \in calls' <=> j \in calls)
        BY <1>5, <1>6, Zenon
  <2> QED BY <1>1, <1>10, <2>1, LoadsFrame, Zenon
<1>13. /\ bubble \in [Temps -> Fates] /\ bubble' \in [Temps -> Fates]
       /\ bubble'[t] = "asked" /\ \A u \in Temps : u # t => bubble'[u] = bubble[u]
  <2>1. bubble \in [Temps -> Fates]
        BY DEF Placeholders
  <2>2. "asked" \in Fates
        BY DEF Fates
  <2> QED BY <1>1, <2>1, <2>2, SMTT(30)
<1>14. \A j \in calls : IsSend(j) => j.temp \in Temps /\ j.temp # t /\ bubble[j.temp] = "asked"
      BY <1>1, <1>2 DEF RequestOK, Placeholders
<1>15. Placeholders'
  <2>1. \A j \in calls' : IsSend(j) => bubble'[j.temp] = "asked"
        BY <1>5, <1>6, <1>13, <1>14, SMTT(30)
  <2>2. \A i, j \in calls' : IsSend(i) /\ IsSend(j) /\ i.temp = j.temp => i = j
    <3> SUFFICES ASSUME NEW i \in calls', NEW j \in calls', IsSend(i), IsSend(j), i.temp = j.temp
                 PROVE  i = j
        OBVIOUS
    <3>1. CASE i = k \/ j = k
          BY <1>5, <1>6, <1>14, <3>1, Zenon
    <3>2. CASE i # k /\ j # k
          BY <1>6, <3>2, Zenon DEF Placeholders
    <3> QED BY <3>1, <3>2
  <2>3. ASSUME NEW n \in DOMAIN ms, NEW u \in Temps, ms[n].temp = u
        PROVE  bubble'[u] \in {"failed", "file"} \/ Waits(u, calls', view.contact)
    <3>1. CASE u = t
          BY <1>5, <1>6, <3>1, Zenon DEF Waits
    <3>2. CASE u # t
      <4>1. n \in DOMAIN view.messages /\ view.messages[n].temp = u
            BY <1>7, <1>8, <2>3, <3>2, Zenon
      <4>2. bubble[u] \in {"failed", "file"} \/ Waits(u, calls, view.contact)
            BY <4>1, Zenon DEF Placeholders
      <4>3. Waits(u, calls, view.contact) => Waits(u, calls', view.contact)
            BY <1>6, Zenon DEF Waits
      <4> QED BY <1>13, <3>2, <4>2, <4>3
    <3> QED BY <3>1, <3>2
  <2> QED BY <1>10, <1>13, <2>1, <2>2, <2>3, ZenonT(60) DEF Placeholders
<1> QED BY <1>11, <1>12, <1>15

LEMMA SendReturnsKeeps ==
    ASSUME Tables, Screen, Loads, Placeholders, NEW k \in calls, SendReturns(k)
    PROVE  Screen' /\ Loads' /\ Placeholders'
<1> DEFINE t == k.temp
           fate == Outcome(k)
           ms == IF fate = "send" THEN Reconciled(view.messages, t, Head(k.page)) ELSE view.messages
<1>1. /\ UNCHANGED <<bus, lastId, token, pending, choice>> /\ lastId \in Nat
      /\ IsSend(k) /\ calls' = calls \ {k} /\ bubble' = [bubble EXCEPT ![t] = fate]
      /\ view' = IF fate = "send" THEN [view EXCEPT !.messages = ms] ELSE view
      BY DEF SendReturns, Tables
<1>2. ViewOK(view, lastId) /\ pending.row \in 0 .. lastId /\ \A j \in calls : RequestOK(j, lastId)
      BY Zenon DEF Screen
<1>3. view.messages \in Seq(Entries(view.contact, lastId))
      BY <1>2 DEF ViewOK
<1>4. /\ t \in Temps /\ (k.st = "ok" => k.page # <<>>) /\ k.page \in Seq(Stored(k.contact, lastId))
      /\ k.st \in {"ok", "err"}
      BY <1>1, <1>2 DEF RequestOK, SendReturns
<1>5. /\ fate \in {"left", "failed", "send", "file"}
      /\ fate = "left" <=> view.contact # k.contact
      /\ fate = "send" => k.st = "ok"
      BY <1>1, <1>4 DEF Outcome, StillOpen, IsSend
<1> HIDE DEF fate
<1>6. /\ bubble \in [Temps -> Fates] /\ bubble' \in [Temps -> Fates] /\ bubble'[t] = fate
      /\ \A u \in Temps : u # t => bubble'[u] = bubble[u]
  <2>1. bubble \in [Temps -> Fates] /\ fate \in Fates
        BY <1>5 DEF Placeholders, Fates
  <2> QED BY <1>1, <1>4, <2>1, SMTT(30)
<1>7. \A j \in calls : IsSend(j) /\ j.temp = t => j = k
      BY <1>1, Zenon DEF Placeholders
<1>8. /\ ms \in Seq(Entries(view.contact, lastId)) /\ DOMAIN ms = DOMAIN view.messages
      /\ \A n \in DOMAIN ms : ms[n] = view.messages[n] \/ ms[n].temp \notin Temps
      /\ fate = "send" => \A n \in DOMAIN ms : ms[n].temp # t
  <2>1. CASE fate # "send"
        BY <1>3, <2>1
  <2>2. CASE fate = "send"
    <3>1. k.contact = view.contact /\ Head(k.page) \in Stored(view.contact, lastId)
          BY <1>4, <1>5, <2>2
    <3>2. PICK r : r = Head(k.page)
          OBVIOUS
    <3>3. r \in Entries(view.contact, lastId) /\ r.temp \notin Temps
      <4>1. r \in Entries(view.contact, lastId)
            BY <3>1, <3>2, Zenon DEF Entries
      <4> QED BY <1>1, <3>1, <3>2, <4>1, EntryFacts, NoTempIsNone, Zenon
    <3>4. ms = [n \in DOMAIN view.messages |->
                   IF view.messages[n].temp = t THEN r ELSE view.messages[n]]
          BY <2>2, <3>2 DEF Reconciled
    <3> HIDE DEF ms
    <3>5. PICK N \in Nat : DOMAIN view.messages = 1 .. N
          BY <1>3
    <3>6. \A n \in 1 .. N : view.messages[n] \in Entries(view.contact, lastId)
          BY <1>3, <3>5
    <3>7. DOMAIN ms = 1 .. N
          BY <3>4, <3>5, SMTT(30)
    <3>8. \A n \in 1 .. N : ms[n] = IF view.messages[n].temp = t THEN r ELSE view.messages[n]
          BY <3>4, <3>5, SMTT(30)
    <3>9. ms \in [1 .. N -> Entries(view.contact, lastId)]
          BY <3>3, <3>4, <3>5, <3>6, SMTT(30)
    <3>10. ms \in Seq(Entries(view.contact, lastId))
          BY <3>9
    <3>11. \A n \in 1 .. N : ms[n] = view.messages[n] \/ ms[n].temp \notin Temps
          BY <3>3, <3>8, Zenon
    <3>12. \A n \in 1 .. N : ms[n].temp # t
      <4> SUFFICES ASSUME NEW n \in 1 .. N PROVE ms[n].temp # t
          OBVIOUS
      <4>1. CASE view.messages[n].temp = t
            BY <1>4, <3>3, <3>8, <4>1, Zenon
      <4>2. CASE view.messages[n].temp # t
            BY <3>8, <4>2, Zenon
      <4> QED BY <4>1, <4>2
    <3> QED BY <3>5, <3>7, <3>10, <3>11, <3>12, Zenon
  <2> QED BY <2>1, <2>2, Zenon
<1>9. ViewOK(view', lastId) /\ view'.contact = view.contact /\ view'.messages = ms
  <2>1. CASE fate # "send"
        BY <1>1, <1>2, <2>1, SMTT(30)
  <2>2. CASE fate = "send"
    <3> HIDE DEF ms
    <3>1. view' = ViewWith(view, ms, view.nextBefore, view.loading, view.readCursor)
          BY <1>1, <1>2, <2>2, ViewExcept, Zenon
    <3> QED BY <1>2, <1>8, <3>1, ViewWithOK
  <2> QED BY <2>1, <2>2
<1> HIDE DEF ms
<1>10. Screen'
      BY <1>1, <1>2, <1>9, Zenon DEF Screen
<1>11. Loads'
  <2>1. k.kind # "open"
        BY <1>1 DEF IsSend
  <2>2. \A j : j.kind = "open" => (j \in calls' <=> j \in calls)
        BY <1>1, <2>1, Zenon
  <2> QED BY <1>1, <1>9, <2>2, LoadsFrame, Zenon
<1>12. Placeholders'
  <2>1. \A j \in calls : IsSend(j) => j.temp \in Temps /\ bubble[j.temp] = "asked"
        BY <1>2 DEF RequestOK, Placeholders
  <2>2. \A j \in calls' : IsSend(j) => bubble'[j.temp] = "asked"
        BY <1>1, <1>6, <1>7, <2>1
  <2>3. \A i, j \in calls' : IsSend(i) /\ IsSend(j) /\ i.temp = j.temp => i = j
        BY <1>1, Zenon DEF Placeholders
  <2>4. ASSUME NEW n \in DOMAIN ms, NEW u \in Temps, ms[n].temp = u
        PROVE  bubble'[u] \in {"failed", "file"} \/ Waits(u, calls', view.contact)
    <3>1. n \in DOMAIN view.messages /\ view.messages[n].temp = u
          BY <1>8, <2>4, Zenon
    <3>2. bubble[u] \in {"failed", "file"} \/ Waits(u, calls, view.contact)
          BY <3>1, Zenon DEF Placeholders
    <3>3. CASE u # t
      <4>1. Waits(u, calls, view.contact) => Waits(u, calls', view.contact)
            BY <1>1, <3>3, Zenon DEF Waits
      <4> QED BY <1>6, <3>2, <3>3, <4>1
    <3>4. CASE u = t
      <4>1. bubble[t] = "asked"
            BY <1>1, <2>1, Zenon
      <4>2. Waits(t, calls, view.contact)
            BY <3>2, <3>4, <4>1
      <4>3. k.contact = view.contact
            BY <1>7, <4>2, Zenon DEF Waits
      <4>4. fate # "send"
            BY <1>8, <2>4, <3>4, Zenon
      <4> QED BY <1>5, <1>6, <3>4, <4>3, <4>4, SMTT(30)
    <3> QED BY <3>3, <3>4
  <2> QED BY <1>6, <1>9, <2>2, <2>3, <2>4, Zenon DEF Placeholders
<1> QED BY <1>10, <1>11, <1>12

LEMMA LastRowFacts ==
    ASSUME Tables, Screen
    PROVE  LastRow \in 0 .. lastId
<1> DEFINE Shown == Newest({m \in DOMAIN view.messages : view.messages[m].row > 0}, 1)
           S == {0} \cup {view.messages[n].row : n \in Shown}
<1>0. lastId \in Nat /\ view.messages \in Seq(Entries(view.contact, lastId))
      BY DEF Tables, Screen, ViewOK
<1>1. Shown \subseteq DOMAIN view.messages
      BY DEF Newest
<1> HIDE DEF Shown
<1>2. \A n \in DOMAIN view.messages : view.messages[n] \in Entries(view.contact, lastId)
      BY <1>0
<1>3. \A n \in Shown : view.messages[n].row \in 0 .. lastId
      BY <1>0, <1>1, <1>2, EntryFacts, Zenon
<1>4. (\A x \in S : x \in 0 .. lastId) /\ 0 \in S
      BY <1>0, <1>3
<1> HIDE DEF S
<1>5. S \in SUBSET Nat /\ S # {} /\ \A x \in S : x <= lastId
      BY <1>0, <1>4
<1>6. Max(S) \in S
      BY <1>0, <1>5, MaxFacts, Zenon
<1>7. LastRow = Max(S)
      BY DEF LastRow, S, Shown
<1> QED BY <1>4, <1>6, <1>7, Zenon

LEMMA MarkReadKeeps ==
    ASSUME Tables, Screen, Loads, Placeholders, MarkReadIfAtBottom
    PROVE  Screen' /\ Loads' /\ Placeholders'
<1>1. UNCHANGED <<bus, lastId, calls, view, token, bubble, choice>> /\ lastId \in Nat
      BY DEF MarkReadIfAtBottom, Tables
<1>2. PICK S : S = {pending.row, LastRow}
      BY Zenon
<1>3. S \in SUBSET Nat /\ S # {} /\ (\A x \in S : x <= lastId) /\ \A x \in S : x \in 0 .. lastId
  <2>1. pending.row \in 0 .. lastId /\ LastRow \in 0 .. lastId
        BY LastRowFacts DEF Screen
  <2> QED BY <1>1, <1>2, <2>1, SMTT(30)
<1>4. Max(S) \in 0 .. lastId
      BY <1>1, <1>3, MaxFacts, Zenon
<1>5. pending'.row = Max(S)
      BY <1>2 DEF MarkReadIfAtBottom
<1>6. /\ ViewOK(view', lastId) /\ pending'.row \in 0 .. lastId
      /\ \A k : k \in calls' => RequestOK(k, lastId)
      BY <1>1, <1>4, <1>5, ZenonT(60) DEF Screen
<1> QED BY <1>1, <1>6, SideRequest, Zenon

LEMMA TimerKeeps ==
    ASSUME Tables, Screen, Loads, Placeholders, TimerFires
    PROVE  Screen' /\ Loads' /\ Placeholders'
<1>1. UNCHANGED <<bus, lastId, view, token, bubble, choice>> /\ lastId \in Nat /\ pending' = NoTimer
      BY DEF TimerFires, Tables
<1>2. ViewOK(view, lastId) /\ pending.row \in 0 .. lastId /\ \A k \in calls : RequestOK(k, lastId)
      BY Zenon DEF Screen
<1>3. pending'.row \in 0 .. lastId
      BY <1>1 DEF NoTimer
<1>4. CASE calls' = calls
      BY <1>1, <1>2, <1>3, <1>4, SideRequest, Zenon
<1>5. CASE /\ view.contact # NoContact
           /\ calls' = calls \cup {Call("mark", view.contact, 1, pending.row)}
  <2>1. view.contact \in Contacts
        BY <1>2, <1>5 DEF ViewOK
  <2>2. PICK k : k = Call("mark", view.contact, 1, pending.row)
        BY SMTT(30)
  <2>3. RequestOK(k, lastId) /\ k.kind = "mark" /\ ~IsSend(k)
        BY <1>1, <1>2, <2>1, <2>2, NewRequest, SMTT(30)
  <2>4. /\ \A j : j \in calls' => RequestOK(j, lastId)
        /\ \A j : j.kind = "open" \/ IsSend(j) => (j \in calls' <=> j \in calls)
        BY <1>2, <1>5, <2>2, <2>3
  <2> QED BY <1>1, <1>2, <1>3, <2>4, SideRequest, Zenon
<1> QED BY <1>4, <1>5, SMTT(30) DEF TimerFires

LEMMA MarkReturnsKeeps ==
    ASSUME Tables, Screen, Loads, Placeholders, NEW k \in calls, MarkReturns(k)
    PROVE  Screen' /\ Loads' /\ Placeholders'
<1>1. /\ UNCHANGED <<bus, lastId, token, pending, bubble, choice>> /\ lastId \in Nat
      /\ calls' = calls \ {k} /\ k.kind = "mark" /\ ~IsSend(k)
      BY DEF MarkReturns, Tables, IsSend
<1>2. ViewOK(view, lastId) /\ pending.row \in 0 .. lastId /\ \A j \in calls : RequestOK(j, lastId)
      BY Zenon DEF Screen
<1>3. view.messages \in Seq(Entries(view.contact, lastId))
      BY <1>2 DEF ViewOK
<1>4. /\ \A j : j \in calls' => RequestOK(j, lastId)
      /\ \A j : j.kind = "open" \/ IsSend(j) => (j \in calls' <=> j \in calls)
      BY <1>1, <1>2
<1>5. CASE view' = view
      BY <1>1, <1>2, <1>4, <1>5, SideRequest, Zenon
<1>6. CASE view' = [view EXCEPT !.readCursor = k.arg]
  <2>1. view' = ViewWith(view, view.messages, view.nextBefore, view.loading, k.arg)
        BY <1>2, <1>6, ViewExcept, Zenon
  <2>2. ViewOK(view', lastId) /\ view'.contact = view.contact /\ view'.messages = view.messages
        BY <1>2, <1>3, <2>1, ViewWithOK
  <2> QED BY <1>1, <1>2, <1>4, <2>2, SideRequest, Zenon
<1> QED BY <1>5, <1>6 DEF MarkReturns

-----------------------------------------------------------------------------
(* The theorems about the conversation. *)

ScreenInv == Tables /\ ExportInv /\ Screen /\ Loads /\ Placeholders

LEMMA ScreenStart == Init => ScreenInv
<1> SUFFICES ASSUME ConversationInit PROVE ScreenInv
    BY DEF Init
<1>1. /\ rows = <<>> /\ lastId = 0 /\ cursor = [c \in Contacts |-> 0] /\ bus = <<>> /\ calls = {}
      /\ view = Closed /\ token = 0 /\ pending = NoTimer /\ bubble = [t \in Temps |-> "new"]
      /\ export = NoExport /\ choice = NoContact
      BY DEF ConversationInit
<1>2. Tables
      BY <1>1, SMTT(30) DEF Tables
<1>3. ExportInv
      BY <1>1 DEF ExportInv, ExportWhole, NoExport
<1>4. ViewOK(view, lastId)
  <2>1. <<>> \in Seq(Entries(NoContact, lastId))
        OBVIOUS
  <2> QED BY <1>1, <2>1 DEF ViewOK, Closed
<1>5. Screen
  <2>1. bus \in Seq(UNION {Stored(c, lastId) : c \in Contacts}) /\ pending.row \in 0 .. lastId
        BY <1>1 DEF NoTimer
  <2> QED BY <1>1, <1>4, <2>1, Zenon DEF Screen
<1>6. Loads
      BY <1>1 DEF Loads, LastChoiceWins, Closed
<1>7. Placeholders
  <2>1. bubble \in [Temps -> Fates]
        BY <1>1 DEF Fates
  <2>2. DOMAIN view.messages = {}
        BY <1>1 DEF Closed
  <2> QED BY <1>1, <2>1, <2>2, Zenon DEF Placeholders
<1> QED BY <1>2, <1>3, <1>5, <1>6, <1>7, SMTT(30) DEF ScreenInv

\* The steps that leave the export alone.
LEMMA BesidesExport ==
    ASSUME ScreenInv, export' = export,
           Tables' /\ TablesGrow /\ AddsUnread /\ Screen' /\ Loads' /\ Placeholders'
    PROVE  ScreenInv' /\ AddsUnread
<1>1. ExportInv'
      BY ExportFrame DEF ScreenInv
<1> QED BY <1>1 DEF ScreenInv

\* The steps of the UI, which leave the tables alone as well.
LEMMA UiStep ==
    ASSUME ScreenInv, UNCHANGED <<rows, lastId, cursor, export>>,
           Screen' /\ Loads' /\ Placeholders'
    PROVE  ScreenInv' /\ AddsUnread
<1>1. Tables' /\ TablesGrow /\ AddsUnread
      BY TablesFrame DEF ScreenInv
<1> QED BY <1>1, BesidesExport

LEMMA ScreenStep ==
    ASSUME ScreenInv, ReceiverTyped, [Next]_vars
    PROVE  ScreenInv' /\ AddsUnread
<1>0. Tables /\ ExportInv /\ Screen /\ Loads /\ Placeholders
      BY DEF ScreenInv
<1>1. ASSUME NEW k \in calls, RecentMessages(k) \/ MarkRead(k) \/ RequestFails(k) \/ SendAborts(k)
      PROVE  ScreenInv' /\ AddsUnread
  <2>1. AddsUnread
        BY <1>1 DEF AddsUnread, RecentMessages, MarkRead, RequestFails, SendAborts
  <2> QED BY <1>0, <1>1, <2>1, CommandKeeps, BesidesExport, Zenon
<1>2. ASSUME NEW k \in calls, SendLoad(k)
      PROVE  ScreenInv' /\ AddsUnread
  <2>1. UNCHANGED <<rows, lastId, cursor, calls, uiVars>> /\ bus' = bus /\ export' = export
        BY <1>2 DEF SendLoad, cvars, besidesOps, uiVars
  <2> QED BY <1>0, <2>1, QuietKeeps, BesidesExport, Zenon
<1>3. ASSUME NEW k \in calls, SendPersist(k)
      PROVE  ScreenInv' /\ AddsUnread
  <2>1. export' = export
        BY <1>3 DEF SendPersist
  <2> QED BY <1>0, <1>3, <2>1, SendPersistKeeps, BesidesExport, Zenon
<1>4. ASSUME NEW k \in calls, Returns(k)
      PROVE  ScreenInv' /\ AddsUnread
  <2>1. UNCHANGED <<rows, lastId, cursor, export>>
        BY <1>4 DEF Returns, OpenReturns, OlderReturns, SendReturns, MarkReturns
  <2>2. Screen' /\ Loads' /\ Placeholders'
        BY <1>0, <1>4, OpenReturnsKeeps, OlderReturnsKeeps, SendReturnsKeeps, MarkReturnsKeeps, Zenon
           DEF Returns
  <2> QED BY <2>1, <2>2, UiStep, Zenon
<1>5. ASSUME NEW w \in Receivers, ReceivePersist(w)
      PROVE  ScreenInv' /\ AddsUnread
  <2>1. export' = export /\ w \in Workers
        BY <1>5, ActorsAssumption DEF ReceivePersist
  <2> QED BY <1>0, <1>5, <2>1, ReceivePersistKeeps, BesidesExport, Zenon
<1>6. CASE \/ \E w \in Receivers, c \in Contacts, g \in PeerGens : ReceiveLoad(w, c, g)
           \/ \E w \in Publishers, c \in Contacts : CardLoad(w, c)
           \/ \E w \in Publishers : CardStep(w)
           \/ \E w \in Receivers \cup Publishers : TaskAborts(w)
           \/ StreamClosed \/ Resubscribe \/ UNCHANGED vars
  <2>1. /\ UNCHANGED <<rows, lastId, cursor, calls, uiVars>> /\ bus' \in {bus, <<>>}
        /\ export' = export
        BY <1>6 DEF ReceiveLoad, CardLoad, CardStep, TaskAborts, StreamClosed, Resubscribe,
                    vars, cvars, besidesOps, uiVars
  <2>2. bus' = bus \/ bus' = <<>>
        BY <2>1
  <2> QED BY <1>0, <2>1, <2>2, QuietKeeps, BesidesExport, ZenonT(60)
<1>7. ASSUME NEW doomed, Prune(doomed)
      PROVE  ScreenInv' /\ AddsUnread
  <2>1. export' = export
        BY <1>7 DEF Prune
  <2> QED BY <1>0, <1>7, <2>1, PruneKeeps, BesidesExport, Zenon
<1>8. CASE Restart
  <2>1. Tables' /\ TablesGrow /\ AddsUnread /\ Screen' /\ Loads' /\ Placeholders'
        BY <1>0, <1>8, RestartKeeps
  <2>2. ExportInv'
    <3>1. export' = NoExport /\ lastId' \in Nat
          BY <1>8, <2>1 DEF Restart, Tables
    <3> QED BY <3>1, NoExportHolds
  <2> QED BY <2>1, <2>2 DEF ScreenInv
<1>9. CASE Forward \/ CloseConversation \/ LoadOlder \/ MarkReadIfAtBottom \/ TimerFires
  <2>1. UNCHANGED <<rows, lastId, cursor, export>>
        BY <1>9 DEF Forward, CloseConversation, LoadOlder, MarkReadIfAtBottom, TimerFires
  <2>2. Screen' /\ Loads' /\ Placeholders'
        BY <1>0, <1>9, ForwardKeeps, CloseKeeps, LoadOlderKeeps, MarkReadKeeps, TimerKeeps, Zenon
  <2> QED BY <2>1, <2>2, UiStep, Zenon
<1>10. ASSUME NEW c \in Contacts, OpenConversation(c)
       PROVE  ScreenInv' /\ AddsUnread
  <2>1. UNCHANGED <<rows, lastId, cursor, export>>
        BY <1>10 DEF OpenConversation
  <2> QED BY <1>0, <1>10, <2>1, OpenKeeps, UiStep, Zenon
<1>11. ASSUME NEW t \in Temps, NEW kind \in {"send", "file"}, Send(t, kind)
       PROVE  ScreenInv' /\ AddsUnread
  <2>1. UNCHANGED <<rows, lastId, cursor, export>>
        BY <1>11 DEF Send
  <2> QED BY <1>0, <1>11, <2>1, SendKeeps, UiStep, Zenon
<1>12. CASE ExportTurn \/ \E c \in Contacts : ExportBegin(c)
  <2>1. /\ UNCHANGED <<rows, lastId, cursor, calls, uiVars>> /\ bus' = bus
        BY <1>12 DEF ExportTurn, ExportBegin, uiVars
  <2>2. Tables' /\ TablesGrow /\ AddsUnread /\ Screen' /\ Loads' /\ Placeholders'
        BY <1>0, <2>1, QuietKeeps, Zenon
  <2>3. ExportInv'
        BY <1>0, <1>12, ExportTurnKeeps, ExportBeginKeeps, Zenon
  <2> QED BY <2>2, <2>3 DEF ScreenInv
<1>13. CASE \/ \E id \in DOMAIN rows : PruneBefore(id)
            \/ \E c \in Contacts, n \in 0 .. 1 : PruneKeepLast(c, n)
      BY <1>7, <1>13, Zenon DEF PruneBefore, PruneKeepLast
<1>14. CASE \E k \in calls : Serve(k) \/ Fails(k) \/ Returns(k)
      BY <1>1, <1>2, <1>3, <1>4, <1>14, Zenon DEF Serve, Fails
<1> QED BY <1>5, <1>6, <1>8, <1>9, <1>10, <1>11, <1>12, <1>13, <1>14, Zenon DEF Next

\* What the invariant says of the screen.
LEMMA ScreenImplies ==
    ASSUME ScreenInv
    PROVE  NoForeignRows /\ LastChoiceWins /\ BubblesAreAnswered /\ ExportWhole
<1>1. NoForeignRows
  <2>1. lastId \in Nat /\ view.messages \in Seq(Entries(view.contact, lastId))
        BY DEF ScreenInv, Tables, Screen, ViewOK
  <2>2. \A n \in DOMAIN view.messages : view.messages[n] \in Entries(view.contact, lastId)
        BY <2>1
  <2> SUFFICES ASSUME NEW n \in DOMAIN view.messages
               PROVE  view.messages[n].of = view.contact
      BY DEF NoForeignRows
  <2>3. PICK e : e = view.messages[n]
        OBVIOUS
  <2>4. e \in Entries(view.contact, lastId)
        BY <2>2, <2>3
  <2>5. e.of = view.contact
        BY <2>1, <2>4, EntryFacts
  <2> QED BY <2>3, <2>5, SMTT(30)
<1>2. LastChoiceWins
      BY DEF ScreenInv, Loads
<1>3. BubblesAreAnswered
  <2> SUFFICES ASSUME NEW t \in Temps, Hanging(t)
               PROVE  \E k \in calls : k.temp = t /\ StillOpen(k)
      BY DEF BubblesAreAnswered
  <2>1. PICK n \in DOMAIN view.messages : view.messages[n].temp = t
        BY DEF Hanging
  <2>2. bubble[t] \in {"failed", "file"} \/ Waits(t, calls, view.contact)
        BY <2>1, Zenon DEF ScreenInv, Placeholders
  <2>3. Waits(t, calls, view.contact)
        BY <2>2, SMTT(30) DEF Hanging
  <2> QED BY <2>3, Zenon DEF Waits, StillOpen
<1>4. ExportWhole
      BY DEF ScreenInv, ExportInv
<1> QED BY <1>1, <1>2, <1>3, <1>4, SMTT(30)

-----------------------------------------------------------------------------
(* The tasks *)

\* A task that is receiving has the contact of its envelope.
JobOK(j) ==
    /\ j = [op |-> j.op, contact |-> j.contact, copy |-> j.copy, gen |-> j.gen]
    /\ j.op = "recv" => j.contact \in Contacts
TaskInv == work = [w \in Workers |-> work[w]] /\ \A w \in Workers : JobOK(work[w])

LEMMA TaskReplaced ==
    ASSUME TaskInv, NEW w, NEW j, JobOK(j), work' = [work EXCEPT ![w] = j]
    PROVE  TaskInv'
<1>1. work' = [v \in Workers |-> IF v = w THEN j ELSE work[v]]
      BY DEF TaskInv
<1>2. work' = [v \in Workers |-> work'[v]]
      BY <1>1, Zenon
<1>3. \A v \in Workers : work'[v] = j \/ work'[v] = work[v]
      BY <1>1
<1>4. \A v \in Workers : JobOK(work'[v])
      BY <1>3, Zenon DEF TaskInv
<1> QED BY <1>2, <1>4 DEF TaskInv

LEMMA IdleOK == JobOK(Idle)
BY DEF JobOK, Idle

LEMMA FinishOK == ASSUME TaskInv, NEW w, Finish(w) PROVE TaskInv'
BY IdleOK, TaskReplaced, Zenon DEF Finish

LEMMA LoadOK ==
    ASSUME TaskInv, NEW w, NEW c, NEW op, NEW copy, NEW gen, Load(w, c, op, copy, gen),
           op # "recv" \/ c \in Contacts
    PROVE  TaskInv'
<1>1. JobOK([op |-> op, contact |-> c, copy |-> copy, gen |-> gen])
      BY DEF JobOK
<1> QED BY <1>1, TaskReplaced, Zenon DEF Load

LEMMA SaveCardOK == ASSUME TaskInv, NEW w \in Workers, SaveCard(w) PROVE TaskInv'
<1>1. PICK j : j = [work[w] EXCEPT !.op = "hand"]
      BY Zenon
<1>2. JobOK(j)
      BY <1>1 DEF TaskInv, JobOK
<1>3. work' = [work EXCEPT ![w] = j]
      BY <1>1 DEF SaveCard
<1> QED BY <1>2, <1>3, TaskReplaced, Zenon

LEMMA CrashOK == ASSUME TaskInv, RatchetCrash PROVE TaskInv'
<1>1. work' = [w \in Workers |-> Idle]
      BY DEF RatchetCrash
<1>2. \A w \in Workers : work'[w] = Idle
      BY <1>1
<1> QED BY <1>1, <1>2, IdleOK DEF TaskInv

LEMMA TaskStep == ASSUME TaskInv, [Next]_vars PROVE TaskInv'
<1>1. CASE UNCHANGED work
      BY <1>1, Zenon DEF TaskInv
<1>2. ASSUME NEW k \in calls, SendLoad(k) PROVE TaskInv'
  <2>1. LoadForSend(k.temp, k.contact)
        BY <1>2, Zenon DEF SendLoad
  <2>2. Load(k.temp, k.contact, "send", Encrypted(blob[k.contact]), blob[k.contact].next)
        BY <2>1, Zenon DEF LoadForSend
  <2>3. PICK w, c, b, g, o : Load(w, c, o, b, g) /\ o = "send"
        BY <2>2, Zenon
  <2>4. o # "recv"
        BY <2>3
  <2> QED BY <2>3, <2>4, LoadOK, Zenon
<1>3. ASSUME NEW k \in calls, SendPersist(k) \/ SendAborts(k) PROVE TaskInv'
      BY <1>3, FinishOK, Zenon DEF SendPersist, CommitSend, SendAborts, Abort
<1>4. ASSUME NEW w \in Receivers, NEW c \in Contacts, NEW g \in PeerGens, ReceiveLoad(w, c, g)
      PROVE  TaskInv'
      BY <1>4, LoadOK, Zenon DEF ReceiveLoad, LoadForRecv
<1>5. ASSUME NEW w, ReceivePersist(w) \/ TaskAborts(w) PROVE TaskInv'
      BY <1>5, FinishOK, Zenon DEF ReceivePersist, CommitRecv, TaskAborts, Abort
<1>6. ASSUME NEW w \in Publishers, NEW c \in Contacts, CardLoad(w, c) PROVE TaskInv'
      BY <1>6, LoadOK, Zenon DEF CardLoad, LoadForCard
<1>7. ASSUME NEW w \in Publishers, CardStep(w) PROVE TaskInv'
  <2>1. w \in Workers
        BY ActorsAssumption
  <2> QED BY <1>7, <2>1, FinishOK, SaveCardOK, Zenon DEF CardStep, HandOffCard
<1>8. ASSUME Restart PROVE TaskInv'
      BY <1>8, CrashOK, Zenon DEF Restart
<1>9. ASSUME NEW k \in calls,
             RecentMessages(k) \/ MarkRead(k) \/ RequestFails(k) \/ OpenReturns(k)
             \/ OlderReturns(k) \/ SendReturns(k) \/ MarkReturns(k)
      PROVE  UNCHANGED work
      BY <1>9 DEF RecentMessages, MarkRead, RequestFails, OpenReturns, OlderReturns,
                  SendReturns, MarkReturns, rvars
<1>10. ASSUME \/ \E id \in DOMAIN rows : PruneBefore(id)
              \/ \E c \in Contacts, n \in 0 .. 1 : PruneKeepLast(c, n)
              \/ StreamClosed \/ Resubscribe \/ Forward
              \/ CloseConversation \/ LoadOlder \/ MarkReadIfAtBottom \/ TimerFires
              \/ \E c \in Contacts : OpenConversation(c) \/ ExportBegin(c)
              \/ \E t \in Temps, kind \in {"send", "file"} : Send(t, kind)
              \/ ExportTurn
       PROVE  UNCHANGED work
      BY <1>10, Zenon DEF PruneBefore, PruneKeepLast, Prune, StreamClosed, Resubscribe, Forward,
                   CloseConversation, LoadOlder, MarkReadIfAtBottom, TimerFires,
                   OpenConversation, ExportBegin, Send, ExportTurn, rvars
<1>11. ASSUME NEW k \in calls, Serve(k) \/ Fails(k) \/ Returns(k) PROVE TaskInv'
      BY <1>1, <1>2, <1>3, <1>9, <1>11, Zenon DEF Serve, Fails, Returns
<1>12. ASSUME UNCHANGED vars PROVE UNCHANGED work
      BY <1>12 DEF vars, rvars
<1> QED BY <1>1, <1>4, <1>5, <1>6, <1>7, <1>8, <1>10, <1>11, <1>12, Zenon DEF Next

LEMMA TaskStart == Init => TaskInv
<1> SUFFICES ASSUME Init PROVE TaskInv
    OBVIOUS
<1>1. work = [w \in Workers |-> Idle]
      BY DEF Init, RatchetInit
<1>2. \A w \in Workers : work[w] = Idle
      BY <1>1
<1> QED BY <1>1, <1>2, IdleOK DEF TaskInv

-----------------------------------------------------------------------------
(* The theorems *)

LEMMA ConversationInvariant == Spec => []ScreenInv /\ [][AddsUnread]_vars
<1>1. TaskInv => ReceiverTyped
      BY DEF TaskInv, JobOK, ReceiverTyped
<1>2. ScreenInv /\ TaskInv /\ [Next]_vars => ScreenInv' /\ AddsUnread
      BY ScreenStep, <1>1
<1>3. TaskInv /\ [Next]_vars => TaskInv'
      BY TaskStep
<1> QED BY <1>2, <1>3, ScreenStart, TaskStart, PTL DEF Spec

\* A row on the screen is of the contact whose conversation is open, for any
\* contacts and rows and in whatever order the answers of requests and events
\* of the daemon arrive (stores/conversation.ts).
THEOREM ScreenIsOfContact == Spec => []NoForeignRows
BY ConversationInvariant, ScreenImplies, PTL

\* The load token makes the last selection win: a late response never
\* replaces the conversation the user chose after it.
THEOREM LastSelectionIsShown == Spec => []LastChoiceWins
BY ConversationInvariant, ScreenImplies, PTL

\* A placeholder that is neither settled nor failed has a request under way
\* whose answer reaches it.
THEOREM PlaceholderIsAnswered == Spec => []BubblesAreAnswered
BY ConversationInvariant, ScreenImplies, PTL

\* An export holds the whole history it began with, less what was pruned, in
\* order and once, for every size of page and whatever happens between pages.
THEOREM ExportIsWhole == Spec => []ExportWhole
BY ConversationInvariant, ScreenImplies, PTL

\* AUTOINCREMENT never gives an id at or below a read cursor, so a new
\* message is never counted as read.
THEOREM NewRowIsUnread == Spec => NewIsUnread
BY ConversationInvariant, PTL DEF NewIsUnread, AddsUnread

=============================================================================
