------------------------- MODULE FirstContactProofs -------------------------
(***************************************************************************)
(* Proofs about first contact, for any sets of users, invites and          *)
(* connections: an invite is used once, and an Ack is of a group that was   *)
(* joined.                                                                  *)
(*                                                                         *)
(* The second rests on who is at the ends of a connection: a Welcome is    *)
(* answered for the peer of the connection it came on, so the argument     *)
(* follows every connection from its dial through the queues of the two    *)
(* actors to its end.                                                      *)
(***************************************************************************)
EXTENDS FirstContact, WellFoundedInduction, TLAPS

-----------------------------------------------------------------------------
(* The invariant *)

\* A queue in which no connection is twice.
Queues == {q \in Seq(Circs) : \A i, j \in 1..Len(q) : q[i] = q[j] => i = j}

Entries(q) == {q[i] : i \in 1..Len(q)}

\* An invite that was joined with is no longer outstanding, one that a group was
\* made of is consumed at its committer, and an ack row names who joined.
Once ==
  /\ owner \in [Invites -> Users \cup {NoUser}]
  /\ consumed \in [Users -> SUBSET Invites]
  /\ made \subseteq Groups /\ joined \subseteq made
  /\ \A k \in outstanding : k \in Invites /\ owner[k] # NoUser
  /\ \A g \in joined : g.kp \notin outstanding /\ owner[g.kp] # NoUser
  /\ \A g \in made : g.kp \in consumed[g.by]
  /\ SingleUse
  /\ acks \in [Invites -> Users \cup {NoUser}]
  /\ \A k \in Invites :
       acks[k] # NoUser => \E d \in joined : d.kp = k /\ d.by = acks[k]

\* A row is of a group its user has made, and goes to somebody else.
RowOf(u, p, g) == p \in Users /\ p # u /\ g \in made /\ g.by = u

PendingRows == [group : Groups \cup {NoGroup}, due : BOOLEAN, old : BOOLEAN, failed : BOOLEAN]
ReadRows    == [peer : Users, group : Groups \cup {NoGroup}, old : BOOLEAN]

Rows ==
  /\ adding \subseteq Groups
  /\ \A g \in adding : owner[g.kp] # NoUser /\ owner[g.kp] # g.by
  /\ \A u, p \in Users : pending[u][p] # NoRow => RowOf(u, p, pending[u][p].group)
  /\ \A u \in Users : \A r \in due[u] : RowOf(u, r.peer, r.group)
  /\ pending \in [Users -> [Users -> PendingRows]]
  /\ due \in [Users -> SUBSET ReadRows]

\* The sweep has seen an Ack only of a group that was joined.
Jobs ==
  /\ job \in [Users -> [peer : Users \cup {NoUser}, group : Groups \cup {NoGroup},
                        old : BOOLEAN, res : {"idle", "wait", "ok", "err"}]]
  /\ \A u \in Users : /\ job[u].res = "ok" => job[u].group \in joined
                      /\ job[u].res # "idle" => job[u].peer \in Users

\* The users at the two ends of a connection.
Ends(c, u, p) ==
  /\ c \in Circs /\ u # p
  /\ \/ circ[c].from = u /\ circ[c].to = p
     \/ circ[c].from = p /\ circ[c].to = u

\* A connection that an actor of u has, or is to have, to p; the accept task has
\* handed it over if u was dialled.
Held(c, u, p) == Ends(c, u, p) /\ (circ[c].to = u => circ[c].end = "actor")

Linked ==
  /\ circ \in [Circs -> [from : Users \cup {NoUser}, to : Users \cup {NoUser},
                         end : {"free", "new", "await", "actor"}]]
  /\ \A c \in Circs : circ[c] # NoCirc =>
       circ[c].from \in Users /\ circ[c].to \in Users /\ circ[c].from # circ[c].to

\* An actor has each connection once.
CurOK(u, p)  == cur[u][p] # 0 => Held(cur[u][p], u, p)
CtrlOK(u, p) == \A c \in Entries(ctrl[u][p]) : Held(c, u, p) /\ c # cur[u][p]

Actors ==
  /\ Linked
  /\ cur \in [Users -> [Users -> Circs \cup {0}]]
  /\ ctrl \in [Users -> [Users -> Queues]]
  /\ \A u, p \in Users : CurOK(u, p) /\ CtrlOK(u, p)

\* A Welcome travels between the committer of its group and the one it is for.
WireOK ==
  \A f \in wire :
    /\ f.kind = "ack" => f.group \in joined
    /\ f.kind = "welcome" => f.group \in made /\ Ends(f.on, f.group.by, f.to)

Inv == Once /\ Rows /\ Jobs /\ Actors /\ WireOK

-----------------------------------------------------------------------------
(* Queues *)

\* Induction over the naturals, for a set.
LEMMA SetInduction ==
  ASSUME NEW S, 0 \in S, \A n \in Nat : n \in S => n+1 \in S
  PROVE  Nat \subseteq S
<1> SUFFICES ASSUME Nat \ S # {} PROVE FALSE
  OBVIOUS
<1>1. IsWellFoundedOn(OpToRel(<,Nat), Nat)
  BY NatLessThanWellFounded, Zenon
<1> DEFINE R == OpToRel(<,Nat)
<1>2. \A x,y \in Nat : x < y => <<x,y>> \in R
  BY Zenon DEF OpToRel
<1> HIDE DEF R
<1>3. PICK x \in Nat \ S : \A y \in Nat \ S : ~ (<<y, x>> \in R)
  BY <1>1, WFMin, Zenon DEF R
<1>4. x # 0 /\ x-1 \in Nat /\ x - 1 < x /\ (x-1)+1 = x
  OBVIOUS
<1>5. x-1 \in S
  BY <1>2, <1>3, <1>4, Zenon
<1> QED
  BY <1>4, <1>5, <1>3, Zenon

\* f takes the first entries of q that are not in cs.
Keeps(f, q, cs, n) ==
  /\ f \in [0..n -> Seq(Circs)]
  /\ f = [i \in 0..n |-> IF i = 0 THEN <<>>
                         ELSE IF q[i] \in cs THEN f[i - 1] ELSE Append(f[i - 1], q[i])]

\* What it takes are entries of q, none twice.
KeepsTo(f, q, cs, n) ==
  /\ f[n] \in Queues
  /\ \A i \in 1..Len(f[n]) : f[n][i] \notin cs /\ \E j \in 1..n : f[n][i] = q[j]

\* Such an f exists for every queue.
LEMMA KeepsExists ==
  ASSUME NEW q \in Queues, NEW cs
  PROVE  \E f : Keeps(f, q, cs, Len(q)) /\ KeepsTo(f, q, cs, Len(q))
<1> DEFINE S == {n \in Nat : n <= Len(q) => \E f : Keeps(f, q, cs, n) /\ KeepsTo(f, q, cs, n)}
<1>1. 0 \in S
  <2> DEFINE f == [i \in 0..0 |-> <<>>]
  <2>1. Keeps(f, q, cs, 0)
    BY DEF Keeps
  <2>2. KeepsTo(f, q, cs, 0)
    BY DEF KeepsTo, Queues
  <2> QED
    BY <2>1, <2>2, Zenon
<1>2. ASSUME NEW n \in Nat, n \in S PROVE n + 1 \in S
  <2> SUFFICES ASSUME n + 1 <= Len(q)
               PROVE  \E f : Keeps(f, q, cs, n + 1) /\ KeepsTo(f, q, cs, n + 1)
    OBVIOUS
  <2>1. PICK f : Keeps(f, q, cs, n) /\ KeepsTo(f, q, cs, n)
    BY <1>2 DEF Queues
  <2> DEFINE x == q[n + 1]
             y == IF x \in cs THEN f[n] ELSE Append(f[n], x)
             g == [i \in 0..(n + 1) |-> IF i = n + 1 THEN y ELSE f[i]]
  <2>2. x \in Circs /\ f[n] \in Seq(Circs)
    BY <2>1 DEF Queues, KeepsTo
  <2>3. y \in Seq(Circs)
    BY <2>2
  <2>4. g \in [0..(n + 1) -> Seq(Circs)]
    BY <2>1, <2>3 DEF Keeps
  <2>5. ASSUME NEW i \in 0..(n + 1)
        PROVE  g[i] = IF i = 0 THEN <<>>
                      ELSE IF q[i] \in cs THEN g[i - 1] ELSE Append(g[i - 1], q[i])
    <3>1. CASE i = n + 1
      BY <3>1
    <3>2. CASE i # n + 1
      <4>1. i \in 0..n /\ (i # 0 => i - 1 \in 0..n)
        BY <3>2
      <4>2. f[i] = IF i = 0 THEN <<>>
                   ELSE IF q[i] \in cs THEN f[i - 1] ELSE Append(f[i - 1], q[i])
        BY <2>1, <4>1, Zenon DEF Keeps
      <4> QED
        BY <4>1, <4>2
    <3> QED
      BY <3>1, <3>2, Zenon
  <2>6. Keeps(g, q, cs, n + 1)
    BY <2>4, <2>5, Zenon DEF Keeps
  <2>7. KeepsTo(g, q, cs, n + 1)
    <3>1. g[n + 1] = y
      OBVIOUS
    <3>2. CASE x \in cs
      BY <2>1, <3>1, <3>2 DEF KeepsTo
    <3>3. CASE x \notin cs
      <4>1. \A i \in 1..Len(f[n]) : f[n][i] # x
        <5> SUFFICES ASSUME NEW i \in 1..Len(f[n]) PROVE f[n][i] # x
          OBVIOUS
        <5>1. PICK j \in 1..n : f[n][i] = q[j]
          BY <2>1, Zenon DEF KeepsTo
        <5>2. j \in 1..Len(q) /\ n + 1 \in 1..Len(q) /\ j # n + 1
          <6>1. Len(q) \in Nat
            BY DEF Queues
          <6> QED
            BY <6>1
        <5>3. q[j] # q[n + 1]
          BY <5>2, Zenon DEF Queues
        <5> QED
          BY <5>1, <5>3, Zenon
      <4> DEFINE z == f[n]
      <4>2. z \in Seq(Circs) /\ (\A i, j \in 1..Len(z) : z[i] = z[j] => i = j) /\ \A i \in 1..Len(z) : z[i] # x
        BY <2>1, <4>1, Zenon DEF KeepsTo, Queues
      <4>3. \A i \in 1..Len(z) : z[i] \notin cs /\ \E j \in 1..n : z[i] = q[j]
        BY <2>1, Zenon DEF KeepsTo
      <4> HIDE DEF z, x
      <4>4. /\ Append(z, x) \in Seq(Circs) /\ Len(Append(z, x)) = Len(z) + 1
            /\ \A i \in 1..Len(z) : Append(z, x)[i] = z[i]
            /\ Append(z, x)[Len(z) + 1] = x
        BY <2>2, <4>2
      <4>5. Append(z, x) \in Queues
        <5> DEFINE w == Append(z, x)
        <5>1. /\ w \in Seq(Circs) /\ Len(w) = Len(z) + 1 /\ Len(z) \in Nat
              /\ \A i \in 1..Len(z) : w[i] = z[i]
              /\ w[Len(z) + 1] = x
          BY <4>2, <4>4
        <5> HIDE DEF w
        <5>2. ASSUME NEW i \in 1..Len(w), NEW j \in 1..Len(w), w[i] = w[j] PROVE i = j
          <6>1. CASE i \in 1..Len(z) /\ j \in 1..Len(z)
            BY <4>2, <5>1, <5>2, <6>1, Zenon
          <6>2. CASE i = Len(z) + 1 \/ j = Len(z) + 1
            BY <4>2, <5>1, <5>2, <6>2
          <6> QED
            BY <5>1, <6>1, <6>2
        <5>3. w \in Queues
          BY <5>1, <5>2, Zenon DEF Queues
        <5> QED
          BY <5>3, Zenon DEF w
      <4>6. \A i \in 1..Len(Append(z, x)) :
              Append(z, x)[i] \notin cs /\ \E j \in 1..(n + 1) : Append(z, x)[i] = q[j]
        <5> TAKE i \in 1..Len(Append(z, x))
        <5>1. CASE i \in 1..Len(z)
          BY <4>3, <4>4, <5>1
        <5>2. CASE i = Len(z) + 1
          BY <3>3, <4>4, <5>2 DEF x
        <5> QED
          BY <4>2, <4>4, <5>1, <5>2
      <4>7. g[n + 1] = Append(z, x)
        BY <3>1, <3>3, Zenon DEF z
      <4> HIDE DEF g
      <4> QED
        BY <4>5, <4>6, <4>7, Zenon DEF KeepsTo
    <3> QED
      BY <3>2, <3>3, Zenon
  <2> HIDE DEF g
  <2> QED
    BY <2>6, <2>7, Zenon
<1>3. Nat \subseteq S
  <2> HIDE DEF S
  <2> QED
    BY <1>1, <1>2, SetInduction, Zenon
<1>4. Len(q) \in Nat
  BY DEF Queues
<1> QED
  BY <1>3, <1>4

\* The queue that is left.
LEMMA WithoutQueue ==
  ASSUME NEW q \in Queues, NEW cs
  PROVE  /\ Without(q, cs) \in Queues
         /\ \A i \in 1..Len(Without(q, cs)) :
              /\ Without(q, cs)[i] \notin cs
              /\ \E j \in 1..Len(q) : Without(q, cs)[i] = q[j]
<1> DEFINE F == CHOOSE f : f = [i \in 0..Len(q) |-> IF i = 0 THEN <<>>
                         ELSE IF q[i] \in cs THEN f[i - 1] ELSE Append(f[i - 1], q[i])]
<1>1. Without(q, cs) = F[Len(q)]
  BY Zenon DEF Without
<1>n. Len(q) \in Nat
  BY DEF Queues
<1>2. PICK f : Keeps(f, q, cs, Len(q)) /\ KeepsTo(f, q, cs, Len(q))
  BY KeepsExists, Zenon
<1>3. F = [i \in 0..Len(q) |-> IF i = 0 THEN <<>>
                         ELSE IF q[i] \in cs THEN F[i - 1] ELSE Append(F[i - 1], q[i])]
  BY <1>2, Zenon DEF Keeps
<1> HIDE DEF F
<1> DEFINE S == {n \in Nat : n <= Len(q) => F[n] = f[n]}
<1>4. 0 \in S
  BY <1>2, <1>3, <1>n DEF Keeps
<1>5. ASSUME NEW n \in Nat, n \in S PROVE n + 1 \in S
  <2> SUFFICES ASSUME n + 1 <= Len(q) PROVE F[n + 1] = f[n + 1]
    OBVIOUS
  <2>1. n + 1 \in 0..Len(q) /\ n + 1 # 0 /\ (n + 1) - 1 = n
    BY <1>n
  <2>2. F[n + 1] = IF q[n + 1] \in cs THEN F[n] ELSE Append(F[n], q[n + 1])
    BY <1>3, <2>1, Zenon
  <2>3. f[n + 1] = IF q[n + 1] \in cs THEN f[n] ELSE Append(f[n], q[n + 1])
    BY <1>2, <2>1, Zenon DEF Keeps
  <2> QED
    BY <1>5, <2>2, <2>3, <1>n
<1>6. Nat \subseteq S
  <2> HIDE DEF S
  <2> QED
    BY <1>4, <1>5, SetInduction, Zenon
<1>7. F[Len(q)] = f[Len(q)]
  BY <1>6, <1>n
<1> QED
  BY <1>1, <1>2, <1>7, Zenon DEF KeepsTo

\* The same, of the entries of queues.
LEMMA WithoutEntries ==
  ASSUME NEW q \in Queues, NEW cs
  PROVE  Without(q, cs) \in Queues /\ Entries(Without(q, cs)) \subseteq Entries(q) \ cs
BY WithoutQueue DEF Entries

LEMMA AppendEntries ==
  ASSUME NEW q \in Queues, NEW c \in Circs, c \notin Entries(q)
  PROVE  Append(q, c) \in Queues /\ Entries(Append(q, c)) = Entries(q) \cup {c}
<1> DEFINE w == Append(q, c)
<1>1. /\ w \in Seq(Circs) /\ Len(w) = Len(q) + 1 /\ Len(q) \in Nat
      /\ \A i \in 1..Len(q) : w[i] = q[i]
      /\ w[Len(q) + 1] = c
  BY DEF Queues
<1>2. \A i, j \in 1..Len(q) : q[i] = q[j] => i = j
  BY Zenon DEF Queues
<1>3. \A i \in 1..Len(q) : q[i] # c
  BY Zenon DEF Entries
<1> HIDE DEF w
<1>4. ASSUME NEW i \in 1..Len(w), NEW j \in 1..Len(w), w[i] = w[j] PROVE i = j
  <2>1. CASE i \in 1..Len(q) /\ j \in 1..Len(q)
    BY <1>1, <1>2, <1>4, <2>1, Zenon
  <2>2. CASE i = Len(q) + 1 \/ j = Len(q) + 1
    BY <1>1, <1>3, <1>4, <2>2
  <2> QED
    BY <1>1, <2>1, <2>2
<1>5. w \in Queues
  BY <1>1, <1>4, Zenon DEF Queues
<1>6. Entries(w) = Entries(q) \cup {c}
  <2>1. ASSUME NEW i \in 1..Len(w) PROVE w[i] \in Entries(q) \cup {c}
    BY <1>1, <2>1 DEF Entries
  <2>2. ASSUME NEW i \in 1..Len(q) PROVE q[i] \in Entries(w)
    BY <1>1, <2>2 DEF Entries
  <2>3. c \in Entries(w)
    BY <1>1 DEF Entries
  <2> QED
    BY <2>1, <2>2, <2>3, Zenon DEF Entries
<1> QED
  BY <1>5, <1>6, Zenon DEF w

LEMMA HeadEntries ==
  ASSUME NEW q \in Queues, q # <<>>
  PROVE  /\ Head(q) \in Entries(q) /\ Tail(q) \in Queues
         /\ Entries(Tail(q)) \subseteq Entries(q) \ {Head(q)}
<1>1. /\ Len(q) \in Nat \ {0} /\ Head(q) = q[1] /\ Tail(q) \in Seq(Circs)
      /\ Len(Tail(q)) = Len(q) - 1
      /\ \A i \in 1..(Len(q) - 1) : Tail(q)[i] = q[i + 1]
  BY DEF Queues
<1>2. \A i, j \in 1..Len(q) : q[i] = q[j] => i = j
  BY Zenon DEF Queues
<1> DEFINE w == Tail(q)
<1> HIDE DEF w
<1>3. \A i \in 1..Len(w) : i \in 1..(Len(q) - 1) /\ w[i] = q[i + 1] /\ i + 1 \in 1..Len(q)
  BY <1>1 DEF w
<1>4. \A i, j \in 1..Len(w) : w[i] = w[j] => i = j
  BY <1>1, <1>2, <1>3
<1>5. w \in Queues
  BY <1>1, <1>4, Zenon DEF Queues, w
<1>6. \A i \in 1..Len(w) : w[i] \in Entries(q) /\ w[i] # q[1]
  BY <1>1, <1>2, <1>3 DEF Entries
<1>7. Head(q) \in Entries(q)
  BY <1>1 DEF Entries
<1> QED
  BY <1>1, <1>5, <1>6, <1>7, Zenon DEF Entries, w

\* A dial gets a connection that nobody has.
LEMMA NextCircFresh == ASSUME CanDial PROVE NextCirc \in Circs /\ Fresh(NextCirc)
<1> DEFINE F == {c \in Circs : Fresh(c)}
<1>1. F \subseteq Nat /\ F # {}
  BY CircsAssumption, Zenon DEF CanDial
<1>2. IsWellFoundedOn(OpToRel(<, Nat), Nat)
  BY NatLessThanWellFounded, Zenon
<1> DEFINE R == OpToRel(<, Nat)
<1>3. \A x, y \in Nat : x < y => <<x, y>> \in R
  BY Zenon DEF OpToRel
<1> HIDE DEF R, F
<1>4. PICK x \in F : \A y \in F : ~ (<<y, x>> \in R)
  BY <1>1, <1>2, WFMin, Zenon DEF R
<1>5. ASSUME NEW y \in F PROVE x <= y
  <2>1. x \in Nat /\ y \in Nat /\ ~ (y < x)
    BY <1>1, <1>3, <1>4, Zenon
  <2> QED
    BY <2>1
<1>6. x \in Circs /\ Fresh(x) /\ \A d \in Circs : Fresh(d) => x <= d
  BY <1>4, <1>5, Zenon DEF F
<1> QED
  BY <1>6, Zenon DEF NextCirc

-----------------------------------------------------------------------------
(* What a step leaves alone *)

\* An update of a table with a row per pair of users.
LEMMA Put ==
  ASSUME NEW T, NEW f \in [Users -> [Users -> T]], NEW u \in Users, NEW p \in Users, NEW x \in T,
         NEW h, h = [f EXCEPT ![u][p] = x]
  PROVE  /\ h \in [Users -> [Users -> T]] /\ h[u][p] = x
         /\ \A v, w \in Users : ~(v = u /\ w = p) => h[v][w] = f[v][w]
OBVIOUS

LEMMA OnceFrame ==
  ASSUME Once, UNCHANGED <<owner, consumed, outstanding, acks, made, joined>>
  PROVE  Once'
BY Zenon DEF Once, SingleUse

LEMMA RowsFrame ==
  ASSUME Rows, adding' \subseteq adding, made \subseteq made',
         UNCHANGED <<owner, pending, due>>
  PROVE  Rows'
BY Zenon DEF Rows, RowOf

LEMMA JobsFrame ==
  ASSUME Jobs, joined \subseteq joined', UNCHANGED job PROVE Jobs'
BY Zenon DEF Jobs

LEMMA ActorsFrame == ASSUME Actors, UNCHANGED <<circ, cur, ctrl>> PROVE Actors'
BY DEF Actors, Linked, CurOK, CtrlOK, Ends, Held

LEMMA WireFrame ==
  ASSUME WireOK, wire' \subseteq wire, made \subseteq made', joined \subseteq joined',
         UNCHANGED circ
  PROVE  WireOK'
BY Zenon DEF WireOK, Ends

\* The commands and timers that leave the network alone.
LEMMA NetFrame ==
  ASSUME Inv, UNCHANGED net, made \subseteq made', joined \subseteq joined'
  PROVE  Actors' /\ WireOK'
<1>1. UNCHANGED <<circ, cur, ctrl>> /\ wire' \subseteq wire
  BY Zenon DEF net
<1> QED
  BY <1>1, ActorsFrame, WireFrame, Zenon DEF Inv

-----------------------------------------------------------------------------
(* Connections that end *)

\* The sweep is told at most that its connection ended.
Told(u) ==
  \/ job'[u] = job[u]
  \/ job[u].res = "wait" /\ job'[u] = [job[u] EXCEPT !.res = "err"]
  \/ job'[u] = Idle

LEMMA JobsTold ==
  ASSUME Jobs, joined \subseteq joined', job' = [u \in Users |-> job'[u]],
         \A u \in Users : Told(u)
  PROVE  Jobs'
<1> DEFINE J == [peer : Users \cup {NoUser}, group : Groups \cup {NoGroup},
                 old : BOOLEAN, res : {"idle", "wait", "ok", "err"}]
<1>1. Idle \in J /\ Idle.res = "idle"
  BY Zenon DEF Idle
<1>2. ASSUME NEW u \in Users
      PROVE  /\ job'[u] \in J /\ (job'[u].res = "ok" => job'[u].group \in joined')
             /\ job'[u].res # "idle" => job'[u].peer \in Users
  <2>1. /\ job[u] \in J /\ (job[u].res = "ok" => job[u].group \in joined)
        /\ job[u].res # "idle" => job[u].peer \in Users
    BY Zenon DEF Jobs
  <2>2. CASE job[u].res = "wait" /\ job'[u] = [job[u] EXCEPT !.res = "err"]
    BY <2>1, <2>2, Zenon
  <2> QED
    BY <1>1, <2>1, <2>2, Zenon DEF Told
<1> QED
  BY <1>2, Zenon DEF Jobs

LEMMA Cut ==
  ASSUME Linked, WireOK, NEW cs \in SUBSET Circs,
         circ' = [c \in Circs |-> IF c \in cs THEN NoCirc ELSE circ[c]],
         wire' = {f \in wire : f.on \notin cs},
         made \subseteq made', joined \subseteq joined'
  PROVE  /\ Linked' /\ WireOK'
         /\ \A c \in Circs \ cs : \A u, p : Held(c, u, p) => Held(c, u, p)'
<1>1. \A c \in Circs \ cs : circ'[c] = circ[c]
  OBVIOUS
<1>2. \A c \in Circs \ cs : \A u, p : Ends(c, u, p) => Ends(c, u, p)'
  BY <1>1, Zenon DEF Ends
<1>3. \A c \in Circs \ cs : \A u, p : Held(c, u, p) => Held(c, u, p)'
  BY <1>1, <1>2, Zenon DEF Held
<1>4. Linked'
  <2>1. NoCirc \in [from : Users \cup {NoUser}, to : Users \cup {NoUser},
                    end : {"free", "new", "await", "actor"}]
    BY Zenon DEF NoCirc
  <2> QED
    BY <2>1, Zenon DEF Linked
<1>5. WireOK'
  <2> SUFFICES ASSUME NEW f \in wire'
               PROVE  /\ f.kind = "ack" => f.group \in joined'
                      /\ f.kind = "welcome" => f.group \in made' /\ Ends(f.on, f.group.by, f.to)'
    BY Zenon DEF WireOK
  <2>1. f \in wire /\ f.on \notin cs
    OBVIOUS
  <2> QED
    BY <1>2, <2>1, Zenon DEF WireOK, Ends
<1> QED
  BY <1>3, <1>4, <1>5, Zenon

\* What is left of the actors' connections once those of cs have ended.
LEMMA CutActors ==
  ASSUME Actors, NEW cs \in SUBSET Circs
  PROVE  /\ CurWithout(cs) \in [Users -> [Users -> Circs \cup {0}]]
         /\ CtrlWithout(cs) \in [Users -> [Users -> Queues]]
         /\ \A u, p \in Users :
              /\ CurWithout(cs)[u][p] # 0 =>
                   CurWithout(cs)[u][p] = cur[u][p] /\ cur[u][p] \notin cs
              /\ Entries(CtrlWithout(cs)[u][p]) \subseteq Entries(ctrl[u][p]) \ cs
<1>1. CurWithout(cs) \in [Users -> [Users -> Circs \cup {0}]]
  BY Zenon DEF Actors, CurWithout
<1>2. \A u, p \in Users : ctrl[u][p] \in Queues
  BY Zenon DEF Actors
<1>3. CtrlWithout(cs) \in [Users -> [Users -> Queues]]
  BY <1>2, WithoutEntries, Zenon DEF CtrlWithout
<1>4. ASSUME NEW u \in Users, NEW p \in Users
      PROVE  /\ CurWithout(cs)[u][p] # 0 =>
                  CurWithout(cs)[u][p] = cur[u][p] /\ cur[u][p] \notin cs
             /\ Entries(CtrlWithout(cs)[u][p]) \subseteq Entries(ctrl[u][p]) \ cs
  <2>1. CurWithout(cs)[u][p] = IF cur[u][p] \in cs THEN 0 ELSE cur[u][p]
    BY Zenon DEF CurWithout
  <2>2. CtrlWithout(cs)[u][p] = Without(ctrl[u][p], cs)
    BY Zenon DEF CtrlWithout
  <2> QED
    BY <1>2, <2>1, <2>2, WithoutEntries, Zenon
<1> QED
  BY <1>1, <1>3, <1>4, Zenon

LEMMA ActorsStep ==
  ASSUME Linked', NEW C \in [Users -> [Users -> Circs \cup {0}]],
         NEW Q \in [Users -> [Users -> Queues]], cur' = C, ctrl' = Q,
         \A u, p \in Users : C[u][p] # 0 => Held(C[u][p], u, p)',
         \A u, p \in Users : \A c \in Entries(Q[u][p]) : Held(c, u, p)' /\ c # C[u][p]
  PROVE  Actors'
<1>1. ASSUME NEW u \in Users, NEW p \in Users PROVE CurOK(u, p)' /\ CtrlOK(u, p)'
  <2>1. CurOK(u, p)'
    BY DEF CurOK, Held, Ends
  <2>2. CtrlOK(u, p)'
    BY DEF CtrlOK, Held, Ends
  <2> QED
    BY <2>1, <2>2, Zenon
<1> QED
  BY <1>1, Zenon DEF Actors

LEMMA CutAll ==
  ASSUME Actors, WireOK, NEW cs \in SUBSET Circs,
         circ' = [c \in Circs |-> IF c \in cs THEN NoCirc ELSE circ[c]],
         wire' = {f \in wire : f.on \notin cs},
         cur' = CurWithout(cs), ctrl' = CtrlWithout(cs),
         made \subseteq made', joined \subseteq joined'
  PROVE  Actors' /\ WireOK'
<1>1. /\ Linked' /\ WireOK'
      /\ \A c \in Circs \ cs : \A u, p : Held(c, u, p) => Held(c, u, p)'
  BY Cut, Zenon DEF Actors
<1> DEFINE C == CurWithout(cs)
           Q == CtrlWithout(cs)
<1>2. /\ C \in [Users -> [Users -> Circs \cup {0}]]
      /\ Q \in [Users -> [Users -> Queues]]
      /\ \A u, p \in Users :
           /\ C[u][p] # 0 => C[u][p] = cur[u][p] /\ cur[u][p] \notin cs
           /\ Entries(Q[u][p]) \subseteq Entries(ctrl[u][p]) \ cs
  BY CutActors, Zenon
<1> HIDE DEF C, Q
<1>3. cur' = C /\ ctrl' = Q
  BY Zenon DEF C, Q
<1>0. 0 \notin Circs
  BY CircsAssumption, Zenon
<1>4. ASSUME NEW u \in Users, NEW p \in Users PROVE CurOK(u, p)'
  <2>1. CASE C[u][p] # 0
    <3> DEFINE c == cur[u][p]
    <3>1. Held(c, u, p) /\ C[u][p] = c /\ c \in Circs \ cs
      BY <1>2, <2>1 DEF Actors, CurOK
    <3>2. Held(c, u, p)'
      BY <1>1, <1>2, <1>3, <3>1, Zenon
    <3> QED
      BY <1>3, <3>1, <3>2, Zenon DEF CurOK
  <2> QED
    BY <1>3, <2>1, Zenon DEF CurOK
<1>5. ASSUME NEW u \in Users, NEW p \in Users PROVE CtrlOK(u, p)'
  <2> SUFFICES ASSUME NEW c \in Entries(Q[u][p]) PROVE Held(c, u, p)' /\ c # C[u][p]
    BY <1>3, Zenon DEF CtrlOK
  <2>1. c \in Entries(ctrl[u][p]) /\ c \notin cs
    BY <1>2, Zenon
  <2>2. Held(c, u, p) /\ c # cur[u][p] /\ c \in Circs
    BY <2>1 DEF Actors, CtrlOK, Held, Ends
  <2> QED
    BY <1>0, <1>1, <1>2, <2>1, <2>2, Zenon
<1> QED
  BY <1>1, <1>2, <1>3, <1>4, <1>5, Zenon DEF Actors

-----------------------------------------------------------------------------
(* Commands and timers *)

LEMMA InvCreateInvite ==
  ASSUME Inv, NEW u \in Users, NEW k \in Invites, CreateInvite(u, k) PROVE Inv'
<1> USE DEF Inv
<1>1. /\ owner[k] = NoUser /\ owner' = [owner EXCEPT ![k] = u]
      /\ outstanding' = outstanding \cup {k}
      /\ UNCHANGED <<acks, consumed, pending, adding, net, sweep, made, joined>>
  BY Zenon DEF CreateInvite, InvitePut
<1>2. /\ owner' \in [Invites -> Users \cup {NoUser}] /\ owner'[k] # NoUser
      /\ \A j \in Invites : owner[j] # NoUser => owner'[j] = owner[j] /\ j # k
  BY <1>1, NamesAssumption, Zenon DEF Once
<1>3. Once'
  <2>1. \A g \in joined : g.kp \in Invites
    BY Zenon DEF Once, Groups
  <2> QED
    BY <1>1, <1>2, <2>1, Zenon DEF Once, SingleUse
<1>4. Rows'
  <2>1. \A g \in adding : g.kp \in Invites
    BY Zenon DEF Rows, Groups
  <2> QED
    BY <1>1, <1>2, <2>1 DEF Rows, RowOf, sweep
<1>5. Jobs'
  BY <1>1, JobsFrame, Zenon DEF sweep
<1> QED
  BY <1>1, <1>3, <1>4, <1>5, NetFrame, Zenon

LEMMA InvQuiet ==
  ASSUME Inv, UNCHANGED <<owner, consumed, outstanding, made, joined, adding, net>>,
         acks' \in [Invites -> Users \cup {NoUser}],
         \A k \in Invites : acks'[k] # NoUser => acks'[k] = acks[k],
         Rows', Jobs'
  PROVE  Inv'
<1> USE DEF Inv
<1>1. Once'
  BY Zenon DEF Once, SingleUse
<1> QED
  BY <1>1, NetFrame, Zenon

LEMMA InvExpire == ASSUME Inv, NEW k \in Invites, Expire(k) PROVE Inv'
<1> USE DEF Inv
<1>1. UNCHANGED <<owner, outstanding, acks, consumed, pending, adding, net, sweep,
                  made, joined>>
  BY Zenon DEF Expire
<1>2. Rows' /\ Jobs'
  BY <1>1, RowsFrame, JobsFrame, Zenon DEF sweep
<1> QED
  BY <1>1, <1>2, InvQuiet, Zenon DEF Once

\* A row that changes keeps its group.
LEMMA RowsUpdate ==
  ASSUME Rows, NEW u \in Users, NEW p \in Users,
         NEW x \in PendingRows,
         x # NoRow => pending[u][p] # NoRow /\ x.group = pending[u][p].group,
         pending' = [pending EXCEPT ![u][p] = x],
         UNCHANGED <<owner, adding, made, due>>
  PROVE  Rows'
<1>1. /\ pending' \in [Users -> [Users -> PendingRows]]
      /\ \A v, w \in Users : pending'[v][w] = IF v = u /\ w = p THEN x ELSE pending[v][w]
  BY Zenon DEF Rows
<1>2. \A v, w \in Users : pending'[v][w] # NoRow => RowOf(v, w, pending'[v][w].group)
  BY <1>1, Zenon DEF Rows
<1> QED
  BY <1>1, <1>2 DEF Rows, RowOf

LEMMA NoRowType ==
  NoRow \in PendingRows
BY Zenon DEF NoRow, PendingRows

LEMMA RowsDeleted ==
  ASSUME Rows, NEW u \in Users, NEW p \in Users, pending' = PendingDeleted(u, p),
         UNCHANGED <<owner, adding, made, due>>
  PROVE  Rows'
BY NoRowType, RowsUpdate, Zenon DEF PendingDeleted

LEMMA RowFields ==
  ASSUME NEW x \in PendingRows, NEW b \in BOOLEAN
  PROVE  /\ [x EXCEPT !.due = b] \in PendingRows
         /\ [x EXCEPT !.old = b] \in PendingRows
         /\ [x EXCEPT !.failed = b] \in PendingRows
         /\ [x EXCEPT !.due = b].group = x.group /\ [x EXCEPT !.old = b].group = x.group
         /\ [x EXCEPT !.failed = b].group = x.group
BY Zenon DEF PendingRows

\* reschedule, mark_failed and the two clocks change a row that is there.
LEMMA RowsTouched ==
  ASSUME Rows, NEW u \in Users, NEW p \in Users, pending[u][p] # NoRow, NEW b \in BOOLEAN,
         \/ pending' = [pending EXCEPT ![u][p].due = b]
         \/ pending' = [pending EXCEPT ![u][p].old = b]
         \/ pending' = [pending EXCEPT ![u][p].failed = b],
         UNCHANGED <<owner, adding, made, due>>
  PROVE  Rows'
<1> DEFINE x == pending[u][p]
<1>1. x \in PendingRows
  BY Zenon DEF Rows
<1>2. CASE pending' = [pending EXCEPT ![u][p].due = b]
  <2>1. pending' = [pending EXCEPT ![u][p] = [x EXCEPT !.due = b]]
    BY <1>2, Zenon
  <2> DEFINE y == [x EXCEPT !.due = b]
  <2>2. y \in PendingRows /\ y.group = x.group
    BY <1>1, RowFields, Zenon
  <2> HIDE DEF y
  <2> QED
    BY <2>1, <2>2, RowsUpdate, Zenon DEF y
<1>3. CASE pending' = [pending EXCEPT ![u][p].old = b]
  <2>1. pending' = [pending EXCEPT ![u][p] = [x EXCEPT !.old = b]]
    BY <1>3, Zenon
  <2> DEFINE y == [x EXCEPT !.old = b]
  <2>2. y \in PendingRows /\ y.group = x.group
    BY <1>1, RowFields, Zenon
  <2> HIDE DEF y
  <2> QED
    BY <2>1, <2>2, RowsUpdate, Zenon DEF y
<1>4. CASE pending' = [pending EXCEPT ![u][p].failed = b]
  <2>1. pending' = [pending EXCEPT ![u][p] = [x EXCEPT !.failed = b]]
    BY <1>4, Zenon
  <2> DEFINE y == [x EXCEPT !.failed = b]
  <2>2. y \in PendingRows /\ y.group = x.group
    BY <1>1, RowFields, Zenon
  <2> HIDE DEF y
  <2> QED
    BY <2>1, <2>2, RowsUpdate, Zenon DEF y
<1> QED
  BY <1>2, <1>3, <1>4, Zenon

LEMMA InvClocks ==
  ASSUME Inv, NEW u \in Users, NEW p \in Users, RetryDue(u, p) \/ GrowsOld(u, p)
  PROVE  Inv'
<1> USE DEF Inv
<1>1. /\ pending[u][p] # NoRow
      /\ \/ pending' = [pending EXCEPT ![u][p].due = TRUE]
         \/ pending' = [pending EXCEPT ![u][p].old = TRUE]
      /\ UNCHANGED <<owner, outstanding, acks, consumed, adding, net, sweep, made, joined>>
  BY Zenon DEF RetryDue, GrowsOld, IsPending, invites
<1>2. Rows' /\ Jobs'
  BY <1>1, RowsTouched, JobsFrame, Zenon DEF sweep
<1> QED
  BY <1>1, <1>2, InvQuiet, Zenon DEF Once

LEMMA InvRemoveContact ==
  ASSUME Inv, NEW u \in Users, NEW p \in Users, RemoveContact(u, p) PROVE Inv'
<1> USE DEF Inv
<1>1. /\ pending' = PendingDeleted(u, p)
      /\ acks' = AcksDeleted(u, p) \/ acks' = acks
      /\ UNCHANGED <<owner, outstanding, consumed, adding, net, sweep, made, joined>>
  BY Zenon DEF RemoveContact, invites
<1>2. /\ acks' \in [Invites -> Users \cup {NoUser}]
      /\ \A k \in Invites : acks'[k] # NoUser => acks'[k] = acks[k]
  BY <1>1, ZenonT(60) DEF AcksDeleted, Once
<1>3. Rows' /\ Jobs'
  BY <1>1, RowsDeleted, JobsFrame, Zenon DEF sweep
<1> QED
  BY <1>1, <1>2, <1>3, InvQuiet, Zenon

LEMMA InvAddCommit ==
  ASSUME Inv, NEW g \in adding, AddCommit(g) PROVE Inv'
<1> USE DEF Inv
<1>1. /\ adding' \subseteq adding /\ g \in Groups /\ owner[g.kp] # NoUser
      /\ owner[g.kp] # g.by /\ g.by \in Users /\ g.kp \in Invites
      /\ UNCHANGED <<owner, outstanding, acks, net, sweep, joined>>
  BY Zenon DEF AddCommit, invites, Rows, Groups
<1>2. CASE AddAdmitted(g)
  <2>1. /\ consumed' = [consumed EXCEPT ![g.by] = @ \cup {g.kp}]
        /\ pending' = PendingInserted(g.by, owner[g.kp], g)
        /\ made' = made \cup {g} /\ g.kp \notin consumed[g.by]
    BY <1>2, Zenon DEF AddCommit, AddAdmitted, IsConsumed, MarkConsumed
  <2>2. Once'
    <3>1. /\ consumed' \in [Users -> SUBSET Invites]
          /\ \A v \in Users : consumed[v] \subseteq consumed'[v]
          /\ g.kp \in consumed'[g.by]
      BY <1>1, <2>1, Zenon DEF Once
    <3>2. \A d \in made : d.by = g.by => d.kp # g.kp
      BY <2>1, Zenon DEF Once
    <3>3. SingleUse'
      <4>1. \A d, e \in made' : d.by = e.by /\ d.kp = e.kp => d = e
        BY <2>1, <3>2, Zenon DEF Once, SingleUse
      <4>2. joined' = joined /\ \A d, e \in joined : d.kp = e.kp => d = e
        BY <1>1, Zenon DEF Once, SingleUse
      <4> QED
        BY <4>1, <4>2, Zenon DEF SingleUse
    <3>4. \A d \in made' : d.kp \in consumed'[d.by]
      <4>1. \A d \in made : d.by \in Users
        BY Zenon DEF Once, Groups
      <4> QED
        BY <2>1, <3>1, <4>1, Zenon DEF Once
    <3> QED
      BY <1>1, <2>1, <3>1, <3>3, <3>4, Zenon DEF Once
  <2>3. Rows'
    <3>1. owner[g.kp] \in Users
      BY <1>1, Zenon DEF Once
    <3> DEFINE p == owner[g.kp]
               x == [NoRow EXCEPT !.group = g, !.due = TRUE]
    <3>2. /\ x \in PendingRows
          /\ x.group = g
      BY <1>1, Zenon DEF NoRow, PendingRows
    <3>3. /\ pending' \in [Users -> [Users -> PendingRows]]
          /\ \A v, w \in Users :
               pending'[v][w] = pending[v][w] \/ (v = g.by /\ w = p /\ pending'[v][w] = x)
      <4> HIDE DEF x, p
      <4>1. pending' = pending \/ pending' = [pending EXCEPT ![g.by][p] = x]
        BY <2>1, Zenon DEF PendingInserted, x, p
      <4>2. p \in Users
        BY <3>1, Zenon DEF p
      <4>3. pending \in [Users -> [Users -> PendingRows]]
        BY Zenon DEF Rows
      <4>4. CASE pending' = [pending EXCEPT ![g.by][p] = x]
        <5>1. g.by \in Users /\ x \in PendingRows
          BY <1>1, <3>2, Zenon
        <5>2. /\ pending' \in [Users -> [Users -> PendingRows]] /\ pending'[g.by][p] = x
              /\ \A v, w \in Users : ~(v = g.by /\ w = p) => pending'[v][w] = pending[v][w]
          BY <4>2, <4>3, <4>4, <5>1, Put, Zenon
        <5> QED
          BY <5>2, Zenon
      <4> QED
        BY <4>1, <4>3, <4>4, Zenon
    <3>4. \A v, w \in Users : (pending[v][w] # NoRow => RowOf(v, w, pending[v][w].group))'
      <4> HIDE DEF x
      <4> QED
        BY <1>1, <2>1, <3>1, <3>2, <3>3 DEF Rows, RowOf
    <3> QED
      BY <1>1, <2>1, <3>3, <3>4, Zenon DEF Rows, RowOf, sweep
  <2> QED
    BY <1>1, <2>1, <2>2, <2>3, JobsFrame, NetFrame, Zenon DEF sweep
<1>3. CASE ~AddAdmitted(g)
  <2>1. UNCHANGED <<consumed, pending, made>>
    BY <1>3, Zenon DEF AddCommit
  <2> QED
    BY <1>1, <2>1, OnceFrame, RowsFrame, JobsFrame, NetFrame, Zenon DEF sweep
<1> QED
  BY <1>2, <1>3, Zenon

LEMMA InvSweepBegin == ASSUME Inv, NEW u \in Users, SweepBegin(u) PROVE Inv'
<1> USE DEF Inv
<1>1. /\ due' = [due EXCEPT ![u] = DueRows(u)]
      /\ UNCHANGED <<owner, outstanding, acks, consumed, pending, adding, net, job,
                     made, joined>>
  BY Zenon DEF SweepBegin, tables, invites
<1>2. ASSUME NEW r \in DueRows(u)
      PROVE  /\ r \in ReadRows
             /\ RowOf(u, r.peer, r.group)
  <2>1. PICK p \in Users :
          /\ r = [peer |-> p, group |-> pending[u][p].group, old |-> pending[u][p].old]
          /\ pending[u][p].due
    BY Zenon DEF DueRows
  <2>2. pending[u][p] # NoRow
    BY <2>1 DEF NoRow
  <2>3. pending[u][p].group \in Groups \cup {NoGroup} /\ pending[u][p].old \in BOOLEAN
    BY Zenon DEF Rows, PendingRows
  <2> QED
    BY <2>1, <2>2, <2>3, Zenon DEF Rows, ReadRows
<1>3. Rows'
  <2>1. /\ due' \in [Users -> SUBSET ReadRows]
        /\ \A v \in Users : due'[v] = due[v] \/ (v = u /\ due'[v] = DueRows(u))
    BY <1>1, <1>2, Zenon DEF Rows
  <2> QED
    BY <1>1, <1>2, <2>1, Zenon DEF Rows, RowOf
<1>4. Jobs'
  BY <1>1, JobsFrame, Zenon
<1> QED
  BY <1>1, <1>3, <1>4, InvQuiet, Zenon DEF Once

LEMMA InvSweepTimeout == ASSUME Inv, NEW u \in Users, SweepTimeout(u) PROVE Inv'
<1> USE DEF Inv
<1>1. /\ job[u].res = "wait" /\ job' = [job EXCEPT ![u].res = "err"]
      /\ UNCHANGED <<owner, outstanding, acks, consumed, pending, adding, net, due,
                     made, joined>>
  BY Zenon DEF SweepTimeout, tables, invites
<1>2. Rows'
  BY <1>1, RowsFrame, Zenon
<1>3. Jobs'
  <2>1. job' = [v \in Users |-> job'[v]] /\ \A v \in Users : Told(v)
    BY <1>1, Zenon DEF Jobs, Told
  <2> QED
    BY <1>1, <2>1, JobsTold, Zenon
<1> QED
  BY <1>1, <1>2, <1>3, InvQuiet, Zenon DEF Once

LEMMA InvSweepFinish == ASSUME Inv, NEW u \in Users, SweepFinish(u) PROVE Inv'
<1> USE DEF Inv
<1> DEFINE p == job[u].peer
<1>1. /\ job[u].res \in {"ok", "err"} /\ job' = [job EXCEPT ![u] = Idle]
      /\ UNCHANGED <<owner, outstanding, acks, consumed, adding, net, due, made, joined>>
  BY Zenon DEF SweepFinish, invites
<1>2. Jobs'
  <2>1. job' = [v \in Users |-> job'[v]] /\ \A v \in Users : Told(v)
    BY <1>1, Zenon DEF Jobs, Told
  <2> QED
    BY <1>1, <2>1, JobsTold, Zenon
<1>3. Rows'
  <2>1. \/ pending' = PendingDeleted(u, p) \/ pending' = pending
        \/ /\ pending[u][p] # NoRow
           /\ \/ pending' = [pending EXCEPT ![u][p].failed = TRUE]
              \/ pending' = [pending EXCEPT ![u][p].due = FALSE]
    BY <1>1, Zenon DEF SweepFinish, OnWelcomeAcked, PendingFailed, PendingRescheduled, IsPending
  <2>2. CASE p \in Users
    BY <1>1, <2>1, <2>2, RowsDeleted, RowsTouched, RowsFrame, Zenon
  <2>3. CASE p \notin Users
    BY <1>1, <2>1, <2>3, Zenon DEF Jobs
  <2> QED
    BY <2>2, <2>3, Zenon
<1> QED
  BY <1>1, <1>2, <1>3, InvQuiet, Zenon DEF Once

-----------------------------------------------------------------------------
(* Connections *)

LEMMA InvBreak == ASSUME Inv, NEW c \in Circs, Break(c) PROVE Inv'
<1> USE DEF Inv
<1>1. /\ circ' = [d \in Circs |-> IF d \in {c} THEN NoCirc ELSE circ[d]]
      /\ wire' = {f \in wire : f.on \notin {c}}
      /\ cur' = CurWithout({c}) /\ ctrl' = CtrlWithout({c})
      /\ UNCHANGED <<owner, outstanding, acks, consumed, pending, adding, due, made, joined>>
  BY Zenon DEF Break, Ended, tables, invites
<1>2. /\ job' = [u \in Users |-> job'[u]] /\ \A u \in Users : Told(u)
  BY Zenon DEF Break, Ended, Told
<1>3. Actors' /\ WireOK'
  BY <1>1, CutAll, Zenon
<1> QED
  BY <1>1, <1>2, <1>3, OnceFrame, RowsFrame, JobsTold, Zenon

LEMMA InvRestart == ASSUME Inv, NEW u \in Users, Restart(u) PROVE Inv'
<1> USE DEF Inv
<1> DEFINE mine == {c \in Circs : u \in {circ[c].from, circ[c].to}}
<1>1. /\ circ' = [d \in Circs |-> IF d \in mine THEN NoCirc ELSE circ[d]]
      /\ wire' = {f \in wire : f.on \notin mine}
      /\ cur' = CurWithout(mine) /\ ctrl' = CtrlWithout(mine)
      /\ adding' \subseteq adding /\ due' = [due EXCEPT ![u] = {}]
      /\ UNCHANGED <<owner, outstanding, acks, consumed, pending, made, joined>>
  BY Zenon DEF Restart, tables, invites
<1>2. /\ job' = [v \in Users |-> job'[v]] /\ \A v \in Users : Told(v)
  BY Zenon DEF Restart, Told
<1>3. Actors' /\ WireOK'
  <2>1. mine \in SUBSET Circs
    OBVIOUS
  <2> HIDE DEF mine
  <2> QED
    BY <1>1, <2>1, CutAll, Zenon
<1>4. Rows'
  <2>1. /\ due' \in [Users -> SUBSET ReadRows]
        /\ \A v \in Users : due'[v] \subseteq due[v]
    BY <1>1, Zenon DEF Rows
  <2> QED
    BY <1>1, <2>1, Zenon DEF Rows, RowOf
<1> QED
  BY <1>1, <1>2, <1>3, <1>4, OnceFrame, JobsTold, Zenon

LEMMA InvReplaceConn ==
  ASSUME Inv, NEW u \in Users, NEW p \in Users, ReplaceConn(u, p) PROVE Inv'
<1> USE DEF Inv
<1>0. PICK old, q, h, C0, Q0 :
        /\ old = {cur[u][p]} \ {0} /\ q = ctrl[u][p] /\ h = Head(q)
        /\ C0 = CurWithout(old) /\ Q0 = CtrlWithout(old)
  BY Zenon
<1>1. /\ q # <<>>
      /\ circ' = [d \in Circs |-> IF d \in old THEN NoCirc ELSE circ[d]]
      /\ wire' = {f \in wire : f.on \notin old}
      /\ cur' = [C0 EXCEPT ![u][p] = h] /\ ctrl' = [Q0 EXCEPT ![u][p] = Tail(q)]
      /\ UNCHANGED <<owner, outstanding, acks, consumed, pending, adding, due, made, joined>>
  BY <1>0, Zenon DEF ReplaceConn, Ended, tables, invites
<1>2. /\ job' = [v \in Users |-> job'[v]] /\ \A v \in Users : Told(v)
  BY Zenon DEF ReplaceConn, Ended, Told
<1>3. old \in SUBSET Circs /\ q \in Queues
  BY <1>0 DEF Actors
<1>4. /\ Linked' /\ WireOK'
      /\ \A c \in Circs \ old : \A v, w : Held(c, v, w) => Held(c, v, w)'
  BY <1>1, <1>3, Cut, Zenon DEF Actors
<1>5. /\ h \in Entries(q) /\ Tail(q) \in Queues
      /\ Entries(Tail(q)) \subseteq Entries(q) \ {h}
  BY <1>0, <1>1, <1>3, HeadEntries, Zenon
<1>6. \A c \in Entries(q) : c \in Circs \ old /\ Held(c, u, p)
  BY <1>0 DEF Actors, CtrlOK, Held, Ends
<1>7. /\ C0 \in [Users -> [Users -> Circs \cup {0}]] /\ Q0 \in [Users -> [Users -> Queues]]
      /\ \A v, w \in Users : /\ C0[v][w] # 0 => C0[v][w] = cur[v][w] /\ cur[v][w] \notin old
                             /\ Entries(Q0[v][w]) \subseteq Entries(ctrl[v][w]) \ old
  <2>1. /\ CurWithout(old) \in [Users -> [Users -> Circs \cup {0}]]
        /\ CtrlWithout(old) \in [Users -> [Users -> Queues]]
        /\ \A v, w \in Users :
             /\ CurWithout(old)[v][w] # 0 =>
                  CurWithout(old)[v][w] = cur[v][w] /\ cur[v][w] \notin old
             /\ Entries(CtrlWithout(old)[v][w]) \subseteq Entries(ctrl[v][w]) \ old
    BY <1>3, CutActors, Zenon
  <2> QED
    BY <1>0, <2>1, ZenonT(60)
<1>8. \A v, w \in Users :
        /\ C0[v][w] # 0 => Held(C0[v][w], v, w)'
        /\ \A c \in Entries(Q0[v][w]) : Held(c, v, w)' /\ c # C0[v][w]
  <2> SUFFICES ASSUME NEW v \in Users, NEW w \in Users
               PROVE  /\ C0[v][w] # 0 => Held(C0[v][w], v, w)'
                      /\ \A c \in Entries(Q0[v][w]) : Held(c, v, w)' /\ c # C0[v][w]
    OBVIOUS
  <2>1. /\ cur[v][w] # 0 => Held(cur[v][w], v, w)
        /\ \A c \in Entries(ctrl[v][w]) : Held(c, v, w) /\ c # cur[v][w] /\ c \in Circs
    BY DEF Actors, CurOK, CtrlOK, Held, Ends
  <2>2. C0[v][w] # 0 => Held(C0[v][w], v, w) /\ C0[v][w] \in Circs \ old
    BY <1>7, <2>1
  <2>3. 0 \notin Circs
    BY CircsAssumption, Zenon
  <2>4. \A c \in Entries(Q0[v][w]) : Held(c, v, w) /\ c \in Circs \ old /\ c # C0[v][w]
    <3> SUFFICES ASSUME NEW c \in Entries(Q0[v][w])
                 PROVE  Held(c, v, w) /\ c \in Circs \ old /\ c # C0[v][w]
      OBVIOUS
    <3>1. c \in Entries(ctrl[v][w]) /\ c \notin old
      BY <1>7, Zenon
    <3>2. Held(c, v, w) /\ c # cur[v][w] /\ c \in Circs
      BY <2>1, <3>1, Zenon
    <3>3. c # C0[v][w]
      BY <1>7, <2>3, <3>2, Zenon
    <3> QED
      BY <3>1, <3>2, <3>3, Zenon
  <2> QED
    BY <1>4, <2>2, <2>4, Zenon
<1>9. PICK C, Q : C = [C0 EXCEPT ![u][p] = h] /\ Q = [Q0 EXCEPT ![u][p] = Tail(q)]
  BY Zenon
<1>10. /\ C \in [Users -> [Users -> Circs \cup {0}]] /\ C[u][p] = h
       /\ \A v, w \in Users : ~(v = u /\ w = p) => C[v][w] = C0[v][w]
  BY <1>5, <1>6, <1>7, <1>9, Put, Zenon
<1>11. /\ Q \in [Users -> [Users -> Queues]] /\ Q[u][p] = Tail(q)
       /\ \A v, w \in Users : ~(v = u /\ w = p) => Q[v][w] = Q0[v][w]
  BY <1>5, <1>7, <1>9, Put, Zenon
<1>12. /\ \A v, w \in Users : C[v][w] # 0 => Held(C[v][w], v, w)'
       /\ \A v, w \in Users : \A c \in Entries(Q[v][w]) : Held(c, v, w)' /\ c # C[v][w]
  <2>1. Held(h, u, p)' /\ \A c \in Entries(Tail(q)) : Held(c, u, p)' /\ c # h
    BY <1>4, <1>5, <1>6, Zenon
  <2> SUFFICES ASSUME NEW v \in Users, NEW w \in Users
               PROVE  /\ C[v][w] # 0 => Held(C[v][w], v, w)'
                      /\ \A c \in Entries(Q[v][w]) : Held(c, v, w)' /\ c # C[v][w]
    BY Zenon
  <2>2. CASE v = u /\ w = p
    BY <1>10, <1>11, <2>1, <2>2, Zenon
  <2>3. CASE ~(v = u /\ w = p)
    <3>1. C[v][w] = C0[v][w] /\ Q[v][w] = Q0[v][w]
      BY <1>10, <1>11, <2>3, Zenon
    <3>2. /\ C0[v][w] # 0 => Held(C0[v][w], v, w)'
          /\ \A c \in Entries(Q0[v][w]) : Held(c, v, w)' /\ c # C0[v][w]
      BY <1>8, Zenon
    <3> QED
      BY <3>1, <3>2, Zenon
  <2> QED
    BY <2>2, <2>3, Zenon
<1>13. Actors'
  <2>1. cur' = C /\ ctrl' = Q
    BY <1>1, <1>9, Zenon
  <2> QED
    BY <1>4, <1>10, <1>11, <1>12, <2>1, ActorsStep, Zenon
<1> QED
  BY <1>1, <1>2, <1>4, <1>13, OnceFrame, RowsFrame, JobsTold, Zenon

\* No connection of an actor ends.
LEMMA ActorsKept ==
  ASSUME Actors, Linked', UNCHANGED <<cur, ctrl>>,
         \A d, v, w : Held(d, v, w) => Held(d, v, w)'
  PROVE  Actors'
<1>1. PICK C, Q : C = cur /\ Q = ctrl
  OBVIOUS
<1>2. /\ C \in [Users -> [Users -> Circs \cup {0}]] /\ Q \in [Users -> [Users -> Queues]]
      /\ cur' = C /\ ctrl' = Q
  BY <1>1, Zenon DEF Actors
<1>3. \A v, w \in Users : C[v][w] # 0 => Held(C[v][w], v, w)'
  BY <1>1, Zenon DEF Actors, CurOK
<1>4. \A v, w \in Users : \A d \in Entries(Q[v][w]) : Held(d, v, w)' /\ d # C[v][w]
  BY <1>1, Zenon DEF Actors, CtrlOK
<1> QED
  BY <1>2, <1>3, <1>4, ActorsStep, Zenon

\* A dial: the ends of every other connection stay.
LEMMA DialEnds ==
  ASSUME Actors, NEW u \in Users, NEW p \in Users, u # p, NEW n, CanDial, n = NextCirc,
         circ' = Dialled(n, u, p)
  PROVE  /\ n \in Circs /\ Linked' /\ Held(n, u, p)'
         /\ \A c : \A v, w \in Users : Held(c, v, w) => Held(c, v, w)' /\ c # n
         /\ \A c : \A v \in Users : \A w : Ends(c, v, w) => Ends(c, v, w)'
<1>1. n \in Circs /\ circ[n] = NoCirc
  BY NextCircFresh, Zenon DEF Fresh
<1>2. /\ circ'[n] = [from |-> u, to |-> p, end |-> "new"]
      /\ \A c \in Circs \ {n} : circ'[c] = circ[c]
      /\ Linked'
  BY <1>1, NamesAssumption, Zenon DEF Dialled, Actors, Linked
<1>3. \A c : \A v \in Users : \A w : Ends(c, v, w) => Ends(c, v, w)' /\ c # n
  BY <1>1, <1>2, NamesAssumption DEF Ends, NoCirc
<1>4. \A c : \A v, w \in Users : Held(c, v, w) => Held(c, v, w)' /\ c # n
  BY <1>2, <1>3 DEF Held, Ends
<1>5. Held(n, u, p)'
  BY <1>1, <1>2 DEF Held, Ends
<1> QED
  BY <1>1, <1>2, <1>3, <1>4, <1>5, Zenon

\* A connection goes to the end of an actor's queue.
LEMMA Queued ==
  ASSUME Actors, NEW u \in Users, NEW p \in Users, NEW c \in Circs,
         Linked', Held(c, u, p)', ~Held(c, u, p),
         \A d : \A v, w \in Users : Held(d, v, w) => Held(d, v, w)',
         ctrl' = [ctrl EXCEPT ![u][p] = Append(@, c)], cur' = cur
  PROVE  Actors'
<1>0. PICK C, Q0, q, Q : C = cur /\ Q0 = ctrl /\ q = Append(ctrl[u][p], c) /\ Q = ctrl'
  BY Zenon
<1>1. c \notin Entries(ctrl[u][p]) /\ c # cur[u][p] /\ ctrl[u][p] \in Queues
  <2>1. cur[u][p] # 0 => Held(cur[u][p], u, p)
    BY Zenon DEF Actors, CurOK
  <2>2. 0 \notin Circs
    BY CircsAssumption, Zenon
  <2> QED
    BY <2>1, <2>2, Zenon DEF Actors, CtrlOK
<1>2. q \in Queues /\ Entries(q) = Entries(ctrl[u][p]) \cup {c}
  BY <1>0, <1>1, AppendEntries, Zenon
<1>3. /\ C \in [Users -> [Users -> Circs \cup {0}]] /\ Q0 \in [Users -> [Users -> Queues]]
      /\ \A v, w \in Users : C[v][w] # 0 => Held(C[v][w], v, w)
      /\ \A v, w \in Users : \A d \in Entries(Q0[v][w]) : Held(d, v, w) /\ d # C[v][w]
  BY <1>0, Zenon DEF Actors, CurOK, CtrlOK
<1>4. Q = [Q0 EXCEPT ![u][p] = q]
  BY <1>0, Zenon
<1>5. /\ Q \in [Users -> [Users -> Queues]] /\ Q[u][p] = q
      /\ \A v, w \in Users : ~(v = u /\ w = p) => Q[v][w] = Q0[v][w]
  BY <1>2, <1>3, <1>4, Put
<1>6. /\ \A v, w \in Users : C[v][w] # 0 => Held(C[v][w], v, w)'
      /\ \A v, w \in Users : \A d \in Entries(Q[v][w]) : Held(d, v, w)' /\ d # C[v][w]
  <2> SUFFICES ASSUME NEW v \in Users, NEW w \in Users
               PROVE  /\ C[v][w] # 0 => Held(C[v][w], v, w)'
                      /\ \A d \in Entries(Q[v][w]) : Held(d, v, w)' /\ d # C[v][w]
    BY Zenon
  <2>1. C[v][w] # 0 => Held(C[v][w], v, w)'
    BY <1>3, Zenon
  <2>2. \A d \in Entries(Q0[v][w]) : Held(d, v, w)' /\ d # C[v][w]
    BY <1>3, Zenon
  <2>3. CASE v = u /\ w = p
    <3>1. Entries(Q[v][w]) = Entries(Q0[v][w]) \cup {c} /\ c # C[v][w]
      BY <1>0, <1>1, <1>2, <1>5, <2>3, Zenon
    <3> QED
      BY <2>1, <2>2, <2>3, <3>1, Zenon
  <2>4. CASE ~(v = u /\ w = p)
    BY <1>5, <2>1, <2>2, <2>4, Zenon
  <2> QED
    BY <2>3, <2>4, Zenon
<1>7. cur' = C /\ ctrl' = Q
  BY <1>0, Zenon
<1> QED
  <2>1. C \in [Users -> [Users -> Circs \cup {0}]] /\ Q \in [Users -> [Users -> Queues]]
    BY <1>3, <1>5, Zenon
  <2> QED
    BY <1>6, <1>7, <2>1, ActorsStep, Zenon

LEMMA InvAddDial ==
  ASSUME Inv, NEW u \in Users, NEW k \in Invites, AddDial(u, k) PROVE Inv'
<1> USE DEF Inv
<1>0. PICK n, p : n = NextCirc /\ p = owner[k]
  OBVIOUS
<1>1. /\ p # NoUser /\ p # u /\ CanDial
      /\ adding' = adding \cup {[by |-> u, kp |-> k, h |-> n]}
      /\ circ' = Dialled(n, u, p)
      /\ ctrl' = [ctrl EXCEPT ![u][p] = Append(@, n)]
      /\ UNCHANGED <<owner, outstanding, acks, consumed, pending, cur, wire, due, job,
                     made, joined>>
  BY <1>0, Zenon DEF AddDial, tables, invites, sweep
<1>2. p \in Users
  BY <1>0, <1>1, Zenon DEF Once
<1>3. /\ n \in Circs /\ Linked' /\ Held(n, u, p)'
      /\ \A c : \A v, w \in Users : Held(c, v, w) => Held(c, v, w)' /\ c # n
      /\ \A c : \A v \in Users : \A w : Ends(c, v, w) => Ends(c, v, w)'
  BY <1>0, <1>1, <1>2, DialEnds, Zenon
<1>4. Actors'
  <2>1. ~Held(n, u, p)
    BY <1>2, <1>3, Zenon
  <2> QED
    BY <1>1, <1>2, <1>3, <2>1, Queued, Zenon
<1>5. WireOK'
  <2>1. \A g \in made : g.by \in Users
    BY Zenon DEF Once, Groups
  <2>2. \A f \in wire : f.kind = "welcome" => Ends(f.on, f.group.by, f.to)'
    BY <1>3, <2>1, Zenon DEF WireOK
  <2> QED
    BY <1>1, <2>2, Zenon DEF WireOK
<1>6. Rows'
  <2>1. [by |-> u, kp |-> k, h |-> n] \in Groups
    BY <1>3, Zenon DEF Groups
  <2> QED
    BY <1>0, <1>1, <2>1 DEF Rows, RowOf
<1> QED
  BY <1>1, <1>4, <1>5, <1>6, OnceFrame, JobsFrame, Zenon

\* The accept task has looked at a connection, and keeps it or hands it over.
LEMMA AcceptEnds ==
  ASSUME Actors, NEW c \in Circs, circ[c] # NoCirc,
         NEW e \in {"await", "actor"}, circ' = [circ EXCEPT ![c].end = e],
         circ[c].end # "actor", NEW u, NEW p, u = circ[c].to, p = circ[c].from
  PROVE  /\ Linked' /\ u \in Users /\ p \in Users /\ u # p
         /\ e = "actor" => Held(c, u, p)'
         /\ ~Held(c, u, p)
         /\ \A d, v, w : Ends(d, v, w) => Ends(d, v, w)'
         /\ \A d, v, w : Held(d, v, w) => Held(d, v, w)'
<1>1. circ[c].to \in Users /\ circ[c].from \in Users /\ circ[c].to # circ[c].from
  BY Zenon DEF Actors, Linked
<1>2. /\ \A d \in Circs : /\ circ'[d].from = circ[d].from /\ circ'[d].to = circ[d].to
                          /\ d # c => circ'[d] = circ[d]
      /\ circ'[c].end = e /\ circ' \in [Circs -> [from : Users \cup {NoUser},
                                to : Users \cup {NoUser}, end : {"free", "new", "await", "actor"}]]
  BY Zenon DEF Actors, Linked
<1>3. Linked'
  BY <1>1, <1>2, Zenon DEF Actors, Linked
<1>4. \A d, v, w : Ends(d, v, w) => Ends(d, v, w)'
  BY <1>2, Zenon DEF Ends
<1>5. \A d, v, w : Held(d, v, w) => Held(d, v, w)'
  BY <1>2, <1>4, Zenon DEF Held, Ends
<1>6. e = "actor" => Held(c, u, p)'
  BY <1>1, <1>2, Zenon DEF Held, Ends
<1>7. ~Held(c, u, p)
  BY Zenon DEF Held
<1> QED
  BY <1>1, <1>3, <1>4, <1>5, <1>6, <1>7, Zenon

LEMMA InvAccept == ASSUME Inv, NEW c \in Circs, Accept(c) PROVE Inv'
<1> USE DEF Inv
<1>0. PICK u, p : u = circ[c].to /\ p = circ[c].from
  OBVIOUS
<1>1. /\ circ[c].end = "new" /\ circ[c] # NoCirc
      /\ UNCHANGED <<owner, outstanding, acks, consumed, pending, adding, cur, wire,
                     due, job, made, joined>>
  BY DEF Accept, NoCirc, tables, invites, sweep
<1>2. CASE KnownPeer(u, p)
  <2>1. /\ circ' = [circ EXCEPT ![c].end = "actor"]
        /\ ctrl' = [ctrl EXCEPT ![u][p] = Append(@, c)]
    BY <1>0, <1>2, Zenon DEF Accept
  <2>2. /\ Linked' /\ u \in Users /\ p \in Users /\ Held(c, u, p)' /\ ~Held(c, u, p)
        /\ \A d, v, w : Ends(d, v, w) => Ends(d, v, w)'
        /\ \A d, v, w : Held(d, v, w) => Held(d, v, w)'
    BY <1>0, <1>1, <2>1, AcceptEnds, Zenon
  <2>3. Actors'
    BY <1>1, <2>1, <2>2, Queued, Zenon
  <2>4. WireOK'
    BY <1>1, <2>2 DEF WireOK, Ends
  <2> QED
    BY <1>1, <2>3, <2>4, OnceFrame, RowsFrame, JobsFrame, Zenon
<1>3. CASE ~KnownPeer(u, p)
  <2>1. circ' = [circ EXCEPT ![c].end = "await"] /\ ctrl' = ctrl
    BY <1>0, <1>3, Zenon DEF Accept
  <2>2. /\ Linked'
        /\ \A d, v, w : Ends(d, v, w) => Ends(d, v, w)'
        /\ \A d, v, w : Held(d, v, w) => Held(d, v, w)'
    BY <1>1, <2>1, AcceptEnds, Zenon
  <2>3. Actors'
    BY <1>1, <2>1, <2>2, ActorsKept, Zenon
  <2>4. WireOK'
    BY <1>1, <2>2 DEF WireOK, Ends
  <2> QED
    BY <1>1, <2>3, <2>4, OnceFrame, RowsFrame, JobsFrame, Zenon
<1> QED
  BY <1>2, <1>3, Zenon

-----------------------------------------------------------------------------
(* Welcomes and Acks *)

\* welcome_join_persist of an invite that is still outstanding.
LEMMA OnceJoin ==
  ASSUME Once, NEW u, NEW g \in made, NEW b \in BOOLEAN, JoinPersist(u, g, b),
         JoinedBy(g.kp) = NoUser, PskFound(g.kp), UNCHANGED made
  PROVE  Once'
<1>1. /\ outstanding' = outstanding \ {g.kp} /\ g.kp \in outstanding
      /\ joined' = joined \cup {g} /\ g.kp \in Invites /\ g.by \in Users
      /\ owner[g.kp] # NoUser
      /\ UNCHANGED <<owner, consumed, made>>
  BY Zenon DEF JoinPersist, InviteConsumed, PskFound, Once, Groups
<1>2. \A d \in joined : d.kp # g.kp
  BY <1>1, Zenon DEF Once
<1>3. SingleUse'
  BY <1>1, <1>2, Zenon DEF Once, SingleUse
<1>4. /\ acks' \in [Invites -> Users \cup {NoUser}]
      /\ \A k \in Invites : acks'[k] = acks[k] \/ (k = g.kp /\ acks'[k] = g.by)
  BY <1>1, Zenon DEF JoinPersist, AckInserted, Once
<1>5. \A k \in Invites : acks'[k] # NoUser => \E d \in joined' : d.kp = k /\ d.by = acks'[k]
  BY <1>1, <1>4, Zenon DEF Once
<1> QED
  BY <1>1, <1>3, <1>4, <1>5, Zenon DEF Once

\* What dispatch_welcome_bootstrap acknowledges to the committer is joined.
LEMMA AckOfJoined ==
  ASSUME Once, NEW g \in made, NEW u, NEW h, NEW b,
         Bootstrapped(g, g.by, h),
         IF JoinedBy(g.kp) = NoUser /\ CanJoin(g, h) THEN JoinPersist(u, g, b) ELSE NoJoin
  PROVE  g \in joined'
<1>1. CASE JoinedBy(g.kp) = NoUser /\ CanJoin(g, h)
  BY <1>1, Zenon DEF JoinPersist
<1>2. CASE JoinedBy(g.kp) = g.by /\ g.by # NoUser
  <2>1. joined' = joined
    BY <1>2, Zenon DEF NoJoin
  <2>2. g.kp \in Invites
    BY Zenon DEF Once, Groups
  <2>3. PICK d \in joined : d.kp = g.kp /\ d.by = g.by
    BY <1>2, <2>2, ZenonT(60) DEF Once, JoinedBy
  <2>4. d = g
    BY <2>3, Zenon DEF Once, SingleUse
  <2> QED
    BY <2>1, <2>3, <2>4, Zenon
<1>3. g.by # NoUser
  BY NamesAssumption, Zenon DEF Once, Groups
<1> QED
  BY <1>1, <1>2, <1>3, Zenon DEF Bootstrapped

\* The tables after a Welcome, joined with or not.
LEMMA WelcomeTables ==
  ASSUME Once, Rows, Jobs, NEW g \in made, NEW u, NEW h, NEW b \in BOOLEAN,
         IF JoinedBy(g.kp) = NoUser /\ CanJoin(g, h) THEN JoinPersist(u, g, b) ELSE NoJoin,
         UNCHANGED <<adding, due, made>>
  PROVE  Once' /\ Rows' /\ joined \subseteq joined'
<1>1. CASE JoinedBy(g.kp) = NoUser /\ CanJoin(g, h)
  <2>1. Once'
    BY <1>1, OnceJoin, Zenon DEF CanJoin
  <2>2. joined \subseteq joined' /\ UNCHANGED <<owner, pending>>
    BY <1>1, Zenon DEF JoinPersist
  <2> QED
    BY <2>1, <2>2, RowsFrame, Zenon
<1>2. CASE ~(JoinedBy(g.kp) = NoUser /\ CanJoin(g, h))
  <2>1. UNCHANGED <<owner, outstanding, acks, consumed, pending, joined>>
    BY <1>2, Zenon DEF NoJoin, tables, invites
  <2> QED
    BY <2>1, OnceFrame, RowsFrame, Zenon
<1> QED
  BY <1>1, <1>2, Zenon

LEMMA InvAcceptWelcome == ASSUME Inv, NEW f \in wire, AcceptWelcome(f) PROVE Inv'
<1> USE DEF Inv
<1>0. PICK c, u, p, g : c = f.on /\ u = f.to /\ p = circ[c].from /\ g = f.group
  OBVIOUS
<1>1. /\ f.kind = "welcome" /\ circ[c].end = "await" /\ circ[c].to = u
      /\ IF JoinedBy(g.kp) = NoUser /\ CanJoin(g, c) THEN JoinPersist(u, g, TRUE) ELSE NoJoin
      /\ UNCHANGED <<adding, due, made>>
  BY <1>0, Zenon DEF AcceptWelcome
<1>2. g \in made /\ c \in Circs /\ p = g.by /\ circ[c] # NoCirc
  BY <1>0, <1>1 DEF WireOK, Ends, NoCirc
<1>3. Once' /\ Rows' /\ joined \subseteq joined'
  BY <1>1, <1>2, WelcomeTables, Zenon
<1>4. CASE Bootstrapped(g, p, c)
  <2>1. /\ circ' = [circ EXCEPT ![c].end = "actor"]
        /\ ctrl' = [ctrl EXCEPT ![u][p] = Append(@, c)]
        /\ wire' = (wire \ {f}) \cup {Frame(c, p, "ack", g)}
        /\ UNCHANGED <<cur, job>>
    BY <1>0, <1>4, Zenon DEF AcceptWelcome
  <2>2. g \in joined'
    BY <1>1, <1>2, <1>4, AckOfJoined, Zenon
  <2>3. /\ Linked' /\ u \in Users /\ p \in Users /\ Held(c, u, p)' /\ ~Held(c, u, p)
        /\ \A d, v, w : Ends(d, v, w) => Ends(d, v, w)'
        /\ \A d, v, w : Held(d, v, w) => Held(d, v, w)'
    BY <1>0, <1>1, <1>2, <2>1, AcceptEnds, Zenon
  <2>4. Actors'
    BY <1>2, <2>1, <2>3, Queued, Zenon
  <2>5. WireOK'
    BY <1>1, <1>3, <2>1, <2>2, <2>3 DEF WireOK, Ends, Frame
  <2> QED
    BY <1>3, <2>1, <2>4, <2>5, JobsFrame, Zenon
<1>5. CASE ~Bootstrapped(g, p, c)
  <2>1. /\ circ' = [d \in Circs |-> IF d \in {c} THEN NoCirc ELSE circ[d]]
        /\ wire' = {e \in wire : e.on \notin {c}}
        /\ cur' = CurWithout({c}) /\ ctrl' = CtrlWithout({c})
    BY <1>0, <1>5, Zenon DEF AcceptWelcome, Ended
  <2>2. /\ job' = [v \in Users |-> job'[v]] /\ \A v \in Users : Told(v)
    BY <1>0, <1>5, Zenon DEF AcceptWelcome, Ended, Told
  <2>3. Actors' /\ WireOK'
    BY <1>1, <1>2, <1>3, <2>1, CutAll, Zenon
  <2> QED
    BY <1>3, <2>2, <2>3, JobsTold, Zenon
<1> QED
  BY <1>4, <1>5, Zenon

LEMMA InvDispatchWelcome == ASSUME Inv, NEW f \in wire, DispatchWelcome(f) PROVE Inv'
<1> USE DEF Inv
<1>0. PICK u, p, g : u = f.to /\ p = Other(f.on, u) /\ g = f.group
  OBVIOUS
<1>1. /\ f.kind = "welcome"
      /\ wire' = (wire \ {f}) \cup
                 {Frame(f.on, p, "ack", g) : d \in {e \in {g} : Bootstrapped(e, p, 0)}}
      /\ IF JoinedBy(g.kp) = NoUser /\ CanJoin(g, 0) THEN JoinPersist(u, g, FALSE) ELSE NoJoin
      /\ UNCHANGED <<adding, circ, cur, ctrl, due, job, made>>
  BY <1>0, Zenon DEF DispatchWelcome, sweep
<1>2. g \in made /\ p = g.by
  BY <1>0, <1>1, Zenon DEF WireOK, Ends, Other
<1>3. Once' /\ Rows' /\ joined \subseteq joined'
  BY <1>1, <1>2, WelcomeTables, Zenon
<1>4. WireOK'
  <2>1. Bootstrapped(g, p, 0) => g \in joined'
    BY <1>1, <1>2, AckOfJoined, Zenon
  <2>2. ASSUME NEW e \in wire'
        PROVE  /\ e.kind = "ack" => e.group \in joined'
               /\ e.kind = "welcome" => e \in wire
    BY <1>1, <1>3, <2>1 DEF Frame, WireOK
  <2> QED
    BY <1>1, <2>2, Zenon DEF WireOK, Ends
<1> QED
  BY <1>1, <1>3, <1>4, JobsFrame, ActorsFrame, Zenon

LEMMA InvRecvAck == ASSUME Inv, NEW f \in wire, RecvAck(f) PROVE Inv'
<1> USE DEF Inv
<1>0. PICK u : u = f.to
  OBVIOUS
<1>1. /\ f.kind = "ack" /\ wire' = wire \ {f}
      /\ \/ job' = job
         \/ /\ job[u].group = f.group /\ job[u].res = "wait"
            /\ job' = [job EXCEPT ![u].res = "ok"]
      /\ UNCHANGED <<owner, outstanding, acks, consumed, pending, adding, circ, cur, ctrl,
                     due, made, joined>>
  BY <1>0, Zenon DEF RecvAck, tables, invites
<1>2. Jobs'
  <2>1. f.group \in joined
    BY <1>1, Zenon DEF WireOK
  <2>2. CASE u \in Users
    BY <1>1, <2>1, <2>2 DEF Jobs
  <2>3. CASE u \notin Users
    BY <1>1, <2>3, Zenon DEF Jobs
  <2> QED
    BY <2>2, <2>3, Zenon
<1> QED
  BY <1>1, <1>2, OnceFrame, RowsFrame, ActorsFrame, WireFrame, Zenon

LEMMA InvSweepSend ==
  ASSUME Inv, NEW u \in Users, NEW r \in due[u], SweepSend(u, r) PROVE Inv'
<1> USE DEF Inv
<1>0. PICK p, g, n : p = r.peer /\ g = r.group /\ n = NextCirc
  OBVIOUS
<1>1. /\ p \in Users /\ p # u /\ g \in made /\ g.by = u /\ g \in Groups /\ r.old \in BOOLEAN
  BY <1>0 DEF Rows, RowOf, ReadRows, Once
<1>2. /\ due' = [due EXCEPT ![u] = @ \ {r}] /\ ctrl' = ctrl
      /\ \E res \in {"wait", "err"} :
            job' = [job EXCEPT ![u] = [peer |-> p, group |-> g, old |-> r.old, res |-> res]]
      /\ UNCHANGED <<owner, outstanding, acks, consumed, pending, adding, made, joined>>
  BY <1>0, Zenon DEF SweepSend, tables, invites
<1>3. Rows'
  <2>1. /\ due' \in [Users -> SUBSET ReadRows]
        /\ \A v \in Users : due'[v] \subseteq due[v]
    BY <1>2, Zenon DEF Rows
  <2> QED
    BY <1>2, <2>1, Zenon DEF Rows, RowOf
<1>4. Jobs'
  <2>1. PICK res \in {"wait", "err"} :
          job' = [job EXCEPT ![u] = [peer |-> p, group |-> g, old |-> r.old, res |-> res]]
    BY <1>2, Zenon
  <2> QED
    BY <1>1, <1>2, <2>1, Zenon DEF Jobs
<1>5. CASE cur[u][p] # 0 /\ wire' = wire \cup {Frame(cur[u][p], p, "welcome", g)}
           /\ UNCHANGED <<circ, cur>>
  <2>1. Ends(cur[u][p], u, p)
    BY <1>1, <1>5, Zenon DEF Actors, CurOK, Held
  <2>2. WireOK'
    BY <1>1, <1>2, <1>5, <2>1 DEF WireOK, Frame, Ends
  <2> QED
    BY <1>2, <1>3, <1>4, <1>5, <2>2, OnceFrame, ActorsFrame, Zenon
<1>6. CASE cur[u][p] = 0 /\ CanDial /\ circ' = Dialled(n, u, p)
           /\ cur' = [cur EXCEPT ![u][p] = n]
           /\ wire' = wire \cup {Frame(n, p, "welcome", g)}
  <2>1. /\ n \in Circs /\ Linked' /\ Held(n, u, p)'
        /\ \A c : \A v, w \in Users : Held(c, v, w) => Held(c, v, w)' /\ c # n
        /\ \A c : \A v \in Users : \A w : Ends(c, v, w) => Ends(c, v, w)'
    BY <1>0, <1>1, <1>6, DialEnds, Zenon
  <2>2. WireOK'
    <3>1. \A d \in made : d.by \in Users
      BY Zenon DEF Once, Groups
    <3>2. \A f \in wire : f.kind = "welcome" => Ends(f.on, f.group.by, f.to)'
      BY <2>1, <3>1, Zenon DEF WireOK
    <3>3. Ends(n, u, p)'
      BY <2>1, Zenon DEF Held
    <3>4. PICK e : e = Frame(n, p, "welcome", g)
      OBVIOUS
    <3>5. e.kind = "welcome" /\ e.group = g /\ e.on = n /\ e.to = p
      BY <3>4, Zenon DEF Frame
    <3>6. Ends(e.on, e.group.by, e.to)'
      BY <1>1, <3>3, <3>5, Zenon
    <3>7. wire' = wire \cup {e}
      BY <1>6, <3>4, Zenon
    <3> QED
      BY <1>1, <1>2, <3>2, <3>5, <3>6, <3>7, Zenon DEF WireOK
  <2>3. Actors'
    <3>1. PICK C0, C, Q : C0 = cur /\ C = cur' /\ Q = ctrl
      OBVIOUS
    <3>2. /\ C0 \in [Users -> [Users -> Circs \cup {0}]] /\ Q \in [Users -> [Users -> Queues]]
          /\ \A v, w \in Users : C0[v][w] # 0 => Held(C0[v][w], v, w)
          /\ \A v, w \in Users : \A d \in Entries(Q[v][w]) : Held(d, v, w) /\ d # C0[v][w]
      BY <3>1, Zenon DEF Actors, CurOK, CtrlOK
    <3>3. /\ C \in [Users -> [Users -> Circs \cup {0}]] /\ C[u][p] = n
          /\ \A v, w \in Users : ~(v = u /\ w = p) => C[v][w] = C0[v][w]
      <4>1. C = [C0 EXCEPT ![u][p] = n] /\ n \in Circs \cup {0}
        BY <1>6, <2>1, <3>1, Zenon
      <4> QED
        BY <1>1, <3>2, <4>1, Put
    <3>4. /\ \A v, w \in Users : C[v][w] # 0 => Held(C[v][w], v, w)'
          /\ \A v, w \in Users : \A d \in Entries(Q[v][w]) : Held(d, v, w)' /\ d # C[v][w]
      <4> SUFFICES ASSUME NEW v \in Users, NEW w \in Users
                   PROVE  /\ C[v][w] # 0 => Held(C[v][w], v, w)'
                          /\ \A d \in Entries(Q[v][w]) : Held(d, v, w)' /\ d # C[v][w]
        BY Zenon
      <4>1. /\ \A d \in Entries(Q[v][w]) : Held(d, v, w)' /\ d # C0[v][w] /\ d # n
            /\ C0[v][w] # 0 => Held(C0[v][w], v, w)'
        BY <2>1, <3>2, Zenon
      <4>2. CASE v = u /\ w = p
        BY <2>1, <3>3, <4>1, <4>2, Zenon
      <4>3. CASE ~(v = u /\ w = p)
        <5>1. C[v][w] = C0[v][w]
          BY <3>3, <4>3, Zenon
        <5> QED
          BY <4>1, <5>1, Zenon
      <4> QED
        BY <4>2, <4>3, Zenon
    <3>5. cur' = C /\ ctrl' = Q
      BY <1>2, <3>1, Zenon
    <3>6. C \in [Users -> [Users -> Circs \cup {0}]] /\ Q \in [Users -> [Users -> Queues]]
      BY <3>2, <3>3, Zenon
    <3> QED
      BY <2>1, <3>4, <3>5, <3>6, ActorsStep, Zenon
  <2> QED
    BY <1>2, <1>3, <1>4, <2>2, <2>3, OnceFrame, Zenon
<1>7. CASE UNCHANGED <<circ, cur, wire>>
  BY <1>2, <1>3, <1>4, <1>7, OnceFrame, ActorsFrame, WireFrame, Zenon
<1> QED
  BY <1>0, <1>5, <1>6, <1>7, Zenon DEF SweepSend

-----------------------------------------------------------------------------
(* The theorems *)

LEMMA InvInit == Init => Inv
<1> SUFFICES ASSUME Init PROVE Inv
  OBVIOUS
<1> USE DEF Init
<1>1. Once
  BY Zenon DEF Once, SingleUse
<1>2. Rows
  BY NoRowType, Zenon DEF Rows
<1>3. Jobs
  BY Zenon DEF Jobs, Idle
<1>4. Actors
  <2>1. <<>> \in Queues /\ Entries(<<>>) = {}
    BY DEF Queues, Entries
  <2>2. Linked
    BY Zenon DEF Linked, NoCirc
  <2> QED
    BY <2>1, <2>2, Zenon DEF Actors, CurOK, CtrlOK
<1>5. WireOK
  BY Zenon DEF WireOK
<1> QED
  BY <1>1, <1>2, <1>3, <1>4, <1>5, Zenon DEF Inv

LEMMA InvNext == Inv /\ [Next]_vars => Inv'
<1> SUFFICES ASSUME Inv, [Next]_vars PROVE Inv'
  OBVIOUS
<1>1. CASE UNCHANGED vars
  <2>1. UNCHANGED <<owner, outstanding, acks, consumed, pending, adding, net, due, job,
                    made, joined>>
    BY <1>1, Zenon DEF vars, tables, invites, sweep
  <2> QED
    BY <2>1, OnceFrame, RowsFrame, JobsFrame, NetFrame, Zenon DEF Inv
<1>2. CASE Next
  <2>1. CASE \E u \in Users, k \in Invites : CreateInvite(u, k) \/ AddDial(u, k)
    BY <2>1, InvCreateInvite, InvAddDial, Zenon
  <2>2. CASE \E k \in Invites : Expire(k)
    BY <2>2, InvExpire, Zenon
  <2>3. CASE \E u \in Users : SweepBegin(u) \/ SweepTimeout(u) \/ SweepFinish(u) \/ Restart(u)
    BY <2>3, InvSweepBegin, InvSweepTimeout, InvSweepFinish, InvRestart, Zenon
  <2>4. CASE \E g \in adding : AddCommit(g)
    BY <2>4, InvAddCommit, Zenon
  <2>5. CASE \E u, p \in Users : \/ RemoveContact(u, p) \/ ReplaceConn(u, p)
                                 \/ RetryDue(u, p) \/ GrowsOld(u, p)
    BY <2>5, InvRemoveContact, InvReplaceConn, InvClocks, Zenon
  <2>6. CASE \E c \in Circs : Break(c) \/ Accept(c)
    BY <2>6, InvBreak, InvAccept, Zenon
  <2>7. CASE \E f \in wire : AcceptWelcome(f) \/ DispatchWelcome(f) \/ RecvAck(f)
    BY <2>7, InvAcceptWelcome, InvDispatchWelcome, InvRecvAck, Zenon
  <2>8. CASE \E u \in Users : \E r \in due[u] : SweepSend(u, r)
    BY <2>8, InvSweepSend, Zenon
  <2> QED
    BY <1>2, <2>1, <2>2, <2>3, <2>4, <2>5, <2>6, <2>7, <2>8, Zenon DEF Next
<1> QED
  BY <1>1, <1>2, Zenon

\* The invariant holds in every reachable state.
THEOREM InvHolds == Spec => []Inv
BY InvInit, InvNext, PTL DEF Spec

\* An invite makes at most one group per user who adds it and is joined with at
\* most once, for any users, invites and connections: however add_contact calls
\* overlap (its transaction checks key_packages again), whatever Welcome is
\* presented again on which connection (mark_consumed_in_tx and
\* first_contact_acks), and across RemoveContact and restarts.
THEOREM InviteIsUsedOnce == Spec => []SingleUse
<1>1. Inv => SingleUse
  BY Zenon DEF Inv, Once
<1> QED
  BY <1>1, InvHolds, PTL

\* An Ack, in flight or seen by run_welcome_sweep, is of a group the owner of
\* the invite has joined, whoever else has dialled either side meanwhile: a
\* Welcome is judged by the peer of the connection it arrived on.
THEOREM AckIsOfJoined == Spec => []AckMeansJoined
<1>1. Inv => AckMeansJoined
  BY Zenon DEF Inv, WireOK, Jobs, AckMeansJoined
<1> QED
  BY <1>1, InvHolds, PTL
=============================================================================
