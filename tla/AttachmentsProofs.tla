------------------------- MODULE AttachmentsProofs --------------------------
(***************************************************************************)
(* Proofs about attachment transfers, for any sets of attachments and any  *)
(* chunk count: the accounting of the chunk window, and what the two lanes *)
(* leave behind in the rows, on disk and at the sender.                    *)
(*                                                                         *)
(* First the operators on the chunk window; then the inductive invariant   *)
(* and the steps of the sender, of the chunk sweep, of lost connections    *)
(* and processes and of single rows; then the steps of a transfer          *)
(* (manifests, the chunks and nacks that arrive, requests that time out,   *)
(* the tick of the actor and the mailbox poll); then the theorems.         *)
(***************************************************************************)
EXTENDS Attachments, FiniteSetTheorems, TLAPS

Rows   == [Atts -> {"none", "pending", "complete", "failed"}]
Maps   == [Atts -> SUBSET Chunks]
RxType == [att : Atts \cup {NoAtt}, needed : SUBSET Chunks, tries : [Chunks -> 0..Budget],
           aged : SUBSET Chunks, got : 0..Total]

\* The accounting of a transfer r against the chunks dk on disk.
Accounts(r, dk) ==
    /\ r.needed \cap Flight(r) = {}
    /\ r.got + Cardinality(r.needed) + Cardinality(Flight(r)) = Total
    /\ Chunks \ (r.needed \cup Flight(r)) \subseteq dk[r.att]

RxOK(r, dk) ==
    /\ r \in RxType
    /\ r.aged \subseteq Flight(r)
    /\ Cardinality(Flight(r)) <= Window
    /\ IF r.att = NoAtt THEN Flight(r) = {} ELSE Accounts(r, dk)

\* Requests and AttachmentComplete frames; the latter only for whole files.
WireOK(w, dk) ==
    /\ w \subseteq Frames("request") \cup Frames("complete")
    /\ \A f \in w : f.kind = "complete" => dk[f.att] = Chunks

\* A complete row is whole, and complete rows are the ones reported, once.
RowsOK(st, ev, dk) ==
    \A a \in Atts : /\ st[a] = "complete" => dk[a] = Chunks
                    /\ ev[a] = IF st[a] = "complete" THEN 1 ELSE 0

\* The events once the claims W are reported.
Counted(W) == [a \in Atts |-> received[a] + IF a \in W THEN 1 ELSE 0]

-----------------------------------------------------------------------------
(* The window.                                                             *)

\* The chunks of an attachment are finitely many: Total of them.
LEMMA ChunksFinite ==
    /\ IsFiniteSet(Chunks) /\ Cardinality(Chunks) = Total /\ 0 \in Chunks
    /\ \A S \in SUBSET Chunks : IsFiniteSet(S) /\ Cardinality(S) \in Nat /\ Cardinality(S) <= Total
<1>1. 0 \in Int /\ Total - 1 \in Int /\ Total \in Nat /\ Total > 0
  BY AttsAssumption
<1>2. IsFiniteSet(Chunks) /\ Cardinality(Chunks) = Total
  <2>1. IsFiniteSet(0..(Total - 1))
    BY <1>1, FS_Interval, Zenon
  <2>2. Cardinality(0..(Total - 1)) = IF 0 > Total - 1 THEN 0 ELSE (Total - 1) - 0 + 1
    BY <1>1, FS_Interval, Zenon
  <2> QED
    BY <1>1, <2>1, <2>2 DEF Chunks
<1>3. ASSUME NEW S \in SUBSET Chunks
      PROVE  IsFiniteSet(S) /\ Cardinality(S) \in Nat /\ Cardinality(S) <= Total
  <2>1. IsFiniteSet(S) /\ Cardinality(S) <= Cardinality(Chunks)
    BY <1>2, FS_Subset, Zenon
  <2> QED
    BY <1>2, <2>1, FS_CardinalityType, Zenon
<1> QED
  BY <1>1, <1>2, <1>3 DEF Chunks

\* Moving the part S of A over to B keeps the sum of their sizes.
LEMMA MoveSizes ==
    ASSUME NEW A \in SUBSET Chunks, NEW B \in SUBSET Chunks, NEW S \in SUBSET A, A \cap B = {}
    PROVE  /\ Cardinality(A \ S) + Cardinality(B \cup S) = Cardinality(A) + Cardinality(B)
           /\ Cardinality(B \cup S) = Cardinality(B) + Cardinality(S)
<1>1. IsFiniteSet(A) /\ IsFiniteSet(B) /\ IsFiniteSet(S)
  BY ChunksFinite, Zenon
<1>2. /\ Cardinality(A) \in Nat /\ Cardinality(B) \in Nat /\ Cardinality(S) \in Nat
  BY ChunksFinite, Zenon
<1>3. Cardinality(A \ S) = Cardinality(A) - Cardinality(A \cap S)
  BY <1>1, FS_Difference, Zenon
<1>4. Cardinality(B \cup S) = Cardinality(B) + Cardinality(S) - Cardinality(B \cap S)
  BY <1>1, FS_Union, Zenon
<1>5. A \cap S = S /\ B \cap S = {}
  OBVIOUS
<1>6. Cardinality(A \cap S) = Cardinality(S)
  BY <1>5, Zenon
<1>7. Cardinality(B \cap S) = 0
  BY <1>5, FS_EmptySet, Zenon
<1> QED
  BY <1>2, <1>3, <1>4, <1>6, <1>7

\* Having no transfer is in order.
LEMMA NoRxOK ==
    ASSUME NEW dk
    PROVE  RxOK(NoRx, dk)
<1>1. Flight(NoRx) = {}
  BY DEF Flight, NoRx
<1>2. Cardinality(Flight(NoRx)) = 0 /\ Window \in Nat
  BY <1>1, FS_EmptySet, AttsAssumption, Zenon
<1>3. NoRx \in RxType
  BY AttsAssumption DEF NoRx, RxType
<1> QED
  BY <1>1, <1>2, <1>3 DEF RxOK, NoRx

\* A new transfer accounts for what the bitmap lacks (ChunkRx::new).
LEMMA NewRxOK ==
    ASSUME NEW a \in Atts, NEW bm \in Maps, NEW dk \in Maps, bm[a] \subseteq dk[a]
    PROVE  RxOK(NewRx(a, bm), dk) /\ Flight(NewRx(a, bm)) = {}
<1> DEFINE r == NewRx(a, bm)
<1>1. Chunks \ bm[a] \in SUBSET Chunks
  OBVIOUS
<1>2. Cardinality(Chunks \ bm[a]) \in Nat /\ Cardinality(Chunks \ bm[a]) <= Total
  BY <1>1, ChunksFinite, Zenon
<1>3. Total \in Nat /\ Window \in Nat /\ Budget \in Nat
  BY AttsAssumption, Zenon
<1>4. Flight(r) = {}
  BY DEF Flight, NewRx
<1>5. Cardinality(Flight(r)) = 0
  BY <1>4, FS_EmptySet, Zenon
<1>6. r \in RxType
  BY <1>2, <1>3 DEF NewRx, RxType
<1>7. Accounts(r, dk)
  <2>1. r.got + Cardinality(r.needed) + Cardinality(Flight(r)) = Total
    BY <1>2, <1>3, <1>5 DEF NewRx
  <2>2. Chunks \ (r.needed \cup Flight(r)) \subseteq dk[r.att]
    BY <1>4, Zenon DEF NewRx
  <2> QED
    BY <1>4, <2>1, <2>2, Zenon DEF Accounts
<1>8. r.aged = {} /\ Cardinality(Flight(r)) <= Window
  BY <1>5, AttsAssumption DEF NewRx
<1> QED
  BY <1>4, <1>6, <1>7, <1>8, Zenon DEF RxOK

\* S may be asked for within the window.
Fits(r, S) == /\ S \subseteq r.needed
              /\ S = {} \/ Cardinality(S) + Cardinality(Flight(r)) <= Window

\* Filling the window keeps the accounting (next_requests).
LEMMA NextRequestsOK ==
    ASSUME NEW dk \in Maps, NEW r, RxOK(r, dk), r.att \in Atts, NEW S, Fits(r, S)
    PROVE  /\ RxOK(NextRequests(r, S), dk)
           /\ NextRequests(r, S).att = r.att
           /\ NextRequests(r, S).aged = r.aged
           /\ Flight(NextRequests(r, S)) = Flight(r) \cup S
           /\ \A i \in Flight(r) : NextRequests(r, S).tries[i] = r.tries[i]
<1> DEFINE n == NextRequests(r, S)
<1>1. /\ r \in RxType /\ r.aged \subseteq Flight(r) /\ Cardinality(Flight(r)) <= Window
      /\ Accounts(r, dk) /\ S \subseteq r.needed
  BY AttsAssumption, Zenon DEF RxOK, Fits
<1>2. Budget \in Nat \ {0} /\ Total \in Nat /\ Window \in Nat
  BY AttsAssumption, Zenon
<1>3. r.needed \in SUBSET Chunks /\ Flight(r) \in SUBSET Chunks /\ S \in SUBSET r.needed
      /\ r.needed \cap Flight(r) = {} /\ r.got \in Nat
  BY <1>1 DEF RxType, Flight, Accounts
<1>4. /\ n.att = r.att /\ n.needed = r.needed \ S /\ n.aged = r.aged /\ n.got = r.got
      /\ n.tries = [i \in Chunks |-> IF i \in S THEN 1 ELSE r.tries[i]]
  BY <1>1, Zenon DEF NextRequests, RxType
<1>5. n \in RxType
  <2>1. [i \in Chunks |-> IF i \in S THEN 1 ELSE r.tries[i]] \in [Chunks -> 0..Budget]
    BY <1>1, <1>2 DEF RxType
  <2>2. r.needed \ S \in SUBSET Chunks
    BY <1>3, Zenon
  <2> QED
    BY <1>1, <2>1, <2>2, Zenon DEF NextRequests, RxType
<1>6. Flight(n) = Flight(r) \cup S
  BY <1>1, <1>3, <1>4 DEF Flight, RxType
<1>7. /\ Cardinality(n.needed) + Cardinality(Flight(n)) = Cardinality(r.needed) + Cardinality(Flight(r))
      /\ Cardinality(Flight(n)) = Cardinality(Flight(r)) + Cardinality(S)
  <2>1. /\ Cardinality(r.needed \ S) + Cardinality(Flight(r) \cup S)
             = Cardinality(r.needed) + Cardinality(Flight(r))
        /\ Cardinality(Flight(r) \cup S) = Cardinality(Flight(r)) + Cardinality(S)
    BY <1>3, MoveSizes, ZenonT(30)
  <2> QED
    BY <1>4, <1>6, <2>1, Zenon
<1>8. Cardinality(Flight(n)) <= Window
  <2>1. CASE S = {}
    <3>1. Flight(n) = Flight(r)
      BY <1>6, <2>1, Zenon
    <3> QED
      BY <3>1, <1>1, Zenon
  <2>2. CASE Cardinality(S) + Cardinality(Flight(r)) <= Window
    <3>1. Cardinality(S) \in Nat /\ Cardinality(Flight(r)) \in Nat
      BY <1>3, ChunksFinite, Zenon
    <3> QED
      BY <2>2, <3>1, <1>7
  <2> QED
    BY <2>1, <2>2, Zenon DEF Fits
<1>9. Accounts(n, dk)
  <2>1. n.got + Cardinality(n.needed) + Cardinality(Flight(n)) = Total
    <3>1. /\ Cardinality(n.needed) \in Nat /\ Cardinality(Flight(n)) \in Nat
          /\ Cardinality(r.needed) \in Nat /\ Cardinality(Flight(r)) \in Nat
      BY <1>3, <1>4, ChunksFinite, Zenon DEF Flight
    <3> QED
      BY <3>1, <1>1, <1>3, <1>4, <1>7 DEF Accounts
  <2>2. n.needed \cap Flight(n) = {}
    BY <1>3, <1>4, <1>6, Zenon
  <2>3. n.needed \cup Flight(n) = r.needed \cup Flight(r)
    BY <1>3, <1>4, <1>6, Zenon
  <2> QED
    BY <1>1, <1>4, <2>1, <2>2, <2>3, Zenon DEF Accounts
<1>10. \A i \in Flight(r) : n.tries[i] = r.tries[i]
  BY <1>3, <1>4, Zenon
<1> QED
  BY <1>1, <1>4, <1>5, <1>6, <1>8, <1>9, <1>10, AttsAssumption, Zenon DEF RxOK

\* Requests taken back are needed again (unsent).
LEMMA UnsentOK ==
    ASSUME NEW dk \in Maps, NEW r, RxOK(r, dk), r.att \in Atts, NEW S \in SUBSET Chunks
    PROVE  /\ RxOK(Unsent(r, S), dk)
           /\ Unsent(r, S).att = r.att
           /\ Unsent(r, S).aged = r.aged \ S
           /\ Flight(Unsent(r, S)) = Flight(r) \ S
           /\ \A i \in Chunks \ S : Unsent(r, S).tries[i] = r.tries[i]
<1> DEFINE n == Unsent(r, S)
           M == S \cap Flight(r)
<1>1. /\ r \in RxType /\ r.aged \subseteq Flight(r) /\ Cardinality(Flight(r)) <= Window
      /\ Accounts(r, dk)
  BY AttsAssumption, Zenon DEF RxOK
<1>2. Budget \in Nat \ {0} /\ Total \in Nat /\ Window \in Nat
  BY AttsAssumption, Zenon
<1>3. /\ r.needed \in SUBSET Chunks /\ Flight(r) \in SUBSET Chunks /\ M \in SUBSET Flight(r)
      /\ Flight(r) \cap r.needed = {} /\ r.got \in Nat
  BY <1>1 DEF RxType, Flight, Accounts
<1>4. /\ n.att = r.att /\ n.needed = r.needed \cup M /\ n.aged = r.aged \ S /\ n.got = r.got
      /\ n.tries = [i \in Chunks |-> IF i \in S THEN 0 ELSE r.tries[i]]
  BY <1>1, Zenon DEF Unsent, RxType
<1>5. n \in RxType
  <2>1. [i \in Chunks |-> IF i \in S THEN 0 ELSE r.tries[i]] \in [Chunks -> 0..Budget]
    BY <1>1, <1>2 DEF RxType
  <2>2. r.needed \cup M \in SUBSET Chunks /\ r.aged \ S \in SUBSET Chunks
    BY <1>1, <1>3, Zenon DEF RxType
  <2> QED
    BY <1>1, <2>1, <2>2, Zenon DEF Unsent, RxType
<1>6. Flight(n) = Flight(r) \ S
  BY <1>1, <1>3, <1>4 DEF Flight, RxType
<1>7. /\ Flight(n) = Flight(r) \ M
      /\ Cardinality(Flight(n)) + Cardinality(n.needed) = Cardinality(Flight(r)) + Cardinality(r.needed)
  <2>1. Cardinality(Flight(r) \ M) + Cardinality(r.needed \cup M)
          = Cardinality(Flight(r)) + Cardinality(r.needed)
    BY <1>3, MoveSizes, ZenonT(30)
  <2>2. Flight(n) = Flight(r) \ M
    BY <1>6, Zenon
  <2> QED
    BY <1>4, <2>1, <2>2, Zenon
<1>8. /\ Cardinality(n.needed) \in Nat /\ Cardinality(Flight(n)) \in Nat
      /\ Cardinality(r.needed) \in Nat /\ Cardinality(Flight(r)) \in Nat
  BY <1>3, <1>4, ChunksFinite, Zenon DEF Flight
<1>9. Cardinality(Flight(n)) <= Window
  <2>1. Cardinality(Flight(n)) <= Cardinality(Flight(r))
    <3>1. IsFiniteSet(Flight(r)) /\ Flight(n) \subseteq Flight(r)
      BY <1>3, <1>6, ChunksFinite, Zenon
    <3> QED
      BY <3>1, FS_Subset, Zenon
  <2> QED
    BY <1>1, <1>2, <1>8, <2>1
<1>10. Accounts(n, dk)
  <2>1. n.got + Cardinality(n.needed) + Cardinality(Flight(n)) = Total
    BY <1>1, <1>3, <1>4, <1>7, <1>8 DEF Accounts
  <2>2. n.needed \cap Flight(n) = {}
    BY <1>3, <1>4, <1>7, Zenon
  <2>3. n.needed \cup Flight(n) = r.needed \cup Flight(r)
    BY <1>3, <1>4, <1>7, Zenon
  <2> QED
    BY <1>1, <1>4, <2>1, <2>2, <2>3, Zenon DEF Accounts
<1>11. n.aged \subseteq Flight(n)
  BY <1>1, <1>4, <1>6, Zenon
<1>12. \A i \in Chunks \ S : n.tries[i] = r.tries[i]
  BY <1>4, Zenon
<1> QED
  BY <1>4, <1>5, <1>6, <1>9, <1>10, <1>11, <1>12, Zenon DEF RxOK

\* Whatever send_chunk_requests achieves, the accounting is kept.
LEMMA SentOK ==
    ASSUME NEW dk \in Maps, NEW r, RxOK(r, dk), r.att \in Atts, NEW S \in SUBSET Chunks, NEW T
    PROVE  /\ RxOK(Sent(r, S, T), dk)
           /\ Sent(r, S, T).att = r.att
           /\ S \cap r.aged = {} => Sent(r, S, T).aged = r.aged
           /\ \A i \in Chunks \ S : Sent(r, S, T).tries[i] = r.tries[i]
<1>1. CASE T = S
  BY <1>1, Zenon DEF Sent
<1>2. CASE T # S
  <2>1. Sent(r, S, T) = Unsent(r, S)
    BY <1>2, Zenon DEF Sent
  <2>2. /\ RxOK(Unsent(r, S), dk) /\ Unsent(r, S).att = r.att
        /\ Unsent(r, S).aged = r.aged \ S
        /\ \A i \in Chunks \ S : Unsent(r, S).tries[i] = r.tries[i]
    BY UnsentOK
  <2>3. S \cap r.aged = {} => r.aged \ S = r.aged
    OBVIOUS
  <2> QED
    BY <2>1, <2>2, <2>3, Zenon
<1> QED
  BY <1>1, <1>2, Zenon

\* Filling the window and trying to write the requests.
LEMMA AskOK ==
    ASSUME NEW dk \in Maps, NEW r, RxOK(r, dk), r.att \in Atts, NEW S, Fits(r, S), NEW T
    PROVE  /\ RxOK(Sent(NextRequests(r, S), S, T), dk)
           /\ Sent(NextRequests(r, S), S, T).att = r.att
           /\ Sent(NextRequests(r, S), S, T).aged = r.aged
           /\ \A i \in Flight(r) : Sent(NextRequests(r, S), S, T).tries[i] = r.tries[i]
<1>1. PICK n : n = NextRequests(r, S)
  OBVIOUS
<1>2. /\ RxOK(n, dk) /\ n.att = r.att /\ n.aged = r.aged
      /\ \A i \in Flight(r) : n.tries[i] = r.tries[i]
  BY <1>1, NextRequestsOK
<1>3. /\ S \in SUBSET Chunks /\ S \cap Flight(r) = {} /\ r.aged \subseteq Flight(r)
      /\ Flight(r) \subseteq Chunks
  BY AttsAssumption, Zenon DEF Fits, RxOK, Accounts, RxType, Flight
<1>4. n.att \in Atts /\ S \cap n.aged = {}
  BY <1>2, <1>3, Zenon
<1>5. /\ RxOK(Sent(n, S, T), dk) /\ Sent(n, S, T).att = n.att /\ Sent(n, S, T).aged = n.aged
      /\ \A i \in Chunks \ S : Sent(n, S, T).tries[i] = n.tries[i]
  BY <1>2, <1>3, <1>4, SentOK
<1> QED
  BY <1>1, <1>2, <1>3, <1>5, Zenon

LEMMA FittedOK ==
    ASSUME NEW dk \in Maps, NEW r, RxOK(r, dk), r.att \in Atts, NEW S, Fits(r, S), NEW T,
           NEW x, x = Sent(NextRequests(r, S), S, T)
    PROVE  /\ RxOK(x, dk) /\ x.att = r.att /\ x.aged = r.aged
           /\ \A i \in Flight(r) : x.tries[i] = r.tries[i]
BY AskOK

\* The transfer x after next_requests filled the window and its requests were
\* written.
LEMMA AskedOK ==
    ASSUME NEW dk \in Maps, NEW r, RxOK(r, dk), r.att \in Atts, NEW S, Fills(r, S), NEW T,
           NEW x, x = Sent(NextRequests(r, S), S, T)
    PROVE  RxOK(x, dk) /\ x.att = r.att
<1>1. Fits(r, S)
  BY Zenon DEF Fills, Fits
<1> QED
  BY <1>1, FittedOK

\* Requests may be added to what is in transit.
LEMMA MoreRequests ==
    ASSUME NEW dk, NEW w, WireOK(w, dk), NEW a \in Atts, NEW T \in SUBSET Chunks
    PROVE  WireOK(w \cup Requests(a, T), dk)
<1>1. Requests(a, T) \subseteq Frames("request") /\ \A f \in Requests(a, T) : f.kind = "request"
  BY DEF Requests, Frames, Frame
<1> QED
  BY <1>1, Zenon DEF WireOK

\* Charging one more attempt to requests whose budget is not spent
\* (on_bad, timed_out).
LEMMA AgainOK ==
    ASSUME NEW dk \in Maps, NEW r, RxOK(r, dk), r.att \in Atts,
           NEW S \in SUBSET Flight(r), ~Spent(r, S)
    PROVE  RxOK(Again(r, S), dk) /\ Again(r, S).att = r.att
<1> DEFINE n == Again(r, S)
<1>1. /\ r \in RxType /\ r.aged \subseteq Flight(r) /\ Cardinality(Flight(r)) <= Window
      /\ Accounts(r, dk)
  BY AttsAssumption, Zenon DEF RxOK
<1>2. Budget \in Nat \ {0}
  BY AttsAssumption, Zenon
<1>3. Flight(r) \in SUBSET Chunks /\ r.tries \in [Chunks -> 0..Budget]
  BY <1>1, Zenon DEF RxType, Flight
<1>4. /\ n.att = r.att /\ n.needed = r.needed /\ n.aged = r.aged \ S /\ n.got = r.got
      /\ n.tries = [i \in Chunks |-> IF i \in S THEN r.tries[i] + 1 ELSE r.tries[i]]
  BY <1>1, Zenon DEF Again, RxType
<1>5. n \in RxType
  <2>1. [i \in Chunks |-> IF i \in S THEN r.tries[i] + 1 ELSE r.tries[i]] \in [Chunks -> 0..Budget]
    <3>1. ASSUME NEW i \in S PROVE r.tries[i] + 1 \in 0..Budget
      <4>1. r.tries[i] \in 0..Budget /\ ~(r.tries[i] >= Budget)
        BY <1>3, <3>1, Zenon DEF Spent
      <4> QED
        BY <1>2, <4>1
    <3> QED
      BY <1>3, <3>1, Zenon
  <2>2. r.aged \ S \in SUBSET Chunks
    BY <1>1, Zenon DEF RxType
  <2> QED
    BY <1>1, <2>1, <2>2, Zenon DEF Again, RxType
<1>6. Flight(n) = Flight(r)
  BY <1>3, <1>4 DEF Flight
<1> QED
  BY <1>1, <1>4, <1>5, <1>6, Zenon DEF RxOK, Accounts

\* ... and trying to write the requests again.
LEMMA RetryOK ==
    ASSUME NEW dk \in Maps, NEW r, RxOK(r, dk), r.att \in Atts,
           NEW S \in SUBSET Flight(r), ~Spent(r, S), NEW T
    PROVE  RxOK(Sent(Again(r, S), S, T), dk) /\ Sent(Again(r, S), S, T).att = r.att
<1>1. PICK n : n = Again(r, S)
  OBVIOUS
<1>2. RxOK(n, dk) /\ n.att = r.att
  BY <1>1, AgainOK, Zenon
<1>3. S \in SUBSET Chunks
  BY Zenon DEF Flight
<1>4. RxOK(Sent(n, S, T), dk) /\ Sent(n, S, T).att = n.att
  BY <1>2, <1>3, SentOK, ZenonT(60)
<1> QED
  BY <1>1, <1>2, <1>4, Zenon

\* A chunk that is on disk may be counted, if it is in flight (on_received).
LEMMA OnReceivedOK ==
    ASSUME NEW dk \in Maps, NEW r, RxOK(r, dk), r.att \in Atts, NEW i \in dk[r.att]
    PROVE  RxOK(OnReceived(r, i), dk) /\ OnReceived(r, i).att = r.att
<1>1. CASE i \notin Flight(r)
  BY <1>1, Zenon DEF OnReceived
<1>2. CASE i \in Flight(r)
  <2> DEFINE n == OnReceived(r, i)
  <2>1. /\ r \in RxType /\ r.aged \subseteq Flight(r) /\ Cardinality(Flight(r)) <= Window
        /\ Accounts(r, dk)
    BY AttsAssumption, Zenon DEF RxOK
  <2>2. Budget \in Nat \ {0} /\ Total \in Nat /\ Window \in Nat
    BY AttsAssumption, Zenon
  <2>3. /\ Flight(r) \in SUBSET Chunks /\ r.tries \in [Chunks -> 0..Budget] /\ i \in Chunks
        /\ r.needed \in SUBSET Chunks /\ r.got \in 0..Total
    BY <1>2, <2>1, Zenon DEF RxType, Flight
  <2>4. /\ n.att = r.att /\ n.needed = r.needed /\ n.aged = r.aged \ {i} /\ n.got = r.got + 1
        /\ n.tries = [r.tries EXCEPT ![i] = 0]
    BY <1>2, <2>1, Zenon DEF OnReceived, RxType
  <2>5. Flight(n) = Flight(r) \ {i}
    BY <2>3, <2>4 DEF Flight
  <2>6. Cardinality(Flight(n)) = Cardinality(Flight(r)) - 1
    <3>1. IsFiniteSet(Flight(r))
      BY <2>3, ChunksFinite, Zenon
    <3> QED
      BY <1>2, <2>5, <3>1, FS_RemoveElement, Zenon
  <2>7. Cardinality(Flight(n)) \in Nat /\ Cardinality(Flight(r)) \in Nat /\ Cardinality(r.needed) \in Nat
    BY <2>3, <2>5, ChunksFinite, Zenon
  <2>8. n.got + Cardinality(n.needed) + Cardinality(Flight(n)) = Total
    BY <2>1, <2>3, <2>4, <2>6, <2>7 DEF Accounts
  <2>9. n \in RxType
    <3>1. r.got + 1 \in 0..Total
      BY <2>2, <2>3, <2>4, <2>7, <2>8
    <3>2. [r.tries EXCEPT ![i] = 0] \in [Chunks -> 0..Budget]
      BY <2>2, <2>3
    <3>3. r.aged \ {i} \in SUBSET Chunks
      BY <2>1, Zenon DEF RxType
    <3> QED
      BY <1>2, <2>1, <3>1, <3>2, <3>3, Zenon DEF OnReceived, RxType
  <2>10. Accounts(n, dk)
    <3>1. Chunks \ (n.needed \cup Flight(n)) \subseteq dk[n.att]
      BY <2>1, <2>4, <2>5, Zenon DEF Accounts
    <3>2. n.needed \cap Flight(n) = {}
      BY <2>1, <2>4, <2>5, Zenon DEF Accounts
    <3> QED
      BY <2>8, <3>1, <3>2, Zenon DEF Accounts
  <2>11. n.aged \subseteq Flight(n) /\ Cardinality(Flight(n)) <= Window
    <3>1. n.aged \subseteq Flight(n)
      BY <2>1, <2>4, <2>5, Zenon
    <3>2. Cardinality(Flight(n)) <= Window
      BY <2>1, <2>2, <2>6, <2>7
    <3> QED
      BY <3>1, <3>2, Zenon
  <2> QED
    BY <2>4, <2>9, <2>10, <2>11, AttsAssumption, Zenon DEF RxOK
<1> QED
  BY <1>1, <1>2, Zenon

\* More on disk does no harm to a transfer.
LEMMA MoreOnDisk ==
    ASSUME NEW dk \in Maps, NEW dk2 \in Maps, NEW r, RxOK(r, dk),
           \A a \in Atts : dk[a] \subseteq dk2[a]
    PROVE  RxOK(r, dk2)
BY Zenon DEF RxOK, Accounts, RxType

\* A complete transfer has everything on disk (is_complete).
LEMMA CompleteRx ==
    ASSUME NEW dk \in Maps, NEW r, RxOK(r, dk), r.att \in Atts, IsComplete(r)
    PROVE  dk[r.att] = Chunks
<1>1. r \in RxType /\ Accounts(r, dk) /\ r.got >= Total
  BY AttsAssumption, Zenon DEF RxOK, IsComplete
<1>2. r.needed \in SUBSET Chunks /\ Flight(r) \in SUBSET Chunks /\ r.got \in Nat /\ Total \in Nat
  BY <1>1, AttsAssumption DEF RxType, Flight
<1>3. Cardinality(r.needed) \in Nat /\ Cardinality(Flight(r)) \in Nat
  BY <1>2, ChunksFinite, Zenon
<1>4. Cardinality(r.needed) = 0 /\ Cardinality(Flight(r)) = 0
  BY <1>1, <1>2, <1>3 DEF Accounts
<1>5. IsFiniteSet(r.needed) /\ IsFiniteSet(Flight(r))
  BY <1>2, ChunksFinite, Zenon
<1>6. r.needed = {} /\ Flight(r) = {}
  BY <1>4, <1>5, FS_EmptySet, Zenon
<1> QED
  BY <1>1, <1>6, Zenon DEF Accounts, Maps

-----------------------------------------------------------------------------
(* Starting the next transfer.                                             *)

Has(s, a) == \E j \in 1..Len(s) : s[j] = a

Below(bm, dk) == \A a \in Atts : bm[a] \subseteq dk[a]

Started(st, q, wire, dk) ==
    /\ in' \in Rows /\ received' \in [Atts -> Nat] /\ queue' \in Seq(Atts)
    /\ RowsOK(in', received', dk)
    /\ RxOK(rx', dk) /\ WireOK(toA', dk)
    /\ ~conn' /\ wire = {} => toA' = {}
    /\ \A a \in Atts : in'[a] = "pending" =>
          st[a] = "pending" /\ (Has(q, a) => rx'.att = a \/ Has(queue', a))

\* What maybe_start_next_rx leaves behind: rows that are whole where they are
\* complete and reported once, a transfer that accounts for its chunks, truthful
\* frames, and a job for every begin of a row that is still pending.
LEMMA StartNextOK ==
    ASSUME NEW st \in Rows, NEW W, NEW bm \in Maps, NEW dk \in Maps, NEW q \in Seq(Atts), NEW wire,
           Below(bm, dk),
           WireOK(wire, dk), received \in [Atts -> Nat],
           RowsOK(st, Counted(W), dk),
           StartNext(st, W, bm, q, wire)
    PROVE  Started(st, q, wire, dk)
<1>1. PICK k \in 0..Len(q), acked \in SUBSET Atts :
        LET F == {q[j] : j \in 1..k}
            w == wire \cup {Frame("complete", a, 0) : a \in acked}
        IN  /\ \A a \in F : bm[a] = Chunks
            /\ acked \subseteq F /\ (conn' \/ acked = {})
            /\ in' = Claim(st, F, "complete")
            /\ Report(W \cup Won(st, F))
            /\ \/ k = Len(q) /\ queue' = <<>> /\ rx' = NoRx /\ toA' = w
               \/ /\ k < Len(q) /\ bm[q[k + 1]] # Chunks
                  /\ queue' = SubSeq(q, k + 2, Len(q))
                  /\ LET r == NewRx(q[k + 1], bm)
                     IN \E S \in SUBSET r.needed, T \in SUBSET r.needed :
                           /\ Fills(r, S) /\ CanWrite(conn', S, T)
                           /\ rx' = Sent(NextRequests(r, S), S, T)
                           /\ toA' = w \cup Requests(r.att, T)
  BY Zenon DEF StartNext
<1> DEFINE F == {q[j] : j \in 1..k}
           w == wire \cup {Frame("complete", a, 0) : a \in acked}
<1>2. /\ \A a \in F : bm[a] = Chunks
      /\ acked \subseteq F /\ (conn' \/ acked = {})
      /\ in' = Claim(st, F, "complete")
      /\ received' = [a \in Atts |-> received[a] + IF a \in W \cup Won(st, F) THEN 1 ELSE 0]
  BY <1>1, Zenon DEF Report
<1>3. Len(q) \in Nat /\ F \subseteq Atts /\ k \in Nat
  OBVIOUS
<1>4. \A a \in F : dk[a] = Chunks
  BY <1>2, <1>3, ZenonT(30) DEF Maps, Below
<1>5. in' \in Rows /\ \A a \in Atts : in'[a] = IF a \in F /\ st[a] = "pending" THEN "complete" ELSE st[a]
  BY <1>2, Zenon DEF Claim, Won, Rows
<1>6. received' \in [Atts -> Nat]
  BY <1>2
<1>7. RowsOK(in', received', dk)
  <2> SUFFICES ASSUME NEW a \in Atts
               PROVE  /\ in'[a] = "complete" => dk[a] = Chunks
                      /\ received'[a] = IF in'[a] = "complete" THEN 1 ELSE 0
    BY Zenon DEF RowsOK
  <2>1. /\ st[a] = "complete" => dk[a] = Chunks
        /\ received[a] + (IF a \in W THEN 1 ELSE 0) = IF st[a] = "complete" THEN 1 ELSE 0
    BY Zenon DEF RowsOK, Counted
  <2>2. CASE a \in Won(st, F)
    <3>1. a \in F /\ st[a] = "pending" /\ in'[a] = "complete"
      BY <1>5, <2>2, Zenon DEF Won
    <3>2. received[a] + (IF a \in W THEN 1 ELSE 0) = 0
      BY <2>1, <3>1, Zenon
    <3>3. received[a] \in Nat
      OBVIOUS
    <3>4. received[a] = 0
      BY <3>2, <3>3
    <3>5. received'[a] = 1
      BY <1>2, <2>2, <3>4
    <3> QED
      BY <1>4, <3>1, <3>5, Zenon
  <2>3. CASE a \notin Won(st, F)
    <3>1. in'[a] = st[a]
      BY <1>5, <2>3, Zenon DEF Won
    <3>2. received'[a] = received[a] + IF a \in W THEN 1 ELSE 0
      BY <1>2, <2>3, Zenon
    <3> QED
      BY <2>1, <3>1, <3>2, Zenon
  <2> QED
    BY <2>2, <2>3, Zenon
<1>8. WireOK(w, dk) /\ (~conn' /\ wire = {} => w = {})
  <2>1. \A a \in acked : /\ Frame("complete", a, 0) \in Frames("complete")
                         /\ Frame("complete", a, 0).att = a /\ dk[a] = Chunks
    BY <1>2, <1>3, <1>4, ChunksFinite, SMT DEF Frames, Frame
  <2> QED
    BY <1>2, <2>1 DEF WireOK
<1>9. CASE k = Len(q) /\ queue' = <<>> /\ rx' = NoRx /\ toA' = w
  <2>1. RxOK(NoRx, dk)
    BY NoRxOK, Zenon
  <2>2. <<>> \in Seq(Atts)
    OBVIOUS
  <2>3. \A a \in Atts : in'[a] = "pending" => st[a] = "pending" /\ ~\E j \in 1..Len(q) : q[j] = a
    BY <1>5, <1>9, Zenon
  <2> QED
    BY <1>5, <1>6, <1>7, <1>8, <1>9, <2>1, <2>2, <2>3, Zenon DEF Started, Has
<1>10. CASE k < Len(q) /\ queue' = SubSeq(q, k + 2, Len(q))
  <2> DEFINE r == NewRx(q[k + 1], bm)
  <2>0. CASE k = Len(q)
    BY <1>3, <1>10, <2>0
  <2>1. CASE k # Len(q)
    <3>1. PICK S \in SUBSET r.needed, T \in SUBSET r.needed :
            /\ Fills(r, S) /\ CanWrite(conn', S, T)
            /\ rx' = Sent(NextRequests(r, S), S, T)
            /\ toA' = w \cup Requests(r.att, T)
      BY <1>1, <2>1, Zenon
    <3>2. q[k + 1] \in Atts /\ k + 1 \in 1..Len(q)
      BY <1>3, <1>10, SMTT(30)
    <3>3. r.att = q[k + 1] /\ r.needed \in SUBSET Chunks
      BY Zenon DEF NewRx
    <3>4. RxOK(r, dk) /\ r.att \in Atts
      BY <3>2, <3>3, NewRxOK, Zenon DEF Below
    <3>7. RxOK(rx', dk) /\ rx'.att = q[k + 1]
      <4>1. Fills(r, S) /\ rx' = Sent(NextRequests(r, S), S, T) /\ RxOK(r, dk) /\ r.att \in Atts
        BY <3>1, <3>4, Zenon
      <4> HIDE DEF r
      <4>2. RxOK(rx', dk) /\ rx'.att = r.att
        BY <4>1, AskedOK
      <4> QED
        BY <3>3, <4>2, Zenon
    <3>9. WireOK(toA', dk)
      BY <1>8, <3>1, <3>3, <3>4, MoreRequests, Zenon
    <3>10. ~conn' /\ wire = {} => toA' = {}
      BY <1>8, <3>1, Zenon DEF CanWrite, Requests
    <3>11. /\ queue' \in Seq(Atts) /\ Len(queue') = Len(q) - k - 1
           /\ \A j \in 1..Len(queue') : queue'[j] = q[j + k + 1]
      BY <1>3, <1>10, SMTT(30)
    <3>12. ASSUME NEW a \in Atts, in'[a] = "pending", NEW j \in 1..Len(q), q[j] = a
           PROVE  rx'.att = a \/ \E l \in 1..Len(queue') : queue'[l] = a
      <4>1. j > k
        BY <1>3, <1>5, <3>12, SMTT(30)
      <4>2. CASE j = k + 1
        BY <3>7, <3>12, <4>2, Zenon
      <4>3. CASE j > k + 1
        <5>1. j - k - 1 \in 1..Len(queue') /\ (j - k - 1) + k + 1 = j
          BY <1>3, <3>11, <4>3, SMT
        <5>2. queue'[j - k - 1] = a
          BY <3>11, <3>12, <5>1, Zenon
        <5> QED
          BY <5>1, <5>2, Zenon
      <4> QED
        BY <1>3, <4>1, <4>2, <4>3
    <3>13. \A a \in Atts : in'[a] = "pending" => st[a] = "pending"
      BY <1>5, Zenon
    <3> QED
      BY <1>5, <1>6, <1>7, <3>7, <3>9, <3>10, <3>11, <3>12, <3>13, Zenon DEF Started, Has
  <2> QED
    BY <2>0, <2>1, Zenon
<1> QED
  BY <1>1, <1>9, <1>10, Zenon

Covered(a) == disk[a] \cup box[a] \cup lost[a]

\* The sender: a chunk that is discarded or marked deposited is covered, and
\* while a file is staged its deposit rows, once written, stay.
SendInv ==
    /\ cmd \in [Atts -> {"none", "announced", "done"}]
    /\ out \in [Atts -> {"none", "pending", "complete"}] /\ staged \subseteq Atts
    /\ dep \in [Atts -> [Chunks -> {"none", "pending", "deposited"}]]
    /\ hand \in [att : Atts \cup {NoAtt}, index : Chunks, at : {"idle", "deposit", "check"}]
    /\ \A a \in Atts :
          /\ cmd[a] # "none" /\ a \notin staged => Chunks \subseteq Covered(a)
          /\ \A i \in Chunks : dep[a][i] = "deposited" => i \in Covered(a)
          /\ \A i \in Chunks : dep[a][i] # "none" => cmd[a] = "done" /\ a \in Offline
          /\ a \in Offline /\ a \in staged /\ cmd[a] = "done" =>
                \A i \in Chunks : dep[a][i] # "none"
          /\ cmd[a] = "announced" => a \in Offline
    /\ hand.at # "idle" => hand.att \in Offline /\ cmd[hand.att] = "done"

\* The recipient: the window accounts for every chunk, rows that are complete
\* are whole and were reported once, and AttachmentComplete is only written,
\* or still travelling, for a file that is whole on disk.
RecvInv ==
    /\ in \in Rows /\ received \in [Atts -> Nat] /\ bitmap \in Maps /\ disk \in Maps
    /\ begins \in Seq(Atts) /\ queue \in Seq(Atts)
    /\ \A a \in Atts : bitmap[a] \subseteq disk[a]
    /\ RowsOK(in, received, disk)
    /\ RxOK(rx, disk) /\ WireOK(toA, disk)
    /\ late \subseteq Atts /\ \A a \in late : disk[a] = Chunks

NetInv ==
    /\ conn \in BOOLEAN /\ toB \subseteq Frames("chunk") \cup Frames("nack")
    /\ conn \/ (toA = {} /\ toB = {})
    /\ box \in Maps /\ lost \in Maps
    /\ poll \in (Atts \cup {NoAtt}) \X Chunks /\ (poll # NoPoll => poll[1] \in Atts)
    /\ stalls \in 0..MaxStalls /\ retries \in 0..MaxRetries /\ restarts \in 0..MaxRestarts

IInv == SendInv /\ RecvInv /\ NetInv /\ PendingIsOwned

\* A step of others that uncovers nothing leaves the sender's part alone.
LEMMA SendFrame ==
    ASSUME SendInv, UNCHANGED senderVars, \A a \in Atts : Covered(a) \subseteq Covered(a)'
    PROVE  SendInv'
<1>1. UNCHANGED <<cmd, out, staged, dep, hand>>
  BY Zenon DEF senderVars
<1> QED
  BY <1>1 DEF SendInv

\* A step that leaves the recipient's own state alone keeps its part.
LEMMA RecvFrame ==
    ASSUME RecvInv, PendingIsOwned, UNCHANGED <<in, storeVars, actorVars, received, restarts>>,
           toA' \subseteq toA, late' \subseteq Atts, \A a \in late' : disk[a] = Chunks
    PROVE  RecvInv' /\ PendingIsOwned'
<1>1. UNCHANGED <<in, bitmap, disk, begins, queue, rx, received, restarts>>
  BY Zenon DEF storeVars, actorVars
<1>2. WireOK(toA', disk')
  BY <1>1, Zenon DEF RecvInv, WireOK
<1>3. RxOK(rx', disk') /\ RowsOK(in', received', disk')
  BY <1>1, Zenon DEF RecvInv
<1>4. RecvInv'
  BY <1>1, <1>2, <1>3, Zenon DEF RecvInv
<1>5. PendingIsOwned'
  BY <1>1, Zenon DEF PendingIsOwned
<1> QED
  BY <1>4, <1>5, Zenon

\* The initial state.
LEMMA InitIInv ==
    Init => IInv
<1> SUFFICES ASSUME Init PROVE IInv
  OBVIOUS
<1> USE DEF Init
<1>1. 0 \in Chunks /\ Nothing \in Maps
  BY ChunksFinite, Zenon DEF Nothing, Maps
<1>2. SendInv
  BY <1>1, AttsAssumption, Zenon DEF SendInv, NoHand
<1>3. RxOK(rx, disk)
  BY NoRxOK, Zenon
<1>4. RecvInv
  <2>1. <<>> \in Seq(Atts)
    OBVIOUS
  <2>2. in \in Rows /\ received \in [Atts -> Nat] /\ RowsOK(in, received, disk)
    BY Zenon DEF Rows, RowsOK
  <2>3. WireOK(toA, disk)
    BY Zenon DEF WireOK
  <2> QED
    BY <1>1, <1>3, <2>1, <2>2, <2>3, Zenon DEF RecvInv
<1>5. NetInv
  <2>1. stalls \in 0..MaxStalls /\ retries \in 0..MaxRetries /\ restarts \in 0..MaxRestarts
    BY AttsAssumption
  <2>2. poll \in (Atts \cup {NoAtt}) \X Chunks
    BY <1>1, Zenon DEF NoPoll
  <2>3. conn \in BOOLEAN
    BY Zenon
  <2> QED
    BY <1>1, <2>1, <2>2, <2>3, Zenon DEF NetInv
<1>6. PendingIsOwned
  BY Zenon DEF PendingIsOwned
<1> QED
  BY <1>2, <1>4, <1>5, <1>6, Zenon DEF IInv

\* The sender's steps other than the two that discard chunks.
LEMMA SenderSteps ==
    ASSUME IInv, NEW a \in Atts, NEW i \in Chunks,
           SendFile(a) \/ EnqueueAll(a) \/ Serve(a, i) \/ SweepTake(a, i)
    PROVE  IInv'
<1> USE DEF IInv
<1>1. UNCHANGED <<in, storeVars, actorVars, received, restarts>> /\ toA' \subseteq toA /\ late' = late
  BY Zenon DEF SendFile, EnqueueAll, Serve, SweepTake, wireVars, bounds
<1>2. RecvInv' /\ PendingIsOwned'
  BY <1>1, RecvFrame, Zenon DEF RecvInv
<1>3. disk' = disk /\ disk \in Maps /\ box \in Maps /\ lost \in Maps
  BY <1>1, Zenon DEF storeVars, RecvInv, NetInv
<1>4. CASE SendFile(a)
  <2>1. SendInv'
    BY <1>3, <1>4 DEF SendInv, SendFile, Covered, boxVars
  <2>2. NetInv'
    BY <1>4, Zenon DEF NetInv, SendFile, boxVars, wireVars, bounds
  <2> QED
    BY <1>2, <2>1, <2>2, Zenon
<1>5. CASE EnqueueAll(a)
  <2>1. SendInv'
    BY <1>3, <1>5 DEF SendInv, EnqueueAll, Covered, boxVars
  <2>2. NetInv'
    BY <1>5, Zenon DEF NetInv, EnqueueAll, boxVars, wireVars, bounds
  <2> QED
    BY <1>2, <2>1, <2>2, Zenon
<1>6. CASE Serve(a, i)
  <2>1. SendInv'
    BY <1>3, <1>6, SendFrame, Zenon DEF Serve, Covered, boxVars
  <2>2. \E f \in Frames("chunk") \cup Frames("nack") : toB' = toB \cup {f}
    BY <1>6 DEF Serve, Replies, Frames
  <2>3. toA # {}
    BY <1>6, Zenon DEF Serve
  <2>4. NetInv'
    BY <1>6, <2>2, <2>3, Zenon DEF NetInv, Serve, boxVars, bounds
  <2> QED
    BY <1>2, <2>1, <2>4, Zenon
<1>7. CASE SweepTake(a, i)
  <2>1. SendInv' /\ lost' \in Maps
    <3>1. CASE /\ a \in staged
               /\ hand' = [att |-> a, index |-> i, at |-> "deposit"]
               /\ UNCHANGED <<dep, lost>>
      BY <1>3, <1>7, <3>1 DEF SendInv, SweepTake, Covered
    <3>2. CASE /\ dep' = [dep EXCEPT ![a][i] = "deposited"]
               /\ lost' = IF a \in staged THEN [lost EXCEPT ![a] = @ \cup {i}] ELSE lost
               /\ UNCHANGED hand
      <4>1. UNCHANGED <<cmd, out, staged, hand, box>> /\ dep[a][i] = "pending"
        BY <1>7, <3>2, Zenon DEF SweepTake
      <4>2. dep' \in [Atts -> [Chunks -> {"none", "pending", "deposited"}]]
        BY <3>2, Zenon DEF SendInv
      <4>3. /\ \A b \in Atts, j \in Chunks :
                  dep'[b][j] = IF b = a /\ j = i THEN "deposited" ELSE dep[b][j]
        BY <3>2, Zenon DEF SendInv
      <4>4. lost' \in Maps /\ \A b \in Atts : lost[b] \subseteq lost'[b]
        BY <1>3, <3>2, Zenon DEF Maps
      <4>5. \A b \in Atts : Covered(b) \subseteq Covered(b)'
        BY <1>3, <4>1, <4>4, Zenon DEF Covered
      <4>6. i \in Covered(a)'
        <5>1. CASE a \in staged
          BY <1>3, <3>2, <5>1, Zenon DEF Covered, Maps
        <5>2. CASE a \notin staged
          <6>1. cmd[a] # "none"
            BY <4>1, Zenon DEF SendInv
          <6> QED
            BY <4>5, <5>2, <6>1, Zenon DEF SendInv
        <5> QED
          BY <5>1, <5>2, Zenon
      <4>7. ASSUME NEW b \in Atts
            PROVE  /\ cmd[b] # "none" /\ b \notin staged => Chunks \subseteq Covered(b)'
                   /\ \A j \in Chunks : dep'[b][j] = "deposited" => j \in Covered(b)'
                   /\ \A j \in Chunks : dep'[b][j] # "none" => cmd[b] = "done" /\ b \in Offline
                   /\ b \in Offline /\ b \in staged /\ cmd[b] = "done" =>
                         \A j \in Chunks : dep'[b][j] # "none"
                   /\ cmd[b] = "announced" => b \in Offline
        BY <4>1, <4>3, <4>5, <4>6 DEF SendInv
      <4> QED
        BY <4>1, <4>2, <4>4, <4>7, Zenon DEF SendInv
    <3> QED
      BY <1>7, <3>1, <3>2, Zenon DEF SweepTake
  <2>2. NetInv'
    BY <1>7, <2>1, Zenon DEF NetInv, SweepTake, wireVars, bounds
  <2> QED
    BY <1>2, <2>1, <2>2, Zenon
<1> QED
  BY <1>4, <1>5, <1>6, <1>7, Zenon

\* AttachmentComplete: the recipient has every chunk on disk.
LEMMA CompleteFrameStep ==
    ASSUME IInv, NEW a \in Atts, CompleteFrame(a)
    PROVE  IInv'
<1> USE DEF IInv
<1>1. /\ UNCHANGED <<in, storeVars, actorVars, received, restarts>>
      /\ toA' \subseteq toA /\ late' \subseteq late
  BY Zenon DEF CompleteFrame, bounds
<1>2. RecvInv' /\ PendingIsOwned'
  BY <1>1, RecvFrame, Zenon DEF RecvInv
<1>3. /\ disk' = disk /\ disk \in Maps /\ UNCHANGED <<box, lost, cmd, hand>>
      /\ out' = [out EXCEPT ![a] = "complete"] /\ staged' = staged \ {a}
      /\ dep' = [dep EXCEPT ![a] = [i \in Chunks |-> "none"]]
  BY <1>1, Zenon DEF storeVars, RecvInv, CompleteFrame, Finished, boxVars
<1>4. disk[a] = Chunks
  <2>1. CASE Frame("complete", a, 0) \in toA
    BY <2>1, Zenon DEF RecvInv, WireOK, Frame
  <2>2. CASE a \in late
    BY <2>2, Zenon DEF RecvInv
  <2> QED
    BY <2>1, <2>2, Zenon DEF CompleteFrame
<1>5. Chunks \subseteq Covered(a)' /\ \A b \in Atts : Covered(b)' = Covered(b)
  BY <1>3, <1>4, Zenon DEF Covered
<1>6. SendInv'
  <2>1. /\ dep' \in [Atts -> [Chunks -> {"none", "pending", "deposited"}]]
        /\ \A b \in Atts, j \in Chunks : dep'[b][j] = IF b = a THEN "none" ELSE dep[b][j]
    BY <1>3, Zenon DEF SendInv
  <2>2. ASSUME NEW b \in Atts
        PROVE  /\ cmd[b] # "none" /\ b \notin staged' => Chunks \subseteq Covered(b)'
               /\ \A j \in Chunks : dep'[b][j] = "deposited" => j \in Covered(b)'
               /\ \A j \in Chunks : dep'[b][j] # "none" => cmd[b] = "done" /\ b \in Offline
               /\ b \in Offline /\ b \in staged' /\ cmd[b] = "done" =>
                     \A j \in Chunks : dep'[b][j] # "none"
               /\ cmd[b] = "announced" => b \in Offline
    BY <1>3, <1>5, <2>1 DEF SendInv
  <2> QED
    BY <1>3, <2>1, <2>2, Zenon DEF SendInv
<1>7. NetInv'
  BY <1>1, Zenon DEF NetInv, CompleteFrame, boxVars, bounds
<1> QED
  BY <1>2, <1>6, <1>7, Zenon

\* A deposit, and the pruning once every row is deposited.
LEMMA SweepSteps ==
    ASSUME IInv, SweepDeposit \/ SweepCheck
    PROVE  IInv'
<1> USE DEF IInv
<1>1. UNCHANGED <<in, storeVars, actorVars, received, restarts, toA, late>>
  BY Zenon DEF SweepDeposit, SweepCheck, wireVars, bounds
<1>2. RecvInv' /\ PendingIsOwned'
  BY <1>1, RecvFrame, Zenon DEF RecvInv
<1>3. disk' = disk /\ disk \in Maps /\ box \in Maps /\ lost \in Maps
  BY <1>1, Zenon DEF storeVars, RecvInv, NetInv
<1>4. PICK a \in Atts, i \in Chunks :
        a = hand.att /\ i = hand.index /\ a \in Offline /\ cmd[a] = "done"
  BY AttsAssumption, Zenon DEF SendInv, SweepDeposit, SweepCheck
<1>5. 0 \in Chunks
  BY ChunksFinite, Zenon
<1>6. CASE SweepDeposit
  <2>1. /\ UNCHANGED <<cmd, out, staged, lost>> /\ box' \in Maps
        /\ \A b \in Atts : box[b] \subseteq box'[b]
    BY <1>3, <1>4, <1>6 DEF SweepDeposit, Maps
  <2>2. \A b \in Atts : Covered(b) \subseteq Covered(b)'
    BY <1>3, <2>1, Zenon DEF Covered
  <2>3. NetInv'
    BY <1>6, <2>1, Zenon DEF NetInv, SweepDeposit, wireVars, bounds
  <2>4. CASE hand' = NoHand /\ UNCHANGED dep
    <3>1. hand' \in [att : Atts \cup {NoAtt}, index : Chunks, at : {"idle", "deposit", "check"}]
          /\ hand'.at = "idle"
      BY <1>5, <2>4, Zenon DEF NoHand
    <3> QED
      BY <1>2, <2>1, <2>2, <2>3, <2>4, <3>1 DEF SendInv
  <2>5. CASE /\ box' = [box EXCEPT ![a] = @ \cup {i}]
             /\ dep' = MarkDeposited(a, i)
             /\ hand' = [hand EXCEPT !.at = "check"]
    <3>1. i \in Covered(a)'
      <4>1. box'[a] = box[a] \cup {i}
        BY <1>3, <1>4, <2>5, Zenon DEF Maps
      <4> QED
        BY <4>1, Zenon DEF Covered
    <3>2. /\ dep' \in [Atts -> [Chunks -> {"none", "pending", "deposited"}]]
          /\ \A b \in Atts, j \in Chunks :
                dep'[b][j] = IF b = a /\ j = i /\ dep[b][j] # "none" THEN "deposited" ELSE dep[b][j]
      BY <1>4, <2>5, Zenon DEF SendInv, MarkDeposited
    <3>3. hand' \in [att : Atts \cup {NoAtt}, index : Chunks, at : {"idle", "deposit", "check"}]
          /\ hand'.att = a
      BY <1>4, <2>5, Zenon DEF SendInv
    <3>4. ASSUME NEW b \in Atts
          PROVE  /\ cmd[b] # "none" /\ b \notin staged => Chunks \subseteq Covered(b)'
                 /\ \A j \in Chunks : dep'[b][j] = "deposited" => j \in Covered(b)'
                 /\ \A j \in Chunks : dep'[b][j] # "none" => cmd[b] = "done" /\ b \in Offline
                 /\ b \in Offline /\ b \in staged /\ cmd[b] = "done" =>
                       \A j \in Chunks : dep'[b][j] # "none"
                 /\ cmd[b] = "announced" => b \in Offline
      <4>1. /\ cmd[b] # "none" /\ b \notin staged => Chunks \subseteq Covered(b)
            /\ \A j \in Chunks : dep[b][j] = "deposited" => j \in Covered(b)
            /\ \A j \in Chunks : dep[b][j] # "none" => cmd[b] = "done" /\ b \in Offline
            /\ b \in Offline /\ b \in staged /\ cmd[b] = "done" =>
                  \A j \in Chunks : dep[b][j] # "none"
            /\ cmd[b] = "announced" => b \in Offline
        BY Zenon DEF SendInv
      <4>2. ASSUME NEW j \in Chunks, dep'[b][j] = "deposited" PROVE j \in Covered(b)'
        <5>1. CASE b = a /\ j = i
          BY <3>1, <5>1, Zenon
        <5>2. CASE ~(b = a /\ j = i)
          <6>1. dep'[b][j] = dep[b][j]
            BY <3>2, <5>2, Zenon
          <6> QED
            BY <2>2, <4>1, <4>2, <6>1, Zenon
        <5> QED
          BY <5>1, <5>2, Zenon
      <4>3. \A j \in Chunks : dep'[b][j] = "none" <=> dep[b][j] = "none"
        BY <3>2, Zenon
      <4> QED
        BY <2>2, <4>1, <4>2, <4>3, Zenon
    <3>5. SendInv'
      BY <1>4, <2>1, <3>2, <3>3, <3>4, Zenon DEF SendInv
    <3> QED
      BY <1>2, <2>3, <3>5, Zenon
  <2> QED
    BY <1>4, <1>6, <2>4, <2>5, Zenon DEF SweepDeposit
<1>7. CASE SweepCheck
  <2>1. UNCHANGED <<cmd, box, lost>> /\ hand' = NoHand
    BY <1>7, Zenon DEF SweepCheck, boxVars
  <2>2. \A b \in Atts : Covered(b)' = Covered(b)
    BY <1>3, <2>1, Zenon DEF Covered
  <2>3. hand' \in [att : Atts \cup {NoAtt}, index : Chunks, at : {"idle", "deposit", "check"}]
        /\ hand'.at = "idle"
    BY <1>5, <2>1, Zenon DEF NoHand
  <2>4. NetInv'
    BY <1>7, Zenon DEF NetInv, SweepCheck, boxVars, wireVars, bounds
  <2>5. CASE ~AllDeposited(a)
    <3>1. UNCHANGED <<dep, staged, out>>
      BY <1>4, <1>7, <2>5, Zenon DEF SweepCheck
    <3> QED
      BY <1>2, <2>1, <2>2, <2>3, <2>4, <3>1 DEF SendInv
  <2>6. CASE AllDeposited(a)
    <3>1. /\ out' = [out EXCEPT ![a] = "complete"] /\ staged' = staged \ {a}
          /\ dep' = [dep EXCEPT ![a] = [j \in Chunks |-> "none"]]
      BY <1>4, <1>7, <2>6, Zenon DEF SweepCheck
    <3>2. Chunks \subseteq Covered(a)
      <4>1. CASE a \notin staged
        BY <1>4, <4>1, Zenon DEF SendInv
      <4>2. CASE a \in staged
        <5>1. \A j \in Chunks : dep[a][j] # "none" /\ dep[a][j] # "pending"
          BY <1>4, <2>6, <4>2, Zenon DEF SendInv, AllDeposited
        <5>2. \A j \in Chunks : dep[a][j] = "deposited"
          BY <1>4, <5>1 DEF SendInv
        <5> QED
          BY <1>4, <5>2, Zenon DEF SendInv
      <4> QED
        BY <4>1, <4>2, Zenon
    <3>3. /\ dep' \in [Atts -> [Chunks -> {"none", "pending", "deposited"}]]
          /\ \A b \in Atts, j \in Chunks : dep'[b][j] = IF b = a THEN "none" ELSE dep[b][j]
      BY <1>4, <3>1, Zenon DEF SendInv
    <3>4. ASSUME NEW b \in Atts
          PROVE  /\ cmd[b] # "none" /\ b \notin staged' => Chunks \subseteq Covered(b)'
                 /\ \A j \in Chunks : dep'[b][j] = "deposited" => j \in Covered(b)'
                 /\ \A j \in Chunks : dep'[b][j] # "none" => cmd[b] = "done" /\ b \in Offline
                 /\ b \in Offline /\ b \in staged' /\ cmd[b] = "done" =>
                       \A j \in Chunks : dep'[b][j] # "none"
                 /\ cmd[b] = "announced" => b \in Offline
      BY <2>2, <3>1, <3>2, <3>3, SMT DEF SendInv
    <3>5. SendInv'
      BY <1>4, <2>1, <2>3, <3>1, <3>3, <3>4, SMT DEF SendInv
    <3> QED
      BY <1>2, <2>4, <3>5, Zenon
  <2> QED
    BY <2>5, <2>6, Zenon
<1> QED
  BY <1>6, <1>7, Zenon

\* Losing the connection, and losing the process.
LEMMA LossSteps ==
    ASSUME IInv, Restart \/ Disconnect
    PROVE  IInv'
<1> USE DEF IInv
<1>1. /\ conn' = FALSE /\ toA' = {} /\ toB' = {}
      /\ late' = late \cup {f.att : f \in {g \in toA : g.kind = "complete"}}
      /\ UNCHANGED <<senderVars, boxVars, in, storeVars, received>>
  BY Zenon DEF Restart, Disconnect, LinkDown
<1>2. UNCHANGED <<bitmap, disk, box, lost>>
  BY <1>1, Zenon DEF storeVars, boxVars
<1>3. late' \subseteq Atts /\ \A a \in late' : disk[a] = Chunks
  BY <1>1 DEF RecvInv, WireOK, Frames, Frame
<1>4. SendInv'
  BY <1>1, <1>2, SendFrame, Zenon DEF Covered
<1>5. CASE Disconnect
  <2>1. UNCHANGED <<actorVars, poll, bounds>> /\ UNCHANGED <<restarts, stalls, retries>>
    BY <1>5, Zenon DEF Disconnect, bounds
  <2>2. RecvInv' /\ PendingIsOwned'
    BY <1>1, <1>3, <2>1, RecvFrame, Zenon
  <2>3. NetInv'
    BY <1>1, <1>2, <2>1, Zenon DEF NetInv
  <2> QED
    BY <1>4, <2>2, <2>3, Zenon
<1>6. CASE Restart
  <2>1. /\ restarts < MaxRestarts /\ restarts' = restarts + 1 /\ UNCHANGED <<stalls, retries>>
        /\ begins' = <<>> /\ queue' = <<>> /\ rx' = NoRx /\ poll' = NoPoll
    BY <1>6, Zenon DEF Restart
  <2>2. restarts' \in 0..MaxRestarts /\ restarts' # 0
    BY <2>1, AttsAssumption DEF NetInv
  <2>3. RxOK(rx', disk)
    BY <2>1, NoRxOK, Zenon
  <2>4. begins' \in Seq(Atts) /\ queue' \in Seq(Atts)
    BY <2>1
  <2>5. WireOK(toA', disk)
    BY <1>1, Zenon DEF WireOK
  <2>6. RecvInv'
    BY <1>1, <1>2, <1>3, <2>3, <2>4, <2>5, Zenon DEF RecvInv
  <2>7. PendingIsOwned'
    BY <2>2, Zenon DEF PendingIsOwned
  <2>8. poll' \in (Atts \cup {NoAtt}) \X Chunks
    BY <2>1, ChunksFinite, Zenon DEF NoPoll
  <2>9. NetInv'
    BY <1>1, <1>2, <2>1, <2>2, <2>8, Zenon DEF NetInv
  <2> QED
    BY <1>4, <2>6, <2>7, <2>9, Zenon
<1> QED
  BY <1>5, <1>6, Zenon

\* Queues keep what they hold when they are joined or extended.
LEMMA HasJoined ==
    ASSUME NEW s \in Seq(Atts), NEW t \in Seq(Atts), NEW a \in Atts, NEW b \in Atts
    PROVE  /\ s \o t \in Seq(Atts) /\ Append(s, b) \in Seq(Atts)
           /\ Has(s, a) \/ Has(t, a) => Has(s \o t, a)
           /\ Has(s, a) \/ a = b => Has(Append(s, b), a)
<1>1. s \o t \in Seq(Atts) /\ Append(s, b) \in Seq(Atts)
  BY SMT
<1>2. ASSUME NEW j \in 1..Len(s), s[j] = a PROVE Has(s \o t, a) /\ Has(Append(s, b), a)
  <2>1. j \in 1..Len(s \o t) /\ (s \o t)[j] = a
    BY <1>2
  <2>2. j \in 1..Len(Append(s, b)) /\ Append(s, b)[j] = a
    BY <1>2
  <2> QED
    BY <2>1, <2>2, Zenon DEF Has
<1>3. ASSUME NEW j \in 1..Len(t), t[j] = a PROVE Has(s \o t, a)
  <2>1. Len(s) + j \in 1..Len(s \o t) /\ (s \o t)[Len(s) + j] = a
    BY <1>3
  <2> QED
    BY <2>1, Zenon DEF Has
<1>4. Has(Append(s, b), b)
  <2>1. Len(s) + 1 \in 1..Len(Append(s, b)) /\ Append(s, b)[Len(s) + 1] = b
    BY SMT
  <2> QED
    BY <2>1, Zenon DEF Has
<1> QED
  BY <1>1, <1>2, <1>3, <1>4, Zenon DEF Has

\* The steps that touch one row, or the mailbox.
LEMMA RowSteps ==
    ASSUME IInv, NEW a \in Atts, NEW i \in Chunks,
           JanitorFails(a) \/ RetryAttachment(a) \/ PollMatch(a, i) \/ DepositExpires(a, i)
    PROVE  IInv'
<1> USE DEF IInv
<1>1. /\ UNCHANGED <<senderVars, wireVars, storeVars, received>> /\ queue' = queue /\ rx' = rx
      /\ restarts' = restarts
  BY Zenon DEF JanitorFails, RetryAttachment, PollMatch, DepositExpires, bounds, actorVars
<1>2. UNCHANGED <<bitmap, disk, late, toA, toB, conn>>
  BY <1>1, Zenon DEF storeVars, wireVars
<1>3. in \in Rows /\ begins \in Seq(Atts) /\ box \in Maps /\ lost \in Maps
  BY Zenon DEF RecvInv, NetInv
<1>4. CASE JanitorFails(a)
  <2>1. /\ UNCHANGED <<boxVars, begins, poll, retries>> /\ stalls' = stalls + 1 /\ stalls < MaxStalls
        /\ in' = Claim(in, {a}, "failed")
    BY <1>4, Zenon DEF JanitorFails, actorVars
  <2>2. /\ in' \in Rows
        /\ \A b \in Atts : in'[b] = IF b = a /\ in[b] = "pending" THEN "failed" ELSE in[b]
    BY <1>3, <2>1, Zenon DEF Claim, Won, Rows
  <2>3. RowsOK(in', received', disk')
    <3>1. \A b \in Atts : in'[b] = "complete" <=> in[b] = "complete"
      BY <2>2, Zenon
    <3> QED
      BY <1>1, <1>2, <2>2, <3>1, Zenon DEF RecvInv, RowsOK
  <2>4. RecvInv'
    BY <1>1, <1>2, <2>1, <2>2, <2>3, Zenon DEF RecvInv
  <2>5. PendingIsOwned'
    BY <1>1, <2>1, <2>2, Zenon DEF PendingIsOwned
  <2>6. SendInv'
    BY <1>1, <1>2, <2>1, SendFrame, Zenon DEF Covered, boxVars
  <2>7. stalls' \in 0..MaxStalls
    BY <2>1, AttsAssumption DEF NetInv
  <2>8. NetInv'
    BY <1>1, <1>2, <2>1, <2>7, Zenon DEF NetInv, boxVars
  <2> QED
    BY <2>4, <2>5, <2>6, <2>8, Zenon
<1>5. CASE RetryAttachment(a)
  <2>1. /\ UNCHANGED <<boxVars, poll, stalls>> /\ retries' = retries + 1 /\ retries < MaxRetries
        /\ in' = [in EXCEPT ![a] = "pending"] /\ in[a] = "failed" /\ begins' = Append(begins, a)
    BY <1>5, Zenon DEF RetryAttachment
  <2>2. in' \in Rows /\ \A b \in Atts : in'[b] = IF b = a THEN "pending" ELSE in[b]
    BY <1>3, <2>1, Zenon DEF Rows
  <2>3. RowsOK(in', received', disk')
    <3>1. \A b \in Atts : in'[b] = "complete" <=> in[b] = "complete"
      BY <2>1, <2>2
    <3> QED
      BY <1>1, <1>2, <2>2, <3>1, Zenon DEF RecvInv, RowsOK
  <2>4. begins' \in Seq(Atts) /\ \A b \in Atts : Has(begins, b) \/ b = a => Has(begins', b)
    BY <1>3, <2>1, HasJoined, Zenon
  <2>5. RecvInv'
    BY <1>1, <1>2, <2>2, <2>3, <2>4, Zenon DEF RecvInv
  <2>6. PendingIsOwned'
    BY <1>1, <2>2, <2>4, Zenon DEF PendingIsOwned, Has
  <2>7. SendInv'
    BY <1>1, <1>2, <2>1, SendFrame, Zenon DEF Covered, boxVars
  <2>8. retries' \in 0..MaxRetries
    BY <2>1, AttsAssumption DEF NetInv
  <2>9. NetInv'
    BY <1>1, <1>2, <2>1, <2>8, Zenon DEF NetInv, boxVars
  <2> QED
    BY <2>5, <2>6, <2>7, <2>9, Zenon
<1>6. CASE PollMatch(a, i) \/ DepositExpires(a, i)
  <2>1. UNCHANGED <<in, storeVars, actorVars, received, restarts, stalls, retries, toA, late>>
    BY <1>1, <1>2, <1>6, Zenon DEF PollMatch, DepositExpires, bounds
  <2>2. RecvInv' /\ PendingIsOwned'
    BY <2>1, RecvFrame, Zenon DEF RecvInv
  <2>3. /\ box' \in Maps /\ lost' \in Maps
        /\ \A b \in Atts : box[b] \cup lost[b] \subseteq box'[b] \cup lost'[b]
    <3>1. CASE PollMatch(a, i)
      BY <1>3, <3>1, Zenon DEF PollMatch, boxVars
    <3>2. CASE DepositExpires(a, i)
      BY <1>3, <3>2, Zenon DEF DepositExpires, Maps
    <3> QED
      BY <1>6, <3>1, <3>2, Zenon
  <2>4. \A b \in Atts : Covered(b) \subseteq Covered(b)'
    BY <1>2, <2>3, Zenon DEF Covered
  <2>5. SendInv'
    BY <1>1, <2>4, SendFrame, Zenon
  <2>6. poll' \in (Atts \cup {NoAtt}) \X Chunks /\ (poll' # NoPoll => poll'[1] \in Atts)
    <3>1. CASE PollMatch(a, i)
      BY <3>1, Zenon DEF PollMatch
    <3>2. CASE DepositExpires(a, i)
      BY <3>2, Zenon DEF DepositExpires, NetInv
    <3> QED
      BY <1>6, <3>1, <3>2, Zenon
  <2>7. NetInv'
    BY <1>2, <2>1, <2>3, <2>6, Zenon DEF NetInv
  <2> QED
    BY <2>2, <2>5, <2>7, Zenon
<1> QED
  BY <1>4, <1>5, <1>6, Zenon


\* A step that ends in maybe_start_next_rx, with rows st and claims W.
LEMMA StartStep ==
    ASSUME RecvInv, NEW st \in Rows, NEW W, NEW q \in Seq(Atts), NEW wire,
           bitmap' \in Maps, disk' \in Maps, Below(bitmap', disk'),
           WireOK(wire, disk'),
           RowsOK(st, Counted(W), disk'),
           late' \subseteq Atts, \A a \in late' : disk'[a] = Chunks, begins' \in Seq(Atts),
           \A a \in Atts : st[a] = "pending" /\ restarts' = 0 => Has(q, a) \/ Has(begins', a),
           StartNext(st, W, bitmap', q, wire)
    PROVE  RecvInv' /\ PendingIsOwned' /\ (~conn' /\ wire = {} => toA' = {})
<1>1. received \in [Atts -> Nat]
  BY Zenon DEF RecvInv
<1>2. Started(st, q, wire, disk')
  BY <1>1, StartNextOK, Zenon
<1>3. RecvInv'
  BY <1>2, Zenon DEF RecvInv, Started, Below
<1>4. PendingIsOwned'
  BY <1>2, Zenon DEF PendingIsOwned, Started, Has
<1> QED
  BY <1>2, <1>3, <1>4, Zenon DEF Started

\* Rows that complete nothing need no report.
LEMMA NoReport ==
    ASSUME RecvInv, NEW st \in Rows, \A a \in Atts : st[a] = "complete" <=> in[a] = "complete"
    PROVE  RowsOK(st, Counted({}), disk) /\ RowsOK(st, received, disk)
<1>1. \A a \in Atts : Counted({})[a] = received[a]
  BY DEF Counted, RecvInv
<1> QED
  BY <1>1, Zenon DEF RecvInv, RowsOK

\* A manifest arrives.
LEMMA ManifestStep ==
    ASSUME IInv, NEW a \in Atts, ManifestArrives(a)
    PROVE  IInv'
<1> USE DEF IInv
<1>1. PICK st, bs : st = [in EXCEPT ![a] = "pending"] /\ bs = Append(begins, a)
  BY Zenon
<1>2. /\ UNCHANGED <<senderVars, toB, late, boxVars, storeVars, poll, bounds, conn>> /\ in[a] = "none"
  BY Zenon DEF ManifestArrives
<1>3. UNCHANGED <<bitmap, disk, box, lost, restarts, stalls, retries>>
  BY <1>2, Zenon DEF storeVars, boxVars, bounds
<1>4. /\ in \in Rows /\ begins \in Seq(Atts) /\ queue \in Seq(Atts) /\ disk \in Maps /\ bitmap \in Maps
  BY Zenon DEF RecvInv
<1>5. /\ st \in Rows /\ \A b \in Atts : st[b] = IF b = a THEN "pending" ELSE in[b]
  BY <1>1, <1>4, Zenon DEF Rows
<1>6. \A b \in Atts : st[b] = "complete" <=> in[b] = "complete"
  BY <1>2, <1>5, Zenon
<1>7. RowsOK(st, Counted({}), disk) /\ RowsOK(st, received, disk)
  BY <1>5, <1>6, NoReport, Zenon
<1>8. bs \in Seq(Atts) /\ queue \o bs \in Seq(Atts)
  BY <1>1, <1>4, HasJoined, Zenon
<1>9. ASSUME NEW b \in Atts, st[b] = "pending", restarts = 0
      PROVE  /\ rx.att = b \/ Has(queue \o bs, b)
             /\ rx.att = b \/ Has(queue, b) \/ Has(bs, b)
  <2>1. Has(begins, b) \/ b = a => Has(bs, b)
    BY <1>1, <1>4, HasJoined, Zenon
  <2>2. Has(queue, b) \/ Has(bs, b) => Has(queue \o bs, b)
    BY <1>4, <1>8, HasJoined, Zenon
  <2>3. b = a \/ rx.att = b \/ Has(queue, b) \/ Has(begins, b)
    BY <1>5, <1>9, Zenon DEF PendingIsOwned, Has
  <2> QED
    BY <2>1, <2>2, <2>3, Zenon
<1>10. SendInv'
  BY <1>2, <1>3, SendFrame, Zenon DEF Covered
<1>11. RecvInv' /\ PendingIsOwned' /\ (~conn' => toA' = {})
  <2>0. ~conn => toA = {}
    BY Zenon DEF NetInv
  <2>1. CASE conn /\ begins' = <<>> /\ rx.att = NoAtt /\ StartNext(st, {}, bitmap, queue \o bs, toA)
    <3>1. begins' \in Seq(Atts)
      BY <2>1
    <3>2. /\ WireOK(toA, disk') /\ late' \subseteq Atts /\ \A b \in late' : disk'[b] = Chunks
          /\ Below(bitmap', disk')
      BY <1>2, <1>3, Zenon DEF RecvInv, Below
    <3>3. \A b \in Atts : st[b] = "pending" /\ restarts' = 0 => Has(queue \o bs, b) \/ Has(begins', b)
      BY <1>3, <1>9, <2>1, AttsAssumption, Zenon
    <3>4. RowsOK(st, Counted({}), disk') /\ bitmap' \in Maps /\ disk' \in Maps
      BY <1>3, <1>4, <1>7, Zenon
    <3>5. StartNext(st, {}, bitmap', queue \o bs, toA)
      BY <1>3, <2>1, Zenon
    <3>6. RecvInv' /\ PendingIsOwned'
      BY <1>5, <1>8, <3>1, <3>2, <3>3, <3>4, <3>5, StartStep, ZenonT(30)
    <3> QED
      BY <1>2, <2>1, <3>6, Zenon
  <2>2. CASE /\ begins' = <<>> /\ conn
             /\ in' = st /\ queue' = queue \o bs /\ UNCHANGED <<rx, toA, received>>
    <3>1. begins' \in Seq(Atts)
      BY <2>2, SMT
    <3>2. RecvInv'
      BY <1>2, <1>3, <1>5, <1>7, <1>8, <2>2, <3>1, Zenon DEF RecvInv
    <3>3. PendingIsOwned'
      BY <1>3, <1>9, <2>2, Zenon DEF PendingIsOwned, Has
    <3> QED
      BY <1>2, <2>2, <3>2, <3>3, Zenon
  <2>3. CASE in' = st /\ begins' = bs /\ UNCHANGED <<queue, rx, conn, toA, received>>
    <3>2. RecvInv'
      BY <1>2, <1>3, <1>5, <1>7, <1>8, <2>3, Zenon DEF RecvInv
    <3>3. PendingIsOwned'
      BY <1>3, <1>9, <2>3, Zenon DEF PendingIsOwned, Has
    <3> QED
      BY <2>0, <2>3, <3>2, <3>3, Zenon
  <2> QED
    BY <1>1, <2>1, <2>2, <2>3, Zenon DEF ManifestArrives
<1>12. NetInv'
  BY <1>2, <1>3, <1>11, Zenon DEF NetInv
<1> QED
  BY <1>10, <1>11, <1>12, Zenon

\* fail_rx: the transfer's row is claimed as failed, and the next one starts.
LEMMA FailStep ==
    ASSUME IInv, rx.att \in Atts, NEW q \in Seq(Atts), NEW wire, WireOK(wire, disk),
           FailRx(q, wire), UNCHANGED <<bitmap, disk, late, restarts>>, begins' \in Seq(Atts),
           \A a \in Atts : Has(queue, a) \/ Has(begins, a) => Has(q, a) \/ Has(begins', a)
    PROVE  RecvInv' /\ PendingIsOwned' /\ (~conn' /\ wire = {} => toA' = {})
<1> USE DEF IInv
<1>1. PICK st : st = Claim(in, {rx.att}, "failed")
  BY Zenon
<1>2. st \in Rows /\ \A a \in Atts : st[a] = IF a = rx.att /\ in[a] = "pending" THEN "failed" ELSE in[a]
  BY <1>1, Zenon DEF Claim, Won, Rows, RecvInv
<1>3. \A a \in Atts : st[a] = "complete" <=> in[a] = "complete"
  BY <1>2, Zenon
<1>4. RowsOK(st, Counted({}), disk') /\ bitmap' \in Maps /\ disk' \in Maps
  BY <1>2, <1>3, NoReport, Zenon DEF RecvInv
<1>5. /\ WireOK(wire, disk') /\ late' \subseteq Atts /\ \A a \in late' : disk'[a] = Chunks
      /\ Below(bitmap', disk')
  BY Zenon DEF RecvInv, Below
<1>6. \A a \in Atts : st[a] = "pending" /\ restarts' = 0 => Has(q, a) \/ Has(begins', a)
  BY <1>2, Zenon DEF PendingIsOwned, Has
<1>7. StartNext(st, {}, bitmap', q, wire)
  BY <1>1, Zenon DEF FailRx
<1> QED
  BY <1>2, <1>4, <1>5, <1>6, <1>7, StartStep, Zenon

\* A step that changes nothing but the transfer and the requests on the wire.
LEMMA RxOnly ==
    ASSUME IInv, RxOK(rx', disk), rx'.att = rx.att, WireOK(toA', disk),
           UNCHANGED <<in, received, bitmap, disk, late, restarts, begins, queue>>
    PROVE  RecvInv' /\ PendingIsOwned'
<1>1. RecvInv'
  BY Zenon DEF IInv, RecvInv
<1>2. PendingIsOwned'
  BY Zenon DEF IInv, PendingIsOwned
<1> QED
  BY <1>1, <1>2, Zenon

\* A chunk of the active transfer that fails its hash.
LEMMA ChunkFailsStep ==
    ASSUME IInv, rx.att \in Atts, NEW i \in Chunks, ChunkFails(i), UNCHANGED <<late, restarts>>
    PROVE  RecvInv' /\ PendingIsOwned'
<1> USE DEF IInv
<1>1. UNCHANGED <<bitmap, disk, begins>> /\ queue \in Seq(Atts) /\ begins \in Seq(Atts)
      /\ WireOK(toA, disk) /\ RxOK(rx, disk) /\ disk \in Maps
  BY Zenon DEF ChunkFails, storeVars, RecvInv
<1>2. CASE i \in Flight(rx) /\ Spent(rx, {i})
  <2>1. FailRx(queue, toA)
    BY <1>2, Zenon DEF ChunkFails
  <2> QED
    BY <1>1, <2>1, FailStep, Zenon
<1>3. CASE ~(i \in Flight(rx) /\ Spent(rx, {i}))
  <2>1. PICK S, T : /\ S = {i} \cap Flight(rx) /\ T \in SUBSET S
                    /\ rx' = Sent(Again(rx, S), S, T)
                    /\ toA' = toA \cup Requests(rx.att, T)
                    /\ UNCHANGED <<in, received, queue>>
    <3>1. PICK S : S = {i} \cap Flight(rx)
      BY Zenon
    <3>2. \E T \in SUBSET S : /\ rx' = Sent(Again(rx, S), S, T)
                              /\ toA' = toA \cup Requests(rx.att, T)
                              /\ UNCHANGED <<in, received, queue>>
      BY <1>3, <3>1, Zenon DEF ChunkFails
    <3> QED
      BY <3>1, <3>2, Zenon
  <2>2. S \in SUBSET Flight(rx) /\ ~Spent(rx, S) /\ S \in SUBSET Chunks /\ T \in SUBSET Chunks
    BY <1>3, <2>1, Zenon DEF Spent
  <2>6. RxOK(rx', disk) /\ rx'.att = rx.att
    <3>1. RxOK(Sent(Again(rx, S), S, T), disk) /\ Sent(Again(rx, S), S, T).att = rx.att
      BY <1>1, <2>2, RetryOK, Zenon
    <3> QED
      BY <2>1, <3>1, Zenon
  <2>7. WireOK(toA', disk)
    BY <1>1, <2>1, <2>2, MoreRequests, Zenon
  <2> QED
    BY <1>1, <2>1, <2>6, <2>7, RxOnly, Zenon
<1> QED
  BY <1>2, <1>3, Zenon

\* A chunk of the active transfer that gets to disk.
LEMMA StoredStep ==
    ASSUME IInv, rx.att \in Atts, NEW i \in Chunks, NEW marked \in BOOLEAN, Stored(i, marked),
           UNCHANGED <<late, restarts>>
    PROVE  /\ RecvInv' /\ PendingIsOwned'
           /\ \A b \in Atts : disk[b] \subseteq disk'[b]
<1> USE DEF IInv
<1>0. PICK a \in Atts : a = rx.att
  OBVIOUS
<1>1. PICK r, bm :
        /\ a = rx.att /\ r = OnReceived(rx, i)
        /\ bm = IF marked THEN [bitmap EXCEPT ![a] = @ \cup {i}] ELSE bitmap
  BY <1>0, Zenon
<1>2. /\ disk' = [disk EXCEPT ![a] = @ \cup {i}] /\ bitmap' = bm /\ begins' = begins
      /\ queue \in Seq(Atts) /\ begins \in Seq(Atts) /\ disk \in Maps /\ bitmap \in Maps
      /\ RxOK(rx, disk) /\ WireOK(toA, disk)
  BY <1>1, Zenon DEF Stored, RecvInv
<1>3. /\ disk' \in Maps /\ \A b \in Atts : disk[b] \subseteq disk'[b]
      /\ i \in disk'[a]
  BY <1>2, Zenon DEF Maps
<1>4. bitmap' \in Maps /\ Below(bitmap', disk')
  <2>1. \A b \in Atts : bitmap[b] \subseteq disk[b]
    BY Zenon DEF RecvInv
  <2>2. CASE marked
    BY <1>1, <1>2, <2>1, <2>2, Zenon DEF Maps, Below
  <2>3. CASE ~marked
    BY <1>1, <1>2, <1>3, <2>1, <2>3, Zenon DEF Below
  <2> QED
    BY <2>2, <2>3, Zenon
<1>5. WireOK(toA, disk')
  <2>1. \A b \in Atts : disk[b] = Chunks => disk'[b] = Chunks
    BY <1>2, <1>3, Zenon DEF Maps
  <2>2. \A f \in toA : f.att \in Atts
    BY <1>2, SMT DEF WireOK, Frames, Frame
  <2> QED
    BY <1>2, <2>1, <2>2, Zenon DEF WireOK
<1>6. /\ late' \subseteq Atts /\ \A b \in late' : disk'[b] = Chunks
      /\ \A b \in Atts : in[b] = "complete" => disk'[b] = Chunks
  BY <1>2, <1>3, Zenon DEF RecvInv, Maps, RowsOK
<1>7. RxOK(r, disk') /\ r.att = a
  <2>1. RxOK(rx, disk')
    BY <1>2, <1>3, MoreOnDisk, Zenon
  <2> QED
    BY <1>1, <1>3, <2>1, OnReceivedOK, Zenon
<1>8. CASE IsComplete(r)
  <2>1. disk'[a] = Chunks
    BY <1>3, <1>7, <1>8, CompleteRx, Zenon
  <2>2. FinalizeRx(bm, toA)
    BY <1>1, <1>8, Zenon DEF Stored
  <2>3. PICK ack \in SUBSET {Frame("complete", rx.att, 0)} :
          StartNext(Claim(in, {rx.att}, "complete"), Won(in, {rx.att}), bm, queue, toA \cup ack)
    BY <2>2, Zenon DEF FinalizeRx
  <2>4. PICK st, W, wire : /\ st = Claim(in, {rx.att}, "complete") /\ W = Won(in, {rx.att})
                           /\ wire = toA \cup ack
    BY Zenon
  <2>5. StartNext(st, W, bitmap', queue, wire)
    BY <1>2, <2>3, <2>4, Zenon
  <2>6. /\ st \in Rows
        /\ \A b \in Atts : st[b] = IF b = a /\ in[b] = "pending" THEN "complete" ELSE in[b]
        /\ \A b \in Atts : b \in W <=> b = a /\ in[b] = "pending"
    BY <1>1, <2>4, Zenon DEF Claim, Won, Rows, RecvInv
  <2>7. RowsOK(st, Counted(W), disk')
    <3> SUFFICES ASSUME NEW b \in Atts
                 PROVE  /\ st[b] = "complete" => disk'[b] = Chunks
                        /\ Counted(W)[b] = IF st[b] = "complete" THEN 1 ELSE 0
      BY Zenon DEF RowsOK
    <3>1. received[b] = IF in[b] = "complete" THEN 1 ELSE 0
      BY Zenon DEF RecvInv, RowsOK
    <3>2. Counted(W)[b] = received[b] + IF b \in W THEN 1 ELSE 0
      BY Zenon DEF Counted
    <3> QED
      BY <1>6, <2>1, <2>6, <3>1, <3>2, SMT
  <2>8. WireOK(wire, disk')
    <3>1. Frame("complete", a, 0) \in Frames("complete") /\ Frame("complete", a, 0).att = a
      BY ChunksFinite, SMT DEF Frames, Frame
    <3> QED
      BY <1>1, <1>5, <2>1, <2>4, <3>1, Zenon DEF WireOK
  <2>9. \A b \in Atts : st[b] = "pending" /\ restarts' = 0 => Has(queue, b) \/ Has(begins', b)
    BY <1>1, <1>2, <2>6, Zenon DEF PendingIsOwned, Has
  <2>10. begins' \in Seq(Atts)
    BY <1>2, Zenon
  <2>11. RecvInv' /\ PendingIsOwned'
    BY <1>2, <1>3, <1>4, <1>6, <2>5, <2>6, <2>7, <2>8, <2>9, <2>10, StartStep, ZenonT(30)
  <2> QED
    BY <1>3, <2>11, Zenon
<1>9. CASE ~IsComplete(r)
  <2>1. PICK S \in SUBSET r.needed, T \in SUBSET r.needed :
          /\ Fills(r, S)
          /\ rx' = Sent(NextRequests(r, S), S, T)
          /\ toA' = toA \cup Requests(a, T)
          /\ UNCHANGED <<in, received, queue>>
    BY <1>1, <1>9, Zenon DEF Stored
  <2>2. RxOK(rx', disk') /\ rx'.att = a
    <3>1. /\ Fills(r, S) /\ rx' = Sent(NextRequests(r, S), S, T)
          /\ disk' \in Maps /\ RxOK(r, disk') /\ r.att = a
      BY <1>3, <1>7, <2>1, Zenon
    <3> QED
      BY <3>1, AskedOK
  <2>3. T \in SUBSET Chunks
    BY <1>7, Zenon DEF RxOK, RxType
  <2>4. WireOK(toA', disk')
    BY <1>5, <2>1, <2>3, MoreRequests, Zenon
  <2>5. RowsOK(in', received', disk')
    BY <1>6, <2>1, Zenon DEF RecvInv, RowsOK
  <2>6. in' \in Rows /\ received' \in [Atts -> Nat] /\ queue' \in Seq(Atts) /\ begins' \in Seq(Atts)
    BY <1>2, <2>1, Zenon DEF RecvInv
  <2>7. RecvInv'
    BY <1>3, <1>4, <1>6, <2>2, <2>4, <2>5, <2>6, Zenon DEF RecvInv, Below
  <2>8. PendingIsOwned'
    BY <1>1, <1>2, <2>1, <2>2, Zenon DEF PendingIsOwned
  <2> QED
    BY <1>3, <2>7, <2>8, Zenon
<1> QED
  BY <1>8, <1>9, Zenon

\* The Chunk and ChunkNack arms.
LEMMA FrameSteps ==
    ASSUME IInv, NEW a \in Atts, NEW i \in Chunks, ChunkFrame(a, i) \/ NackFrame(a, i)
    PROVE  IInv'
<1> USE DEF IInv
<1>1. /\ UNCHANGED <<senderVars, late, boxVars, poll, bounds, conn>> /\ toB' \subseteq toB /\ toB # {}
  BY Zenon DEF ChunkFrame, NackFrame
<1>2. UNCHANGED <<box, lost, stalls, retries, restarts>>
  BY <1>1, Zenon DEF boxVars, bounds
<1>3. conn = TRUE
  BY <1>1, Zenon DEF NetInv
<1>4. NetInv'
  BY <1>1, <1>2, <1>3, Zenon DEF NetInv
<1>5. CASE a # rx.att
  <2>1. UNCHANGED <<in, storeVars, actorVars, received, toA>>
    BY <1>5, Zenon DEF ChunkFrame, NackFrame, actorVars
  <2>2. RecvInv' /\ PendingIsOwned'
    BY <1>1, <1>2, <2>1, RecvFrame, Zenon DEF RecvInv
  <2>3. SendInv'
    BY <1>1, <1>2, <2>1, SendFrame, Zenon DEF Covered, storeVars
  <2> QED
    BY <1>4, <2>2, <2>3, Zenon
<1>6. CASE a = rx.att
  <2>1. RecvInv' /\ PendingIsOwned' /\ \A b \in Atts : disk[b] \subseteq disk'[b]
    <3>1. CASE ChunkFrame(a, i) /\ ChunkFails(i)
      <4>1. disk' = disk
        BY <3>1, Zenon DEF ChunkFails, storeVars
      <4> QED
        BY <1>1, <1>2, <1>6, <3>1, <4>1, ChunkFailsStep, Zenon
    <3>2. CASE ChunkFrame(a, i) /\ Unwritten
      <4>1. UNCHANGED <<in, storeVars, actorVars, received, toA>> /\ disk' = disk
        BY <3>2, Zenon DEF Unwritten, storeVars
      <4> QED
        BY <1>1, <1>2, <4>1, RecvFrame, Zenon DEF RecvInv
    <3>3. CASE ChunkFrame(a, i) /\ \E marked \in BOOLEAN : Stored(i, marked)
      BY <1>1, <1>2, <1>6, <3>3, StoredStep, Zenon
    <3>4. CASE NackFrame(a, i)
      <4>1. /\ FailRx(queue, toA) /\ UNCHANGED <<bitmap, disk, begins>>
            /\ queue \in Seq(Atts) /\ begins \in Seq(Atts) /\ WireOK(toA, disk)
        BY <1>6, <3>4, Zenon DEF NackFrame, storeVars, RecvInv
      <4>2. RecvInv' /\ PendingIsOwned'
        BY <1>1, <1>2, <1>6, <4>1, FailStep, Zenon
      <4> QED
        BY <4>1, <4>2, Zenon
    <3> QED
      BY <1>6, <3>1, <3>2, <3>3, <3>4, Zenon DEF ChunkFrame
  <2>2. SendInv'
    BY <1>1, <1>2, <2>1, SendFrame, Zenon DEF Covered
  <2> QED
    BY <1>4, <2>1, <2>2, Zenon
<1> QED
  BY <1>5, <1>6, Zenon

\* A request times out, or a new connection takes the old one's place.
LEMMA RxSteps ==
    ASSUME IInv, (\E i \in Chunks : RequestAges(i)) \/ ReplaceConn
    PROVE  IInv'
<1> USE DEF IInv
<1>0. RxOK(rx, disk) /\ disk \in Maps /\ rx \in RxType /\ WireOK(toA, disk)
  BY Zenon DEF RecvInv, RxOK
<1>1. ASSUME NEW i \in Chunks, RequestAges(i) PROVE IInv'
  <2>1. /\ UNCHANGED <<senderVars, wireVars, boxVars, in, storeVars, begins, queue, poll, received, bounds>>
        /\ i \in Flight(rx) /\ rx' = [rx EXCEPT !.aged = @ \cup {i}]
    BY <1>1, Zenon DEF RequestAges
  <2>2. UNCHANGED <<bitmap, disk, late, toA, toB, conn, box, lost, restarts, stalls, retries>>
    BY <2>1, Zenon DEF storeVars, wireVars, boxVars, bounds
  <2>3. /\ rx'.att = rx.att /\ rx'.needed = rx.needed /\ rx'.tries = rx.tries /\ rx'.got = rx.got
        /\ rx'.aged = rx.aged \cup {i} /\ rx' \in RxType
    BY <1>0, <2>1, Zenon DEF RxType
  <2>4. Flight(rx') = Flight(rx)
    BY <2>3, Zenon DEF Flight
  <2>5. RxOK(rx', disk)
    BY <1>0, <2>1, <2>3, <2>4, Zenon DEF RxOK, Accounts
  <2>6. RecvInv' /\ PendingIsOwned'
    BY <1>0, <2>1, <2>2, <2>3, <2>5, RxOnly, Zenon
  <2>7. SendInv'
    BY <2>1, <2>2, SendFrame, Zenon DEF Covered
  <2>8. NetInv'
    BY <2>1, <2>2, Zenon DEF NetInv
  <2> QED
    BY <2>6, <2>7, <2>8, Zenon
<1>2. ASSUME ReplaceConn PROVE IInv'
  <2>1. /\ UNCHANGED <<senderVars, boxVars, in, storeVars, begins, queue, poll, received, bounds>>
        /\ conn' = TRUE /\ toB' = {}
        /\ late' = late \cup {f.att : f \in {g \in toA : g.kind = "complete"}}
    BY <1>2, Zenon DEF ReplaceConn
  <2>2. UNCHANGED <<bitmap, disk, box, lost, restarts, stalls, retries>>
    BY <2>1, ZenonT(60) DEF storeVars, boxVars, bounds
  <2>3. late' \subseteq Atts /\ \A a \in late' : disk[a] = Chunks
    BY <1>0, <2>1, SMTT(30) DEF RecvInv, WireOK, Frames, Frame
  <2>4. PICK T \in SUBSET Flight(rx) : rx' = Sent(rx, Flight(rx), T) /\ toA' = Requests(rx.att, T)
    BY <1>2, Zenon DEF ReplaceConn
  <2>5. RxOK(rx', disk) /\ rx'.att = rx.att /\ WireOK(toA', disk)
    <3>1. CASE rx.att = NoAtt
      <4>1. Flight(rx) = {} /\ T = {}
        BY <1>0, <2>4, <3>1, Zenon DEF RxOK
      <4>2. rx' = rx /\ toA' = {}
        BY <2>4, <4>1, Zenon DEF Sent, Requests
      <4> QED
        BY <1>0, <4>2, Zenon DEF WireOK
    <3>2. CASE rx.att # NoAtt
      <4>1. rx.att \in Atts /\ Flight(rx) \in SUBSET Chunks /\ T \in SUBSET Chunks
        BY <1>0, <3>2, Zenon DEF RxType, Flight
      <4>2. RxOK(Sent(rx, Flight(rx), T), disk) /\ Sent(rx, Flight(rx), T).att = rx.att
        BY <1>0, <4>1, SentOK, SMT
      <4>3. WireOK({}, disk)
        BY Zenon DEF WireOK
      <4>4. WireOK({} \cup Requests(rx.att, T), disk)
        BY <4>1, <4>3, MoreRequests, Zenon
      <4> QED
        BY <2>4, <4>2, <4>4, Zenon
    <3> QED
      BY <3>1, <3>2, Zenon
  <2>6. RecvInv'
    BY <2>1, <2>2, <2>3, <2>5, Zenon DEF RecvInv
  <2>7. PendingIsOwned'
    BY <2>1, <2>2, <2>5, Zenon DEF PendingIsOwned
  <2>8. SendInv'
    BY <2>1, <2>2, SendFrame, Zenon DEF Covered
  <2>9. NetInv'
    BY <2>1, <2>2, Zenon DEF NetInv
  <2> QED
    BY <2>6, <2>7, <2>8, <2>9, Zenon
<1> QED
  BY <1>1, <1>2, Zenon

\* The retry tick.
LEMMA TickStep ==
    ASSUME IInv, Tick
    PROVE  IInv'
<1> USE DEF IInv
<1>1. /\ UNCHANGED <<senderVars, toB, late, boxVars, storeVars, poll, bounds>>
      /\ conn' \in BOOLEAN /\ (conn => conn')
  BY Zenon DEF Tick, TickDial
<1>2. UNCHANGED <<box, lost, bitmap, disk, stalls, retries, restarts>>
  BY <1>1, Zenon DEF boxVars, bounds, storeVars
<1>3. PICK q : q = IF conn' THEN queue \o begins ELSE queue
  BY Zenon
<1>4. /\ queue \in Seq(Atts) /\ begins \in Seq(Atts) /\ disk \in Maps /\ bitmap \in Maps /\ in \in Rows
      /\ RxOK(rx, disk) /\ WireOK(toA, disk)
  BY Zenon DEF RecvInv
<1>5. begins' = IF conn' THEN <<>> ELSE begins
  BY Zenon DEF Tick
<1>6. q \in Seq(Atts) /\ begins' \in Seq(Atts)
  <2>1. <<>> \in Seq(Atts)
    OBVIOUS
  <2>2. queue \o begins \in Seq(Atts)
    BY <1>4
  <2> QED
    BY <1>3, <1>4, <1>5, <2>1, <2>2, Zenon
<1>7. \A a \in Atts : Has(queue, a) \/ Has(begins, a) => Has(q, a) \/ Has(begins', a)
  <2> SUFFICES ASSUME NEW a \in Atts PROVE Has(queue, a) \/ Has(begins, a) => Has(q, a) \/ Has(begins', a)
    OBVIOUS
  <2>1. Has(queue, a) \/ Has(begins, a) => Has(queue \o begins, a)
    BY <1>4, HasJoined, Zenon
  <2> QED
    BY <1>3, <1>5, <2>1, Zenon
<1>8. ~conn' => toA = {} /\ toB = {}
  BY <1>1, Zenon DEF NetInv
<1>9. SendInv'
  BY <1>1, <1>2, SendFrame, Zenon DEF Covered
<1>10. SUFFICES RecvInv' /\ PendingIsOwned' /\ (~conn' => toA' = {})
  <2>1. ASSUME ~conn' => toA' = {} PROVE NetInv'
    BY <1>1, <1>2, <1>8, <2>1, Zenon DEF NetInv
  <2> QED
    BY <1>9, <2>1, Zenon
<1>11. CASE rx.att = NoAtt /\ conn'
  <2>1. StartNext(in, {}, bitmap', q, toA)
    BY <1>2, <1>3, <1>11, Zenon DEF Tick
  <2>2. RowsOK(in, Counted({}), disk') /\ bitmap' \in Maps /\ disk' \in Maps
    BY <1>2, <1>4, NoReport, Zenon
  <2>3. /\ WireOK(toA, disk') /\ late' \subseteq Atts /\ \A b \in late' : disk'[b] = Chunks
        /\ Below(bitmap', disk')
    BY <1>1, <1>2, Zenon DEF RecvInv, Below
  <2>4. \A b \in Atts : in[b] = "pending" /\ restarts' = 0 => Has(q, b) \/ Has(begins', b)
    BY <1>2, <1>7, <1>11, AttsAssumption, Zenon DEF PendingIsOwned, Has
  <2>5. RecvInv' /\ PendingIsOwned'
    BY <1>4, <1>6, <2>1, <2>2, <2>3, <2>4, StartStep, Zenon
  <2> QED
    BY <1>11, <2>5, Zenon
<1>12. CASE rx.att = NoAtt /\ ~conn'
  <2>1. UNCHANGED <<in, storeVars, actorVars, received, restarts, toA>>
    BY <1>1, <1>2, <1>5, <1>12, Zenon DEF Tick, actorVars
  <2>2. RecvInv' /\ PendingIsOwned'
    BY <1>1, <2>1, RecvFrame, Zenon DEF RecvInv
  <2> QED
    BY <1>8, <2>1, <2>2, Zenon
<1>13. CASE rx.att # NoAtt
  <2>1. PICK S, T, U, r, w :
          /\ S \in SUBSET rx.needed /\ T \in SUBSET rx.needed /\ U \in SUBSET rx.aged
          /\ Refill(conn', S) /\ CanWrite(conn', S, T) /\ CanWrite(conn', rx.aged, U)
          /\ r = Sent(NextRequests(rx, S), S, T) /\ w = toA \cup Requests(rx.att, T)
          /\ IF Spent(rx, rx.aged)
             THEN U = {} /\ FailRx(q, w)
             ELSE /\ rx' = Sent(Again(r, rx.aged), rx.aged, U)
                  /\ toA' = w \cup Requests(rx.att, U)
                  /\ queue' = q /\ UNCHANGED <<in, received>>
    <3>1. PICK S \in SUBSET rx.needed, T \in SUBSET rx.needed, U \in SUBSET rx.aged :
            /\ Refill(conn', S) /\ CanWrite(conn', S, T) /\ CanWrite(conn', rx.aged, U)
            /\ LET r == Sent(NextRequests(rx, S), S, T)
                   w == toA \cup Requests(rx.att, T)
               IN IF Spent(rx, rx.aged)
                  THEN U = {} /\ FailRx(q, w)
                  ELSE /\ rx' = Sent(Again(r, rx.aged), rx.aged, U)
                       /\ toA' = w \cup Requests(rx.att, U)
                       /\ queue' = q /\ UNCHANGED <<in, received>>
      BY <1>3, <1>13, Zenon DEF Tick
    <3> QED
      BY <3>1, Zenon
  <2>2. /\ rx.att \in Atts /\ rx.needed \in SUBSET Chunks /\ rx.aged \in SUBSET Chunks
        /\ rx.aged \subseteq Flight(rx)
    BY <1>4, <1>13, Zenon DEF RxOK, RxType
  <2>3. WireOK(w, disk) /\ (~conn' => w = {} /\ U = {})
    <3>1. T \in SUBSET Chunks
      BY <2>1, <2>2, Zenon
    <3>2. WireOK(w, disk)
      BY <1>4, <2>1, <2>2, <3>1, MoreRequests, Zenon
    <3>3. ~conn' => w = {} /\ U = {}
      BY <1>8, <2>1, Zenon DEF CanWrite, Requests
    <3> QED
      BY <3>2, <3>3, Zenon
  <2>4. CASE Spent(rx, rx.aged)
    <3>1. FailRx(q, w)
      BY <2>1, <2>4, Zenon
    <3>2. RecvInv' /\ PendingIsOwned' /\ (~conn' /\ w = {} => toA' = {})
      BY <1>1, <1>2, <1>6, <1>7, <2>2, <2>3, <3>1, FailStep, Zenon
    <3> QED
      BY <2>3, <3>2, Zenon
  <2>5. CASE ~Spent(rx, rx.aged)
    <3>1. /\ rx' = Sent(Again(r, rx.aged), rx.aged, U)
          /\ toA' = w \cup Requests(rx.att, U)
          /\ queue' = q /\ UNCHANGED <<in, received>>
      BY <2>1, <2>5, Zenon
    <3>2. /\ RxOK(r, disk) /\ r.att = rx.att /\ r.aged = rx.aged
          /\ \A i \in Flight(rx) : r.tries[i] = rx.tries[i]
      <4>1. Fits(rx, S)
        BY <2>1, Zenon DEF Refill, Fills, Fits
      <4>2. r = Sent(NextRequests(rx, S), S, T)
        BY <2>1, Zenon
      <4>3. disk \in Maps /\ RxOK(rx, disk) /\ rx.att \in Atts
        BY <1>4, <2>2, Zenon
      <4> QED
        BY <4>1, <4>2, <4>3, FittedOK, SMT
    <3>3. rx.aged \in SUBSET Flight(r) /\ ~Spent(r, rx.aged)
      BY <2>2, <2>5, <3>2, Zenon DEF Spent, RxOK
    <3>4. RxOK(rx', disk) /\ rx'.att = rx.att
      <4>1. RxOK(Sent(Again(r, rx.aged), rx.aged, U), disk)
            /\ Sent(Again(r, rx.aged), rx.aged, U).att = r.att
        BY <1>4, <2>2, <3>2, <3>3, RetryOK, Zenon
      <4> QED
        BY <3>1, <3>2, <4>1, Zenon
    <3>5. WireOK(toA', disk) /\ (~conn' => toA' = {})
      <4>1. U \in SUBSET Chunks
        BY <2>1, <2>2, Zenon
      <4>2. WireOK(toA', disk)
        BY <2>2, <2>3, <3>1, <4>1, MoreRequests, Zenon
      <4>3. ~conn' => toA' = {}
        BY <2>3, <3>1, Zenon DEF Requests
      <4> QED
        BY <4>2, <4>3, Zenon
    <3>6. RecvInv'
      BY <1>1, <1>2, <1>6, <3>1, <3>4, <3>5, Zenon DEF RecvInv
    <3>7. PendingIsOwned'
      BY <1>2, <1>7, <3>1, <3>4, Zenon DEF PendingIsOwned, Has
    <3> QED
      BY <3>5, <3>6, <3>7, Zenon
  <2> QED
    BY <2>4, <2>5, Zenon
<1> QED
  BY <1>11, <1>12, <1>13, Zenon

\* The poll stores a fetched chunk.
LEMMA PollStep ==
    ASSUME IInv, PollStore
    PROVE  IInv'
<1> USE DEF IInv
<1>1. PICK a \in Atts, i \in Chunks : poll[1] = a /\ poll[2] = i
  BY Zenon DEF PollStore, NetInv
<1>2. /\ UNCHANGED <<senderVars, wireVars, lost, actorVars, bounds>> /\ poll' = NoPoll
      /\ UNCHANGED <<toA, toB, late, conn, begins, queue, rx, restarts, stalls, retries>>
  BY Zenon DEF PollStore, wireVars, actorVars, bounds
<1>3. /\ bitmap \in Maps /\ disk \in Maps /\ box \in Maps /\ lost \in Maps /\ in \in Rows
      /\ RowsOK(in, received, disk) /\ \A b \in Atts : bitmap[b] \subseteq disk[b]
      /\ RxOK(rx, disk) /\ WireOK(toA, disk)
  BY Zenon DEF RecvInv, NetInv
<1>4. /\ disk' \in Maps /\ bitmap' \in Maps
      /\ \A b \in Atts : disk[b] \subseteq disk'[b] /\ bitmap'[b] \subseteq disk'[b]
  <2>1. \/ UNCHANGED <<disk, bitmap>>
        \/ /\ disk' = [disk EXCEPT ![a] = @ \cup {i}]
           /\ bitmap' \in {bitmap, [bitmap EXCEPT ![a] = @ \cup {i}]}
    BY <1>1, Zenon DEF PollStore, storeVars
  <2> QED
    BY <1>3, <2>1 DEF Maps
<1>5. /\ box' \in Maps
      /\ \A b \in Atts : box[b] \subseteq box'[b] \cup disk'[b]
  <2>1. \/ box' = box
        \/ box' = [box EXCEPT ![a] = @ \ {i}] /\ i \in disk'[a]
    <3>1. box' = box \/ (box' = [box EXCEPT ![a] = @ \ {i}] /\ i \in bitmap'[a])
      BY <1>1, <1>3, Zenon DEF PollStore, Handled, storeVars, Maps
    <3> QED
      BY <1>4, <3>1, Zenon
  <2> QED
    BY <1>3, <1>4, <2>1, Zenon DEF Maps
<1>6. in' \in Rows /\ RowsOK(in', received', disk') /\ received' \in [Atts -> Nat]
      /\ \A b \in Atts : in'[b] = "pending" => in[b] = "pending"
  <2>1. CASE UNCHANGED <<in, received>>
    <3>1. \A b \in Atts : disk[b] = Chunks => disk'[b] = Chunks
      BY <1>4, Zenon DEF Maps
    <3> QED
      BY <1>3, <2>1, <3>1, Zenon DEF RowsOK, RecvInv
  <2>2. CASE ~UNCHANGED <<in, received>>
    <3>1. PICK F : /\ F = (IF Cardinality(bitmap'[a]) >= Total THEN {a} ELSE {})
                   /\ in' = Claim(in, F, "complete") /\ Report(Won(in, F))
      BY <1>1, <2>2, Zenon DEF PollStore
    <3>2. \A b \in F : b \in Atts /\ disk'[b] = Chunks
      <4>1. CASE Cardinality(bitmap'[a]) >= Total
        <5>1. bitmap'[a] \subseteq Chunks /\ IsFiniteSet(bitmap'[a]) /\ Cardinality(bitmap'[a]) = Total
          BY <1>4, <4>1, ChunksFinite, AttsAssumption, SMT DEF Maps
        <5>2. bitmap'[a] = Chunks
          BY <5>1, ChunksFinite, FS_Subset, Zenon
        <5> QED
          BY <1>4, <3>1, <5>2, Zenon DEF Maps
      <4>2. CASE ~(Cardinality(bitmap'[a]) >= Total)
        BY <3>1, <4>2, Zenon
      <4> QED
        BY <4>1, <4>2, Zenon
    <3>3. /\ in' \in Rows
          /\ \A b \in Atts : in'[b] = IF b \in F /\ in[b] = "pending" THEN "complete" ELSE in[b]
      BY <1>3, <3>1, Zenon DEF Claim, Won, Rows
    <3>4. /\ received' \in [Atts -> Nat]
          /\ \A b \in Atts : received'[b] = received[b] + IF b \in F /\ in[b] = "pending" THEN 1 ELSE 0
      BY <3>1 DEF Report, Won, RecvInv
    <3>5. \A b \in Atts : disk[b] = Chunks => disk'[b] = Chunks
      BY <1>4, Zenon DEF Maps
    <3>6. RowsOK(in', received', disk')
      BY <1>3, <3>2, <3>3, <3>4, <3>5, SMT DEF RowsOK
    <3> QED
      BY <3>3, <3>4, <3>6, Zenon
  <2> QED
    BY <2>1, <2>2, Zenon
<1>7. RxOK(rx', disk') /\ WireOK(toA', disk') /\ \A b \in late' : disk'[b] = Chunks
  <2>1. RxOK(rx, disk')
    BY <1>3, <1>4, MoreOnDisk, Zenon
  <2>2. \A b \in Atts : disk[b] = Chunks => disk'[b] = Chunks
    BY <1>4, Zenon DEF Maps
  <2>3. WireOK(toA, disk')
    BY <1>3, <2>2, SMT DEF WireOK, Frames, Frame
  <2>4. \A b \in late : disk'[b] = Chunks
    BY <2>2, Zenon DEF RecvInv
  <2> QED
    BY <1>2, <2>1, <2>3, <2>4, Zenon
<1>8. RecvInv'
  BY <1>2, <1>4, <1>6, <1>7, Zenon DEF RecvInv
<1>9. PendingIsOwned'
  BY <1>2, <1>6, Zenon DEF PendingIsOwned
<1>10. SendInv'
  <2>1. \A b \in Atts : Covered(b) \subseteq Covered(b)'
    BY <1>2, <1>4, <1>5, Zenon DEF Covered
  <2> QED
    BY <1>2, <2>1, SendFrame, Zenon
<1>11. poll' \in (Atts \cup {NoAtt}) \X Chunks
  BY <1>2, ChunksFinite, Zenon DEF NoPoll
<1>12. NetInv'
  BY <1>2, <1>5, <1>11, Zenon DEF NetInv
<1> QED
  BY <1>8, <1>9, <1>10, <1>12, Zenon

\* Every step keeps the invariant.
LEMMA NextIInv ==
    ASSUME IInv, [Next]_vars
    PROVE  IInv'
<1>0. 0 \in Chunks
  BY ChunksFinite, Zenon
<1>1. CASE \E a \in Atts : SendFile(a) \/ EnqueueAll(a) \/ CompleteFrame(a)
  BY <1>0, <1>1, SenderSteps, CompleteFrameStep, Zenon
<1>2. CASE \E a \in Atts, i \in Chunks :
             Serve(a, i) \/ SweepTake(a, i) \/ ChunkFrame(a, i) \/ NackFrame(a, i)
  BY <1>2, SenderSteps, FrameSteps, Zenon
<1>3. CASE SweepDeposit \/ SweepCheck
  BY <1>3, SweepSteps, Zenon
<1>4. CASE \E a \in Atts : ManifestArrives(a) \/ JanitorFails(a) \/ RetryAttachment(a)
  BY <1>0, <1>4, ManifestStep, RowSteps, Zenon
<1>5. CASE Tick
  BY <1>5, TickStep, Zenon
<1>6. CASE ReplaceConn \/ \E i \in Chunks : RequestAges(i)
  BY <1>6, RxSteps, Zenon
<1>7. CASE PollStore
  BY <1>7, PollStep, Zenon
<1>8. CASE Restart \/ Disconnect
  BY <1>8, LossSteps, Zenon
<1>9. CASE \E a \in Atts, i \in Chunks : PollMatch(a, i) \/ DepositExpires(a, i)
  BY <1>9, RowSteps, Zenon
<1>10. CASE UNCHANGED vars
  <2>1. /\ UNCHANGED <<senderVars, in, storeVars, actorVars, received>>
        /\ UNCHANGED <<conn, toA, toB, late, box, lost, disk, poll, stalls, retries, restarts>>
    BY <1>10, Zenon DEF vars, wireVars, boxVars, storeVars, bounds
  <2>2. RecvInv' /\ PendingIsOwned'
    BY <2>1, RecvFrame, Zenon DEF IInv, RecvInv
  <2>3. SendInv'
    BY <2>1, SendFrame, Zenon DEF IInv, Covered
  <2>4. NetInv'
    BY <2>1, Zenon DEF IInv, NetInv
  <2> QED
    BY <2>2, <2>3, <2>4, Zenon DEF IInv
<1> QED
  BY <1>1, <1>2, <1>3, <1>4, <1>5, <1>6, <1>7, <1>8, <1>9, <1>10, Zenon DEF Next

-----------------------------------------------------------------------------
(* The theorems.                                                           *)

\* The invariant holds for any number of attachments, chunks, retries,
\* restarts and janitor passes.
THEOREM IInvInvariant == Spec => []IInv
<1>1. Init => IInv
  BY InitIInv, Zenon
<1>2. IInv /\ [Next]_vars => IInv'
  BY NextIInv, Zenon
<1> QED
  BY <1>1, <1>2, PTL DEF Spec

\* The state stays typed, and the requests outstanding never exceed the window
\* (ChunkRx::next_requests).
THEOREM TypeCorrect == Spec => []TypeOK
<1>1. IInv => TypeOK
  BY Zenon DEF IInv, SendInv, RecvInv, NetInv, TypeOK, RxOK, RxType, WireOK, Rows, Maps
<1> QED
  BY <1>1, IInvInvariant, PTL

\* Every chunk of the active transfer is needed, in flight or counted, and the
\* counted ones are on disk (next_requests, on_received, on_bad, unsent).
THEOREM WindowSafe == Spec => []WindowAccounts
<1>1. IInv => WindowAccounts
  BY Zenon DEF IInv, RecvInv, RxOK, Accounts, WindowAccounts
<1> QED
  BY <1>1, IInvInvariant, PTL

\* A row that is complete has every chunk on disk (finalize_rx, finalize_offline).
THEOREM CompleteSafe == Spec => []CompleteMeansWhole
<1>1. IInv => CompleteMeansWhole
  BY Zenon DEF IInv, RecvInv, RowsOK, CompleteMeansWhole
<1> QED
  BY <1>1, IInvInvariant, PTL

\* AttachmentReceived is emitted at most once per attachment (claim_terminal).
THEOREM ReceivedSafe == Spec => []ReceivedOnce
<1>1. IInv => ReceivedOnce
  BY SMT DEF IInv, RecvInv, RowsOK, ReceivedOnce
<1> QED
  BY <1>1, IInvInvariant, PTL

\* The sender's copy goes only when the chunks are held, deposited or were
\* unreadable (AttachmentComplete, run_chunk_sweep).
THEOREM DiscardSafe == Spec => []NoChunkDiscarded
<1>1. IInv => NoChunkDiscarded
  BY Zenon DEF IInv, SendInv, Covered, NoChunkDiscarded
<1> QED
  BY <1>1, IInvInvariant, PTL

\* Within one process a pending row is always queued or active
\* (retry_attachment_cmd, maybe_start_next_rx, fail_rx).
THEOREM OwnedSafe == Spec => []PendingIsOwned
<1>1. IInv => PendingIsOwned
  BY Zenon DEF IInv
<1> QED
  BY <1>1, IInvInvariant, PTL
====
