---------------------------- MODULE GroupRatchet ----------------------------
(***************************************************************************)
(* The MLS ratchet of each two-member group and the tasks of the daemon    *)
(* that advance it: send_message and send_card_to_contact                  *)
(* (daemon/dispatch.rs) and dispatch_for_group (daemon/inbound.rs).  Each  *)
(* takes the group's lock, loads the stored group, encrypts or decrypts    *)
(* and saves; the lock and everything a task has loaded are lost in a      *)
(* crash.                                                                  *)
(*                                                                         *)
(* A stored group is what the properties tell apart: the generation its    *)
(* next ciphertext gets and the generations of the peer's ciphertexts it   *)
(* can no longer decrypt.  A contact stands for its group.                 *)
(***************************************************************************)
EXTENDS Naturals, Sequences

CONSTANTS Contacts, NoContact,
          Workers, NoWorker,  \* tasks that use a group
          PeerGens            \* generations of the ciphertexts each peer sends

ASSUME WorkersAssumption == NoWorker \notin Workers
ASSUME ContactsAssumption == NoContact \notin Contacts

VARIABLES
    blob,      \* mls_groups.state_blob of each contact
    lock,      \* holder of each group's entry in the GroupLockRegistry
    work,      \* what each task holds in memory
    cipher,    \* generations of the ciphertexts handed on to be sent
    received   \* generations of the peer's ciphertexts that became rows

rvars == <<blob, lock, work, cipher, received>>

Blobs == [next : Nat, spent : SUBSET PeerGens]
Idle  == [op |-> "idle", contact |-> NoContact, copy |-> [next |-> 0, spent |-> {}], gen |-> 0]
Jobs  == [op : {"send", "card", "hand", "recv"}, contact : Contacts, copy : Blobs,
          gen : Nat \cup PeerGens]

\* Types of the ratchet's variables: what is stored, what a task holds.
RatchetTypeOK ==
    /\ blob \in [Contacts -> Blobs]
    /\ lock \in [Contacts -> Workers \cup {NoWorker}]
    /\ work \in [Workers -> Jobs \cup {Idle}]
    /\ cipher \in [Contacts -> Seq(Nat)]
    /\ received \in [Contacts -> SUBSET PeerGens]

RatchetInit ==
    /\ blob = [c \in Contacts |-> [next |-> 0, spent |-> {}]]
    /\ lock = [c \in Contacts |-> NoWorker]
    /\ work = [w \in Workers |-> Idle]
    /\ cipher = [c \in Contacts |-> <<>>]
    /\ received = [c \in Contacts |-> {}]

-----------------------------------------------------------------------------
(* The group. *)

\* Group::encrypt on the loaded copy, and the generation it used.
Encrypted(b) == [b EXCEPT !.next = @ + 1]

\* Group::decrypt: the secret of a generation is gone once it was used.
CanDecrypt(b, g) == g \notin b.spent
Decrypted(b, g) == [b EXCEPT !.spent = @ \cup {g}]

\* group_lock_for(..).lock(): one holder per group.
LockFree_Ignored(c) == TRUE
LockFree(c) == lock[c] = NoWorker

\* A task gets the lock and loads the group; nothing is saved yet.
Load(w, c, op, copy, gen) ==
    /\ work[w] = Idle
    /\ LockFree(c)
    /\ lock' = [lock EXCEPT ![c] = w]
    /\ work' = [work EXCEPT ![w] = [op |-> op, contact |-> c, copy |-> copy, gen |-> gen]]
    /\ UNCHANGED <<blob, cipher, received>>

Unlock(w) == lock' = [lock EXCEPT ![work[w].contact] = NoWorker]
Finish(w) == work' = [work EXCEPT ![w] = Idle]

\* Group::save_in_tx, Group::save: the copy replaces the stored group.
Save(w) == blob' = [blob EXCEPT ![work[w].contact] = work[w].copy]

-----------------------------------------------------------------------------
(* The tasks. *)

LoadForSend(w, c) == Load(w, c, "send", Encrypted(blob[c]), blob[c].next)
LoadForCard(w, c) == Load(w, c, "card", Encrypted(blob[c]), blob[c].next)

\* dispatch_for_group up to a successful decrypt; a failed one releases the
\* lock at once and leaves no trace.
LoadForRecv(w, c, g) ==
    /\ CanDecrypt(blob[c], g)
    /\ Load(w, c, "recv", Decrypted(blob[c], g), g)

\* The transaction of send_message: ratchet, message row and outbox row, from
\* which the ciphertext is sent and retransmitted.
CommitSend(w) ==
    /\ work[w].op = "send"
    /\ Save(w)
    /\ cipher' = [cipher EXCEPT ![work[w].contact] = Append(@, work[w].gen)]
    /\ Unlock(w) /\ Finish(w)
    /\ UNCHANGED received

\* send_card_to_contact: the ratchet is saved under the lock; the ciphertext
\* goes to hub.send after the lock is released.
SaveCard(w) ==
    /\ work[w].op = "card"
    /\ Save(w)
    /\ Unlock(w)
    /\ work' = [work EXCEPT ![w].op = "hand"]
    /\ UNCHANGED <<cipher, received>>

HandOffCard(w) ==
    /\ work[w].op = "hand"
    /\ cipher' = [cipher EXCEPT ![work[w].contact] = Append(@, work[w].gen)]
    /\ Finish(w)
    /\ UNCHANGED <<blob, lock, received>>

\* The transaction of dispatch_for_group: ratchet, seen_messages and the row.
CommitRecv(w) ==
    /\ work[w].op = "recv"
    /\ Save(w)
    /\ received' = [received EXCEPT ![work[w].contact] = @ \cup {work[w].gen}]
    /\ Unlock(w) /\ Finish(w)
    /\ UNCHANGED cipher

\* The early returns under the lock: encryption or the transaction fails, the
\* envelope is outside the replay window, or it is a ContactCardUpdate, which
\* returns before the ratchet is saved.
Abort(w) ==
    /\ work[w].op \in {"send", "card", "recv"}
    /\ Unlock(w) /\ Finish(w)
    /\ UNCHANGED <<blob, cipher, received>>

\* The process ends: tasks and locks are gone, the tables stay.
RatchetCrash ==
    /\ lock' = [c \in Contacts |-> NoWorker]
    /\ work' = [w \in Workers |-> Idle]
    /\ UNCHANGED <<blob, cipher, received>>

RatchetNext ==
    \/ \E w \in Workers, c \in Contacts : LoadForSend(w, c) \/ LoadForCard(w, c)
    \/ \E w \in Workers, c \in Contacts, g \in PeerGens : LoadForRecv(w, c, g)
    \/ \E w \in Workers : \/ CommitSend(w) \/ SaveCard(w) \/ HandOffCard(w)
                          \/ CommitRecv(w) \/ Abort(w)
    \/ RatchetCrash

RatchetSpec == RatchetInit /\ [][RatchetNext]_rvars

-----------------------------------------------------------------------------
(* Properties. *)

\* Two ciphertexts of one group never carry the same ratchet generation,
\* whatever sends, card updates and receives overlap and wherever the daemon
\* crashes: the peer could decrypt only one of them, and a repeated generation
\* repeats the AEAD nonce.
GenerationUsedOnce ==
    \A c \in Contacts : \A i, j \in 1 .. Len(cipher[c]) :
        /\ cipher[c][i] < blob[c].next
        /\ cipher[c][i] = cipher[c][j] => i = j

\* The stored ratchet and the history agree: the generations it can no longer
\* decrypt are those whose messages are rows.  A send that saved a copy loaded
\* before a receive committed would bring a spent generation back.
SpentMeansReceived ==
    \A c \in Contacts : blob[c].spent = received[c]

\* Both at once, for whatever sends, card updates, receives and restarts
\* overlap: the history of a group and its stored ratchet never part.
RatchetFollowsHistory == GenerationUsedOnce /\ SpentMeansReceived

=============================================================================
