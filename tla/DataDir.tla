------------------------------ MODULE DataDir ------------------------------
(***************************************************************************)
(* The data directory of a skattr installation and the processes that     *)
(* share it: the identity vault, the hidden-service key, the message      *)
(* database in its encrypted and its working form, the plaintext snapshot *)
(* of a backup in progress, the cache of opened attachments and the       *)
(* single-daemon lock.                                                    *)
(*                                                                         *)
(* A run of the daemon takes the lock, opens the pool (decrypting the     *)
(* database, or re-encrypting what a crash left behind), starts up, works *)
(* and tears down.  It can die between any two file operations.  Exports, *)
(* a passphrase change, a wipe, a restore from an archive and the one-    *)
(* time migration of a legacy directory run beside it.                    *)
(*                                                                         *)
(* A database file is the set of transactions it holds, those in its      *)
(* write-ahead log included.  Encryption is not modelled: a file that is  *)
(* replaced by write-to-temporary-and-rename changes in one step, a file  *)
(* that is written in place is torn in between.                           *)
(***************************************************************************)
EXTENDS Naturals, FiniteSets

CONSTANTS Runs,        \* daemon runs that may contend for the directory
          NoRun,       \* nobody holds the lock
          Txns,        \* transactions the daemon may commit
          Passes,      \* vault passphrases
          NoPass,      \* there is no vault
          Exports,     \* ExportBackup commands that may be in flight
          Faults,      \* see FaultKinds
          MaxCrashes,  \* how often a process dies or fails
          MaxWipes     \* how often the user starts over

\* What the directory is not built to survive; a model admits each or not.
\*   decrypt  the process dies when decrypt_db has created the working file
\*            and not yet written its first block
\*   setup    the move of a legacy directory stops once the vault is moved, or
\*            a daemon starts while files are being moved or extracted
\*   retry    a daemon starts while tasks of one that returned still hold
\*            their pool
\*   reset    the desktop program, which looks only at its own daemon, and only
\*            once that is ready, resets the directory under a run
\*   export   two ExportBackup commands, which share one snapshot file, overlap
FaultKinds == {"decrypt", "setup", "retry", "reset", "export"}

ASSUME FaultsAssumption == Faults \subseteq FaultKinds

ASSUME SentinelsAssumption == NoRun \notin Runs /\ NoPass \notin Passes

ASSUME BoundsAssumption == MaxCrashes \in Nat /\ MaxWipes \in Nat

VARIABLES
  vault,      \* the passphrase identity.vault opens with, or NoPass
  hs,         \* hs.key.age
  age,        \* skattr.sqlite.age
  work,       \* skattr.sqlite with its write-ahead log
  snap,       \* skattr.snapshot, the plaintext copy an export makes
  sentinel,   \* skattr.sqlite.open
  cache,      \* cache/open holds decrypted attachments
  legacy,     \* the legacy directory: files left, their passphrase and data
  moving,     \* a migration is under way
  lock,       \* the run that holds daemon.lock
  pc,         \* where each run is
  conn,       \* the runs whose pool has its connection
  orphan,     \* the runs whose working file was removed beneath them
  buf,        \* what a run's encrypt_db has read
  job,        \* the runs that are decrypting an attachment to the cache
  bound,      \* the runs whose IPC socket was bound
  wiping,     \* the runs that were told to wipe the directory
  clean,      \* the runs whose shutdown met no fault and no late job
  change,     \* the ChangePassphrase command in flight
  told,       \* the passphrases the user has been told or has asked for
  exp,        \* the exports in flight
  archive,    \* the last backup written
  restoring,  \* the files a restore has still to extract
  committed,  \* every transaction whose commit was reported
  crashes, wipes

ids == <<vault, hs, legacy>>
db == <<age, work, snap, sentinel>>
proc == <<lock, conn, orphan, buf, job, bound, wiping, clean>>
cmds == <<change, told, exp, archive, restoring, moving>>
vars == <<ids, db, cache, proc, pc, cmds, committed, crashes, wipes>>

-----------------------------------------------------------------------------
(* Files and states *)

\* A database file is missing, torn, or whole.
None == [st |-> "none", has |-> {}]
Torn == [st |-> "torn", has |-> {}]
Db(s) == [st |-> "db", has |-> s]

\* The three members of an archive and of a legacy directory.
BackupFiles == {"vault", "hs", "age"}

NoExport == [st |-> "idle", run |-> NoRun, need |-> {}, got |-> None]
NoChange == [st |-> "idle", run |-> NoRun, new |-> NoPass]
NoArchive == [file |-> None, need |-> {}, pass |-> NoPass]

\* A new installation, or one whose files are still in the legacy directory.
Init ==
  /\ \/ /\ legacy = [left |-> {}, pass |-> NoPass, has |-> {}]
        /\ committed = {} /\ told = {}
     \/ \E t \in Txns, p \in Passes :
          /\ legacy = [left |-> BackupFiles, pass |-> p, has |-> {t}]
          /\ committed = {t} /\ told = {p}
  /\ vault = NoPass /\ hs = "none" /\ cache = FALSE
  /\ age = None /\ work = None /\ snap = None /\ sentinel = FALSE
  /\ lock = NoRun /\ pc = [r \in Runs |-> "off"]
  /\ conn = {} /\ orphan = {} /\ job = {}
  /\ bound = {} /\ wiping = {} /\ clean = {}
  /\ buf = [r \in Runs |-> {}]
  /\ change = NoChange /\ exp = [e \in Exports |-> NoExport]
  /\ archive = NoArchive /\ restoring = {} /\ moving = FALSE
  /\ crashes = 0 /\ wipes = 0

-----------------------------------------------------------------------------
(* Starting *)

At(r, step) == pc[r] = step
Goto(r, step) == pc' = [pc EXCEPT ![r] = step]

\* A process dies, or a step that can fail does.
Fault == crashes < MaxCrashes /\ crashes' = crashes + 1

\* An export holds the connection mutex while it vacuums.
Busy(r) == \E e \in Exports : exp[e].run = r /\ exp[e].st = "vacuum"

\* The lock goes with the stack frame of the run, the pool with the last task
\* that holds it; Drop then closes it, for the first time after a start or a
\* transport that failed, for the second after a clean shutdown.
Lingering == {r \in Runs : lock # r /\ pc[r] # "off"}

\* lock::acquire, without waiting; the caller gives up when it is held.
Acquire(r) == lock = NoRun /\ lock' = r

\* Vault::open.
VaultOpen(p) == vault = p /\ p # NoPass

\* run_with_sink up to the pool: the lock first, then the vault is opened.
RunWithSink(r) ==
  /\ Acquire(r) /\ \E p \in Passes : VaultOpen(p)
  /\ "retry" \in Faults \/ Lingering = {}
  /\ "setup" \in Faults \/ (~moving /\ restoring = {})
  /\ Goto(r, "boot") /\ clean' = {}
  /\ UNCHANGED <<ids, db, cache, conn, orphan, buf, job, bound, wiping, cmds,
                 committed, crashes, wipes>>

\* `skattr daemon`: what a legacy directory holds is carried over first, and
\* without a vault there is nothing to run.
DaemonCmd(r) ==
  /\ At(r, "off") /\ vault # NoPass
  /\ RunWithSink(r)

\* start_in_process_cmd takes the passphrase that vault_unlock has tried.
VaultUnlock == \E p \in told : VaultOpen(p)
StartInProcess(r) ==
  /\ At(r, "off") /\ VaultUnlock
  /\ RunWithSink(r)

\* Mutant: what a crash left is overwritten by the last encrypted copy.
PoolOpen_DecryptOver(r) ==
  /\ At(r, "boot")
  /\ work' = Db({})
  /\ Goto(r, IF age.st = "none" THEN "opened" ELSE "decrypt")
  /\ UNCHANGED <<ids, age, snap, sentinel, cache, proc, cmds, committed,
                 crashes, wipes>>

\* Pool::open up to the connection.  Residue is a working file that is there
\* before anything is decrypted; a torn one cannot be opened.
PoolOpen(r) ==
  /\ At(r, "boot")
  /\ \/ /\ work.st = "none"
        /\ work' = Db({})
        /\ Goto(r, IF age.st = "none" THEN "opened" ELSE "decrypt")
        /\ UNCHANGED <<lock, buf>>
     \/ /\ work.st = "db"
        /\ buf' = [buf EXCEPT ![r] = work.has] /\ Goto(r, "reencrypt")
        /\ UNCHANGED <<lock, work>>
     \/ /\ work.st = "torn"
        /\ lock' = NoRun /\ Goto(r, "off")
        /\ UNCHANGED <<work, buf>>
  /\ UNCHANGED <<ids, age, snap, sentinel, cache, conn, orphan, job, bound,
                 wiping, clean, cmds, committed, crashes, wipes>>

\* decrypt_db writes the working file in place: created empty, torn until the
\* last block is written.
DecryptDb(r) ==
  /\ \/ At(r, "decrypt") /\ work' = Torn /\ Goto(r, "write")
     \/ At(r, "write") /\ work' = age /\ Goto(r, "opened")
  /\ UNCHANGED <<ids, age, snap, sentinel, cache, proc, cmds, committed,
                 crashes, wipes>>

\* Residue is encrypted again before the pool is handed out.
Reencrypt(r) ==
  /\ At(r, "reencrypt")
  /\ age' = Db(buf[r]) /\ buf' = [buf EXCEPT ![r] = {}] /\ Goto(r, "opened")
  /\ UNCHANGED <<ids, work, snap, sentinel, cache, lock, conn, orphan, job,
                 bound, wiping, clean, cmds, committed, crashes, wipes>>

\* The sentinel is written and the pool is live.
Opened(r) ==
  /\ At(r, "opened")
  /\ sentinel' = TRUE /\ conn' = conn \cup {r} /\ Goto(r, "starting")
  /\ UNCHANGED <<ids, age, work, snap, cache, lock, orphan, buf, job, bound,
                 wiping, clean, cmds, committed, crashes, wipes>>

\* publish loads the hidden-service key, or writes a new one in place; then
\* the open-cache of the previous run is wiped and the IPC socket bound.
Publish(r) ==
  /\ \/ /\ At(r, "starting") /\ hs = "none"
        /\ hs' = "torn" /\ Goto(r, "publish")
        /\ UNCHANGED <<cache, bound>>
     \/ /\ At(r, "publish") \/ (At(r, "starting") /\ hs = "key")
        /\ hs' = "key" /\ cache' = FALSE /\ Goto(r, "up")
        /\ bound' = bound \cup {r}
  /\ UNCHANGED <<vault, legacy, db, lock, conn, orphan, buf, job, wiping, clean,
                 cmds, committed, crashes, wipes>>

\* Tor does not come up, or the key does not load.
StartFails(r) ==
  /\ At(r, "starting")
  /\ Fault \/ (hs = "torn" /\ UNCHANGED crashes)
  /\ lock' = NoRun /\ Goto(r, "close")
  /\ UNCHANGED <<ids, db, cache, conn, orphan, buf, job, bound, wiping, clean,
                 cmds, committed, wipes>>

-----------------------------------------------------------------------------
(* Working *)

\* A write through the pool, by any task that holds it.
Commit(r) ==
  /\ r \in conn /\ ~Busy(r)
  /\ \E t \in Txns \ committed :
       /\ committed' = committed \cup {t}
       /\ work' = IF r \in orphan THEN work ELSE Db(work.has \cup {t})
  /\ UNCHANGED <<ids, age, snap, sentinel, cache, proc, pc, cmds, crashes,
                 wipes>>

\* OpenAttachment reads the row through the pool and decrypts on a blocking
\* thread, which nothing in the teardown waits for.
OpenAttachment(r) ==
  /\ \/ /\ r \in (bound \cap conn) \ job /\ ~Busy(r)
        /\ job' = job \cup {r} /\ clean' = clean \ {r}
        /\ UNCHANGED cache
     \/ /\ r \in job
        /\ cache' = TRUE /\ job' = job \ {r}
        /\ UNCHANGED clean
  /\ UNCHANGED <<ids, db, lock, conn, orphan, buf, bound, wiping, pc, cmds,
                 committed, crashes, wipes>>

\* Mutant: the old vault is removed before the new one takes its place.
ChangePassphrase_RemovesFirst ==
  /\ \/ /\ change.st = "idle"
        /\ \E r \in bound, p \in Passes \ {vault} :
             /\ change' = [st |-> "written", run |-> r, new |-> p]
             /\ told' = {vault, p}
        /\ vault' = NoPass
     \/ /\ change.st = "written"
        /\ vault' = change.new /\ change' = NoChange
        /\ told' = {change.new}
  /\ UNCHANGED <<hs, legacy, db, cache, proc, pc, exp, archive, restoring,
                 moving, committed, crashes, wipes>>

\* PassphraseAuditRepo::append, through the pool.
AuditAppends(r) == r \in conn

\* ChangePassphrase: open under the old passphrase, write the new vault beside
\* it, rename, append the audit row.  A failed append is reported and undoes
\* nothing.  `told` is what the user may take for the passphrase.
ChangePassphrase ==
  /\ \/ /\ change.st = "idle"
        /\ \E r \in bound, p \in Passes \ {vault} :
             /\ change' = [st |-> "written", run |-> r, new |-> p]
             /\ told' = {vault, p}
        /\ UNCHANGED vault
     \/ /\ change.st = "written"
        /\ vault' = change.new /\ change' = [change EXCEPT !.st = "audit"]
        /\ UNCHANGED told
     \/ /\ change.st = "audit" /\ ~Busy(change.run)
        /\ change' = NoChange
        /\ told' = IF AuditAppends(change.run) THEN {change.new} ELSE told
        /\ UNCHANGED vault
  /\ UNCHANGED <<hs, legacy, db, cache, proc, pc, exp, archive, restoring,
                 moving, committed, crashes, wipes>>

Exporting(e, step, next) ==
  /\ exp[e].st = step /\ exp' = [exp EXCEPT ![e] = next]

\* A bound of the model: backups are asked for until one is written.
Wanted == archive = NoArchive

\* ExportBackup arrives; `need` is what its archive has to hold.
ExportBegin(e) ==
  /\ Wanted
  /\ "export" \in Faults \/ \A f \in Exports : exp[f].st = "idle"
  /\ \E r \in bound :
       Exporting(e, "idle", [st |-> "begun", run |-> r, need |-> committed,
                             got |-> None])
  /\ UNCHANGED <<ids, db, cache, proc, pc, change, told, archive, restoring,
                 moving, committed, crashes, wipes>>

\* Mutant: a snapshot a dead export left is taken for this one's.
ExportVacuum_Stale(e) ==
  /\ \/ /\ exp[e].run \in conn /\ ~Busy(exp[e].run) /\ snap = None
        /\ Exporting(e, "begun", [exp[e] EXCEPT !.st = "vacuum"])
        /\ snap' = Torn
     \/ /\ exp[e].run \in conn /\ ~Busy(exp[e].run) /\ snap # None
        /\ Exporting(e, "begun", [exp[e] EXCEPT !.st = "encrypt"])
        /\ UNCHANGED snap
     \/ /\ Exporting(e, "vacuum", [exp[e] EXCEPT !.st = "encrypt"])
        /\ snap' = Db(work.has)
  /\ UNCHANGED <<ids, age, work, sentinel, cache, proc, pc, change, told,
                 archive, restoring, moving, committed, crashes, wipes>>

\* snapshot_encrypted under the mutex: the old snapshot is removed and the
\* database vacuumed into a new one.  A closed pool is an error, which still
\* removes the snapshot.
ExportVacuum(e) ==
  /\ \/ /\ exp[e].run \in conn /\ ~Busy(exp[e].run)
        /\ Exporting(e, "begun", [exp[e] EXCEPT !.st = "vacuum"])
        /\ snap' = Torn
     \/ /\ Exporting(e, "vacuum", [exp[e] EXCEPT !.st = "encrypt"])
        /\ snap' = Db(work.has)
     \/ /\ exp[e].run \notin conn
        /\ Exporting(e, "begun", NoExport)
        /\ snap' = None
  /\ UNCHANGED <<ids, age, work, sentinel, cache, proc, pc, change, told,
                 archive, restoring, moving, committed, crashes, wipes>>

\* The mutex is free again: encrypt_db reads the snapshot, which is then
\* removed whatever happened.
ExportEncrypt(e) ==
  /\ \/ /\ Exporting(e, "encrypt", [exp[e] EXCEPT !.st = "cleanup", !.got = snap])
        /\ UNCHANGED snap
     \/ /\ Exporting(e, "cleanup", IF exp[e].got = None THEN NoExport
                                   ELSE [exp[e] EXCEPT !.st = "bundle"])
        /\ snap' = None
  /\ UNCHANGED <<ids, age, work, sentinel, cache, proc, pc, change, told,
                 archive, restoring, moving, committed, crashes, wipes>>

\* export_backup_from_parts: the archive replaces the last one in one rename.
ExportBundle(e) ==
  /\ Exporting(e, "bundle", NoExport)
  /\ archive' = [file |-> exp[e].got, need |-> exp[e].need, pass |-> vault]
  /\ UNCHANGED <<ids, db, cache, proc, pc, change, told, restoring, moving,
                 committed, crashes, wipes>>

\* `skattr backup` bundles the encrypted database as it lies there, whether or
\* not a daemon runs.
OfflineBackup ==
  /\ Wanted /\ vault # NoPass /\ hs # "none" /\ age.st # "none"
  /\ archive' = [file |-> age, need |-> age.has, pass |-> vault]
  /\ UNCHANGED <<ids, db, cache, proc, pc, change, told, exp, restoring, moving,
                 committed, crashes, wipes>>

-----------------------------------------------------------------------------
(* Stopping *)

\* A signal or the quit path: the accept loops and the sweeps stop; the
\* connections that are open stay.
Teardown(r) ==
  /\ At(r, "up") /\ Goto(r, "teardown")
  /\ clean' = IF r \in job THEN clean ELSE clean \cup {r}
  /\ UNCHANGED <<ids, db, cache, lock, conn, orphan, buf, job, bound, wiping,
                 cmds, committed, crashes, wipes>>

\* transport.shutdown: an error returns at once, and the guard wipes the cache.
TransportDown(r) ==
  /\ At(r, "teardown") /\ Goto(r, "close")
  /\ \/ UNCHANGED <<lock, cache, clean, crashes>>
     \/ Fault /\ lock' = NoRun /\ cache' = FALSE /\ clean' = clean \ {r}
  /\ UNCHANGED <<ids, db, conn, orphan, buf, job, bound, wiping, cmds,
                 committed, wipes>>

\* WipeAllData, once its reply is flushed: close the pool, remove the
\* directory, exit.
WipeBegin(r) ==
  /\ At(r, "up") /\ wipes < MaxWipes
  /\ wipes' = wipes + 1 /\ wiping' = wiping \cup {r} /\ Goto(r, "close")
  /\ UNCHANGED <<ids, db, cache, lock, conn, orphan, buf, job, bound, clean,
                 cmds, committed, crashes>>

\* Pool::close, called by the run and again by Drop: checkpoint, take the
\* connection, read the file; nothing to do when the working file is gone.
CloseBegin(r) ==
  /\ At(r, "close") /\ ~Busy(r)
  /\ conn' = conn \ {r}
  /\ IF work.st = "none"
       THEN Goto(r, "closed") /\ UNCHANGED buf
       ELSE Goto(r, "encrypt") /\ buf' = [buf EXCEPT ![r] = work.has]
  /\ UNCHANGED <<ids, db, cache, lock, orphan, job, bound, wiping, clean, cmds,
                 committed, crashes, wipes>>

\* The ciphertext replaces the old one, or cannot be written.
CloseEncrypt(r) ==
  /\ At(r, "encrypt") /\ buf' = [buf EXCEPT ![r] = {}]
  /\ \/ age' = Db(buf[r]) /\ Goto(r, "remove") /\ UNCHANGED <<clean, crashes>>
     \/ Fault /\ clean' = clean \ {r} /\ Goto(r, "closed") /\ UNCHANGED age
  /\ UNCHANGED <<ids, work, snap, sentinel, cache, lock, conn, orphan, job,
                 bound, wiping, cmds, committed, wipes>>

\* remove_plaintext_artifacts: the database and its sidecars, then the sentinel.
CloseRemove(r) ==
  /\ \/ /\ At(r, "remove") /\ Goto(r, "unmark")
        /\ work' = None /\ orphan' = orphan \cup conn
        /\ UNCHANGED sentinel
     \/ /\ At(r, "unmark") /\ Goto(r, "closed")
        /\ sentinel' = FALSE
        /\ UNCHANGED <<work, orphan>>
  /\ UNCHANGED <<ids, age, snap, cache, lock, conn, buf, job, bound, wiping,
                 clean, cmds, committed, crashes, wipes>>

\* Mutant: the shutdown leaves the open-cache to the next boot.
Return_NoWipe(r) ==
  /\ At(r, "closed") /\ lock = r /\ r \notin wiping
  /\ lock' = NoRun /\ Goto(r, "close")
  /\ UNCHANGED <<ids, db, cache, conn, orphan, buf, job, bound, wiping, clean,
                 cmds, committed, crashes, wipes>>

\* The cache is wiped and the run returns; what is left is the pool's Drop.
Return(r) ==
  /\ At(r, "closed") /\ lock = r /\ r \notin wiping
  /\ cache' = FALSE /\ lock' = NoRun /\ Goto(r, "close")
  /\ UNCHANGED <<ids, db, conn, orphan, buf, job, bound, wiping, clean, cmds,
                 committed, crashes, wipes>>

\* What a process that ends takes with it: its lock, tasks and commands.
Gone(r) ==
  /\ Goto(r, "off")
  /\ lock' = IF lock = r THEN NoRun ELSE lock
  /\ conn' = conn \ {r} /\ orphan' = orphan \ {r} /\ job' = job \ {r}
  /\ bound' = bound \ {r} /\ wiping' = wiping \ {r}
  /\ buf' = [buf EXCEPT ![r] = {}]
  /\ change' = IF change.run = r THEN NoChange ELSE change
  /\ exp' = [e \in Exports |-> IF exp[e].run = r THEN NoExport ELSE exp[e]]

\* `skattr daemon` ends: the runtime waits for its blocking threads and drops
\* the rest.
Exit(r) ==
  /\ At(r, "closed") /\ lock # r /\ r \notin job
  /\ \A e \in Exports : exp[e].run = r => exp[e].st = "bundle"
  /\ Gone(r)
  /\ UNCHANGED <<ids, db, cache, clean, told, archive, restoring, moving,
                 committed, crashes, wipes>>

\* The desktop program's quit path joins the run that was told to stop and then
\* exits, waiting for no task; a teardown that exceeds QUIT_TEARDOWN_TIMEOUT is
\* a crash.
ExitRequested(r) ==
  /\ ~At(r, "off") /\ lock # r
  /\ Gone(r)
  /\ UNCHANGED <<ids, db, cache, clean, told, archive, restoring, moving,
                 committed, crashes, wipes>>

\* remove_dir_all; what was committed and told before no longer counts.
Emptied ==
  /\ vault' = NoPass /\ hs' = "none" /\ cache' = FALSE
  /\ age' = None /\ work' = None /\ snap' = None /\ sentinel' = FALSE
  /\ committed' = {} /\ told' = {}

\* The end of the connection that carried WipeAllData.
WipeRemove(r) ==
  /\ At(r, "closed") /\ r \in wiping /\ Gone(r)
  /\ Emptied
  /\ UNCHANGED <<legacy, clean, archive, restoring, moving, crashes, wipes>>

\* The process dies.
Crash(r) ==
  /\ pc[r] # "off" /\ Fault
  /\ pc[r] = "decrypt" => "decrypt" \in Faults
  /\ Gone(r) /\ clean' = clean \ {r}
  /\ UNCHANGED <<ids, db, cache, told, archive, restoring, moving, committed,
                 wipes>>

-----------------------------------------------------------------------------
(* Setting up, without a daemon *)

\* Vault::create: written beside and renamed into place.
CreateVault ==
  /\ \E p \in Passes : vault' = p /\ told' = {p}
  /\ UNCHANGED <<hs, legacy, db, cache, proc, pc, change, exp, archive,
                 restoring, moving, committed, crashes, wipes>>

\* No vault, and none that the migration, which comes first, would bring.
NoIdentity == vault = NoPass /\ "vault" \notin legacy.left /\ restoring = {}

\* `skattr init` with a new seed, `skattr restore` from a written one, and the
\* desktop program's identity_init, each only where there is no identity.
InitCmd == NoIdentity /\ CreateVault

RestoreSeed == NoIdentity /\ CreateVault

IdentityInit == NoIdentity /\ CreateVault

\* reset_local_data, from the unlock screen: the directory is removed without
\* its daemon's help and created empty.
ResetLocalData ==
  /\ wipes < MaxWipes /\ wipes' = wipes + 1
  /\ "reset" \in Faults \/ (\A r \in Runs : At(r, "off"))
  /\ "setup" \in Faults \/ (~moving /\ restoring = {})
  /\ Emptied /\ orphan' = orphan \cup conn
  /\ UNCHANGED <<legacy, lock, conn, buf, job, bound, wiping, clean, pc, change,
                 exp, archive, restoring, moving, crashes>>

\* import_backup refuses a directory that holds any of its files, and extracts
\* them one by one in the archive's order; it may die in between.
RestoreBegin ==
  /\ archive # NoArchive /\ restoring = {}
  /\ vault = NoPass /\ hs = "none" /\ age = None
  /\ restoring' = BackupFiles
  /\ UNCHANGED <<ids, db, cache, proc, pc, change, told, exp, archive, moving,
                 committed, crashes, wipes>>

RestoreNext ==
  /\ \/ /\ restoring = BackupFiles /\ restoring' = {"hs", "age"}
        /\ vault' = archive.pass /\ told' = {archive.pass}
        /\ UNCHANGED <<hs, age, committed>>
     \/ /\ restoring = {"hs", "age"} /\ restoring' = {"age"}
        /\ hs' = "key"
        /\ UNCHANGED <<vault, told, age, committed>>
     \/ /\ restoring = {"age"} /\ restoring' = {}
        /\ age' = archive.file /\ committed' = archive.need
        /\ UNCHANGED <<vault, told, hs>>
  /\ UNCHANGED <<legacy, work, snap, sentinel, cache, proc, pc, change, exp,
                 archive, moving, crashes, wipes>>

RestoreDies ==
  /\ restoring # {} /\ Fault /\ restoring' = {}
  /\ UNCHANGED <<ids, db, cache, proc, pc, change, told, exp, archive, moving,
                 committed, wipes>>

\* migrate_legacy_into, at every start of the program: nothing once the vault
\* is in place, else every file in directory order.
MigrateBegin ==
  /\ ~moving /\ vault = NoPass /\ "vault" \in legacy.left
  /\ moving' = TRUE
  /\ UNCHANGED <<ids, db, cache, proc, pc, change, told, exp, archive,
                 restoring, committed, crashes, wipes>>

MigrateMove ==
  /\ moving
  /\ \E f \in legacy.left :
       /\ legacy' = [legacy EXCEPT !.left = @ \ {f}]
       /\ moving' = (legacy.left # {f})
       /\ vault' = IF f = "vault" THEN legacy.pass ELSE vault
       /\ hs' = IF f = "hs" THEN "key" ELSE hs
       /\ age' = IF f = "age" THEN Db(legacy.has) ELSE age
  /\ UNCHANGED <<work, snap, sentinel, cache, proc, pc, change, told, exp,
                 archive, restoring, committed, crashes, wipes>>

MigrateFails ==
  /\ moving /\ Fault /\ moving' = FALSE
  /\ "setup" \in Faults \/ "vault" \in legacy.left
  /\ UNCHANGED <<ids, db, cache, proc, pc, change, told, exp, archive,
                 restoring, committed, wipes>>

-----------------------------------------------------------------------------
Run(r) ==
  \/ DaemonCmd(r) \/ StartInProcess(r)
  \/ PoolOpen(r) \/ DecryptDb(r) \/ Reencrypt(r) \/ Opened(r)
  \/ Publish(r) \/ StartFails(r) \/ Commit(r) \/ OpenAttachment(r)
  \/ Teardown(r) \/ TransportDown(r) \/ WipeBegin(r) \/ CloseBegin(r)
  \/ CloseEncrypt(r) \/ CloseRemove(r) \/ Return(r) \/ Exit(r) \/ ExitRequested(r)
  \/ WipeRemove(r) \/ Crash(r)

Export(e) ==
  ExportBegin(e) \/ ExportVacuum(e) \/ ExportEncrypt(e) \/ ExportBundle(e)

Setup ==
  \/ InitCmd \/ RestoreSeed \/ IdentityInit \/ ResetLocalData
  \/ RestoreBegin \/ RestoreNext \/ RestoreDies
  \/ MigrateBegin \/ MigrateMove \/ MigrateFails

Next ==
  \/ \E r \in Runs : Run(r)
  \/ \E e \in Exports : Export(e)
  \/ ChangePassphrase \/ OfflineBackup \/ Setup

Spec == Init /\ [][Next]_vars

-----------------------------------------------------------------------------
(* Properties *)

\* No committed transaction is lost: whenever a pool is open, its database holds
\* every transaction whose commit was ever reported, through crashes at any
\* file operation, failed starts, failed closes, migration and restore
\* (Pool::open's crash model: "no data loss").
KeepsCommitted ==
  \A r \in conn : r \notin orphan /\ work.st = "db" /\ committed \subseteq work.has

\* After a shutdown that met no fault and no attachment being opened, nothing
\* decrypted is left and the encrypted database is current (pool.close and
\* wipe_open_cache at the end of run_with_transport).
CleanAtRest ==
  \A r \in clean :
    At(r, "off") => /\ work = None /\ ~sentinel /\ ~cache
                    /\ committed \subseteq age.has

\* An archive that was reported written holds a whole database with everything
\* that was committed when the export began (snapshot_encrypted).
BackupWhole ==
  archive # NoArchive => archive.file.st = "db" /\ archive.need \subseteq archive.file.has

\* The vault opens with a passphrase the user knows: the one in force, or the
\* one a change in flight, cut short or not audited was to set
\* (Vault::change_passphrase: "never neither").
VaultOpens ==
  told # {} /\ "vault" \notin legacy.left => vault \in told
=============================================================================
