--------------------------- MODULE DataDirProofs ---------------------------
(***************************************************************************)
(* Proofs about the data directory for any sets of runs, transactions and  *)
(* passphrases, and any number of crashes and wipes.                       *)
(*                                                                         *)
(* The first part shows that at most one run is there at a time, and that  *)
(* the vault opens. The second follows what was committed through the      *)
(* files of that run.                                                      *)
(***************************************************************************)
EXTENDS DataDir, TLAPS

-----------------------------------------------------------------------------
(* Types *)

Steps == {"off", "boot", "decrypt", "write", "reencrypt", "opened", "starting",
          "publish", "up", "teardown", "close", "encrypt", "remove", "unmark",
          "closed"}

\* A run holds its connection from "starting" until it closes the pool, the lock
\* until it returns, and gets commands once its socket is bound.
Pooled  == {"starting", "publish", "up", "teardown"}
Locked  == {"boot", "decrypt", "write", "reencrypt", "opened"} \cup Pooled
Unbound == {"off", "boot", "decrypt", "write", "reencrypt", "opened", "starting",
            "publish"}

Files == [st : {"none", "torn", "db"}, has : SUBSET Txns]

ExportStates ==
  [st : {"idle", "begun", "vacuum", "encrypt", "cleanup", "bundle"},
   run : Runs \cup {NoRun}, need : SUBSET Txns, got : Files]

ProcTypes ==
  /\ lock \in Runs \cup {NoRun}
  /\ pc \in [Runs -> Steps] /\ buf \in [Runs -> SUBSET Txns]
  /\ conn \subseteq Runs /\ job \subseteq Runs /\ bound \subseteq Runs
  /\ wiping \subseteq Runs /\ clean \subseteq Runs

FileTypes == age \in Files /\ work \in Files /\ committed \subseteq Txns

CmdTypes ==
  /\ vault \in Passes \cup {NoPass} /\ snap \in Files
  /\ legacy \in [left : SUBSET BackupFiles, pass : Passes \cup {NoPass},
                 has : SUBSET Txns]
  /\ change \in [st : {"idle", "written", "audit"}, run : Runs \cup {NoRun},
                 new : Passes \cup {NoPass}]
  /\ exp \in [Exports -> ExportStates]
  /\ archive \in [file : Files, need : SUBSET Txns, pass : Passes \cup {NoPass}]
  /\ restoring \in {{}, BackupFiles, {"hs", "age"}, {"age"}}

Types == ProcTypes /\ FileTypes /\ CmdTypes

-----------------------------------------------------------------------------
(* One run at a time *)

\* What holds of the run that is there.
RunOK(r) ==
  /\ pc[r] \in Locked => lock = r
  /\ lock \in {r, NoRun}
  /\ conn \subseteq {r}
  /\ r \in conn => pc[r] \in Pooled \cup {"close"}
  /\ pc[r] \in Pooled => r \in conn
  /\ bound \subseteq {r} /\ job \subseteq {r} /\ wiping \subseteq {r}
  /\ pc[r] \in Unbound => bound = {} /\ job = {} /\ wiping = {}

\* No run is there.
AllOff == \A r \in Runs : pc[r] = "off"

\* A run starts only in a directory that nobody is setting up.
Settled == vault # NoPass /\ legacy.left = {} /\ restoring = {} /\ ~moving

\* The commands in flight are those of the run that is there.
CmdsOK ==
  /\ change.st # "idle" => change.run \in bound
  /\ \A e \in Exports :
       /\ exp[e].st # "idle" => exp[e].run \in bound
       /\ exp[e].st = "vacuum" => exp[e].run \in conn
       /\ \A f \in Exports : exp[e].st # "idle" /\ exp[f].st # "idle" => e = f

Solo ==
  /\ \A r, s \in Runs : pc[r] # "off" /\ pc[s] # "off" => r = s
  /\ \A r \in Runs : pc[r] # "off" => RunOK(r) /\ Settled
  /\ AllOff => /\ lock = NoRun /\ conn = {}
               /\ bound = {} /\ job = {} /\ wiping = {}
  /\ orphan = {}
  /\ CmdsOK

\* A migration that has carried the vault goes on until all is carried; until
\* then, and while there is no vault, there is no working file.
Layout ==
  /\ moving => legacy.left # {}
  /\ legacy.left # {} =>
       /\ legacy.pass \in Passes
       /\ IF "vault" \in legacy.left
            THEN vault = NoPass /\ told \subseteq {legacy.pass}
            ELSE moving /\ vault = legacy.pass
       /\ "hs" \in legacy.left => hs = "none"
       /\ "age" \in legacy.left => age = None
       /\ archive = NoArchive /\ restoring = {} /\ clean = {} /\ work = None
  /\ archive # NoArchive => archive.pass \in Passes
  /\ restoring # {} => /\ archive # NoArchive /\ work = None
                       /\ vault = NoPass => restoring = BackupFiles
  /\ vault = NoPass => work = None

\* A change of passphrase in flight names passphrases the user knows.
Told ==
  /\ change.st = "written" => change.new \in told \cap Passes /\ vault \in told
  /\ change.st = "audit" => vault = change.new /\ vault \in told
  /\ VaultOpens

SoloInv == Types /\ Solo /\ Layout /\ Told

-----------------------------------------------------------------------------
(* The steps, by what they leave alone *)

Boots(r) == DaemonCmd(r) \/ StartInProcess(r)

Steady(r) ==
  \/ PoolOpen(r) \/ DecryptDb(r) \/ Reencrypt(r) \/ Opened(r) \/ Publish(r)
  \/ StartFails(r) \/ Commit(r) \/ OpenAttachment(r) \/ Teardown(r)
  \/ TransportDown(r) \/ WipeBegin(r) \/ CloseBegin(r) \/ CloseEncrypt(r)
  \/ CloseRemove(r) \/ Return(r)

Ends(r) == Exit(r) \/ ExitRequested(r) \/ Crash(r)

SetsUp == InitCmd \/ RestoreSeed \/ IdentityInit

LEMMA Kinds ==
  ASSUME Next
  PROVE  \/ \E r \in Runs : Boots(r) \/ Steady(r) \/ Ends(r) \/ WipeRemove(r)
         \/ \E e \in Exports :
              ExportBegin(e) \/ ExportVacuum(e) \/ ExportEncrypt(e) \/ ExportBundle(e)
         \/ ChangePassphrase \/ OfflineBackup \/ SetsUp \/ ResetLocalData
         \/ RestoreBegin \/ RestoreNext \/ RestoreDies
         \/ MigrateBegin \/ MigrateMove \/ MigrateFails
BY Zenon DEF Next, Run, Export, Setup, Boots, Steady, Ends, SetsUp

cmdVars == <<vault, legacy, change, told, exp, archive, restoring, moving, snap>>

\* A run at work touches no command, no identity file and no snapshot, and takes
\* back no commit.
LEMMA SteadyFrame ==
  ASSUME NEW r \in Runs, Steady(r)
  PROVE  UNCHANGED cmdVars /\ committed \subseteq committed'
<1> USE DEF cmdVars, ids, db, cmds
<1>1. ASSUME PoolOpen(r) \/ DecryptDb(r) \/ Reencrypt(r) \/ Opened(r)
      PROVE  UNCHANGED cmdVars /\ UNCHANGED committed
  BY <1>1, Zenon DEF PoolOpen, DecryptDb, Reencrypt, Opened
<1>2. ASSUME Publish(r) \/ StartFails(r) \/ OpenAttachment(r) \/ Teardown(r)
      PROVE  UNCHANGED cmdVars /\ UNCHANGED committed
  BY <1>2, Zenon DEF Publish, StartFails, OpenAttachment, Teardown
<1>3. ASSUME TransportDown(r) \/ WipeBegin(r) \/ CloseBegin(r)
      PROVE  UNCHANGED cmdVars /\ UNCHANGED committed
  BY <1>3, Zenon DEF TransportDown, WipeBegin, CloseBegin
<1>4. ASSUME CloseEncrypt(r) \/ CloseRemove(r) \/ Return(r)
      PROVE  UNCHANGED cmdVars /\ UNCHANGED committed
  BY <1>4, Zenon DEF CloseEncrypt, CloseRemove, Return
<1>5. ASSUME Commit(r) PROVE UNCHANGED cmdVars /\ committed \subseteq committed'
  BY <1>5, Zenon DEF Commit
<1> QED
  BY <1>1, <1>2, <1>3, <1>4, <1>5, Zenon DEF Steady

\* What a start finds, and all it changes.
LEMMA BootFrame ==
  ASSUME ProcTypes, Faults \subseteq {"decrypt"}, NEW r \in Runs, Boots(r)
  PROVE  /\ AllOff /\ lock' = r /\ pc' = [pc EXCEPT ![r] = "boot"] /\ clean' = {}
         /\ vault \in Passes /\ ~moving /\ restoring = {}
         /\ UNCHANGED <<ids, db, cache, conn, orphan, buf, job, bound, wiping, cmds,
                        committed>>
<1>1. RunWithSink(r)
  BY Zenon DEF Boots, DaemonCmd, StartInProcess
<1>2. AllOff
  BY <1>1, SentinelsAssumption, Zenon DEF RunWithSink, Acquire, Lingering, AllOff
<1>3. vault \in Passes /\ ~moving /\ restoring = {}
  BY <1>1, Zenon DEF RunWithSink, VaultOpen
<1> QED
  BY <1>1, <1>2, <1>3, Zenon DEF RunWithSink, Acquire, Goto

\* What ends with a run: it is a crash, or the lock was given back before.
LEMMA EndFrame ==
  ASSUME NEW r \in Runs, Ends(r)
  PROVE  /\ pc[r] # "off" /\ Gone(r)
         /\ UNCHANGED <<ids, db, cache, told, archive, restoring, moving, committed>>
         /\ \/ clean' = clean /\ lock # r
            \/ clean' = clean \ {r} /\ (pc[r] = "decrypt" => "decrypt" \in Faults)
<1>1. CASE Exit(r)
  BY <1>1, Zenon DEF Exit, At
<1>2. CASE ExitRequested(r)
  BY <1>2, Zenon DEF ExitRequested, At
<1>3. CASE Crash(r)
  BY <1>3, Zenon DEF Crash
<1> QED
  BY <1>1, <1>2, <1>3, Zenon DEF Ends

\* Where a step of the run that is there leaves it.
StillThere(r) ==
  /\ ProcTypes' /\ orphan' = {} /\ bound \subseteq bound'
  /\ \A s \in Runs : s # r => pc'[s] = pc[s]
  /\ pc'[r] # "off" => RunOK(r)'
  /\ pc'[r] = "off" => /\ lock' = NoRun /\ conn' = {}
                       /\ bound' = {} /\ job' = {} /\ wiping' = {}
  /\ \A e \in Exports :
       exp[e].st = "vacuum" /\ exp[e].run \in conn => exp[e].run \in conn'

LEMMA SteadyRun ==
  ASSUME ProcTypes, FileTypes, NEW r \in Runs, pc[r] # "off", RunOK(r),
         orphan = {}, Steady(r)
  PROVE  StillThere(r)
<1>0. work.has \subseteq Txns /\ work.st \in {"none", "torn", "db"}
  BY Zenon DEF FileTypes, Files
<1> USE SentinelsAssumption
    DEF ProcTypes, RunOK, Steps, Pooled, Locked, Unbound, StillThere, At, Goto, proc
<1>1. CASE PoolOpen(r)
  <2>1. CASE work.st = "none"
    BY <1>1, <2>1, Zenon DEF PoolOpen
  <2>2. CASE work.st = "db"
    BY <1>0, <1>1, <2>2, Zenon DEF PoolOpen
  <2>3. CASE work.st = "torn"
    BY <1>1, <2>3, Zenon DEF PoolOpen
  <2> QED
    BY <1>0, <2>1, <2>2, <2>3, Zenon
<1>2. CASE DecryptDb(r)
  BY <1>2, Zenon DEF DecryptDb
<1>3. CASE Reencrypt(r)
  BY <1>3, Zenon DEF Reencrypt
<1>4. CASE Opened(r)
  BY <1>4, Zenon DEF Opened
<1>5. CASE Publish(r)
  BY <1>5, Zenon DEF Publish
<1>6. CASE StartFails(r)
  BY <1>6, Zenon DEF StartFails
<1>7. CASE Commit(r)
  BY <1>7, Zenon DEF Commit
<1>8. CASE OpenAttachment(r)
  BY <1>8, Zenon DEF OpenAttachment
<1>9. CASE Teardown(r)
  BY <1>9, Zenon DEF Teardown
<1>10. CASE TransportDown(r)
  BY <1>10, Zenon DEF TransportDown
<1>11. CASE WipeBegin(r)
  BY <1>11, Zenon DEF WipeBegin
<1>12. CASE CloseBegin(r)
  BY <1>0, <1>12, Zenon DEF CloseBegin, Busy
<1>13. CASE CloseEncrypt(r)
  BY <1>13, Zenon DEF CloseEncrypt
<1>14. CASE CloseRemove(r)
  BY <1>14, ZenonT(60) DEF CloseRemove
<1>15. CASE Return(r)
  BY <1>15, Zenon DEF Return
<1> QED
  BY <1>1, <1>2, <1>3, <1>4, <1>5, <1>6, <1>7, <1>8, <1>9, <1>10, <1>11, <1>12,
     <1>13, <1>14, <1>15, Zenon DEF Steady

\* A run that takes a step is there, and alone.
LEMMA Alone ==
  ASSUME Solo, NEW r \in Runs,
         pc[r] # "off" \/ r \in conn \/ r \in bound \/ r \in job
  PROVE  /\ pc[r] # "off" /\ RunOK(r) /\ Settled
         /\ \A s \in Runs : s # r => pc[s] = "off"
<1>1. PICK s \in Runs : pc[s] # "off"
  BY Zenon DEF Solo, AllOff
<1>2. RunOK(s) /\ Settled /\ \A t \in Runs : t # s => pc[t] = "off"
  BY <1>1, Zenon DEF Solo
<1>3. r = s
  BY <1>2, Zenon DEF RunOK
<1> QED
  BY <1>1, <1>2, <1>3, Zenon

LEMMA SteadyIsThere ==
  ASSUME NEW r \in Runs, Steady(r)
  PROVE  pc[r] # "off" \/ r \in conn \/ r \in bound \/ r \in job
BY Zenon DEF Steady, At, PoolOpen, DecryptDb, Reencrypt, Opened, Publish, StartFails,
       Commit, OpenAttachment, Teardown, TransportDown, WipeBegin, CloseBegin,
       CloseEncrypt, CloseRemove, Return

\* The files a run at work leaves.
LEMMA SteadyFiles ==
  ASSUME ProcTypes, FileTypes, NEW r \in Runs, Steady(r)
  PROVE  FileTypes'
<1>f. None \in Files /\ Torn \in Files /\ \A x \in SUBSET Txns : Db(x) \in Files
  BY Zenon DEF Files, None, Torn, Db
<1>w. work.has \subseteq Txns
  BY Zenon DEF FileTypes, Files
<1> USE DEF FileTypes
<1>1. CASE PoolOpen(r)
  BY <1>1, <1>f, Zenon DEF PoolOpen
<1>2. CASE DecryptDb(r)
  BY <1>2, <1>f, Zenon DEF DecryptDb
<1>3. CASE Reencrypt(r)
  BY <1>3, <1>f, Zenon DEF Reencrypt, ProcTypes
<1>4. CASE Opened(r) \/ Publish(r) \/ StartFails(r) \/ OpenAttachment(r)
  BY <1>4, Zenon DEF Opened, Publish, StartFails, OpenAttachment, db
<1>5. CASE Commit(r)
  <2>1. PICK t \in Txns : /\ committed' = committed \cup {t} /\ age' = age
                          /\ work' = IF r \in orphan THEN work ELSE Db(work.has \cup {t})
    BY <1>5, Zenon DEF Commit
  <2> QED
    BY <2>1, <1>f, <1>w, Zenon
<1>6. CASE Teardown(r) \/ TransportDown(r) \/ WipeBegin(r) \/ CloseBegin(r) \/ Return(r)
  BY <1>6, Zenon DEF Teardown, TransportDown, WipeBegin, CloseBegin, Return, db
<1>7. CASE CloseEncrypt(r)
  BY <1>7, <1>f, Zenon DEF CloseEncrypt, ProcTypes
<1>8. CASE CloseRemove(r)
  BY <1>8, <1>f, Zenon DEF CloseRemove
<1> QED
  BY <1>1, <1>2, <1>3, <1>4, <1>5, <1>6, <1>7, <1>8, Zenon DEF Steady

\* Commands and identity files are as they were: what is said of them stays.
LEMMA CmdTypesFrame == ASSUME CmdTypes, UNCHANGED cmdVars PROVE CmdTypes'
BY Zenon DEF CmdTypes, cmdVars

LEMMA ToldFrame ==
  ASSUME Told, UNCHANGED <<vault, told, change, legacy>> PROVE Told'
BY Zenon DEF Told, VaultOpens

\* While a run is there nothing is left to carry or to extract.
LEMMA LayoutSettled ==
  ASSUME Layout, Settled, UNCHANGED <<vault, legacy, archive, restoring, moving>>
  PROVE  Layout'
BY Zenon DEF Layout, Settled

LEMMA SoloSteady ==
  ASSUME SoloInv, NEW r \in Runs, Steady(r)
  PROVE  SoloInv'
<1> USE DEF SoloInv, Types
<1>1. /\ pc[r] # "off" /\ RunOK(r) /\ Settled
      /\ \A s \in Runs : s # r => pc[s] = "off"
  BY SteadyIsThere, Alone, Zenon
<1>2. UNCHANGED cmdVars
  BY SteadyFrame, Zenon
<1>3. StillThere(r)
  BY <1>1, SteadyRun, Zenon DEF Solo
<1>4. Types'
  BY <1>2, <1>3, SteadyFiles, CmdTypesFrame, Zenon DEF StillThere
<1>5. Solo'
  <2>1. \A s \in Runs : s # r => pc'[s] = "off"
    BY <1>1, <1>3, Zenon DEF StillThere
  <2>2. Settled'
    BY <1>1, <1>2, Zenon DEF Settled, cmdVars
  <2>3. CmdsOK'
    BY <1>2, <1>3, Zenon DEF Solo, CmdsOK, StillThere, cmdVars
  <2> QED
    BY <1>3, <2>1, <2>2, <2>3, Zenon DEF Solo, StillThere, AllOff
<1>6. Layout' /\ Told'
  BY <1>1, <1>2, LayoutSettled, ToldFrame, Zenon DEF cmdVars
<1> QED
  BY <1>4, <1>5, <1>6, Zenon

LEMMA SoloBoots ==
  ASSUME SoloInv, Faults \subseteq {"decrypt"}, NEW r \in Runs, Boots(r)
  PROVE  SoloInv'
<1> USE DEF SoloInv, Types
<1>1. /\ AllOff /\ lock' = r /\ pc' = [pc EXCEPT ![r] = "boot"] /\ clean' = {}
      /\ vault \in Passes /\ ~moving /\ restoring = {}
      /\ UNCHANGED <<ids, db, cache, conn, orphan, buf, job, bound, wiping, cmds,
                     committed>>
  BY BootFrame, Zenon
<1>2. UNCHANGED cmdVars
  BY <1>1, Zenon DEF cmdVars, ids, db, cmds
<1>3. legacy.left = {}
  BY <1>1, SentinelsAssumption, Zenon DEF Layout
<1>4. Types'
  <2>1. ProcTypes'
    BY <1>1, Zenon DEF ProcTypes, Steps
  <2>2. FileTypes'
    BY <1>1, Zenon DEF FileTypes, db
  <2> QED
    BY <1>2, <2>1, <2>2, CmdTypesFrame, Zenon
<1>5. Solo'
  <2>1. pc'[r] = "boot" /\ \A s \in Runs : s # r => pc'[s] = "off"
    BY <1>1, Zenon DEF ProcTypes, AllOff
  <2>2. Settled'
    BY <1>1, <1>2, <1>3, SentinelsAssumption, Zenon DEF Settled, cmdVars
  <2>3. RunOK(r)'
    BY <1>1, <2>1, Zenon DEF Solo, RunOK, Pooled, Locked
  <2>4. CmdsOK'
    BY <1>1, <1>2, Zenon DEF Solo, CmdsOK, cmdVars
  <2> QED
    BY <1>1, <2>1, <2>2, <2>3, <2>4, Zenon DEF Solo, AllOff
<1>6. Layout'
  BY <1>1, <1>2, <1>3, SentinelsAssumption, Zenon DEF Layout, cmdVars, ids, db
<1>7. Told'
  BY <1>2, ToldFrame, Zenon DEF cmdVars
<1> QED
  BY <1>4, <1>5, <1>6, <1>7, Zenon

\* Nothing of a run outlives it.
LEMMA GoneLeavesNothing ==
  ASSUME ProcTypes, CmdTypes, Solo, NEW r \in Runs, pc[r] # "off", Gone(r)
  PROVE  /\ AllOff' /\ lock' = NoRun /\ conn' = {} /\ bound' = {} /\ job' = {}
         /\ wiping' = {} /\ orphan' = {} /\ buf' \in [Runs -> SUBSET Txns]
         /\ pc' \in [Runs -> Steps]
         /\ change' = NoChange \/ (change' = change /\ change.st = "idle")
         /\ exp' \in [Exports -> ExportStates]
         /\ \A e \in Exports : exp'[e].st = "idle"
<1>1. RunOK(r) /\ \A s \in Runs : s # r => pc[s] = "off"
  BY Alone, Zenon
<1>2. AllOff' /\ pc' \in [Runs -> Steps] /\ buf' \in [Runs -> SUBSET Txns]
  BY <1>1, Zenon DEF ProcTypes, Gone, Goto, AllOff, Steps
<1>3. /\ lock' = NoRun /\ conn' = {} /\ bound' = {} /\ job' = {} /\ wiping' = {}
      /\ orphan' = {}
  BY <1>1, Zenon DEF Gone, RunOK, Solo
<1>4. change' = NoChange \/ (change' = change /\ change.st = "idle")
  <2>1. change.st # "idle" => change.run = r
    BY <1>1, Zenon DEF RunOK, Solo, CmdsOK
  <2>2. change' = IF change.run = r THEN NoChange ELSE change
    BY Zenon DEF Gone
  <2> QED
    BY <2>1, <2>2, Zenon
<1>5. NoExport \in ExportStates /\ NoExport.st = "idle"
  BY Zenon DEF NoExport, ExportStates, Files, None
<1>6. \A e \in Exports : exp[e].st # "idle" => exp[e].run = r
  BY <1>1, Zenon DEF RunOK, Solo, CmdsOK
<1>7. /\ exp' \in [Exports -> ExportStates]
      /\ \A e \in Exports : exp'[e].st = "idle"
  BY <1>5, <1>6, Zenon DEF Gone, CmdTypes
<1> QED
  BY <1>2, <1>3, <1>4, <1>7, Zenon

\* A directory without a run.
LEMMA SoloOff ==
  ASSUME AllOff', lock' = NoRun, conn' = {}, bound' = {}, job' = {}, wiping' = {},
         orphan' = {}, change'.st = "idle", \A e \in Exports : exp'[e].st = "idle"
  PROVE  Solo'
BY Zenon DEF Solo, AllOff, CmdsOK

LEMMA SoloEnds ==
  ASSUME SoloInv, NEW r \in Runs, Ends(r)
  PROVE  SoloInv'
<1> USE DEF SoloInv, Types
<1>1. /\ pc[r] # "off" /\ Gone(r) /\ clean' \subseteq clean
      /\ UNCHANGED <<ids, db, told, archive, restoring, moving, committed>>
  BY EndFrame, Zenon
<1>2. Settled
  BY <1>1, Alone, Zenon
<1>3. /\ AllOff' /\ lock' = NoRun /\ conn' = {} /\ bound' = {} /\ job' = {}
      /\ wiping' = {} /\ orphan' = {} /\ buf' \in [Runs -> SUBSET Txns]
      /\ pc' \in [Runs -> Steps]
      /\ change' = NoChange \/ (change' = change /\ change.st = "idle")
      /\ exp' \in [Exports -> ExportStates]
      /\ \A e \in Exports : exp'[e].st = "idle"
  BY <1>1, GoneLeavesNothing, Zenon
<1>4. Types'
  <2>1. ProcTypes'
    BY <1>1, <1>3, Zenon DEF ProcTypes
  <2>2. FileTypes'
    BY <1>1, Zenon DEF FileTypes, db
  <2>3. CmdTypes'
    BY <1>1, <1>3 DEF CmdTypes, NoChange, ids, db
  <2> QED
    BY <2>1, <2>2, <2>3, Zenon
<1>5. Solo'
  BY <1>3, SoloOff DEF NoChange
<1>6. Layout'
  BY <1>1, <1>2, LayoutSettled, Zenon DEF ids
<1>7. Told'
  BY <1>1, <1>3 DEF Told, VaultOpens, NoChange, ids
<1> QED
  BY <1>4, <1>5, <1>6, <1>7, Zenon

LEMMA SoloWipes ==
  ASSUME SoloInv, NEW r \in Runs, WipeRemove(r)
  PROVE  SoloInv'
<1> USE DEF SoloInv, Types
<1>1. /\ pc[r] # "off" /\ Gone(r) /\ Emptied
      /\ UNCHANGED <<legacy, clean, archive, restoring, moving>>
  BY Zenon DEF WipeRemove, At
<1>2. Settled
  BY <1>1, Alone, Zenon
<1>3. /\ AllOff' /\ lock' = NoRun /\ conn' = {} /\ bound' = {} /\ job' = {}
      /\ wiping' = {} /\ orphan' = {} /\ buf' \in [Runs -> SUBSET Txns]
      /\ pc' \in [Runs -> Steps]
      /\ change' = NoChange \/ (change' = change /\ change.st = "idle")
      /\ exp' \in [Exports -> ExportStates]
      /\ \A e \in Exports : exp'[e].st = "idle"
  BY <1>1, GoneLeavesNothing, Zenon
<1>4. Types'
  <2>1. ProcTypes'
    BY <1>1, <1>3, Zenon DEF ProcTypes
  <2>2. FileTypes'
    BY <1>1, Zenon DEF FileTypes, Emptied, Files, None
  <2>3. CmdTypes'
    BY <1>1, <1>3 DEF CmdTypes, NoChange, Emptied, Files, None
  <2> QED
    BY <2>1, <2>2, <2>3, Zenon
<1>5. Solo'
  BY <1>3, SoloOff DEF NoChange
<1>6. Layout'
  BY <1>1, <1>2, Zenon DEF Layout, Settled, Emptied
<1>7. Told'
  <2>1. told' = {} /\ change'.st = "idle"
    BY <1>1, <1>3 DEF NoChange, Emptied
  <2> QED
    BY <2>1, Zenon DEF Told, VaultOpens
<1> QED
  BY <1>4, <1>5, <1>6, <1>7, Zenon

-----------------------------------------------------------------------------
(* Exports and changes of passphrase *)

\* The stages of a restore are told apart.
LEMMA RestoreStages ==
  /\ BackupFiles # {} /\ {"hs", "age"} # {} /\ {"age"} # {}
  /\ {"hs", "age"} # BackupFiles /\ {"age"} # BackupFiles
BY DEF BackupFiles

LEMMA NoExportType == NoExport \in ExportStates
BY Zenon DEF NoExport, ExportStates, Files, None

\* What a command that changes one export leaves of the others.
LEMMA ExportMoves ==
  ASSUME CmdTypes, NEW e \in Exports, NEW x \in ExportStates,
         exp' = [exp EXCEPT ![e] = x]
  PROVE  /\ exp' \in [Exports -> ExportStates] /\ exp'[e] = x
         /\ \A f \in Exports : f # e => exp'[f] = exp[f]
BY Zenon DEF CmdTypes

\* What the steps of an export make of it.
LEMMA Stepping ==
  ASSUME NEW x \in ExportStates, NEW s \in {"vacuum", "encrypt", "bundle"}
  PROVE  /\ [x EXCEPT !.st = s] \in ExportStates
         /\ [x EXCEPT !.st = s].st = s /\ [x EXCEPT !.st = s].run = x.run
         /\ [x EXCEPT !.st = s].need = x.need /\ [x EXCEPT !.st = s].got = x.got
BY Zenon DEF ExportStates

LEMMA Encrypting ==
  ASSUME NEW x \in ExportStates, NEW f \in Files
  PROVE  LET y == [x EXCEPT !.st = "cleanup", !.got = f]
         IN  /\ y \in ExportStates
             /\ y.st = "cleanup" /\ y.run = x.run /\ y.need = x.need /\ y.got = f
<1>1. [x EXCEPT !.st = "cleanup"] \in ExportStates
  BY Zenon DEF ExportStates
<1> QED
  BY <1>1, Zenon DEF ExportStates

\* snapshot_encrypted's first half, seen from the outside.
LEMMA VacuumStep ==
  ASSUME CmdTypes, NEW e \in Exports, ExportVacuum(e)
  PROVE  /\ exp' \in [Exports -> ExportStates]
         /\ UNCHANGED <<ids, age, work, sentinel, cache, proc, pc, change, told,
                        archive, restoring, moving, committed>>
         /\ \A f \in Exports : f # e => exp'[f] = exp[f]
         /\ \/ /\ exp[e].st = "begun" /\ exp'[e].st = "vacuum" /\ snap' = Torn
               /\ exp'[e].run = exp[e].run /\ exp'[e].need = exp[e].need
               /\ exp[e].run \in conn
            \/ /\ exp[e].st = "vacuum" /\ exp'[e].st = "encrypt"
               /\ exp'[e].run = exp[e].run /\ exp'[e].need = exp[e].need
               /\ snap' = Db(work.has)
            \/ /\ exp[e].st = "begun" /\ exp'[e] = NoExport /\ snap' = None
<1>0. exp[e] \in ExportStates
  BY Zenon DEF CmdTypes
<1>u. UNCHANGED <<ids, age, work, sentinel, cache, proc, pc, change, told,
                  archive, restoring, moving, committed>>
  BY Zenon DEF ExportVacuum
<1>1. CASE /\ exp[e].run \in conn /\ snap' = Torn
           /\ Exporting(e, "begun", [exp[e] EXCEPT !.st = "vacuum"])
  BY <1>0, <1>u, <1>1, ExportMoves, Stepping, Zenon DEF Exporting
<1>2. CASE /\ Exporting(e, "vacuum", [exp[e] EXCEPT !.st = "encrypt"])
           /\ snap' = Db(work.has)
  BY <1>0, <1>u, <1>2, ExportMoves, Stepping, Zenon DEF Exporting
<1>3. CASE Exporting(e, "begun", NoExport) /\ snap' = None
  BY <1>u, <1>3, ExportMoves, NoExportType, Zenon DEF Exporting
<1> QED
  BY <1>1, <1>2, <1>3, Zenon DEF ExportVacuum

\* Its second half.
LEMMA EncryptStep ==
  ASSUME CmdTypes, NEW e \in Exports, ExportEncrypt(e)
  PROVE  /\ exp' \in [Exports -> ExportStates]
         /\ UNCHANGED <<ids, age, work, sentinel, cache, proc, pc, change, told,
                        archive, restoring, moving, committed>>
         /\ \A f \in Exports : f # e => exp'[f] = exp[f]
         /\ \/ /\ exp[e].st = "encrypt" /\ exp'[e].st = "cleanup" /\ snap' = snap
               /\ exp'[e].run = exp[e].run /\ exp'[e].need = exp[e].need
               /\ exp'[e].got = snap
            \/ /\ exp[e].st = "cleanup" /\ exp'[e] = NoExport /\ snap' = None
            \/ /\ exp[e].st = "cleanup" /\ exp'[e].st = "bundle" /\ snap' = None
               /\ exp'[e].run = exp[e].run /\ exp'[e].need = exp[e].need
               /\ exp'[e].got = exp[e].got
<1>0. exp[e] \in ExportStates /\ snap \in Files
  BY Zenon DEF CmdTypes
<1>u. UNCHANGED <<ids, age, work, sentinel, cache, proc, pc, change, told,
                  archive, restoring, moving, committed>>
  BY Zenon DEF ExportEncrypt
<1>1. CASE /\ Exporting(e, "encrypt",
                        [exp[e] EXCEPT !.st = "cleanup", !.got = snap])
           /\ snap' = snap
  <2> DEFINE y == [exp[e] EXCEPT !.st = "cleanup", !.got = snap]
  <2>1. /\ y \in ExportStates /\ y.st = "cleanup" /\ y.run = exp[e].run
        /\ y.need = exp[e].need /\ y.got = snap
    BY <1>0, Encrypting, Zenon
  <2>2. exp[e].st = "encrypt" /\ exp' = [exp EXCEPT ![e] = y]
    BY <1>1, Zenon DEF Exporting
  <2> HIDE DEF y
  <2> QED
    BY <1>u, <1>1, <2>1, <2>2, ExportMoves, Zenon
<1>2. CASE Exporting(e, "cleanup", NoExport) /\ snap' = None
  BY <1>u, <1>2, ExportMoves, NoExportType, Zenon DEF Exporting
<1>3. CASE Exporting(e, "cleanup", [exp[e] EXCEPT !.st = "bundle"]) /\ snap' = None
  BY <1>0, <1>u, <1>3, ExportMoves, Stepping, Zenon DEF Exporting
<1>4. \/ Exporting(e, "cleanup", NoExport) /\ snap' = None
      \/ Exporting(e, "cleanup", [exp[e] EXCEPT !.st = "bundle"]) /\ snap' = None
      \/ Exporting(e, "encrypt", [exp[e] EXCEPT !.st = "cleanup", !.got = snap])
           /\ snap' = snap
  BY Zenon DEF ExportEncrypt
<1> QED
  BY <1>1, <1>2, <1>3, <1>4, Zenon

\* A command changes nothing of the run that serves it.
LEMMA SoloFrame ==
  ASSUME Solo, UNCHANGED <<lock, pc, conn, orphan, job, bound, wiping>>,
         AllOff \/ Settled', CmdsOK'
  PROVE  Solo'
<1>1. \A r \in Runs : RunOK(r) => RunOK(r)'
  BY Zenon DEF RunOK
<1> QED
  BY <1>1, Zenon DEF Solo, AllOff

LEMMA LayoutRest ==
  ASSUME Settled', archive' # NoArchive => archive'.pass \in Passes
  PROVE  Layout'
BY Zenon DEF Layout, Settled

\* What one step of an export may make of it.
LEMMA OneExport ==
  ASSUME CmdsOK, NEW e \in Exports, UNCHANGED <<bound, conn, change>>,
         \A f \in Exports : f # e => exp'[f] = exp[f] /\ exp[f].st = "idle",
         \/ exp'[e].st = "idle"
         \/ exp'[e].run \in bound /\ (exp'[e].st = "vacuum" => exp'[e].run \in conn)
  PROVE  CmdsOK'
BY Zenon DEF CmdsOK

LEMMA SoloExporting ==
  ASSUME SoloInv, NEW r \in bound, snap' \in Files,
         exp' \in [Exports -> ExportStates], CmdsOK',
         archive' \in [file : Files, need : SUBSET Txns, pass : Passes \cup {NoPass}],
         archive' # NoArchive => archive'.pass \in Passes,
         UNCHANGED <<ids, age, work, proc, pc, change, told, restoring, moving,
                     committed>>
  PROVE  SoloInv'
<1> USE DEF SoloInv, Types
<1>1. Settled
  BY Alone, Zenon DEF ProcTypes
<1>2. Settled'
  BY <1>1, Zenon DEF Settled, ids
<1>3. Types'
  <2>1. ProcTypes'
    BY Zenon DEF ProcTypes, proc
  <2>2. FileTypes'
    BY Zenon DEF FileTypes
  <2>3. CmdTypes'
    BY Zenon DEF CmdTypes, ids
  <2> QED
    BY <2>1, <2>2, <2>3, Zenon
<1>4. Solo'
  BY <1>2, SoloFrame, Zenon DEF proc
<1>5. Layout'
  BY <1>2, LayoutRest, Zenon
<1>6. Told'
  BY ToldFrame, Zenon DEF ids
<1> QED
  BY <1>3, <1>4, <1>5, <1>6, Zenon

LEMMA SoloExport ==
  ASSUME SoloInv, Faults \subseteq {"decrypt"}, NEW e \in Exports, Export(e)
  PROVE  SoloInv'
<1> USE DEF SoloInv, Types
<1>0. CmdsOK
  BY Zenon DEF Solo
<1>f. None \in Files /\ Torn \in Files /\ Db(work.has) \in Files /\ snap \in Files
  BY Zenon DEF None, Torn, Db, Files, FileTypes, CmdTypes
<1>a. /\ archive \in [file : Files, need : SUBSET Txns, pass : Passes \cup {NoPass}]
      /\ archive # NoArchive => archive.pass \in Passes
  BY Zenon DEF CmdTypes, Layout
<1>1. CASE ExportBegin(e)
  <2> DEFINE x(r) == [st |-> "begun", run |-> r, need |-> committed, got |-> None]
  <2>1. PICK r \in bound : exp[e].st = "idle" /\ exp' = [exp EXCEPT ![e] = x(r)]
    BY <1>1, Zenon DEF ExportBegin, Exporting
  <2>2. x(r) \in ExportStates /\ x(r).run = r /\ x(r).st = "begun"
    BY <1>f, Zenon DEF ExportStates, ProcTypes, FileTypes
  <2> HIDE DEF x
  <2>3. /\ exp' \in [Exports -> ExportStates] /\ exp'[e] = x(r)
        /\ \A f \in Exports : f # e => exp'[f] = exp[f]
    BY <2>1, <2>2, ExportMoves, Zenon
  <2>4. \A f \in Exports : exp[f].st = "idle"
    BY <1>1, Zenon DEF ExportBegin
  <2>5. /\ UNCHANGED <<ids, age, work, proc, pc, change, told, restoring, moving,
                       committed, snap, archive>>
        /\ UNCHANGED <<bound, conn, change>>
    BY <1>1, Zenon DEF ExportBegin, db, proc
  <2>6. exp'[e].run \in bound /\ exp'[e].st # "vacuum"
    BY <2>2, <2>3, Zenon
  <2>7. CmdsOK'
    BY <1>0, <2>3, <2>4, <2>5, <2>6, OneExport, Zenon
  <2> QED
    BY <1>f, <1>a, <2>3, <2>5, <2>7, SoloExporting, Zenon
<1>2. ASSUME ExportVacuum(e) \/ ExportEncrypt(e) PROVE SoloInv'
  <2>1. /\ exp' \in [Exports -> ExportStates]
        /\ UNCHANGED <<ids, age, work, sentinel, cache, proc, pc, change, told,
                       archive, restoring, moving, committed>>
        /\ \A f \in Exports : f # e => exp'[f] = exp[f]
    BY <1>2, VacuumStep, EncryptStep, Zenon
  <2>2. /\ exp[e].st # "idle" /\ snap' \in Files
        /\ \/ exp'[e].st = "idle"
           \/ /\ exp'[e].run = exp[e].run
              /\ exp'[e].st = "vacuum" => exp'[e].run \in conn
    BY <1>2, <1>f, VacuumStep, EncryptStep DEF NoExport
  <2>3. exp[e].run \in bound /\ \A f \in Exports : f # e => exp[f].st = "idle"
    BY <1>0, <2>2, Zenon DEF CmdsOK
  <2>4. UNCHANGED <<bound, conn, change>>
    BY <2>1, Zenon DEF proc
  <2>5. CmdsOK'
    BY <1>0, <2>1, <2>2, <2>3, <2>4, OneExport, Zenon
  <2> QED
    BY <1>a, <2>1, <2>2, <2>3, <2>5, SoloExporting, Zenon
<1>3. CASE ExportBundle(e)
  <2>1. /\ exp' \in [Exports -> ExportStates] /\ exp'[e] = NoExport
        /\ \A f \in Exports : f # e => exp'[f] = exp[f]
    BY <1>3, NoExportType, ExportMoves, Zenon DEF ExportBundle, Exporting
  <2>2. exp[e].run \in bound /\ \A f \in Exports : f # e => exp[f].st = "idle"
    BY <1>0, <1>3, Zenon DEF CmdsOK, ExportBundle, Exporting
  <2>3. vault \in Passes
    BY <2>2, Alone, Zenon DEF ProcTypes, CmdTypes, Settled
  <2>4. /\ archive' \in [file : Files, need : SUBSET Txns, pass : Passes \cup {NoPass}]
        /\ archive'.pass \in Passes
    BY <1>3, <2>3, Zenon DEF ExportBundle, CmdTypes, ExportStates
  <2>5. /\ UNCHANGED <<ids, age, work, proc, pc, change, told, restoring, moving,
                       committed, snap>>
        /\ UNCHANGED <<bound, conn, change>>
    BY <1>3, Zenon DEF ExportBundle, db, proc
  <2>6. CmdsOK'
    BY <1>0, <2>1, <2>2, <2>5, OneExport DEF NoExport
  <2> QED
    BY <1>f, <2>1, <2>2, <2>4, <2>5, <2>6, SoloExporting, Zenon
<1> QED
  BY <1>1, <1>2, <1>3, Zenon DEF Export

LEMMA SoloChange ==
  ASSUME SoloInv, ChangePassphrase
  PROVE  SoloInv'
<1> USE DEF SoloInv, Types
<1>1. UNCHANGED <<hs, legacy, db, proc, pc, exp, archive, restoring, moving, committed>>
  BY Zenon DEF ChangePassphrase
<1>2. bound # {}
  BY Zenon DEF ChangePassphrase, Solo, CmdsOK
<1>3. Settled
  BY <1>2, Alone, Zenon DEF ProcTypes
<1>4. /\ change' \in [st : {"idle", "written", "audit"}, run : Runs \cup {NoRun},
                      new : Passes \cup {NoPass}]
      /\ vault' \in Passes /\ CmdsOK'
  <2>1. CASE change.st = "idle"
    BY <1>1, <1>3, <2>1
       DEF ChangePassphrase, CmdTypes, ProcTypes, Settled, Solo, CmdsOK, proc
  <2>2. CASE change.st = "written"
    BY <1>1, <2>2 DEF ChangePassphrase, CmdTypes, Told, Solo, CmdsOK, proc
  <2>3. CASE change.st = "audit"
    BY <1>1, <1>3, <2>3
       DEF ChangePassphrase, CmdTypes, NoChange, Settled, Solo, CmdsOK, proc
  <2> QED
    BY <2>1, <2>2, <2>3, Zenon DEF ChangePassphrase
<1>5. Settled'
  BY <1>1, <1>3, <1>4, SentinelsAssumption, Zenon DEF Settled
<1>6. Types'
  <2>1. ProcTypes'
    BY <1>1, Zenon DEF ProcTypes, proc
  <2>2. FileTypes'
    BY <1>1, Zenon DEF FileTypes, db
  <2>3. CmdTypes'
    BY <1>1, <1>4, Zenon DEF CmdTypes, db
  <2> QED
    BY <2>1, <2>2, <2>3, Zenon
<1>7. Solo'
  BY <1>1, <1>4, <1>5, SoloFrame, Zenon DEF proc
<1>8. Layout'
  BY <1>1, <1>5, LayoutRest, Zenon DEF Layout
<1>9. Told'
  <2>1. legacy.left = {}
    BY <1>3, Zenon DEF Settled
  <2>2. CASE change.st = "idle"
    BY <1>1, <2>1, <2>2 DEF ChangePassphrase, Told, VaultOpens
  <2>3. CASE change.st = "written"
    BY <1>1, <2>1, <2>3, Zenon DEF ChangePassphrase, Told, VaultOpens, CmdTypes
  <2>4. CASE change.st = "audit"
    BY <1>1, <2>1, <2>4 DEF ChangePassphrase, Told, VaultOpens, NoChange
  <2> QED
    BY <2>2, <2>3, <2>4, Zenon DEF ChangePassphrase
<1> QED
  BY <1>6, <1>7, <1>8, <1>9, Zenon

-----------------------------------------------------------------------------
(* Setting up *)

\* Whatever sets the directory up runs where no run is, and touches none.
SettingUp ==
  /\ AllOff
  /\ UNCHANGED <<lock, pc, conn, orphan, buf, job, bound, wiping, clean, change, exp>>

LEMMA SoloSettingUp ==
  ASSUME ProcTypes, Solo, SettingUp
  PROVE  ProcTypes' /\ Solo' /\ change'.st = "idle"
<1>1. CmdsOK'
  BY Zenon DEF Solo, CmdsOK, SettingUp
<1>2. Solo'
  BY <1>1, SoloFrame, Zenon DEF SettingUp
<1>3. change.st = "idle"
  BY Zenon DEF Solo, CmdsOK, SettingUp
<1> QED
  BY <1>2, <1>3, Zenon DEF ProcTypes, SettingUp

LEMMA Unsettled == ASSUME Solo, ~Settled PROVE AllOff
BY Zenon DEF Solo, AllOff

LEMMA SoloOffline ==
  ASSUME SoloInv, OfflineBackup
  PROVE  SoloInv'
<1> USE DEF SoloInv, Types
<1>1. /\ UNCHANGED <<ids, db, proc, pc, change, told, exp, restoring, moving, committed>>
      /\ vault # NoPass /\ hs # "none" /\ age.st # "none" /\ archive = NoArchive
  BY Zenon DEF OfflineBackup, Wanted
<1>2. /\ archive' \in [file : Files, need : SUBSET Txns, pass : Passes \cup {NoPass}]
      /\ archive'.pass \in Passes
  BY <1>1, Zenon DEF OfflineBackup, CmdTypes, FileTypes, Files
<1>3. legacy.left = {}
  <2>1. age # None
    BY <1>1 DEF None
  <2> QED
    BY <1>1, <2>1, Zenon DEF Layout, CmdTypes, BackupFiles
<1>4. Types'
  <2>1. ProcTypes'
    BY <1>1, Zenon DEF ProcTypes, proc
  <2>2. FileTypes'
    BY <1>1, Zenon DEF FileTypes, db
  <2>3. CmdTypes'
    BY <1>1, <1>2, Zenon DEF CmdTypes, db, ids
  <2> QED
    BY <2>1, <2>2, <2>3, Zenon
<1>5. Solo'
  <2>1. CmdsOK'
    BY <1>1, Zenon DEF Solo, CmdsOK, proc
  <2>2. AllOff \/ Settled'
    BY <1>1, Unsettled, Zenon DEF Settled, ids
  <2> QED
    BY <1>1, <2>1, <2>2, SoloFrame, Zenon DEF proc
<1>6. Layout'
  BY <1>1, <1>2, <1>3, Zenon DEF Layout, ids, db
<1>7. Told'
  BY <1>1, ToldFrame, Zenon DEF ids
<1> QED
  BY <1>4, <1>5, <1>6, <1>7, Zenon

LEMMA SoloSetsUp ==
  ASSUME SoloInv, SetsUp
  PROVE  SoloInv'
<1> USE DEF SoloInv, Types
<1>1. NoIdentity /\ CreateVault
  BY Zenon DEF SetsUp, InitCmd, RestoreSeed, IdentityInit
<1>2. PICK p \in Passes : vault' = p /\ told' = {p}
  BY <1>1, Zenon DEF CreateVault
<1>3. vault = NoPass /\ legacy.left = {} /\ restoring = {} /\ work = None
  BY <1>1, SentinelsAssumption, Zenon DEF NoIdentity, Layout
<1>4. SettingUp
  BY <1>1, <1>3, Unsettled, Zenon DEF Settled, SettingUp, CreateVault, proc
<1>5. UNCHANGED <<legacy, age, work, snap, archive, restoring, moving, committed, exp, change>>
  BY <1>1, Zenon DEF CreateVault, db
<1>6. Types'
  <2>1. FileTypes'
    BY <1>5, Zenon DEF FileTypes
  <2>2. CmdTypes'
    BY <1>2, <1>5, Zenon DEF CmdTypes
  <2> QED
    BY <1>4, <2>1, <2>2, SoloSettingUp, Zenon
<1>7. Layout'
  BY <1>2, <1>3, <1>5, SentinelsAssumption, Zenon DEF Layout
<1>8. Told'
  BY <1>2, <1>4, SoloSettingUp, Zenon DEF Told, VaultOpens
<1> QED
  BY <1>4, <1>6, <1>7, <1>8, SoloSettingUp, Zenon

LEMMA SoloResets ==
  ASSUME SoloInv, Faults \subseteq {"decrypt"}, ResetLocalData
  PROVE  SoloInv'
<1> USE DEF SoloInv, Types
<1>1. /\ AllOff /\ ~moving /\ restoring = {} /\ Emptied
      /\ UNCHANGED <<legacy, lock, conn, buf, job, bound, wiping, clean, pc, change,
                     exp, archive, restoring, moving>>
  BY Zenon DEF ResetLocalData, AllOff, At
<1>2. SettingUp
  BY <1>1, Zenon DEF ResetLocalData, SettingUp, Solo
<1>3. None \in Files
  BY Zenon DEF None, Files
<1>4. Types'
  <2>1. FileTypes'
    BY <1>1, <1>3, Zenon DEF FileTypes, Emptied
  <2>2. CmdTypes'
    BY <1>1, <1>3, Zenon DEF CmdTypes, Emptied
  <2> QED
    BY <1>2, <2>1, <2>2, SoloSettingUp, Zenon
<1>5. Layout'
  BY <1>1, Zenon DEF Layout, Emptied
<1>6. Told'
  <2>1. told' = {}
    BY <1>1, Zenon DEF Emptied
  <2> QED
    BY <1>2, <2>1, SoloSettingUp, Zenon DEF Told, VaultOpens
<1> QED
  BY <1>2, <1>4, <1>5, <1>6, SoloSettingUp, Zenon

LEMMA SoloRestores ==
  ASSUME SoloInv, RestoreBegin \/ RestoreNext \/ RestoreDies
  PROVE  SoloInv'
<1> USE DEF SoloInv, Types
<1>1. UNCHANGED <<legacy, work, snap, proc, pc, change, exp, archive, moving>>
  BY Zenon DEF RestoreBegin, RestoreNext, RestoreDies, ids, db
<1>2. /\ archive # NoArchive /\ archive.pass \in Passes /\ legacy.left = {}
      /\ ~moving /\ work = None /\ ~Settled
  BY RestoreStages, Zenon DEF RestoreBegin, RestoreNext, RestoreDies, Layout, Settled
<1>3. SettingUp
  BY <1>1, <1>2, Unsettled, Zenon DEF SettingUp, proc
<1>4. \/ restoring' = BackupFiles /\ vault = NoPass
         /\ UNCHANGED <<vault, told, age, committed>>
      \/ restoring' = {"hs", "age"} /\ vault' = archive.pass
         /\ told' = {archive.pass} /\ UNCHANGED <<age, committed>>
      \/ restoring' = {"age"} /\ vault # NoPass
         /\ UNCHANGED <<vault, told, age, committed>>
      \/ restoring' = {} /\ age' = archive.file /\ committed' = archive.need
         /\ UNCHANGED <<vault, told>>
      \/ restoring' = {} /\ UNCHANGED <<vault, told, age, committed>>
  BY RestoreStages, Zenon DEF RestoreBegin, RestoreNext, RestoreDies, ids, db, Layout
<1>5. Types'
  <2>1. FileTypes'
    BY <1>1, <1>4, Zenon DEF FileTypes, CmdTypes
  <2>2. CmdTypes'
    BY <1>1, <1>2, <1>4, Zenon DEF CmdTypes
  <2> QED
    BY <1>3, <2>1, <2>2, SoloSettingUp, Zenon
<1>6. Layout'
  BY <1>1, <1>2, <1>4, SentinelsAssumption, Zenon DEF Layout
<1>7. Told'
  <2>1. VaultOpens'
    BY <1>1, <1>4 DEF Told, VaultOpens
  <2> QED
    BY <1>3, <2>1, SoloSettingUp, Zenon DEF Told
<1> QED
  BY <1>3, <1>5, <1>6, <1>7, SoloSettingUp, Zenon

LEMMA SoloMigrates ==
  ASSUME SoloInv, Faults \subseteq {"decrypt"}, MigrateBegin \/ MigrateMove \/ MigrateFails
  PROVE  SoloInv'
<1> USE DEF SoloInv, Types
<1>1. UNCHANGED <<work, snap, proc, pc, change, told, exp, archive, restoring, committed>>
  BY Zenon DEF MigrateBegin, MigrateMove, MigrateFails, db
<1>2. /\ legacy.left # {} /\ legacy.pass \in Passes /\ ~Settled
      /\ legacy.left \subseteq BackupFiles
      /\ archive = NoArchive /\ restoring = {} /\ clean = {} /\ work = None
  BY Zenon DEF MigrateBegin, MigrateMove, MigrateFails, Layout, Settled, CmdTypes
<1>3. SettingUp
  BY <1>1, <1>2, Unsettled, Zenon DEF SettingUp, proc
<1>4. CASE MigrateBegin \/ MigrateFails
  <2>1. UNCHANGED <<ids, age>> /\ "vault" \in legacy.left
    BY <1>4, Zenon DEF MigrateBegin, MigrateFails, db
  <2>2. Types'
    <3>1. FileTypes' /\ CmdTypes'
      BY <1>1, <2>1, Zenon DEF FileTypes, CmdTypes, ids
    <3> QED
      BY <1>3, <3>1, SoloSettingUp, Zenon
  <2>3. Layout'
    BY <1>1, <1>2, <1>3, <2>1, Zenon DEF Layout, ids, SettingUp
  <2>4. Told'
    BY <1>1, <2>1, ToldFrame, Zenon DEF ids
  <2> QED
    BY <1>3, <2>2, <2>3, <2>4, SoloSettingUp, Zenon
<1>5. CASE MigrateMove
  <2>1. PICK f \in legacy.left :
          /\ legacy' = [legacy EXCEPT !.left = @ \ {f}]
          /\ moving' = (legacy.left # {f})
          /\ vault' = IF f = "vault" THEN legacy.pass ELSE vault
          /\ hs' = IF f = "hs" THEN "key" ELSE hs
          /\ age' = IF f = "age" THEN Db(legacy.has) ELSE age
    BY <1>5, Zenon DEF MigrateMove
  <2>2. /\ legacy'.left = legacy.left \ {f} /\ legacy'.pass = legacy.pass
        /\ legacy' \in [left : SUBSET BackupFiles, pass : Passes \cup {NoPass},
                        has : SUBSET Txns]
    BY <2>1, Zenon DEF CmdTypes
  <2>3. f \in BackupFiles /\ Db(legacy.has) \in Files
    BY <1>2, Zenon DEF CmdTypes, Db, Files
  <2>4. moving' <=> legacy.left # {f}
    BY <2>1, Zenon
  <2>5. moving' <=> legacy'.left # {}
    BY <2>2, <2>4, Zenon
  <2>6. Types'
    <3>1. FileTypes' /\ CmdTypes'
      BY <1>1, <2>1, <2>2, <2>3, Zenon DEF FileTypes, CmdTypes
    <3> QED
      BY <1>3, <3>1, SoloSettingUp, Zenon
  <2>7. Layout'
    <3>1. /\ "vault" \in legacy'.left => vault' = vault /\ "vault" \in legacy.left
          /\ "vault" \notin legacy'.left => vault' = legacy.pass
          /\ "hs" \in legacy'.left => hs' = hs /\ "hs" \in legacy.left
          /\ "age" \in legacy'.left => age' = age /\ "age" \in legacy.left
      BY <1>2, <2>1, <2>2, Zenon DEF Layout
    <3>2. /\ "vault" \in legacy'.left => vault' = NoPass /\ told' \subseteq {legacy'.pass}
          /\ "vault" \notin legacy'.left => vault' = legacy'.pass
          /\ "hs" \in legacy'.left => hs' = "none"
          /\ "age" \in legacy'.left => age' = None
      BY <1>1, <1>2, <2>2, <3>1, Zenon DEF Layout
    <3>3. /\ archive' = NoArchive /\ restoring' = {} /\ clean' = {} /\ work' = None
          /\ legacy'.pass \in Passes
      BY <1>1, <1>2, <1>3, <2>2, Zenon DEF SettingUp
    <3> QED
      BY <2>5, <3>2, <3>3, Zenon DEF Layout
  <2>8. Told'
    <3>1. VaultOpens'
      BY <1>1, <1>2, <2>1, <2>2, Zenon DEF VaultOpens, Layout, Told
    <3> QED
      BY <1>3, <3>1, SoloSettingUp, Zenon DEF Told
  <2> QED
    BY <1>3, <2>6, <2>7, <2>8, SoloSettingUp, Zenon
<1> QED
  BY <1>4, <1>5, Zenon

-----------------------------------------------------------------------------
(* The first invariant *)

LEMMA SoloNext ==
  ASSUME SoloInv, Faults \subseteq {"decrypt"}, Next
  PROVE  SoloInv'
<1>1. ASSUME NEW r \in Runs, Boots(r) \/ Steady(r) \/ Ends(r) \/ WipeRemove(r)
      PROVE  SoloInv'
  BY <1>1, SoloBoots, SoloSteady, SoloEnds, SoloWipes, Zenon
<1>2. ASSUME NEW e \in Exports, Export(e) PROVE SoloInv'
  BY <1>2, SoloExport, Zenon
<1>3. ASSUME SetsUp \/ ResetLocalData \/ RestoreBegin \/ RestoreNext
             \/ RestoreDies \/ MigrateBegin \/ MigrateMove \/ MigrateFails
      PROVE  SoloInv'
  BY <1>3, SoloSetsUp, SoloResets, SoloRestores, SoloMigrates, Zenon
<1> QED
  BY <1>1, <1>2, <1>3, Kinds, SoloChange, SoloOffline, Zenon DEF Export

LEMMA SoloInit == Init => SoloInv
<1> SUFFICES ASSUME Init PROVE SoloInv
  OBVIOUS
<1>1. Types
  <2>1. None \in Files
    BY Zenon DEF None, Files
  <2>2. ProcTypes /\ FileTypes
    BY <2>1, Zenon DEF Init, ProcTypes, FileTypes, Steps
  <2>3. legacy \in [left : SUBSET BackupFiles, pass : Passes \cup {NoPass},
                    has : SUBSET Txns]
    BY DEF Init
  <2>4. exp \in [Exports -> ExportStates]
    BY NoExportType, Zenon DEF Init
  <2>5. CmdTypes
    BY <2>1, <2>3, <2>4, Zenon DEF Init, CmdTypes, NoChange, NoArchive
  <2> QED
    BY <2>2, <2>5, Zenon DEF Types
<1>2. Solo
  BY SentinelsAssumption, Zenon
     DEF Init, Solo, AllOff, CmdsOK, NoChange, NoExport
<1>3. Layout
  <2>1. /\ vault = NoPass /\ hs = "none" /\ age = None /\ work = None /\ clean = {}
        /\ archive = NoArchive /\ restoring = {} /\ moving = FALSE
    BY Zenon DEF Init
  <2>2. \/ legacy.left = {}
        \/ legacy.left = BackupFiles /\ legacy.pass \in Passes /\ told = {legacy.pass}
    BY DEF Init
  <2> QED
    BY <2>1, <2>2, Zenon DEF Layout, BackupFiles
<1>4. Told
  BY DEF Init, Told, VaultOpens, BackupFiles, NoChange
<1> QED
  BY <1>1, <1>2, <1>3, <1>4, Zenon DEF SoloInv

LEMMA SoloStutter == ASSUME SoloInv, UNCHANGED vars PROVE SoloInv'
<1> USE DEF SoloInv, vars, ids, db, proc, cmds
<1>1. Types'
  BY Zenon DEF Types, ProcTypes, FileTypes, CmdTypes
<1>2. Solo'
  <2>1. CmdsOK'
    BY Zenon DEF Solo, CmdsOK
  <2>2. AllOff \/ Settled'
    BY Unsettled, Zenon DEF Settled
  <2> QED
    BY <2>1, <2>2, SoloFrame, Zenon
<1>3. Layout'
  BY Zenon DEF Layout
<1>4. Told'
  BY Zenon DEF Told, VaultOpens
<1> QED
  BY <1>1, <1>2, <1>3, <1>4, Zenon

LEMMA SoloAlways == Faults \subseteq {"decrypt"} => (Spec => []SoloInv)
<1> SUFFICES ASSUME Faults \subseteq {"decrypt"} PROVE Spec => []SoloInv
  OBVIOUS
<1>1. SoloInv /\ [Next]_vars => SoloInv'
  <2> SUFFICES ASSUME SoloInv, [Next]_vars PROVE SoloInv'
    OBVIOUS
  <2>1. CASE Next
    BY <2>1, SoloNext, Zenon
  <2>2. CASE UNCHANGED vars
    BY <2>2, SoloStutter, Zenon
  <2> QED
    BY <2>1, <2>2, Zenon
<1> QED
  BY <1>1, SoloInit, PTL DEF Spec

\* The vault opens with a passphrase the user knows, whatever dies between the
\* rename of a new vault and its audit row, through wipes, restores and a
\* migration, as long as a directory is set up before a daemon starts in it.
THEOREM VaultStaysOpen == Faults \subseteq {"decrypt"} => (Spec => []VaultOpens)
<1>1. SoloInv => VaultOpens
  BY Zenon DEF SoloInv, Told
<1> QED
  BY <1>1, SoloAlways, PTL


-----------------------------------------------------------------------------
(* What was committed, when nothing dies as the working file is created *)

AgeOK == age.st # "torn" /\ (age.st = "none" => age.has = {})

\* The working file counts while it is there, the encrypted one otherwise.
Persist ==
  /\ work.st = "db" => committed \subseteq work.has
  /\ work.st = "none" => committed \subseteq age.has

\* The files at each step of a run; only "decrypt" has a working file that is
\* neither torn nor complete.
RunData(r) ==
  /\ pc[r] # "decrypt" => Persist
  /\ pc[r] \in {"decrypt", "write"} => age.st = "db"
  /\ pc[r] \in {"decrypt", "write", "remove"} => committed \subseteq age.has
  /\ pc[r] \in {"reencrypt", "opened", "encrypt", "remove"} \cup Pooled => work.st = "db"
  /\ r \in conn => work.st = "db"
  /\ pc[r] \in {"close", "closed"} => work.st # "torn"
  /\ pc[r] = "unmark" => work = None
  /\ pc[r] \in {"reencrypt", "encrypt"} => buf[r] = work.has

Data ==
  /\ AgeOK
  /\ AllOff => IF "age" \in legacy.left THEN committed \subseteq legacy.has ELSE Persist
  /\ \A r \in Runs : pc[r] # "off" => RunData(r)
  /\ vault = NoPass /\ legacy.left = {} => committed = {}
  /\ restoring # {} => committed = {}

\* An export's copy holds what was committed when the export began.
Backup ==
  /\ BackupWhole
  /\ \A e \in Exports :
       /\ exp[e].st # "idle" => exp[e].need \subseteq committed
       /\ exp[e].st = "encrypt" => snap.st = "db" /\ exp[e].need \subseteq snap.has
       /\ exp[e].st \in {"cleanup", "bundle"} =>
            exp[e].got.st = "db" /\ exp[e].need \subseteq exp[e].got.has

AtRest == work = None /\ ~sentinel /\ committed \subseteq age.has

\* A clean shutdown on its way: the run closes its pool while it has the lock,
\* and nothing decrypted is left once it has returned.
CleanRun(r) ==
  /\ r \notin job
  /\ IF lock = r
       THEN /\ pc[r] \in {"teardown", "close", "encrypt", "remove", "unmark", "closed"}
            /\ pc[r] = "close" => r \in conn
            /\ pc[r] = "closed" => AtRest
       ELSE pc[r] \in {"close", "closed", "off"} /\ r \notin conn /\ AtRest /\ ~cache

Clean ==
  /\ \A r \in clean : CleanRun(r)
  /\ \A r \in Runs : pc[r] # "off" => clean \subseteq {r}

DataInv == SoloInv /\ Data /\ Backup /\ Clean

-----------------------------------------------------------------------------
(* The run at work *)

LEMMA SteadyData ==
  ASSUME ProcTypes, FileTypes, NEW r \in Runs, pc[r] # "off", RunOK(r), orphan = {},
         AgeOK, RunData(r), Steady(r)
  PROVE  AgeOK' /\ (pc'[r] # "off" => RunData(r)') /\ (pc'[r] = "off" => Persist')
<1>0. /\ work.st \in {"none", "torn", "db"} /\ age.st \in {"none", "torn", "db"}
      /\ None.st = "none" /\ None.has = {} /\ Torn.st = "torn"
      /\ \A x : Db(x).st = "db" /\ Db(x).has = x
  BY Zenon DEF FileTypes, Files, None, Torn, Db
<1>p. pc \in [Runs -> Steps] /\ buf \in [Runs -> SUBSET Txns]
  BY Zenon DEF ProcTypes
<1>c. r \in conn => pc[r] \in Pooled \cup {"close"}
  BY Zenon DEF RunOK
<1> USE DEF AgeOK, RunData, Persist, Pooled, At, Goto, proc
<1>1. CASE PoolOpen(r)
  <2>1. CASE work.st = "none"
    BY <1>0, <1>p, <1>c, <1>1, <2>1 DEF PoolOpen
  <2>2. CASE work.st = "db"
    BY <1>p, <1>c, <1>1, <2>2, Zenon DEF PoolOpen
  <2>3. CASE work.st = "torn"
    BY <1>p, <1>1, <2>3, Zenon DEF PoolOpen
  <2> QED
    BY <1>0, <2>1, <2>2, <2>3, Zenon
<1>2. CASE DecryptDb(r)
  BY <1>0, <1>p, <1>c, <1>2, Zenon DEF DecryptDb
<1>3. CASE Reencrypt(r)
  BY <1>0, <1>p, <1>c, <1>3, Zenon DEF Reencrypt
<1>4. CASE Opened(r)
  BY <1>p, <1>4, Zenon DEF Opened, db
<1>5. CASE Publish(r)
  BY <1>p, <1>5, Zenon DEF Publish, db
<1>6. CASE StartFails(r)
  BY <1>p, <1>6, Zenon DEF StartFails, db
<1>7. CASE Commit(r)
  <2>1. PICK t \in Txns : /\ committed' = committed \cup {t} /\ age' = age
                          /\ work' = Db(work.has \cup {t})
    BY <1>7, Zenon DEF Commit
  <2>2. r \in conn /\ UNCHANGED <<pc, conn, buf>>
    BY <1>7, Zenon DEF Commit
  <2> QED
    BY <1>0, <1>c, <2>1, <2>2
<1>8. CASE OpenAttachment(r)
  BY <1>8, Zenon DEF OpenAttachment, db
<1>9. CASE Teardown(r)
  BY <1>p, <1>9, Zenon DEF Teardown, db
<1>10. CASE TransportDown(r)
  BY <1>p, <1>10, Zenon DEF TransportDown, db
<1>11. CASE WipeBegin(r)
  BY <1>p, <1>11, Zenon DEF WipeBegin, db
<1>12. CASE CloseBegin(r)
  BY <1>0, <1>p, <1>12, Zenon DEF CloseBegin, db
<1>13. CASE CloseEncrypt(r)
  BY <1>0, <1>p, <1>c, <1>13 DEF CloseEncrypt
<1>14. CASE CloseRemove(r)
  BY <1>0, <1>p, <1>c, <1>14, Zenon DEF CloseRemove
<1>15. CASE Return(r)
  BY <1>p, <1>15, Zenon DEF Return, db
<1> QED
  BY <1>1, <1>2, <1>3, <1>4, <1>5, <1>6, <1>7, <1>8, <1>9, <1>10, <1>11, <1>12,
     <1>13, <1>14, <1>15, Zenon DEF Steady

LEMMA SteadyClean ==
  ASSUME ProcTypes, NEW r \in Runs, pc[r] # "off", RunOK(r), RunData(r),
         clean \subseteq {r}, r \in clean => CleanRun(r), Steady(r)
  PROVE  clean' \subseteq {r} /\ (r \in clean' => CleanRun(r)')
<1>0. None.st = "none"
  BY Zenon DEF None
<1>p. pc \in [Runs -> Steps] /\ r # NoRun
  BY SentinelsAssumption, Zenon DEF ProcTypes
<1>c. /\ r \in conn => pc[r] \in Pooled \cup {"close"}
      /\ pc[r] \in Pooled => r \in conn /\ lock = r
      /\ r \in conn => work.st = "db"
      /\ pc[r] = "unmark" => work = None /\ committed \subseteq age.has
  BY <1>0, Zenon DEF RunOK, Pooled, Locked, RunData, Persist
<1> USE DEF CleanRun, AtRest, At, Goto, proc, Pooled
<1>1. CASE PoolOpen(r) \/ DecryptDb(r) \/ Reencrypt(r) \/ Opened(r)
  BY <1>1, Zenon DEF PoolOpen, DecryptDb, Reencrypt, Opened
<1>2. CASE Publish(r) \/ StartFails(r) \/ WipeBegin(r)
  BY <1>2, Zenon DEF Publish, StartFails, WipeBegin
<1>7. CASE Commit(r)
  BY <1>c, <1>7, Zenon DEF Commit
<1>8. CASE OpenAttachment(r)
  BY <1>8, Zenon DEF OpenAttachment, db
<1>9. CASE Teardown(r)
  BY <1>c, <1>p, <1>9, Zenon DEF Teardown, db
<1>10. CASE TransportDown(r)
  BY <1>c, <1>p, <1>10, Zenon DEF TransportDown, db
<1>12. CASE CloseBegin(r)
  BY <1>0, <1>c, <1>p, <1>12, Zenon DEF CloseBegin, db
<1>13. CASE CloseEncrypt(r)
  BY <1>p, <1>13, Zenon DEF CloseEncrypt
<1>14. CASE CloseRemove(r)
  BY <1>c, <1>p, <1>14, Zenon DEF CloseRemove
<1>15. CASE Return(r)
  BY <1>c, <1>p, <1>15, Zenon DEF Return, db
<1> QED
  BY <1>1, <1>2, <1>7, <1>8, <1>9, <1>10, <1>12, <1>13, <1>14, <1>15, Zenon DEF Steady

LEMMA BackupFrame ==
  ASSUME Backup, UNCHANGED <<exp, snap, archive>>, committed \subseteq committed'
  PROVE  Backup'
BY Zenon DEF Backup, BackupWhole

\* The archive is all that counts once no export is under way.
LEMMA BackupIdle ==
  ASSUME BackupWhole', \A e \in Exports : exp'[e].st = "idle"
  PROVE  Backup'
BY Zenon DEF Backup

LEMMA DataSteady ==
  ASSUME DataInv, NEW r \in Runs, Steady(r)
  PROVE  Data' /\ Backup' /\ Clean'
<1> USE DEF DataInv, SoloInv, Types
<1>1. /\ pc[r] # "off" /\ RunOK(r) /\ Settled /\ orphan = {}
      /\ \A s \in Runs : s # r => pc[s] = "off"
  BY SteadyIsThere, Alone, Zenon DEF Solo
<1>2. UNCHANGED cmdVars /\ committed \subseteq committed'
  BY SteadyFrame, Zenon
<1>3. \A s \in Runs : s # r => pc'[s] = "off"
  BY <1>1, SteadyRun, Zenon DEF StillThere
<1>4. RunData(r) /\ AgeOK
  BY <1>1, Zenon DEF Data
<1>5. Data'
  <2>1. AgeOK' /\ (pc'[r] # "off" => RunData(r)') /\ (pc'[r] = "off" => Persist')
    BY <1>1, <1>4, SteadyData, Zenon
  <2>2. vault' # NoPass /\ legacy'.left = {} /\ restoring' = {}
    BY <1>1, <1>2, Zenon DEF Settled, cmdVars
  <2> QED
    BY <1>3, <2>1, <2>2, Zenon DEF Data, AllOff
<1>6. Backup'
  BY <1>2, BackupFrame, Zenon DEF cmdVars
<1>7. Clean'
  <2>1. clean \subseteq {r} /\ (r \in clean => CleanRun(r))
    BY <1>1, Zenon DEF Clean
  <2>2. clean' \subseteq {r} /\ (r \in clean' => CleanRun(r)')
    BY <1>1, <1>4, <2>1, SteadyClean, Zenon
  <2> QED
    BY <1>3, <2>2, Zenon DEF Clean
<1> QED
  BY <1>5, <1>6, <1>7, Zenon

LEMMA DataBoots ==
  ASSUME DataInv, Faults = {}, NEW r \in Runs, Boots(r)
  PROVE  Data' /\ Backup' /\ Clean'
<1> USE DEF DataInv, SoloInv, Types
<1>1. /\ AllOff /\ pc' = [pc EXCEPT ![r] = "boot"] /\ clean' = {}
      /\ vault \in Passes /\ ~moving /\ restoring = {}
      /\ UNCHANGED <<ids, db, conn, buf, cmds, committed>>
  BY BootFrame, Zenon
<1>2. legacy.left = {}
  BY <1>1, SentinelsAssumption, Zenon DEF Layout
<1>3. pc'[r] = "boot" /\ conn = {} /\ \A s \in Runs : s # r => pc'[s] = "off"
  BY <1>1, Zenon DEF ProcTypes, AllOff, Solo
<1>4. AgeOK /\ Persist
  BY <1>1, <1>2, Zenon DEF Data
<1>5. AgeOK' /\ Persist'
  BY <1>1, <1>4, Zenon DEF AgeOK, Persist, db
<1>6. RunData(r)'
  BY <1>1, <1>3, <1>5, Zenon DEF RunData, Pooled
<1>7. Data'
  BY <1>1, <1>2, <1>3, <1>5, <1>6, SentinelsAssumption, Zenon DEF Data, AllOff, ids, cmds
<1>8. Backup'
  BY <1>1, BackupFrame, Zenon DEF db, cmds
<1> QED
  BY <1>1, <1>7, <1>8, Zenon DEF Clean

LEMMA DataEnds ==
  ASSUME DataInv, Faults = {}, NEW r \in Runs, Ends(r)
  PROVE  Data' /\ Backup' /\ Clean'
<1> USE DEF DataInv, SoloInv, Types
<1>1. /\ pc[r] # "off" /\ Gone(r)
      /\ UNCHANGED <<ids, db, cache, told, archive, restoring, moving, committed>>
      /\ \/ clean' = clean /\ lock # r
         \/ clean' = clean \ {r} /\ pc[r] # "decrypt"
  BY EndFrame, Zenon
<1>2. RunOK(r) /\ Settled /\ RunData(r) /\ AgeOK
  BY <1>1, Alone, Zenon DEF Data
<1>3. /\ AllOff' /\ lock' = NoRun /\ conn' = {} /\ job' = {}
      /\ \A e \in Exports : exp'[e].st = "idle"
  BY <1>1, GoneLeavesNothing, Zenon
<1>4. Data'
  <2>1. Persist /\ AgeOK
    BY <1>1, <1>2, Zenon DEF RunData, RunOK, Locked
  <2>2. Persist' /\ AgeOK'
    BY <1>1, <2>1, Zenon DEF Persist, AgeOK, db
  <2>3. vault' # NoPass /\ legacy'.left = {} /\ restoring' = {}
    BY <1>1, <1>2, Zenon DEF Settled, ids
  <2> QED
    BY <1>3, <2>2, <2>3, Zenon DEF Data, AllOff
<1>5. Backup'
  <2>1. BackupWhole'
    BY <1>1, Zenon DEF Backup, BackupWhole
  <2> QED
    BY <1>3, <2>1, BackupIdle, Zenon
<1>6. Clean'
  <2>1. clean \subseteq {r} /\ (r \in clean => CleanRun(r))
    BY <1>1, Zenon DEF Clean
  <2>2. clean' \subseteq {r} /\ (r \in clean' => AtRest /\ ~cache)
    BY <1>1, <2>1, Zenon DEF CleanRun
  <2>3. r \in clean' => AtRest' /\ ~cache'
    BY <1>1, <2>2, Zenon DEF AtRest, db
  <2>4. \A s \in Runs : s \in clean' => CleanRun(s)'
    BY <1>3, <2>2, <2>3, SentinelsAssumption, Zenon DEF CleanRun, AllOff
  <2> QED
    BY <1>3, <2>2, <2>4, Zenon DEF Clean, AllOff
<1> QED
  BY <1>4, <1>5, <1>6, Zenon

\* A directory that was emptied holds nothing, and nothing is asked of it.
LEMMA DataEmptied ==
  ASSUME Emptied, AllOff', restoring' = {}
  PROVE  Data' /\ AtRest' /\ ~cache'
<1>1. AgeOK' /\ Persist' /\ committed' = {}
  BY Zenon DEF Emptied, AgeOK, Persist, None
<1> QED
  BY <1>1, Zenon DEF Emptied, Data, AllOff, AtRest

LEMMA DataWipes ==
  ASSUME DataInv, NEW r \in Runs, WipeRemove(r)
  PROVE  Data' /\ Backup' /\ Clean'
<1> USE DEF DataInv, SoloInv, Types
<1>1. /\ pc[r] # "off" /\ Gone(r) /\ Emptied /\ UNCHANGED <<clean, archive, restoring>>
  BY Zenon DEF WipeRemove, At
<1>2. restoring' = {} /\ clean \subseteq {r}
  BY <1>1, Alone, Zenon DEF Settled, Clean
<1>3. /\ AllOff' /\ lock' = NoRun /\ conn' = {} /\ job' = {}
      /\ \A e \in Exports : exp'[e].st = "idle"
  BY <1>1, GoneLeavesNothing, Zenon
<1>4. Data' /\ AtRest' /\ ~cache'
  BY <1>1, <1>2, <1>3, DataEmptied, Zenon
<1>5. Backup'
  <2>1. BackupWhole'
    BY <1>1, Zenon DEF Backup, BackupWhole
  <2> QED
    BY <1>3, <2>1, BackupIdle, Zenon
<1>6. Clean'
  BY <1>1, <1>2, <1>3, <1>4, SentinelsAssumption, Zenon DEF Clean, CleanRun, AllOff
<1> QED
  BY <1>4, <1>5, <1>6, Zenon

-----------------------------------------------------------------------------
(* Commands *)

\* An open pool holds everything that was committed: its run is the only one, so
\* no other is in the middle of decrypting over the working file.
LEMMA OpenPoolHolds == DataInv => KeepsCommitted
<1> SUFFICES ASSUME DataInv, NEW r \in conn
             PROVE  r \notin orphan /\ work.st = "db" /\ committed \subseteq work.has
  BY Zenon DEF KeepsCommitted
<1> USE DEF DataInv, SoloInv, Types
<1>1. r \in Runs /\ pc[r] # "off" /\ RunOK(r)
  BY Alone, Zenon DEF ProcTypes
<1>2. RunData(r) /\ orphan = {}
  BY <1>1, Zenon DEF Data, Solo
<1> QED
  BY <1>1, <1>2, Zenon DEF RunData, RunOK, Pooled, Persist

LEMMA DataFrame ==
  ASSUME Data, UNCHANGED <<pc, conn, buf, age, work, committed, legacy, restoring>>,
         vault' = NoPass => vault = NoPass
  PROVE  Data'
<1>1. \A r \in Runs : RunData(r) => RunData(r)'
  BY Zenon DEF RunData, Persist
<1>2. (AgeOK => AgeOK') /\ (Persist => Persist')
  BY Zenon DEF AgeOK, Persist
<1> QED
  BY <1>1, <1>2, Zenon DEF Data, AllOff

LEMMA CleanFrame ==
  ASSUME Clean, UNCHANGED <<pc, lock, conn, job, clean, age, work, sentinel, cache, committed>>
  PROVE  Clean'
<1>1. \A r : CleanRun(r) => CleanRun(r)'
  BY Zenon DEF CleanRun, AtRest
<1> QED
  BY <1>1, Zenon DEF Clean

LEMMA DataCommands ==
  ASSUME DataInv, SoloInv', ChangePassphrase \/ OfflineBackup
  PROVE  Data' /\ Backup' /\ Clean'
<1> USE DEF DataInv, SoloInv, Types
<1>1. /\ UNCHANGED <<pc, lock, conn, buf, job, clean, age, work, sentinel, cache,
                     committed, legacy, restoring, exp, snap>>
  BY Zenon DEF ChangePassphrase, OfflineBackup, ids, db, proc
<1>2. vault' = NoPass => vault = NoPass
  BY SentinelsAssumption, Zenon DEF ChangePassphrase, OfflineBackup, ids, Told
<1>3. BackupWhole'
  <2>1. CASE ChangePassphrase
    BY <2>1, Zenon DEF ChangePassphrase, Backup, BackupWhole
  <2>2. CASE OfflineBackup
    <3>1. archive'.file = age /\ archive'.need = age.has /\ age.st # "none"
      BY <2>2, Zenon DEF OfflineBackup
    <3>2. age.st = "db"
      BY <3>1, Zenon DEF Data, AgeOK, FileTypes, Files
    <3> QED
      BY <3>1, <3>2, Zenon DEF BackupWhole
  <2> QED
    BY <2>1, <2>2, Zenon
<1>4. Backup'
  BY <1>1, <1>3, Zenon DEF Backup
<1> QED
  BY <1>1, <1>2, <1>4, DataFrame, CleanFrame, Zenon

LEMMA DataExport ==
  ASSUME DataInv, Faults = {}, NEW e \in Exports, Export(e)
  PROVE  Data' /\ Backup' /\ Clean'
<1> USE DEF DataInv, SoloInv, Types
<1>0. /\ None.st = "none" /\ NoExport.st = "idle"
      /\ \A x : Db(x).st = "db" /\ Db(x).has = x
  BY Zenon DEF None, NoExport, Db
<1>1. UNCHANGED <<pc, lock, conn, buf, job, clean, age, work, sentinel, cache,
                  committed, vault, legacy, restoring>>
  BY Zenon DEF Export, ExportBegin, ExportVacuum, ExportEncrypt, ExportBundle, ids, db, proc
<1>2. Data' /\ Clean'
  BY <1>1, DataFrame, CleanFrame, Zenon
<1>3. CmdsOK
  BY Zenon DEF Solo
<1>4. CASE ExportBegin(e)
  <2> DEFINE x(r) == [st |-> "begun", run |-> r, need |-> committed, got |-> None]
  <2>1. PICK r \in bound : exp' = [exp EXCEPT ![e] = x(r)]
    BY <1>4, Zenon DEF ExportBegin, Exporting
  <2>2. x(r) \in ExportStates /\ x(r).need = committed /\ x(r).st = "begun"
    BY Zenon DEF ExportStates, ProcTypes, FileTypes, None, Files
  <2> HIDE DEF x
  <2>3. exp'[e] = x(r) /\ \A f \in Exports : f # e => exp'[f] = exp[f]
    BY <2>1, <2>2, ExportMoves, Zenon
  <2>4. exp'[e].need = committed /\ exp'[e].st = "begun"
    BY <2>2, <2>3, Zenon
  <2>5. UNCHANGED <<snap, archive, committed>>
    BY <1>4, Zenon DEF ExportBegin, db
  <2> QED
    BY <1>2, <2>3, <2>4, <2>5, Zenon DEF Backup, BackupWhole
<1>5. CASE ExportVacuum(e)
  <2>1. /\ UNCHANGED <<archive, committed>> /\ exp[e].st # "idle"
        /\ \A f \in Exports : f # e => exp'[f] = exp[f]
    BY <1>5, VacuumStep, Zenon
  <2>2. \A f \in Exports : f # e => exp'[f].st = "idle"
    BY <1>3, <2>1, Zenon DEF CmdsOK
  <2>3. exp[e].st = "vacuum" => work.st = "db" /\ committed \subseteq work.has
    BY <1>3, OpenPoolHolds, Zenon DEF CmdsOK, KeepsCommitted
  <2>4. \/ exp'[e].st = "idle"
        \/ exp'[e].st = "vacuum" /\ exp'[e].need \subseteq committed
        \/ /\ exp'[e].st = "encrypt" /\ exp'[e].need \subseteq committed
           /\ snap'.st = "db" /\ committed \subseteq snap'.has
    BY <1>0, <1>5, <2>3, VacuumStep DEF Backup
  <2> QED
    BY <1>2, <2>1, <2>2, <2>4, Zenon DEF Backup, BackupWhole
<1>6. CASE ExportEncrypt(e)
  <2>1. /\ UNCHANGED <<archive, committed>> /\ exp[e].st # "idle"
        /\ \A f \in Exports : f # e => exp'[f] = exp[f]
    BY <1>6, EncryptStep, Zenon
  <2>2. \A f \in Exports : f # e => exp'[f].st = "idle"
    BY <1>3, <2>1, Zenon DEF CmdsOK
  <2>3. \/ exp'[e].st = "idle"
        \/ /\ exp'[e].st \in {"cleanup", "bundle"} /\ exp'[e].need \subseteq committed
           /\ exp'[e].got.st = "db" /\ exp'[e].need \subseteq exp'[e].got.has
    BY <1>0, <1>6, EncryptStep, ZenonT(60) DEF Backup
  <2> QED
    BY <1>2, <2>1, <2>2, <2>3, Zenon DEF Backup, BackupWhole
<1>7. CASE ExportBundle(e)
  <2>1. exp'[e] = NoExport /\ \A f \in Exports : f # e => exp'[f] = exp[f]
    BY <1>7, NoExportType, ExportMoves, Zenon DEF ExportBundle, Exporting
  <2>2. \A f \in Exports : exp'[f].st = "idle"
    BY <1>0, <1>3, <1>7, <2>1, Zenon DEF CmdsOK, ExportBundle, Exporting
  <2>3. BackupWhole'
    BY <1>7, Zenon DEF ExportBundle, Exporting, Backup, BackupWhole
  <2> QED
    BY <1>2, <2>2, <2>3, BackupIdle, Zenon
<1> QED
  BY <1>4, <1>5, <1>6, <1>7, Zenon DEF Export

-----------------------------------------------------------------------------
(* Setting up, with what was committed *)

LEMMA BackupSettingUp ==
  ASSUME Solo, SettingUp, BackupWhole' PROVE Backup'
<1>1. \A e \in Exports : exp'[e].st = "idle"
  BY Zenon DEF Solo, CmdsOK, SettingUp
<1> QED
  BY <1>1, BackupIdle, Zenon

LEMMA CleanSettingUp ==
  ASSUME Clean, SettingUp, Solo, ProcTypes,
         \/ clean = {}
         \/ AtRest /\ ~cache => AtRest' /\ ~cache'
  PROVE  Clean'
<1>1. \A r \in Runs : CleanRun(r) => AtRest /\ ~cache
  BY SentinelsAssumption, Zenon DEF CleanRun, Solo, SettingUp, AllOff
<1>2. \A r \in Runs : CleanRun(r) /\ AtRest' /\ ~cache' => CleanRun(r)'
  BY SentinelsAssumption, Zenon DEF CleanRun, Solo, SettingUp, AllOff
<1> QED
  BY <1>1, <1>2, Zenon DEF Clean, SettingUp, ProcTypes, AllOff

LEMMA DataSetup ==
  ASSUME DataInv, Faults = {}, SoloInv',
         SetsUp \/ ResetLocalData \/ RestoreBegin \/ RestoreNext \/ RestoreDies
         \/ MigrateBegin \/ MigrateMove \/ MigrateFails
  PROVE  Data' /\ Backup' /\ Clean'
<1> USE DEF DataInv, SoloInv, Types
<1>1. ASSUME SetsUp PROVE Data' /\ Backup' /\ Clean'
  <2>1. NoIdentity /\ CreateVault
    BY <1>1, Zenon DEF SetsUp, InitCmd, RestoreSeed, IdentityInit
  <2>2. /\ UNCHANGED <<pc, lock, conn, buf, job, clean, age, work, sentinel, cache,
                       committed, legacy, restoring, exp, snap, archive>>
        /\ vault = NoPass
    BY <2>1, Zenon DEF CreateVault, NoIdentity, db, proc
  <2> QED
    BY <2>2, DataFrame, CleanFrame, BackupFrame, Zenon
<1>2. ASSUME ResetLocalData PROVE Data' /\ Backup' /\ Clean'
  <2>1. /\ AllOff /\ restoring' = {} /\ Emptied
        /\ UNCHANGED <<lock, conn, buf, job, bound, wiping, clean, pc, change, exp, archive>>
    BY <1>2, Zenon DEF ResetLocalData, AllOff, At
  <2>2. SettingUp
    BY <1>2, <2>1, Zenon DEF ResetLocalData, SettingUp, Solo
  <2>3. Data' /\ AtRest' /\ ~cache'
    BY <2>1, DataEmptied, Zenon DEF AllOff
  <2>4. BackupWhole'
    BY <2>1, Zenon DEF Backup, BackupWhole
  <2> QED
    BY <2>2, <2>3, <2>4, BackupSettingUp, CleanSettingUp, Zenon
<1>3. ASSUME RestoreBegin \/ RestoreNext \/ RestoreDies PROVE Data' /\ Backup' /\ Clean'
  <2>1. UNCHANGED <<legacy, work, sentinel, cache, proc, pc, change, exp, archive>>
    BY <1>3, Zenon DEF RestoreBegin, RestoreNext, RestoreDies, ids, db
  <2>2. archive # NoArchive /\ legacy.left = {} /\ work = None /\ ~Settled
    BY <1>3, RestoreStages, Zenon DEF RestoreBegin, RestoreNext, RestoreDies, Layout, Settled
  <2>3. SettingUp
    BY <2>1, <2>2, Unsettled, Zenon DEF SettingUp, proc
  <2>4. BackupWhole /\ BackupWhole'
    BY <2>1, Zenon DEF Backup, BackupWhole
  <2>5. \/ UNCHANGED <<age, committed>> /\ committed = {}
        \/ restoring' = {} /\ vault # NoPass /\ vault' = vault
           /\ age' = archive.file /\ committed' = archive.need
    BY <1>3, <2>2, RestoreStages, Zenon
       DEF RestoreBegin, RestoreNext, RestoreDies, Data, ids, db, Layout
  <2>6. AgeOK' /\ committed' \subseteq age'.has
    BY <2>2, <2>4, <2>5, Zenon DEF BackupWhole, Data, AgeOK
  <2>7. Data'
    <3>1. work'.st = "none"
      BY <2>1, <2>2, Zenon DEF None
    <3>2. AllOff' /\ Persist'
      BY <2>3, <2>6, <3>1, Zenon DEF SettingUp, AllOff, Persist
    <3> QED
      BY <2>1, <2>2, <2>5, <2>6, <3>2, Zenon DEF Data, AllOff
  <2>8. AtRest /\ ~cache => AtRest' /\ ~cache'
    BY <2>1, <2>6, Zenon DEF AtRest
  <2> QED
    BY <2>3, <2>4, <2>7, <2>8, BackupSettingUp, CleanSettingUp, Zenon
<1>4. ASSUME MigrateBegin \/ MigrateMove \/ MigrateFails PROVE Data' /\ Backup' /\ Clean'
  <2>1. UNCHANGED <<work, snap, proc, pc, change, exp, archive, restoring, committed>>
    BY <1>4, Zenon DEF MigrateBegin, MigrateMove, MigrateFails, db
  <2>2. legacy.left # {} /\ restoring = {} /\ clean = {} /\ work = None /\ ~Settled
    BY <1>4, Zenon DEF MigrateBegin, MigrateMove, MigrateFails, Layout, Settled
  <2>3. SettingUp
    BY <2>1, <2>2, Unsettled, Zenon DEF SettingUp, proc
  <2>4. Backup' /\ Clean'
    BY <2>1, <2>2, <2>3, BackupFrame, CleanSettingUp, Zenon
  <2>5. work'.st = "none" /\ work.st = "none"
    BY <2>1, <2>2, Zenon DEF None
  <2>6. IF "age" \in legacy.left THEN committed \subseteq legacy.has
        ELSE committed \subseteq age.has
    BY <2>3, <2>5, Zenon DEF Data, Persist, SettingUp
  <2>7. CASE MigrateBegin \/ MigrateFails
    <3>1. UNCHANGED <<conn, buf, age, vault, legacy>>
      BY <2>7, Zenon DEF MigrateBegin, MigrateFails, ids, db, proc
    <3> QED
      BY <2>1, <2>4, <3>1, DataFrame, Zenon
  <2>8. CASE MigrateMove
    <3>1. PICK f \in legacy.left :
            /\ legacy' = [legacy EXCEPT !.left = @ \ {f}]
            /\ age' = IF f = "age" THEN Db(legacy.has) ELSE age
      BY <2>8, Zenon DEF MigrateMove
    <3>2. legacy'.left = legacy.left \ {f} /\ legacy'.has = legacy.has
      BY <3>1, Zenon DEF CmdTypes
    <3>3. /\ AgeOK'
          /\ IF "age" \in legacy'.left THEN committed' \subseteq legacy'.has
             ELSE committed' \subseteq age'.has
      BY <2>1, <2>6, <3>1, <3>2, Zenon DEF Data, AgeOK, Db
    <3>4. legacy'.left = {} => vault' # NoPass
      <4>1. legacy'.left = {} => "vault" \notin legacy.left \/ legacy.left = {"vault"}
        BY <3>2, Zenon
      <4>2. legacy.pass \in Passes /\ (legacy.left # {} /\ "vault" \notin legacy.left => vault \in Passes)
        BY <2>2, Zenon DEF Layout
      <4>3. vault' \in {legacy.pass, vault} /\ (legacy.left = {"vault"} => vault' = legacy.pass)
        BY <2>8, Zenon DEF MigrateMove
      <4> QED
        BY <2>2, <4>1, <4>2, <4>3, SentinelsAssumption, Zenon
    <3>5. Data'
      BY <2>1, <2>2, <2>3, <2>5, <3>3, <3>4, Zenon DEF Data, Persist, AllOff, SettingUp
    <3> QED
      BY <2>4, <3>5, Zenon
  <2> QED
    BY <1>4, <2>7, <2>8, Zenon
<1> QED
  BY <1>1, <1>2, <1>3, <1>4, Zenon

-----------------------------------------------------------------------------
(* The second invariant *)

LEMMA DataInit == Init => DataInv
<1> SUFFICES ASSUME Init PROVE DataInv
  OBVIOUS
<1>1. SoloInv
  BY SoloInit, Zenon
<1>2. Data
  <2>1. AgeOK /\ AllOff /\ (committed = {} => Persist)
    BY Zenon DEF Init, AgeOK, AllOff, Persist, None
  <2>2. \/ committed = {}
        \/ legacy.left = BackupFiles /\ committed = legacy.has
    BY DEF Init
  <2>3. restoring = {} /\ vault = NoPass
    BY Zenon DEF Init
  <2> QED
    BY <2>1, <2>2, <2>3, Zenon DEF Data, AllOff, BackupFiles
<1>3. Backup /\ Clean
  BY Zenon DEF Init, Backup, BackupWhole, Clean, NoExport
<1> QED
  BY <1>1, <1>2, <1>3, Zenon DEF DataInv

LEMMA DataStutter == ASSUME DataInv, UNCHANGED vars PROVE DataInv'
<1> USE DEF DataInv, vars, ids, db, proc, cmds
<1>1. SoloInv'
  BY SoloStutter, Zenon
<1>2. Data'
  BY DataFrame, Zenon
<1>3. Backup'
  BY BackupFrame, Zenon
<1>4. Clean'
  BY CleanFrame, Zenon
<1> QED
  BY <1>1, <1>2, <1>3, <1>4, Zenon

LEMMA DataAlways == Faults = {} => (Spec => []DataInv)
<1> SUFFICES ASSUME Faults = {} PROVE Spec => []DataInv
  OBVIOUS
<1>1. DataInv /\ [Next]_vars => DataInv'
  <2> SUFFICES ASSUME DataInv, [Next]_vars PROVE DataInv'
    OBVIOUS
  <2>1. CASE Next
    <3>1. SoloInv'
      BY <2>1, SoloNext, Zenon DEF DataInv
    <3>2. ASSUME NEW r \in Runs, Boots(r) \/ Steady(r) \/ Ends(r) \/ WipeRemove(r)
          PROVE  Data' /\ Backup' /\ Clean'
      BY <3>2, DataBoots, DataSteady, DataEnds, DataWipes, Zenon
    <3>3. ASSUME NEW e \in Exports, Export(e) PROVE Data' /\ Backup' /\ Clean'
      BY <3>3, DataExport, Zenon
    <3>4. Data' /\ Backup' /\ Clean'
      BY <2>1, <3>1, <3>2, <3>3, Kinds, DataCommands, DataSetup, Zenon DEF Export
    <3> QED
      BY <3>1, <3>4, Zenon DEF DataInv
  <2>2. CASE UNCHANGED vars
    BY <2>2, DataStutter, Zenon
  <2> QED
    BY <2>1, <2>2, Zenon
<1> QED
  BY <1>1, DataInit, PTL DEF Spec

\* No committed transaction is lost: an open pool holds everything that was ever
\* reported committed, whichever file operation a run died in, except the one
\* that creates the working file.
THEOREM CommittedIsKept == Faults = {} => (Spec => []KeepsCommitted)
BY OpenPoolHolds, DataAlways, PTL

\* A shutdown without a fault leaves nothing decrypted and the encrypted
\* database current until the next run.
THEOREM ShutdownIsClean == Faults = {} => (Spec => []CleanAtRest)
<1>1. DataInv => CleanAtRest
  <2> SUFFICES ASSUME DataInv, NEW r \in clean, At(r, "off")
               PROVE  /\ work = None /\ ~sentinel /\ ~cache
                      /\ committed \subseteq age.has
    BY Zenon DEF CleanAtRest
  <2>1. r \in Runs /\ CleanRun(r)
    BY Zenon DEF DataInv, SoloInv, Types, ProcTypes, Clean
  <2> QED
    BY <2>1, Zenon DEF At, CleanRun, AtRest
<1> QED
  BY <1>1, DataAlways, PTL

\* An archive holds a whole database with everything that was committed when its
\* export began, when exports do not overlap.
THEOREM ArchiveIsWhole == Faults = {} => (Spec => []BackupWhole)
<1>1. DataInv => BackupWhole
  BY Zenon DEF DataInv, Backup
<1> QED
  BY <1>1, DataAlways, PTL

=============================================================================
