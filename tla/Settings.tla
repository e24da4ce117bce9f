------------------------------ MODULE Settings ------------------------------
(***************************************************************************)
(* The settings of the desktop program: the store behind the settings      *)
(* pages (stores/config.ts), GetConfig and SetConfig in the daemon, the    *)
(* file config.toml, and the mirror of close_to_tray that the handler of   *)
(* the close button reads (ui/src/main.rs).                                *)
(*                                                                         *)
(* Every request has a connection of its own (ipc_request), so requests    *)
(* reach the daemon, and their answers the page, in any order.  The daemon *)
(* runs inside the desktop program and dies with it.  Every setting is     *)
(* taken to have two values.                                               *)
(***************************************************************************)
EXTENDS Naturals, FiniteSets

CONSTANTS MaxEdits,    \* bound: changes the user makes
          MaxFetches,  \* bound: pages opened
          MaxFails,    \* bound: requests that fail
          MaxStops     \* bound: ends of the program, orderly or not

ASSUME BoundsAssumption ==
    /\ MaxEdits \in Nat /\ MaxFetches \in Nat
    /\ MaxFails \in Nat /\ MaxStops \in Nat

\* One setting of each kind: mirrored in the shell, shown only, and neither in
\* the snapshot the daemon sends nor in other patches of the advanced page.
Fields == {"close_to_tray", "notification_mode", "download_dir"}
Mirrored == "close_to_tray"

Values == {"on", "off"}
Null == "null"      \* a field a patch leaves alone, an answer not known
NoSnapshot == [f \in {} |-> "on"]
NoPatch == [f \in Fields |-> Null]

VARIABLES
    up,       \* the program runs
    file,     \* config.toml, or Torn when it is missing or cannot be parsed
    cfg,      \* the daemon's config, behind its RwLock
    mirror,   \* CloseToTraySentinel
    shown,    \* _state.snapshot
    fresh,    \* fetchedAt is within CACHE_TTL_MS
    pend,     \* _pendingPatch
    timer,    \* the field whose caller waits for _saveTimer, or Null
    reqs,     \* requests under way
    told,     \* what the user was told is saved, since last changing it
    raced,    \* fields carried by two requests at once
    overlap,  \* something was changed or read while something was under way
    edits, fetches, fails, stops

page == <<shown, fresh, pend, timer>>
bounds == <<edits, fetches, fails, stops>>
vars == <<up, file, cfg, mirror, page, reqs, told, raced, overlap, bounds>>

-----------------------------------------------------------------------------
(* The file *)

Torn == NoSnapshot
Defaults == [f \in Fields |-> "on"]

\* Config::load, or Config::defaults when it cannot be read or parsed.
Load(text) == IF text = Torn THEN Defaults ELSE text

\* Config::apply_patch.  The range of the direct timeout, which no page sets,
\* is left out.
ApplyPatch(c, patch) ==
    [f \in Fields |-> IF patch[f] = Null THEN c[f] ELSE patch[f]]

\* Config::snapshot.
Snapshot(c) == [f \in Fields \ {"download_dir"} |-> c[f]]

-----------------------------------------------------------------------------
\* A new installation.
Init ==
    /\ up = FALSE /\ file = Torn
    /\ cfg = Defaults /\ mirror = "on"
    /\ shown = NoSnapshot /\ fresh = FALSE /\ pend = NoPatch /\ timer = Null
    /\ reqs = {} /\ told = NoPatch /\ raced = {} /\ overlap = FALSE
    /\ edits = 0 /\ fetches = 0 /\ fails = 0 /\ stops = 0

\* start_in_process_cmd gives the daemon its config.
StartInProcess == cfg' = Load(file)

\* The setup hook sets the mirror; once the vault is open the daemon starts.  Both
\* load the same file.
Boot ==
    /\ ~up /\ up' = TRUE
    /\ StartInProcess /\ mirror' = Load(file)[Mirrored]
    /\ UNCHANGED <<file, page, reqs, told, raced, overlap, bounds>>

\* The program ends, with whatever was pending.
Stop ==
    /\ up /\ stops < MaxStops /\ stops' = stops + 1
    /\ up' = FALSE
    /\ shown' = NoSnapshot /\ fresh' = FALSE /\ pend' = NoPatch /\ timer' = Null
    /\ reqs' = {} /\ raced' = {} /\ overlap' = FALSE
    /\ UNCHANGED <<file, cfg, mirror, told, edits, fetches, fails>>

\* The close button ends the program unless it only hides the window.
CloseRequested(tray) == ~(tray /\ mirror = "on") /\ Stop

-----------------------------------------------------------------------------
(* The page *)

Quiet == timer = Null /\ reqs = {}

\* A number that no request under way has, to tell them apart.
Unused == CHOOSE n \in 0..Cardinality(reqs) : \A q \in reqs : q.n # n

\* Another request joins those in rs.
Join(rs, kind, patch, caller) ==
    reqs' = rs \cup {[n |-> Unused, kind |-> kind, patch |-> patch,
                      caller |-> caller, st |-> "sent", got |-> NoSnapshot]}

\* fetchConfig, when a page is opened.
FetchConfig ==
    /\ up /\ fetches < MaxFetches /\ fetches' = fetches + 1
    /\ shown = NoSnapshot \/ ~fresh
    /\ Join(reqs, "get", NoPatch, Null)
    /\ overlap' = (overlap \/ ~Quiet)
    /\ UNCHANGED <<up, file, cfg, mirror, page, told, raced, edits, fails, stops>>

\* CACHE_TTL_MS passes.
Expire ==
    /\ up /\ fresh /\ fresh' = FALSE
    /\ UNCHANGED <<up, file, cfg, mirror, shown, pend, timer, reqs, told, raced,
                   overlap, bounds>>

\* The fields a page puts into its patch: every one, null but for the one that
\* changed; singlePatch of the advanced page leaves out download_dir.
Carried(f) ==
    IF f = "notification_mode" THEN Fields
                               ELSE {f} \cup (Fields \ {"download_dir"})

SinglePatch(f, v) == [g \in Carried(f) |-> IF g = f THEN v ELSE Null]

\* { ...pending, ...patch }: a null of the later patch takes the place of an
\* earlier value.
Merge(pending, patch) ==
    [g \in Fields |-> IF g \in DOMAIN patch THEN patch[g] ELSE pending[g]]

\* patchConfig up to its timer: the pending patch, the optimistic snapshot, and
\* a timer that replaces the last one, whose caller is never answered.
PatchConfig(f, v) ==
    /\ up /\ edits < MaxEdits /\ edits' = edits + 1
    /\ pend' = Merge(pend, SinglePatch(f, v))
    /\ shown' = IF shown = NoSnapshot THEN shown
                ELSE [g \in DOMAIN shown \cup {f} |-> IF g = f THEN v ELSE shown[g]]
    /\ fresh' = (fresh \/ shown # NoSnapshot)
    /\ timer' = f
    /\ told' = [told EXCEPT ![f] = Null]
    /\ overlap' = (overlap \/ ~Quiet)
    /\ UNCHANGED <<up, file, cfg, mirror, reqs, raced, fetches, fails, stops>>

\* The fields that a request under way would change.
Underway == {f \in Fields : \E q \in reqs : q.patch[f] # Null}

\* The timer fires: the pending patch is sent and starts afresh.
Flush ==
    /\ up /\ timer # Null
    /\ Join(reqs, "set", pend, timer)
    /\ raced' = raced \cup {f \in Underway : pend[f] # Null}
    /\ pend' = NoPatch /\ timer' = Null
    /\ UNCHANGED <<up, file, cfg, mirror, shown, fresh, told, overlap, bounds>>

-----------------------------------------------------------------------------
(* The daemon *)

Step(q, st) == reqs' = (reqs \ {q}) \cup {[q EXCEPT !.st = st]}

\* The write lock of the config is held while the file is written.
Locked == \E q \in reqs : q.st = "saving"

\* Mutant: the file is written in place.
SetConfig_InPlace(q) ==
    /\ q.kind = "set" /\ q.st = "sent" /\ ~Locked
    /\ cfg' = ApplyPatch(cfg, q.patch) /\ Step(q, "saving")
    /\ file' = Torn
    /\ UNCHANGED <<up, mirror, page, told, raced, overlap, bounds>>

\* set_config up to the rename: the patch is applied to the live config, and
\* save_to_disk writes it beside the file.
SetConfig(q) ==
    /\ q.kind = "set" /\ q.st = "sent" /\ ~Locked
    /\ cfg' = ApplyPatch(cfg, q.patch) /\ Step(q, "saving")
    /\ UNCHANGED <<up, file, mirror, page, told, raced, overlap, bounds>>

\* The rename of save_to_disk, and the answer.
SaveToDisk(q) ==
    /\ q.st = "saving" /\ file' = cfg /\ Step(q, "ok")
    /\ UNCHANGED <<up, cfg, mirror, page, told, raced, overlap, bounds>>

\* A request that does not reach the daemon, a save that fails, which leaves
\* the patch in the live config, or an answer that is lost.
Fails(q) ==
    /\ q.st \in {"sent", "saving", "ok"}
    /\ fails < MaxFails /\ fails' = fails + 1
    /\ Step(q, "err")
    /\ UNCHANGED <<up, file, cfg, mirror, page, told, raced, overlap, edits,
                   fetches, stops>>

\* get_config, under the read lock.
GetConfig(q) ==
    /\ q.kind = "get" /\ q.st = "sent" /\ ~Locked
    /\ reqs' = (reqs \ {q}) \cup {[q EXCEPT !.st = "ok", !.got = Snapshot(cfg)]}
    /\ UNCHANGED <<up, file, cfg, mirror, page, told, raced, overlap, bounds>>

-----------------------------------------------------------------------------
(* The answers *)

\* A snapshot replaces what is shown.
Fetched(q) ==
    /\ q.kind = "get" /\ q.st = "ok" /\ reqs' = reqs \ {q}
    /\ shown' = q.got /\ fresh' = TRUE
    /\ UNCHANGED <<up, file, cfg, mirror, pend, timer, told, raced, overlap,
                   bounds>>

\* A failed fetch leaves it.
FetchFailed(q) ==
    /\ q.kind = "get" /\ q.st = "err" /\ reqs' = reqs \ {q}
    /\ UNCHANGED <<up, file, cfg, mirror, page, told, raced, overlap, bounds>>

\* set_close_to_tray, only for a patch that carries it; then the caller whose
\* timer fired is told.
Saved(q) ==
    /\ q.kind = "set" /\ q.st = "ok" /\ reqs' = reqs \ {q}
    /\ mirror' = IF q.patch[Mirrored] = Null THEN mirror ELSE q.patch[Mirrored]
    /\ told' = IF q.caller \in raced \/ pend[q.caller] # Null
               THEN told ELSE [told EXCEPT ![q.caller] = q.patch[q.caller]]
    /\ UNCHANGED <<up, file, cfg, page, raced, overlap, bounds>>

\* The snapshot is dropped and fetched again.
SaveFailed(q) ==
    /\ q.kind = "set" /\ q.st = "err"
    /\ shown' = NoSnapshot /\ fresh' = FALSE
    /\ Join(reqs \ {q}, "get", NoPatch, Null)
    /\ UNCHANGED <<up, file, cfg, mirror, pend, timer, told, raced, overlap, bounds>>

-----------------------------------------------------------------------------
Answer(q) == Fetched(q) \/ FetchFailed(q) \/ Saved(q) \/ SaveFailed(q)

Next ==
    \/ Boot \/ Stop \/ \E tray \in BOOLEAN : CloseRequested(tray)
    \/ FetchConfig \/ Expire \/ Flush
    \/ \E f \in Fields, v \in Values : PatchConfig(f, v)
    \/ \E q \in reqs : SetConfig(q) \/ SaveToDisk(q) \/ GetConfig(q) \/ Fails(q)
                       \/ Answer(q)

Spec == Init /\ [][Next]_vars

-----------------------------------------------------------------------------
(* Properties *)

\* The copies of a setting agree.  What the user was told is saved stays what
\* the file holds, what the daemon goes by and what the close button goes by,
\* through crashes, restarts and failed saves, until the user changes it: the
\* answer of set_config comes after the rename of save_to_disk, the toast after
\* set_close_to_tray.  And with nothing under way the pages show what the daemon
\* goes by, also after a save that failed (the re-fetch of patchConfig).
\* Left out are two requests for one setting under way at once, which may
\* overtake each other, and for what is shown a change or a fetch that began
\* while another was under way.
SettingsAgree ==
    /\ \A f \in Fields : told[f] # Null =>
         /\ file # Torn /\ file[f] = told[f]
         /\ up => cfg[f] = told[f]
         /\ up /\ f = Mirrored => mirror = told[f]
    /\ up /\ Quiet /\ ~overlap => \A f \in DOMAIN shown : shown[f] = cfg[f]
=============================================================================
