--------------------------- MODULE SettingsProofs ---------------------------
(***************************************************************************)
(* The settings a user was told are saved are saved, and the pages show    *)
(* them: for any number of changes, fetches, failed requests and ends of   *)
(* the program.                                                            *)
(***************************************************************************)
EXTENDS Settings, TLAPS

-----------------------------------------------------------------------------
(* The invariant *)

Configs   == [Fields -> Values]
Patches   == [Fields -> Values \cup {Null}]
Shows(s, c) == \A f \in DOMAIN s : s[f] = c[f]

\* A request: only a set changes anything, and it carries what its caller set.
ReqOK(q) ==
    /\ q = [n |-> q.n, kind |-> q.kind, patch |-> q.patch, caller |-> q.caller,
            st |-> q.st, got |-> q.got]
    /\ q.kind \in {"get", "set"} /\ q.patch \in Patches /\ DOMAIN q.got \subseteq Fields
    /\ q.kind = "get" => q.patch = NoPatch /\ q.st # "saving"
    /\ q.kind = "set" => q.caller \in Fields /\ q.patch[q.caller] # Null

PageOK ==
    /\ cfg \in Configs /\ (file = Torn \/ file \in Configs)
    /\ pend \in Patches /\ told \in Patches /\ raced \subseteq Fields
    /\ timer \in Fields \cup {Null} /\ DOMAIN shown \subseteq Fields
    /\ timer # Null => pend[timer] # Null
    /\ timer = Null => pend = NoPatch
    /\ ~up => DOMAIN shown = {} /\ timer = Null /\ reqs = {}
    /\ \A q \in reqs : ReqOK(q)

\* What the user was told is saved is not being changed: not by what is
\* pending, nor by a request under way, nor by two that raced.  A request that
\* was applied, or answered, has left its values where it wrote them unless
\* another one raced it.
Carries(q, f) == q.patch[f] # Null
Reached(q, f) ==
    /\ q.st \in {"saving", "ok"} => cfg[f] = q.patch[f]
    /\ q.st = "ok" => file # Torn /\ file[f] = q.patch[f]
FieldOK(f) ==
    /\ f \in raced \/ pend[f] # Null => told[f] = Null
    /\ \A q \in reqs : Carries(q, f) => told[f] = Null /\ (f \in raced \/ Reached(q, f))
    /\ \A p, q \in reqs : p # q /\ Carries(p, f) /\ Carries(q, f) => f \in raced
    /\ told[f] # Null =>
         /\ file # Torn /\ file[f] = told[f]
         /\ up => cfg[f] = told[f]
         /\ up /\ f = Mirrored => mirror = told[f]

\* Until something overlaps, one change or one request is under way, and what
\* is shown is what the daemon will go by once it is done.
AnswerOK(q) ==
    /\ q.kind = "set" /\ q.st = "sent" => Shows(shown, ApplyPatch(cfg, q.patch))
    /\ q.kind = "get" \/ q.st \in {"saving", "ok"} => Shows(shown, cfg)
    /\ q.kind = "get" /\ q.st = "ok" => Shows(q.got, cfg)
Sequential ==
    /\ timer # Null => reqs = {} /\ Shows(shown, ApplyPatch(cfg, pend))
    /\ \A p, q \in reqs : p = q
    /\ \A q \in reqs : AnswerOK(q)
    /\ timer = Null /\ reqs = {} => Shows(shown, cfg)

SettingsInv ==
    /\ PageOK
    /\ \A f \in Fields : FieldOK(f)
    /\ up /\ ~overlap => Sequential

LEMMA Constant ==
    /\ Null \notin Values /\ Mirrored \in Fields
    /\ NoPatch \in Patches /\ \A f \in Fields : NoPatch[f] = Null
    /\ Torn = NoSnapshot /\ DOMAIN NoSnapshot = {} /\ Torn \notin Configs
    /\ Defaults \in Configs
<1>1. Null \notin Values /\ Mirrored \in Fields
      BY DEF Null, Mirrored, Fields, Values
<1>2. NoPatch \in Patches /\ \A f \in Fields : NoPatch[f] = Null
      BY DEF Patches, Null, Fields, NoPatch
<1>3. Torn = NoSnapshot /\ DOMAIN NoSnapshot = {}
      BY DEF Torn, NoSnapshot
<1>4. Torn \notin Configs
      BY <1>1, <1>3 DEF Configs
<1>5. Defaults \in Configs
      BY DEF Configs, Fields, Defaults, Values
<1> QED BY <1>1, <1>2, <1>3, <1>4, <1>5

LEMMA ApplyPatchIs ==
    ASSUME NEW c \in Configs, NEW p \in Patches
    PROVE  /\ ApplyPatch(c, p) \in Configs
           /\ \A f \in Fields : ApplyPatch(c, p)[f] = IF p[f] = Null THEN c[f] ELSE p[f]
BY DEF ApplyPatch, Configs, Patches, Fields, Null

\* A request moves on.
LEMMA Stepped ==
    ASSUME NEW q, ReqOK(q), NEW s, q.kind = "get" => s # "saving", NEW p, p = [q EXCEPT !.st = s]
    PROVE  /\ ReqOK(p) /\ p.st = s
           /\ p.kind = q.kind /\ p.patch = q.patch /\ p.caller = q.caller /\ p.got = q.got
<1>1. /\ p.n = q.n /\ p.st = s /\ p.got = q.got
      /\ p.kind = q.kind /\ p.patch = q.patch /\ p.caller = q.caller
      BY DEF ReqOK
<1>2. p = [n |-> p.n, kind |-> p.kind, patch |-> p.patch, caller |-> p.caller,
           st |-> p.st, got |-> p.got]
      BY DEF ReqOK
<1> QED BY <1>1, <1>2 DEF ReqOK

\* A request joins.
LEMMA Joined ==
    ASSUME NEW p, NEW n, NEW k \in {"get", "set"}, NEW a \in Patches, NEW c,
           k = "get" => a = NoPatch,
           k = "set" => c \in Fields /\ a[c] # Null,
           p = [n |-> n, kind |-> k, patch |-> a, caller |-> c, st |-> "sent",
                got |-> NoSnapshot]
    PROVE  /\ ReqOK(p) /\ p.kind = k /\ p.patch = a /\ p.caller = c /\ p.st = "sent"
           /\ DOMAIN p.got = {}
BY Constant DEF ReqOK

\* A get carries nothing.
LEMMA GetCarriesNothing ==
    ASSUME NEW q, ReqOK(q), NEW f \in Fields, Carries(q, f)
    PROVE  q.kind = "set"
BY Constant DEF ReqOK, Carries

\* Two requests after one has moved on were two before.
LEMMA Swapped ==
    ASSUME NEW S, NEW q \in S, NEW p, NEW T, T = (S \ {q}) \cup {p},
           NEW r \in T, NEW s \in T, r # s
    PROVE  \E a, b \in S : /\ a # b /\ (a = r \/ (a = q /\ r = p))
                           /\ b = s \/ (b = q /\ s = p)
<1>1. (r \in S /\ r # q) \/ r = p
      BY Zenon
<1>2. (s \in S /\ s # q) \/ s = p
      BY Zenon
<1> QED BY <1>1, <1>2, Zenon

\* The requests under way leave a field alone: one moves on, or goes, or one
\* that carries nothing joins.
LEMMA FieldKept ==
    ASSUME NEW f \in Fields, FieldOK(f), NEW T, reqs' = T,
           UNCHANGED <<up, file, cfg, mirror, pend, told, raced>>,
           \A p \in T : Carries(p, f) =>
               \E q \in reqs : /\ q.patch = p.patch
                               /\ p.st \in {"saving", "ok"} => q.st = p.st,
           \A p, q \in T : p # q /\ Carries(p, f) /\ Carries(q, f) => f \in raced
    PROVE  FieldOK(f)'
BY DEF FieldOK, Carries, Reached

-----------------------------------------------------------------------------
(* Each step.                                                               *)

LEMMA SetInit == Init => SettingsInv
<1> SUFFICES ASSUME Init PROVE SettingsInv
    OBVIOUS
<1> USE DEF Init
<1>1. PageOK
      BY Constant DEF PageOK, Null
<1>2. \A f \in Fields : FieldOK(f)
      BY Constant DEF FieldOK
<1> QED BY <1>1, <1>2 DEF SettingsInv

LEMMA SetBoot == ASSUME SettingsInv, Boot PROVE SettingsInv'
<1> USE DEF Boot, page, bounds
<1>1. PageOK /\ DOMAIN shown = {} /\ timer = Null /\ reqs = {} /\ up'
      BY DEF SettingsInv, PageOK
<1>2. /\ cfg' = IF file = Torn THEN Defaults ELSE file
      /\ mirror' = cfg'[Mirrored]
      BY DEF StartInProcess, Load, Mirrored
<1>3. cfg' \in Configs
      BY <1>1, <1>2, Constant DEF PageOK
<1>4. PageOK'
      BY <1>1, <1>3 DEF PageOK
<1>5. ASSUME NEW f \in Fields PROVE FieldOK(f)'
  <2>1. FieldOK(f)
        BY DEF SettingsInv
  <2> QED BY <1>1, <1>2, <2>1 DEF FieldOK
<1>6. Sequential'
      BY <1>1 DEF Sequential, Shows
<1> QED BY <1>4, <1>5, <1>6 DEF SettingsInv

LEMMA SetStop == ASSUME SettingsInv, Stop PROVE SettingsInv'
<1> USE DEF Stop
<1>1. PageOK /\ reqs' = {} /\ ~up'
      BY DEF SettingsInv
<1>2. PageOK'
      BY <1>1, Constant DEF PageOK, Null
<1>3. ASSUME NEW f \in Fields PROVE FieldOK(f)'
  <2>1. FieldOK(f)
        BY DEF SettingsInv
  <2>2. pend'[f] = Null
        BY Constant
  <2> QED BY <1>1, <2>1, <2>2 DEF FieldOK
<1> QED BY <1>1, <1>2, <1>3 DEF SettingsInv

LEMMA SetExpire == ASSUME SettingsInv, Expire PROVE SettingsInv'
<1>1. UNCHANGED <<up, file, cfg, mirror, shown, pend, timer, reqs, told, raced, overlap>>
      BY DEF Expire
<1>2. PageOK'
      BY <1>1 DEF SettingsInv, PageOK
<1>3. ASSUME NEW f \in Fields PROVE FieldOK(f)'
      BY <1>1 DEF SettingsInv, FieldOK, Reached
<1>4. up' /\ ~overlap' => Sequential'
      BY <1>1 DEF SettingsInv, Sequential, AnswerOK
<1> QED BY <1>2, <1>3, <1>4 DEF SettingsInv

LEMMA SetStutter == ASSUME SettingsInv, UNCHANGED vars PROVE SettingsInv'
<1>1. UNCHANGED <<up, file, cfg, mirror, shown, pend, timer, reqs, told, raced, overlap>>
      BY DEF vars, page
<1>2. PageOK'
      BY <1>1 DEF SettingsInv, PageOK
<1>3. ASSUME NEW f \in Fields PROVE FieldOK(f)'
      BY <1>1 DEF SettingsInv, FieldOK, Reached
<1>4. up' /\ ~overlap' => Sequential'
      BY <1>1 DEF SettingsInv, Sequential, AnswerOK
<1> QED BY <1>2, <1>3, <1>4 DEF SettingsInv

LEMMA SetFetch == ASSUME SettingsInv, FetchConfig PROVE SettingsInv'
<1>1. /\ up /\ up' /\ UNCHANGED <<file, cfg, mirror, shown, pend, timer, told, raced>>
      /\ overlap' = (overlap \/ ~(timer = Null /\ reqs = {}))
      BY DEF FetchConfig, page, Quiet, Null
<1>2. PICK p : /\ p = [n |-> Unused, kind |-> "get", patch |-> NoPatch,
                       caller |-> Null, st |-> "sent", got |-> NoSnapshot]
               /\ reqs' = reqs \cup {p}
      BY Zenon DEF FetchConfig, Join, Null
<1>3. ReqOK(p) /\ p.kind = "get" /\ p.patch = NoPatch /\ p.st = "sent"
  <2>1. PICK n : n = Unused
        OBVIOUS
  <2> QED BY <1>2, <2>1, Joined, Constant
<1>4. PageOK'
      BY <1>1, <1>2, <1>3 DEF SettingsInv, PageOK
<1>5. ASSUME NEW f \in Fields PROVE FieldOK(f)'
  <2>1. ~Carries(p, f) /\ FieldOK(f)
        BY <1>3, Constant DEF Carries, SettingsInv
  <2>2. PICK T : T = reqs'
        OBVIOUS
  <2>3. T = reqs \cup {p}
        BY <1>2, <2>2
  <2>4. \A q \in T : Carries(q, f) => q \in reqs
        BY <2>1, <2>3
  <2> QED BY <1>1, <2>1, <2>2, <2>4, FieldKept DEF FieldOK
<1>6. ASSUME ~overlap' PROVE Sequential'
  <2>1. ~overlap /\ timer = Null /\ reqs = {} /\ reqs' = {p}
        BY <1>1, <1>2, <1>6, Zenon
  <2>2. Shows(shown, cfg)
        BY <1>1, <2>1 DEF SettingsInv, Sequential
  <2> QED BY <1>1, <1>3, <2>1, <2>2 DEF Sequential, AnswerOK
<1> QED BY <1>4, <1>5, <1>6 DEF SettingsInv

LEMMA SetPatch ==
    ASSUME SettingsInv, NEW f \in Fields, NEW v \in Values, PatchConfig(f, v)
    PROVE  SettingsInv'
<1>1. /\ up /\ up' /\ UNCHANGED <<file, cfg, mirror, reqs, raced>> /\ timer' = f
      /\ overlap' = (overlap \/ ~(timer = Null /\ reqs = {}))
      /\ told' = [told EXCEPT ![f] = Null]
      /\ pend' = Merge(pend, SinglePatch(f, v))
      /\ shown' = IF shown = NoSnapshot THEN shown
                  ELSE [g \in DOMAIN shown \cup {f} |-> IF g = f THEN v ELSE shown[g]]
      BY DEF PatchConfig, Quiet, Null
<1>2. f \in Carried(f) /\ Carried(f) \subseteq Fields
      BY DEF Carried, Fields
<1>3. /\ pend' \in Patches /\ pend'[f] = v
      /\ \A g \in Fields : g # f => pend'[g] = Null \/ pend'[g] = pend[g]
  <2>1. /\ DOMAIN SinglePatch(f, v) = Carried(f)
        /\ \A g \in Carried(f) :
              SinglePatch(f, v)[g] = IF g = f THEN v ELSE Null
        BY DEF SinglePatch, Null
  <2>2. pend' = [g \in Fields |-> IF g \in Carried(f) THEN SinglePatch(f, v)[g] ELSE pend[g]]
        BY <1>1, <2>1 DEF Merge, Fields
  <2>3. pend \in Patches
        BY DEF SettingsInv, PageOK
  <2>4. \A g \in Fields : pend'[g] = IF g = f THEN v ELSE IF g \in Carried(f) THEN Null ELSE pend[g]
        BY <1>2, <2>1, <2>2
  <2>5. \A g \in Fields : pend'[g] \in Values \cup {Null}
        BY <2>3, <2>4 DEF Patches
  <2> QED BY <2>2, <2>4, <2>5 DEF Patches
<1>4. told' \in Patches /\ told'[f] = Null /\ \A g \in Fields : g # f => told'[g] = told[g]
      BY <1>1 DEF SettingsInv, PageOK, Patches
<1>5. DOMAIN shown' \subseteq Fields
      BY <1>1 DEF SettingsInv, PageOK
<1>6. v # Null /\ f # Null
      BY Constant DEF Fields, Null
<1>7. PageOK'
      BY <1>1, <1>3, <1>4, <1>5, <1>6 DEF SettingsInv, PageOK
<1>8. ASSUME NEW g \in Fields PROVE FieldOK(g)'
  <2>1. FieldOK(g)
        BY DEF SettingsInv
  <2>2. g = f \/ (pend'[g] # Null => pend[g] # Null)
        BY <1>3
  <2>3. told'[g] = Null \/ told'[g] = told[g]
        BY <1>4
  <2>4. g = f => told'[g] = Null
        BY <1>4
  <2> QED BY <1>1, <2>1, <2>2, <2>3, <2>4 DEF FieldOK, Reached
<1>9. ASSUME ~overlap' PROVE Sequential'
  <2>1. ~overlap /\ timer = Null /\ reqs = {} /\ reqs' = {} /\ timer' # Null
        BY <1>1, <1>6, <1>9, Zenon
  <2>2. Shows(shown, cfg) /\ pend = NoPatch /\ cfg \in Configs /\ DOMAIN shown \subseteq Fields
        BY <1>1, <2>1 DEF SettingsInv, Sequential, PageOK
  <2>3. \A g \in Fields : g # f => pend'[g] = Null
        BY <1>3, <2>2, Constant
  <2>4. PICK a \in Patches : a = pend'
        BY <1>3
  <2>5. \A g \in Fields : ApplyPatch(cfg, a)[g] = IF g = f THEN v ELSE cfg[g]
        BY <1>3, <1>6, <2>2, <2>3, <2>4, ApplyPatchIs
  <2>6. \A g \in DOMAIN shown' : shown'[g] = IF g = f THEN v ELSE cfg[g]
    <3>1. CASE shown = NoSnapshot
      <4>1. DOMAIN shown' = {}
            BY <1>1, <3>1, Constant
      <4> QED BY <4>1
    <3>2. CASE shown # NoSnapshot
          BY <1>1, <2>2, <3>2 DEF Shows
    <3> QED BY <3>1, <3>2
  <2>7. Shows(shown', ApplyPatch(cfg, a))
        BY <1>5, <2>5, <2>6 DEF Shows
  <2> QED BY <1>1, <2>1, <2>4, <2>7 DEF Sequential
<1> QED BY <1>7, <1>8, <1>9 DEF SettingsInv

LEMMA SetFlush == ASSUME SettingsInv, Flush PROVE SettingsInv'
<1>1. /\ up /\ up' /\ timer # Null /\ timer' = Null /\ pend' = NoPatch
      /\ UNCHANGED <<file, cfg, mirror, shown, told, overlap>>
      /\ raced' = raced \cup {f \in Underway : pend[f] # Null}
      BY DEF Flush, Null
<1>2. PICK p : /\ p = [n |-> Unused, kind |-> "set", patch |-> pend,
                       caller |-> timer, st |-> "sent", got |-> NoSnapshot]
               /\ reqs' = reqs \cup {p}
      BY Zenon DEF Flush, Join
<1>3. ReqOK(p) /\ p.kind = "set" /\ p.patch = pend /\ p.st = "sent"
  <2>1. PICK n, a, c : n = Unused /\ a = pend /\ c = timer
        OBVIOUS
  <2>2. a \in Patches /\ c \in Fields /\ a[c] # Null
        BY <1>1, <2>1 DEF SettingsInv, PageOK
  <2>3. p = [n |-> n, kind |-> "set", patch |-> a, caller |-> c, st |-> "sent",
             got |-> NoSnapshot]
        BY <1>2, <2>1
  <2> QED BY <2>1, <2>2, <2>3, Joined
<1>4. \A f \in Fields : f \in raced' <=>
          f \in raced \/ (pend[f] # Null /\ \E q \in reqs : Carries(q, f))
      BY <1>1 DEF Underway, Carries, Null, Fields
<1>5. PageOK'
  <2>1. raced' \subseteq Fields
        BY <1>1, Zenon DEF SettingsInv, PageOK, Underway, Fields
  <2> QED BY <1>1, <1>2, <1>3, <2>1, Constant DEF SettingsInv, PageOK
<1>6. ASSUME NEW f \in Fields PROVE FieldOK(f)'
  <2>1. FieldOK(f) /\ pend'[f] = Null
        BY <1>1, Constant DEF SettingsInv
  <2>2. f \in raced' => told'[f] = Null
        BY <1>1, <1>4, <2>1 DEF FieldOK
  <2>3. ASSUME NEW q \in reqs', Carries(q, f)
        PROVE  told'[f] = Null /\ (f \in raced' \/ Reached(q, f)')
        BY <1>1, <1>2, <1>3, <1>4, <2>1, <2>3 DEF FieldOK, Reached, Carries
  <2>4. ASSUME NEW q \in reqs', NEW r \in reqs', q # r, Carries(q, f), Carries(r, f)
        PROVE  f \in raced'
        BY <1>2, <1>3, <1>4, <2>1, <2>4 DEF FieldOK, Carries
  <2> QED BY <1>1, <2>1, <2>2, <2>3, <2>4 DEF FieldOK, Carries
<1>7. ASSUME ~overlap' PROVE Sequential'
  <2>1. reqs = {} /\ reqs' = {p} /\ Shows(shown, ApplyPatch(cfg, pend))
        BY <1>1, <1>2, <1>7 DEF SettingsInv, Sequential
  <2> QED BY <1>1, <1>3, <2>1 DEF Sequential, AnswerOK
<1> QED BY <1>5, <1>6, <1>7 DEF SettingsInv

\* set_config, save_to_disk and a failure: q becomes p.
LEMMA SetConfigStep ==
    ASSUME SettingsInv, NEW q \in reqs, SetConfig(q) PROVE SettingsInv'
<1>1. /\ UNCHANGED <<up, file, mirror, shown, pend, timer, told, raced, overlap>>
      /\ q.kind = "set" /\ q.st = "sent" /\ cfg' = ApplyPatch(cfg, q.patch)
      BY DEF SetConfig, page, ApplyPatch
<1>2. PICK p : p = [q EXCEPT !.st = "saving"] /\ reqs' = (reqs \ {q}) \cup {p}
      BY Zenon DEF SetConfig, Step
<1>3. ReqOK(p) /\ p.st = "saving" /\ p.kind = "set" /\ p.patch = q.patch
      BY <1>1, <1>2, Stepped DEF SettingsInv, PageOK
<1>4. /\ cfg' \in Configs
      /\ \A f \in Fields : cfg'[f] = IF q.patch[f] = Null THEN cfg[f] ELSE q.patch[f]
  <2>1. PICK c \in Configs, a \in Patches : c = cfg /\ a = q.patch
        BY DEF SettingsInv, PageOK, ReqOK
  <2>2. /\ ApplyPatch(c, a) \in Configs
        /\ \A f \in Fields : ApplyPatch(c, a)[f] = IF a[f] = Null THEN c[f] ELSE a[f]
        BY ApplyPatchIs
  <2> QED BY <1>1, <2>1, <2>2
<1>5. PageOK'
      BY <1>1, <1>2, <1>3, <1>4 DEF SettingsInv, PageOK
<1>6. ASSUME NEW f \in Fields PROVE FieldOK(f)'
  <2>1. FieldOK(f)
        BY DEF SettingsInv
  <2>2. ASSUME NEW r \in reqs', Carries(r, f)
        PROVE  told'[f] = Null /\ (f \in raced' \/ Reached(r, f)')
    <3>1. CASE r = p
          BY <1>1, <1>3, <1>4, <2>1, <2>2, <3>1 DEF FieldOK, Reached, Carries
    <3>2. CASE r # p
      <4>1. r \in reqs /\ r # q
            BY <1>2, <3>2
      <4> QED BY <1>1, <1>4, <2>1, <2>2, <4>1 DEF FieldOK, Reached, Carries
    <3> QED BY <3>1, <3>2
  <2>3. ASSUME NEW r \in reqs', NEW s \in reqs', r # s, Carries(r, f), Carries(s, f)
        PROVE  f \in raced'
    <3>1. PICK a \in reqs, b \in reqs : /\ a # b /\ (a = r \/ (a = q /\ r = p))
                                        /\ b = s \/ (b = q /\ s = p)
          BY <1>2, <2>3, Swapped, Zenon
    <3>2. Carries(a, f) /\ Carries(b, f)
          BY <1>3, <2>3, <3>1, Zenon DEF Carries
    <3>3. f \in raced
          BY <2>1, <3>1, <3>2, Zenon DEF FieldOK
    <3> QED BY <1>1, <3>3, Zenon
  <2>4. told[f] # Null => cfg'[f] = cfg[f]
        BY <1>4, <2>1 DEF FieldOK, Carries
  <2> QED BY <1>1, <2>1, <2>2, <2>3, <2>4 DEF FieldOK, Carries
<1>7. ASSUME up', ~overlap' PROVE Sequential'
  <2>1. Sequential
        BY <1>1, <1>7 DEF SettingsInv
  <2>2. reqs' = {p} /\ timer' = Null
        BY <1>1, <1>2, <2>1 DEF Sequential
  <2>3. Shows(shown, ApplyPatch(cfg, q.patch))
        BY <1>1, <2>1 DEF Sequential, AnswerOK
  <2>4. Shows(shown', cfg')
        BY <1>1, <2>3
  <2> QED BY <1>3, <2>2, <2>4 DEF Sequential, AnswerOK
<1> QED BY <1>5, <1>6, <1>7 DEF SettingsInv

LEMMA SetSave == ASSUME SettingsInv, NEW q \in reqs, SaveToDisk(q) PROVE SettingsInv'
<1>1. /\ UNCHANGED <<up, cfg, mirror, shown, pend, timer, told, raced, overlap>>
      /\ q.st = "saving" /\ file' = cfg /\ up
      BY DEF SaveToDisk, page, SettingsInv, PageOK
<1>2. PICK p : p = [q EXCEPT !.st = "ok"] /\ reqs' = (reqs \ {q}) \cup {p}
      BY Zenon DEF SaveToDisk, Step
<1>3. ReqOK(p) /\ p.st = "ok" /\ p.kind = "set" /\ q.kind = "set" /\ p.patch = q.patch
  <2>1. ReqOK(q)
        BY DEF SettingsInv, PageOK
  <2> QED BY <1>1, <1>2, <2>1, Stepped DEF ReqOK
<1>4. cfg \in Configs /\ file' # Torn
      BY <1>1, Constant DEF SettingsInv, PageOK
<1>5. PageOK'
      BY <1>1, <1>2, <1>3, <1>4 DEF SettingsInv, PageOK
<1>6. ASSUME NEW f \in Fields PROVE FieldOK(f)'
  <2>1. FieldOK(f)
        BY DEF SettingsInv
  <2>2. ASSUME NEW r \in reqs', Carries(r, f)
        PROVE  told'[f] = Null /\ (f \in raced' \/ Reached(r, f)')
    <3>1. CASE r = p
          BY <1>1, <1>3, <1>4, <2>1, <2>2, <3>1 DEF FieldOK, Reached, Carries
    <3>2. CASE r # p
      <4>1. r \in reqs
            BY <1>2, <3>2
      <4> QED BY <1>1, <1>4, <2>1, <2>2, <4>1 DEF FieldOK, Reached, Carries
    <3> QED BY <3>1, <3>2
  <2>3. ASSUME NEW r \in reqs', NEW s \in reqs', r # s, Carries(r, f), Carries(s, f)
        PROVE  f \in raced'
    <3>1. PICK a \in reqs, b \in reqs : /\ a # b /\ (a = r \/ (a = q /\ r = p))
                                        /\ b = s \/ (b = q /\ s = p)
          BY <1>2, <2>3, Swapped, Zenon
    <3>2. Carries(a, f) /\ Carries(b, f)
          BY <1>3, <2>3, <3>1, Zenon DEF Carries
    <3>3. f \in raced
          BY <2>1, <3>1, <3>2, Zenon DEF FieldOK
    <3> QED BY <1>1, <3>3, Zenon
  <2> QED BY <1>1, <1>4, <2>1, <2>2, <2>3 DEF FieldOK, Carries
<1>7. ASSUME up', ~overlap' PROVE Sequential'
  <2>1. Sequential
        BY <1>1, <1>7 DEF SettingsInv
  <2>2. reqs' = {p} /\ timer' = Null
        BY <1>1, <1>2, <2>1 DEF Sequential
  <2>3. Shows(shown', cfg')
        BY <1>1, <2>1 DEF Sequential, AnswerOK
  <2> QED BY <1>3, <2>2, <2>3 DEF Sequential, AnswerOK
<1> QED BY <1>5, <1>6, <1>7 DEF SettingsInv

\* One request is replaced by one that carries the same, or nothing, and that
\* has not got further than it; or it goes.
LEMMA Replaced ==
    ASSUME NEW f \in Fields, FieldOK(f), NEW q \in reqs, NEW p,
           reqs' \subseteq (reqs \ {q}) \cup {p},
           ~Carries(p, f) \/ (p.patch = q.patch /\ (p.st \notin {"saving", "ok"} \/ p.st = q.st)),
           UNCHANGED <<up, file, cfg, mirror, pend, told, raced>>
    PROVE  FieldOK(f)'
<1>1. PICK T : T = reqs' /\ T \subseteq (reqs \ {q}) \cup {p}
      OBVIOUS
<1>2. ASSUME NEW r \in T, Carries(r, f)
      PROVE  \E s \in reqs : s.patch = r.patch /\ (r.st \in {"saving", "ok"} => s.st = r.st)
      BY <1>1, <1>2
<1>3. ASSUME NEW r \in T, NEW s \in T, r # s, Carries(r, f), Carries(s, f) PROVE f \in raced
      BY <1>1, <1>3 DEF FieldOK, Carries
<1> QED BY <1>1, <1>2, <1>3, FieldKept

LEMMA SetFails == ASSUME SettingsInv, NEW q \in reqs, Fails(q) PROVE SettingsInv'
<1>1. /\ UNCHANGED <<up, file, cfg, mirror, shown, pend, timer, told, raced, overlap>> /\ up
      BY DEF Fails, page, SettingsInv, PageOK
<1>2. PICK p : p = [q EXCEPT !.st = "err"] /\ reqs' = (reqs \ {q}) \cup {p}
      BY Zenon DEF Fails, Step
<1>3. ReqOK(p) /\ p.st = "err" /\ p.kind = q.kind /\ p.patch = q.patch
      BY <1>1, <1>2, Stepped DEF SettingsInv, PageOK
<1>4. PageOK'
      BY <1>1, <1>2, <1>3 DEF SettingsInv, PageOK
<1>5. ASSUME NEW f \in Fields PROVE FieldOK(f)'
      BY <1>1, <1>2, <1>3, Replaced, Zenon DEF SettingsInv
<1>6. ASSUME ~overlap' PROVE Sequential'
  <2>1. Sequential
        BY <1>1, <1>6 DEF SettingsInv
  <2>2. reqs' = {p} /\ timer' = Null
        BY <1>1, <1>2, <2>1 DEF Sequential
  <2>3. q.kind = "get" => Shows(shown', cfg')
        BY <1>1, <2>1 DEF Sequential, AnswerOK
  <2> QED BY <1>3, <2>2, <2>3 DEF Sequential, AnswerOK
<1> QED BY <1>4, <1>5, <1>6 DEF SettingsInv

LEMMA SetGet == ASSUME SettingsInv, NEW q \in reqs, GetConfig(q) PROVE SettingsInv'
<1>1. /\ UNCHANGED <<up, file, cfg, mirror, shown, pend, timer, told, raced, overlap>> /\ up
      /\ q.kind = "get"
      BY DEF GetConfig, page, SettingsInv, PageOK
<1>2. PICK p : /\ p = [q EXCEPT !.st = "ok", !.got = Snapshot(cfg)]
               /\ reqs' = (reqs \ {q}) \cup {p}
      BY DEF GetConfig
<1>3. PICK g : g = Snapshot(cfg) /\ DOMAIN g \subseteq Fields /\ Shows(g, cfg)
  <2>1. PICK g : g = Snapshot(cfg)
        OBVIOUS
  <2>2. /\ DOMAIN g = Fields \ {"download_dir"}
        /\ \A f \in Fields \ {"download_dir"} : g[f] = cfg[f]
        BY <2>1 DEF Snapshot
  <2>3. DOMAIN g \subseteq Fields /\ Shows(g, cfg)
        BY <2>2 DEF Shows, Fields
  <2> QED BY <2>1, <2>3, Zenon
<1>4. /\ ReqOK(p) /\ p.st = "ok" /\ p.kind = "get" /\ p.patch = NoPatch /\ p.got = g
  <2>0. ReqOK(q)
        BY DEF SettingsInv, PageOK
  <2>1. /\ p.n = q.n /\ p.st = "ok" /\ p.got = g
        /\ p.kind = q.kind /\ p.patch = q.patch /\ p.caller = q.caller
        BY <1>2, <1>3, <2>0 DEF ReqOK
  <2>2. p = [n |-> p.n, kind |-> p.kind, patch |-> p.patch, caller |-> p.caller,
             st |-> p.st, got |-> p.got]
        BY <1>2, <2>0, Zenon DEF ReqOK
  <2> QED BY <1>1, <1>3, <2>0, <2>1, <2>2 DEF ReqOK
<1>5. PageOK'
      BY <1>1, <1>2, <1>4 DEF SettingsInv, PageOK
<1>6. ASSUME NEW f \in Fields PROVE FieldOK(f)'
  <2>1. ~Carries(p, f)
        BY <1>4, Constant DEF Carries
  <2> QED BY <1>1, <1>2, <2>1, Replaced DEF SettingsInv
<1>7. ASSUME ~overlap' PROVE Sequential'
  <2>1. Sequential
        BY <1>1, <1>7 DEF SettingsInv
  <2>2. reqs' = {p} /\ timer' = Null
        BY <1>1, <1>2, <2>1 DEF Sequential
  <2>3. Shows(shown', cfg')
        BY <1>1, <2>1 DEF Sequential, AnswerOK
  <2> QED BY <1>1, <1>3, <1>4, <2>2, <2>3 DEF Sequential, AnswerOK
<1> QED BY <1>5, <1>6, <1>7 DEF SettingsInv

\* The answers to a get.
LEMMA SetFetched ==
    ASSUME SettingsInv, NEW q \in reqs, Fetched(q) \/ FetchFailed(q)
    PROVE  SettingsInv'
<1>1. /\ UNCHANGED <<up, file, cfg, mirror, pend, timer, told, raced, overlap>> /\ up
      /\ q.kind = "get" /\ reqs' = reqs \ {q} /\ ReqOK(q)
      /\ \/ shown' = shown
         \/ q.st = "ok" /\ shown' = q.got
      BY DEF Fetched, FetchFailed, page, SettingsInv, PageOK
<1>2. PageOK'
      BY <1>1 DEF SettingsInv, PageOK, ReqOK
<1>3. ASSUME NEW f \in Fields PROVE FieldOK(f)'
  <2>1. reqs' \subseteq (reqs \ {q}) \cup {q}
        BY <1>1
  <2>2. ~Carries(q, f)
        BY <1>1, GetCarriesNothing
  <2> QED BY <1>1, <2>1, <2>2, Replaced DEF SettingsInv
<1>4. ASSUME ~overlap' PROVE Sequential'
  <2>1. Sequential
        BY <1>1, <1>4 DEF SettingsInv
  <2>2. reqs' = {} /\ timer' = Null
        BY <1>1, <2>1 DEF Sequential
  <2>3. Shows(shown', cfg')
        BY <1>1, <2>1 DEF Sequential, AnswerOK
  <2> QED BY <2>2, <2>3 DEF Sequential
<1> QED BY <1>2, <1>3, <1>4 DEF SettingsInv

\* The answer to a set: what it carried is in the file and the live config
\* unless another request raced it, and the mirror gets it in the same step.
LEMMA SetSaved == ASSUME SettingsInv, NEW q \in reqs, Saved(q) PROVE SettingsInv'
<1>1. /\ UNCHANGED <<up, file, cfg, shown, pend, timer, raced, overlap>> /\ up
      /\ q.kind = "set" /\ q.st = "ok" /\ reqs' = reqs \ {q} /\ ReqOK(q)
      /\ mirror' = IF q.patch[Mirrored] = Null THEN mirror ELSE q.patch[Mirrored]
      /\ told' = IF q.caller \in raced \/ pend[q.caller] # Null
                  THEN told ELSE [told EXCEPT ![q.caller] = q.patch[q.caller]]
      BY DEF Saved, page, SettingsInv, PageOK, Mirrored, Null
<1>2. q.caller \in Fields /\ q.patch[q.caller] # Null /\ q.patch[q.caller] \in Values \cup {Null}
      BY <1>1 DEF ReqOK, Patches
<1>3. /\ told' \in Patches
      /\ \A f \in Fields : told'[f] # told[f] =>
            /\ f = q.caller /\ told'[f] = q.patch[f] /\ f \notin raced /\ pend[f] = Null
      BY <1>1, <1>2, SMTT(30) DEF SettingsInv, PageOK, Patches
<1>4. PageOK'
      BY <1>1, <1>3 DEF SettingsInv, PageOK
<1>5. ASSUME NEW f \in Fields PROVE FieldOK(f)'
  <2>1. FieldOK(f)
        BY DEF SettingsInv
  <2>2. CASE told'[f] = told[f]
    <3>1. f = Mirrored /\ told[f] # Null => mirror' = mirror
          BY <1>1, <2>1, SMTT(30) DEF FieldOK, Carries
    <3> QED BY <1>1, <2>1, <2>2, <3>1, SMTT(30) DEF FieldOK, Reached
  <2>3. CASE told'[f] # told[f]
    <3>1. f = q.caller /\ told'[f] = q.patch[f] /\ f \notin raced /\ pend[f] = Null
          BY <1>3, <2>3
    <3>2. Carries(q, f) /\ Reached(q, f)
          BY <1>2, <2>1, <3>1 DEF FieldOK, Carries
    <3>3. \A r \in reqs' : ~Carries(r, f)
          BY <1>1, <2>1, <3>1, <3>2 DEF FieldOK
    <3>4. f = Mirrored => mirror' = told'[f]
          BY <1>1, <1>2, <3>1
    <3> QED BY <1>1, <3>1, <3>2, <3>3, <3>4 DEF FieldOK, Reached
  <2> QED BY <2>2, <2>3
<1>6. ASSUME ~overlap' PROVE Sequential'
  <2>1. Sequential
        BY <1>1, <1>6 DEF SettingsInv
  <2>2. reqs' = {} /\ timer' = Null
        BY <1>1, <2>1 DEF Sequential
  <2>3. Shows(shown', cfg')
        BY <1>1, <2>1 DEF Sequential, AnswerOK
  <2> QED BY <2>2, <2>3 DEF Sequential
<1> QED BY <1>4, <1>5, <1>6 DEF SettingsInv

LEMMA SetSaveFailed == ASSUME SettingsInv, NEW q \in reqs, SaveFailed(q) PROVE SettingsInv'
<1>1. /\ UNCHANGED <<up, file, cfg, mirror, pend, timer, told, raced, overlap>> /\ up
      /\ shown' = NoSnapshot /\ DOMAIN shown' = {}
      BY Constant DEF SaveFailed, SettingsInv, PageOK
<1>2. PICK p : /\ p = [n |-> Unused, kind |-> "get", patch |-> NoPatch,
                       caller |-> Null, st |-> "sent", got |-> NoSnapshot]
               /\ reqs' = (reqs \ {q}) \cup {p}
      BY Zenon DEF SaveFailed, Join, Null
<1>3. ReqOK(p) /\ p.kind = "get" /\ p.patch = NoPatch /\ p.st = "sent"
  <2>1. PICK n : n = Unused
        OBVIOUS
  <2> QED BY <1>2, <2>1, Joined, Constant
<1>4. PageOK'
      BY <1>1, <1>2, <1>3 DEF SettingsInv, PageOK
<1>5. ASSUME NEW f \in Fields PROVE FieldOK(f)'
  <2>1. ~Carries(p, f)
        BY <1>3, Constant DEF Carries
  <2> QED BY <1>1, <1>2, <2>1, Replaced DEF SettingsInv
<1>6. ASSUME ~overlap' PROVE Sequential'
  <2>1. Sequential
        BY <1>1, <1>6 DEF SettingsInv
  <2>2. reqs' = {p} /\ timer' = Null
        BY <1>1, <1>2, <2>1 DEF Sequential
  <2>3. Shows(shown', cfg')
        BY <1>1 DEF Shows
  <2> QED BY <1>3, <2>2, <2>3 DEF Sequential, AnswerOK
<1> QED BY <1>4, <1>5, <1>6 DEF SettingsInv

LEMMA SettingsStep == SettingsInv /\ [Next]_vars => SettingsInv'
<1> SUFFICES ASSUME SettingsInv, [Next]_vars PROVE SettingsInv'
    OBVIOUS
<1>1. ASSUME NEW tray \in BOOLEAN, CloseRequested(tray) PROVE SettingsInv'
      BY <1>1, SetStop DEF CloseRequested
<1>2. ASSUME NEW q \in reqs, Answer(q) PROVE SettingsInv'
      BY <1>2, SetFetched, SetSaved, SetSaveFailed DEF Answer
<1>3. ASSUME NEW f \in Fields, NEW v \in Values, PatchConfig(f, v)
      PROVE  SettingsInv'
      BY <1>3, SetPatch DEF Fields
<1>4. CASE UNCHANGED vars
      BY <1>4, SetStutter
<1> QED BY <1>1, <1>2, <1>3, <1>4, SetBoot, SetStop, SetFetch, SetExpire, SetFlush,
           SetConfigStep, SetSave, SetFails, SetGet DEF Next

\* What the user was told is saved stays in config.toml, in the live config and
\* in the mirror the close button reads, through crashes and failed saves, and
\* the pages show what the daemon goes by once nothing is under way: for any
\* number of changes, fetches, failures and ends of the program.
THEOREM SettingsStayTrue == Spec => []SettingsAgree
<1>1. SettingsInv => SettingsAgree
  <2> SUFFICES ASSUME SettingsInv PROVE SettingsAgree
      OBVIOUS
  <2>1. ASSUME NEW f \in Fields, told[f] # Null
        PROVE  /\ file # Torn /\ file[f] = told[f]
               /\ up => cfg[f] = told[f]
               /\ up /\ f = Mirrored => mirror = told[f]
        BY <2>1 DEF SettingsInv, FieldOK, Fields, Null, Mirrored
  <2>2. ASSUME up, Quiet, ~overlap, NEW f \in DOMAIN shown PROVE shown[f] = cfg[f]
        BY <2>2 DEF SettingsInv, Sequential, Quiet, Null, Shows
  <2> QED BY <2>1, <2>2 DEF SettingsAgree
<1> QED BY <1>1, SetInit, SettingsStep, PTL DEF Spec

=============================================================================
