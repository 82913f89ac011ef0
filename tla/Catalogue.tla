------------------------------ MODULE Catalogue ------------------------------
(***************************************************************************)
(* The model catalogue of internal/gateway/cache.go (metadataCache) at the *)
(* granularity of its mutex: install plans, catalogue walks with their     *)
(* prune, group renames and delete plans run concurrently, each split      *)
(* where the code releases c.mu or does file I/O outside it.  MASS, which  *)
(* moves the bytes, is the environment: it downloads the planned files,    *)
(* lets a download die, and removes the files of a delete plan.            *)
(*                                                                         *)
(* A key is <<directory, filename>>; the directory of a new group is its   *)
(* slug.  saveToDisk, which no decision here reads back, is in             *)
(* CatalogueFile.                                                          *)
(***************************************************************************)
EXTENDS Naturals, FiniteSets

CONSTANTS
  Names,       \* operator-typed group names
  NoName,      \* the Name of an absent entry
  Slugs,       \* group slugs, numbered in the order strings sort
  SlugOf,      \* modelSlug: [Names -> Slugs \cup {0}], 0 the empty slug
  Bases,       \* sanitised file names
  Projectors,  \* those that look like an mmproj projector's
  NoBase,      \* no companion file
  Planners, Walkers, Renamers,        \* goroutines serving the RPCs
  Overlap,     \* what the environment may do on top of orderly use
  MaxPlans, MaxRenames, MaxDeletes, MaxExpiries   \* bounds of the model

Keys == Slugs \X Bases

(***************************************************************************)
(* Overlap names the environment's disorderly behaviours: "delete", a      *)
(* group is deleted while something is being installed, or reinstalled     *)
(* before a walk has pruned it; "rename", a group is renamed while an      *)
(* install is being planned; "merge", a rename takes another group's name; *)
(* "held", an install is planned while a walk has read the header of a     *)
(* file that is gone by now and has yet to store it; "slow", a download    *)
(* outlives reservationTTL; "io", listing, reading or stat of a file fails *)
(* though it is there.                                                     *)
(***************************************************************************)
ASSUME NamesAssumption == NoName \notin Names
ASSUME SlugAssumption ==
  /\ Slugs \subseteq Nat \ {0}
  /\ SlugOf \in [Names -> Slugs \cup {0}]
ASSUME BasesAssumption == NoBase \notin Bases /\ Projectors \subseteq Bases
ASSUME OverlapAssumption ==
  Overlap \subseteq {"delete", "rename", "merge", "held", "slow", "io"}
ASSUME BoundsAssumption ==
  /\ MaxPlans \in Nat
  /\ MaxRenames \in Nat
  /\ MaxDeletes \in Nat
  /\ MaxExpiries \in Nat

VARIABLES
  entries,   \* [Keys -> Entry], the catalogue
  files,     \* keys whose file is at its destination on disk
  flight,    \* keys MASS is downloading
  doomed,    \* keys of delete plans MASS has still to remove
  plan,      \* [Planners -> PlanState], install plans in progress
  walk,      \* [Walkers -> WalkState], walks in progress
  ren,       \* [Renamers -> RenameState], renames in progress
  budget     \* what is left of the Max* bounds

vars == <<entries, files, flight, doomed, plan, walk, ren, budget>>

\* A catalogue entry is reserved until its header has been read
\* (Capabilities # nil), which commits it and clears ReservedAt; expired is
\* a reservation older than reservationTTL.
NoEntry == [name |-> NoName, phase |-> "none"]
Entry == {NoEntry} \cup [name: Names, phase: {"reserved", "expired", "committed"}]

Has(k) == entries[k].phase # "none"
Expired(k) == entries[k].phase = "expired"
Committed(k) == entries[k].phase = "committed"
KeysOf(n) == {k \in Keys : Has(k) /\ entries[k].name = n}

PlanState ==
  [at: {"idle", "dest", "stat", "reserve", "occupied", "deliver"},
   name: Names \cup {NoName}, base: Bases \cup {NoBase},
   companion: Bases \cup {NoBase}, dest: SUBSET Keys, out: SUBSET Keys]
NoPlan == [at |-> "idle", name |-> NoName, base |-> NoBase,
           companion |-> NoBase, dest |-> {}, out |-> {}]

WalkState ==
  [at: {"idle", "scan", "lookup", "header", "store", "orphan", "lost", "prune"},
   dirs: SUBSET Slugs, todo: SUBSET Keys, cur: SUBSET Keys, observed: SUBSET Keys,
   cand: SUBSET Keys, gone: SUBSET Keys]
NoWalk == [at |-> "idle", dirs |-> {}, todo |-> {}, cur |-> {},
           observed |-> {}, cand |-> {}, gone |-> {}]

RenameState ==
  [at: {"idle", "apply"}, old: Names \cup {NoName}, new: Names \cup {NoName}]
NoRename == [at |-> "idle", old |-> NoName, new |-> NoName]

Init ==
  /\ entries = [k \in Keys |-> NoEntry]
  /\ files = {}
  /\ flight = {}
  /\ doomed = {}
  /\ plan = [p \in Planners |-> NoPlan]
  /\ walk = [w \in Walkers |-> NoWalk]
  /\ ren = [r \in Renamers |-> NoRename]
  /\ budget = [plans |-> MaxPlans, renames |-> MaxRenames,
               deletes |-> MaxDeletes, expiries |-> MaxExpiries]

------------------------------------------------------------------------------
(* What orderly use means.                                                 *)

Planning == \E p \in Planners : plan[p].at # "idle"
Renaming == \E r \in Renamers : ren[r].at # "idle"
\* A delete has run to its end: bytes removed and entries pruned.
Settled == doomed = {} /\ \A k \in Keys : Committed(k) => k \in files
\* No walk is about to store the header of a file that has gone since.
HeldPresent == \A w \in Walkers : walk[w].at = "store" => walk[w].cur \subseteq files

------------------------------------------------------------------------------
(* Install plans: planHFInstall (a primary and perhaps its mmproj          *)
(* companion) and PlanLocalImport (one file).                              *)

\* Mutant: reservations are left out of the collision check.
SlugAvailableCommitted(name, exempt) ==
  /\ SlugOf[name] # 0
  /\ \A k \in Keys : Committed(k) /\ entries[k].name \notin exempt \cup {name}
                       => SlugOf[entries[k].name] # SlugOf[name]

\* assertSlugAvailable: the slug is not empty and no other Name has it.
SlugAvailable(name, exempt) ==
  /\ SlugOf[name] # 0
  /\ \A k \in Keys : Has(k) /\ entries[k].name \notin exempt \cup {name}
                       => SlugOf[entries[k].name] # SlugOf[name]

\* Mutant: new files go where the slug says.
IsSlugDir(name, d) == d = SlugOf[name]

\* groupRelPath's directory: that of the group's least key, or its slug.
IsGroupDir(name, d) ==
  IF KeysOf(name) = {} THEN d = SlugOf[name]
  ELSE /\ \E k \in KeysOf(name) : k[1] = d
       /\ \A k \in KeysOf(name) : d <= k[1]

PlanBegin(p, name, base, companion) ==
  /\ plan[p].at = "idle"
  /\ budget.plans > 0
  /\ companion # NoBase => companion \in Projectors /\ base \notin Projectors
  /\ "delete" \in Overlap \/ Settled
  /\ "held" \in Overlap \/ HeldPresent
  /\ "rename" \in Overlap \/ ~Renaming
  /\ plan' = [plan EXCEPT ![p] = [NoPlan EXCEPT
                 !.at = "dest", !.name = name, !.base = base, !.companion = companion]]
  /\ budget' = [budget EXCEPT !.plans = @ - 1]
  /\ UNCHANGED <<entries, files, flight, doomed, walk, ren>>

\* groupRelPath, under the lock.  A name with no slug, which reserve will
\* refuse, gets no destination here.
PlanDest(p) ==
  /\ plan[p].at = "dest"
  /\ plan' = [plan EXCEPT ![p].at = "stat", ![p].dest =
       {k \in Keys : IsGroupDir(plan[p].name, k[1]) /\ k[2] = plan[p].base}]
  /\ UNCHANGED <<entries, files, flight, doomed, walk, ren, budget>>

\* reserveEntry's os.Stat of the destination, outside the lock.
PlanStat(p) ==
  /\ plan[p].at = "stat"
  /\ plan' = [plan EXCEPT ![p].at =
       IF plan[p].dest \cap files = {} THEN "reserve" ELSE "occupied"]
  /\ UNCHANGED <<entries, files, flight, doomed, walk, ren, budget>>

\* Mutant: reserve overwrites the entry it finds.
ReservableUpsert(name, k) == SlugOf[name] # 0

\* reserve's checks on the catalogue, under the lock.
Reservable(name, k) ==
  /\ SlugAvailable(name, {})
  /\ Has(k) => entries[k].name = name

\* The entry reserve leaves: ReservedAt is stamped now, but only while no
\* header has been read; a committed entry stays as it is.
Stamped(name, k) ==
  [name |-> name, phase |-> IF Committed(k) THEN "committed" ELSE "reserved"]

PlanReserve(p) ==
  /\ plan[p].at = "reserve"
  /\ \E k \in plan[p].dest :
       /\ Reservable(plan[p].name, k)
       /\ entries' = [entries EXCEPT ![k] = Stamped(plan[p].name, k)]
       /\ plan' = [plan EXCEPT ![p] = [plan[p] EXCEPT
            !.at = IF plan[p].companion = NoBase THEN "deliver" ELSE "dest",
            !.base = plan[p].companion, !.companion = NoBase,
            !.dest = {}, !.out = plan[p].out \cup {k}]]
  /\ UNCHANGED <<files, flight, doomed, walk, ren, budget>>

\* Any failed check ends the plan with an error; the reservation of a
\* primary already made stays.
PlanRefused(p) ==
  /\ \/ plan[p].at = "occupied"
     \/ plan[p].at = "reserve" /\ \A k \in plan[p].dest : ~Reservable(plan[p].name, k)
  /\ plan' = [plan EXCEPT ![p] = NoPlan]
  /\ UNCHANGED <<entries, files, flight, doomed, walk, ren, budget>>

\* The plan reaches MASS, which starts the transfers; it fetches each
\* destination once at a time (one temp file per destination).
PlanDelivered(p) ==
  /\ plan[p].at = "deliver"
  /\ flight' = flight \cup plan[p].out
  /\ plan' = [plan EXCEPT ![p] = NoPlan]
  /\ UNCHANGED <<entries, files, doomed, walk, ren, budget>>

\* handleInstallSubmit's DownloadFiles call fails, or the client of the
\* plan RPC is gone: nothing takes the reservations back.
PlanDropped(p) ==
  /\ plan[p].at = "deliver"
  /\ plan' = [plan EXCEPT ![p] = NoPlan]
  /\ UNCHANGED <<entries, files, flight, doomed, walk, ren, budget>>

------------------------------------------------------------------------------
(* Catalogue walks: walkAndParseModels, parseModelInfo, pruneAbsent.       *)

\* The root is listed: every directory with a file in it, and perhaps
\* empty ones.
WalkBegin(w) ==
  /\ walk[w].at = "idle"
  /\ \E D \in SUBSET Slugs :
       /\ \A k \in files : k[1] \in D
       /\ walk' = [walk EXCEPT ![w] = [NoWalk EXCEPT !.at = "scan", !.dirs = D]]
  /\ UNCHANGED <<entries, files, flight, doomed, plan, ren, budget>>

\* One directory is listed, or cannot be read and is skipped.
WalkReadDir(w) ==
  /\ walk[w].at = "scan" /\ walk[w].todo = {}
  /\ \E d \in walk[w].dirs :
       walk' = [walk EXCEPT ![w] = [walk[w] EXCEPT
         !.dirs = walk[w].dirs \ {d}, !.todo = {k \in files : k[1] = d}]]
  /\ UNCHANGED <<entries, files, flight, doomed, plan, ren, budget>>

WalkSkipDir(w) ==
  /\ walk[w].at = "scan" /\ walk[w].todo = {}
  /\ "io" \in Overlap
  /\ \E d \in walk[w].dirs :
       walk' = [walk EXCEPT ![w] = [walk[w] EXCEPT !.dirs = walk[w].dirs \ {d}]]
  /\ UNCHANGED <<entries, files, flight, doomed, plan, ren, budget>>

\* parseModelInfo's os.Stat; a file that has gone since is not observed.
WalkStat(w) ==
  /\ walk[w].at = "scan"
  /\ \E k \in walk[w].todo :
       walk' = [walk EXCEPT ![w] =
         IF k \in files
           THEN [walk[w] EXCEPT !.at = "lookup", !.cur = {k}, !.todo = walk[w].todo \ {k}]
           ELSE [walk[w] EXCEPT !.todo = walk[w].todo \ {k}]]
  /\ UNCHANGED <<entries, files, flight, doomed, plan, ren, budget>>

\* Mutant: a file without an entry is taken too.
InstalledAny(k) == TRUE

\* A file installed through the gateway has an entry.
Installed(k) == Has(k)

\* The entry pointer is fetched under the lock and kept across it; a file
\* without an entry is ignored.
WalkLookup(w) ==
  /\ walk[w].at = "lookup"
  /\ walk' = [walk EXCEPT ![w] =
       IF \A k \in walk[w].cur : Installed(k)
         THEN [walk[w] EXCEPT !.at = "header"]
         ELSE [walk[w] EXCEPT !.at = "scan", !.cur = {}]]
  /\ UNCHANGED <<entries, files, flight, doomed, plan, ren, budget>>

Observe(w) == walk' = [walk EXCEPT ![w] = [walk[w] EXCEPT
                 !.at = "scan", !.observed = walk[w].observed \cup walk[w].cur, !.cur = {}]]

\* gguf.ReadMeta, which takes seconds, without the lock.
WalkRead(w) ==
  /\ walk[w].at = "header"
  /\ walk[w].cur \subseteq files
  /\ walk' = [walk EXCEPT ![w].at = "store"]
  /\ UNCHANGED <<entries, files, flight, doomed, plan, ren, budget>>

\* Under the lock again the fields are stored through the pointer; nothing
\* asks whether the file is still there.
WalkCommit(w) ==
  /\ walk[w].at = "store"
  /\ entries' = [k \in Keys |-> IF k \in walk[w].cur
                                 THEN [entries[k] EXCEPT !.phase = "committed"]
                                 ELSE entries[k]]
  /\ Observe(w)
  /\ UNCHANGED <<files, flight, doomed, plan, ren, budget>>

\* Mutant: needsHeader compares size and time only.
HeaderFreshAny(k) == TRUE

\* needsHeader is false: only for an entry that has its header.
HeaderFresh(k) == Committed(k)

WalkFresh(w) ==
  /\ walk[w].at = "header"
  /\ \A k \in walk[w].cur : HeaderFresh(k)
  /\ Observe(w)
  /\ UNCHANGED <<entries, files, flight, doomed, plan, ren, budget>>

\* The entry was deleted while the walk held its pointer, before ("orphan")
\* or after the header was read ("lost"): the fields go to an entry that the
\* catalogue no longer has, and the file counts as observed.
WalkOrphan(w) ==
  /\ walk[w].at \in {"orphan", "lost"}
  /\ Observe(w)
  /\ UNCHANGED <<entries, files, flight, doomed, plan, ren, budget>>

\* ReadMeta fails: the entry stays as it is and the file is not observed.
WalkUnreadable(w) ==
  /\ walk[w].at \in {"header", "orphan"}
  /\ "io" \in Overlap \/ ~(walk[w].cur \subseteq files)
  /\ walk' = [walk EXCEPT ![w] = [walk[w] EXCEPT !.at = "scan", !.cur = {}]]
  /\ UNCHANGED <<entries, files, flight, doomed, plan, ren, budget>>

\* Mutants: reservations are pruned like models; or never.
PrunableReserved(k) == Has(k)
PrunableCommitted(k) == Committed(k)

\* What pruneAbsent may delete: models, and reservations past their TTL.
Prunable(k) == Committed(k) \/ Expired(k)

\* pruneAbsent's candidates, under the lock.
PruneCollect(w) ==
  /\ walk[w].at = "scan" /\ walk[w].todo = {} /\ walk[w].dirs = {}
  /\ walk' = [walk EXCEPT ![w] = [walk[w] EXCEPT !.at = "prune", !.cand =
       {k \in Keys \ walk[w].observed : Prunable(k)}]]
  /\ UNCHANGED <<entries, files, flight, doomed, plan, ren, budget>>

\* Mutant: any error of the stat counts as absence.
StatFails(k) == k \notin files \/ "io" \in Overlap

\* os.Stat says os.ErrNotExist.
StatAbsent(k) == k \notin files

\* One candidate's os.Stat, outside the lock: it is given up for gone ...
PruneAbsent(w) ==
  /\ walk[w].at = "prune"
  /\ \E k \in walk[w].cand :
       /\ StatAbsent(k)
       /\ walk' = [walk EXCEPT ![w] = [walk[w] EXCEPT
            !.cand = walk[w].cand \ {k}, !.gone = walk[w].gone \cup {k}]]
  /\ UNCHANGED <<entries, files, flight, doomed, plan, ren, budget>>

\* ... or kept, its file being there or the stat failing for some other
\* reason than absence.
PruneKeep(w) ==
  /\ walk[w].at = "prune"
  /\ \E k \in walk[w].cand :
       /\ k \in files \/ "io" \in Overlap
       /\ walk' = [walk EXCEPT ![w] = [walk[w] EXCEPT !.cand = walk[w].cand \ {k}]]
  /\ UNCHANGED <<entries, files, flight, doomed, plan, ren, budget>>

\* The deletion, under the lock again; nothing is looked at a second time.
PruneDelete(w) ==
  /\ walk[w].at = "prune" /\ walk[w].cand = {}
  /\ entries' = [k \in Keys |-> IF k \in walk[w].gone THEN NoEntry ELSE entries[k]]
  /\ walk' = [v \in Walkers |->
       IF v = w THEN NoWalk
       ELSE IF walk[v].at \in {"header", "store"} /\ walk[v].cur \cap walk[w].gone # {}
         THEN [walk[v] EXCEPT !.at = IF walk[v].at = "header" THEN "orphan" ELSE "lost"]
         ELSE walk[v]]
  /\ UNCHANGED <<files, flight, doomed, plan, ren, budget>>

------------------------------------------------------------------------------
(* RenameGroup: nameForSlug, then renameGroup, each under the lock.        *)

RenameLookup(r, old, new) ==
  /\ ren[r].at = "idle"
  /\ budget.renames > 0
  /\ KeysOf(old) # {}
  /\ old # new
  /\ "rename" \in Overlap \/ ~Planning
  /\ "merge" \in Overlap \/ (KeysOf(new) = {} /\ \A q \in Renamers : ren[q].new # new)
  /\ ren' = [ren EXCEPT ![r] = [at |-> "apply", old |-> old, new |-> new]]
  /\ budget' = [budget EXCEPT !.renames = @ - 1]
  /\ UNCHANGED <<entries, files, flight, doomed, plan, walk>>

\* Mutant: reservations are not renamed.
RenamedCommitted(r, k) == k \in KeysOf(ren[r].old) /\ Committed(k)

\* renameGroup rewrites every entry of the group, if the new Name may be
\* taken.
Renamed(r, k) == k \in KeysOf(ren[r].old)

RenameApply(r) ==
  /\ ren[r].at = "apply"
  /\ entries' = IF SlugAvailable(ren[r].new, {ren[r].old})
       THEN [k \in Keys |-> IF Renamed(r, k)
                              THEN [entries[k] EXCEPT !.name = ren[r].new]
                              ELSE entries[k]]
       ELSE entries
  /\ ren' = [ren EXCEPT ![r] = NoRename]
  /\ UNCHANGED <<files, flight, doomed, plan, walk, budget>>

------------------------------------------------------------------------------
(* PlanDelete hands every file of the group to MASS; the entries stay for  *)
(* the next walk to prune.                                                 *)

PlanDelete(name) ==
  /\ budget.deletes > 0
  /\ KeysOf(name) # {}
  /\ "delete" \in Overlap \/ (~Planning /\ flight = {})
  /\ doomed' = doomed \cup KeysOf(name)
  /\ budget' = [budget EXCEPT !.deletes = @ - 1]
  /\ UNCHANGED <<entries, files, flight, plan, walk, ren>>

------------------------------------------------------------------------------
(* The environment: MASS's download manager and store, and the clock.      *)

Land(k) ==
  /\ k \in flight
  /\ flight' = flight \ {k}
  /\ files' = files \cup {k}
  /\ UNCHANGED <<entries, doomed, plan, walk, ren, budget>>

DownloadFails(k) ==
  /\ k \in flight
  /\ flight' = flight \ {k}
  /\ UNCHANGED <<entries, files, doomed, plan, walk, ren, budget>>

Remove(k) ==
  /\ k \in doomed
  /\ doomed' = doomed \ {k}
  /\ files' = files \ {k}
  /\ UNCHANGED <<entries, flight, plan, walk, ren, budget>>

Expire(k) ==
  /\ entries[k].phase = "reserved"
  /\ budget.expiries > 0
  /\ "slow" \in Overlap \/ (k \notin flight /\ \A p \in Planners : k \notin plan[p].out)
  /\ entries' = [entries EXCEPT ![k].phase = "expired"]
  /\ budget' = [budget EXCEPT !.expiries = @ - 1]
  /\ UNCHANGED <<files, flight, doomed, plan, walk, ren>>

------------------------------------------------------------------------------

PlanStep(p) ==
  \/ PlanDest(p) \/ PlanStat(p) \/ PlanReserve(p) \/ PlanRefused(p)
  \/ PlanDelivered(p) \/ PlanDropped(p)

WalkStep(w) ==
  \/ WalkReadDir(w) \/ WalkSkipDir(w) \/ WalkStat(w) \/ WalkLookup(w)
  \/ WalkRead(w) \/ WalkCommit(w) \/ WalkFresh(w) \/ WalkOrphan(w) \/ WalkUnreadable(w)
  \/ PruneCollect(w) \/ PruneAbsent(w) \/ PruneKeep(w) \/ PruneDelete(w)

Mass == \E k \in Keys : Land(k) \/ DownloadFails(k) \/ Remove(k) \/ Expire(k)

Next ==
  \/ \E p \in Planners, n \in Names, b \in Bases, c \in Bases \cup {NoBase} :
       PlanBegin(p, n, b, c)
  \/ \E p \in Planners : PlanStep(p)
  \/ \E w \in Walkers : WalkBegin(w) \/ WalkStep(w)
  \/ \E r \in Renamers : RenameApply(r) \/ \E m, n \in Names : RenameLookup(r, m, n)
  \/ \E n \in Names : PlanDelete(n)
  \/ Mass

Spec == Init /\ [][Next]_vars

\* RPCs once begun run on, MASS keeps listing the groups and finishes its
\* transfers and removals; the operator owes nothing.
Fairness ==
  /\ \A p \in Planners : WF_vars(PlanStep(p))
  /\ \A w \in Walkers : WF_vars(WalkBegin(w) \/ WalkStep(w))
  /\ \A r \in Renamers : WF_vars(RenameApply(r))
  /\ \A k \in Keys : WF_vars(Land(k) \/ DownloadFails(k)) /\ WF_vars(Remove(k))

FairSpec == Spec /\ Fairness

\* Nothing is looked at a second time before a prune deletes it.  In
\* ApartSpec nobody reserves a file in between: one that a walk has given up
\* for gone, or will.
ReservesApart ==
  \A p \in Planners, w \in Walkers :
    PlanReserve(p) /\ walk[w].at = "prune"
      => plan[p].dest \cap (walk[w].gone \cup (walk[w].cand \ files)) = {}

ApartSpec == Init /\ [][Next /\ ReservesApart]_vars

------------------------------------------------------------------------------
(* Properties.                                                             *)

TypeOK ==
  /\ entries \in [Keys -> Entry]
  /\ files \subseteq Keys
  /\ flight \subseteq Keys
  /\ doomed \subseteq Keys
  /\ plan \in [Planners -> PlanState]
  /\ walk \in [Walkers -> WalkState]
  /\ ren \in [Renamers -> RenameState]
  /\ budget \in [plans: 0..MaxPlans, renames: 0..MaxRenames,
                 deletes: 0..MaxDeletes, expiries: 0..MaxExpiries]

\* Group.id is the slug of the Name: every catalogued Name has one, and two
\* distinct Names never share it, or an id would name two groups and a
\* delete could plan the wrong group's files (errSlugCollision).
SlugIdentifiesGroup ==
  \A j, k \in Keys : Has(j) /\ Has(k) =>
    /\ SlugOf[entries[j].name] # 0
    /\ SlugOf[entries[j].name] = SlugOf[entries[k].name]
         => entries[j].name = entries[k].name

\* An entry changes its Name only when its whole group does: no plan
\* steals a destination from another group (errDestTaken) and no rename
\* leaves part of a group behind.
WholeGroupRenamed ==
  [][\A k \in Keys :
       Has(k) /\ Has(k)' /\ entries'[k].name # entries[k].name
         => \A j \in KeysOf(entries[k].name) : entries'[j].name = entries'[k].name]_vars

\* A download in flight keeps its catalogue entry, so that its file is
\* recognised when it lands: walks, and their prune, do not lose it.
FlightCatalogued == \A k \in flight : Has(k)

\* All files a plan has reserved so far stand under its group name until
\* the plan is handed to MASS: primary and companion form one group.
BundleCatalogued ==
  \A p \in Planners : \A k \in plan[p].out : entries[k].name = plan[p].name

\* A group never spans directories: new files land next to their siblings
\* although a rename changed the slug (groupRelPath).
GroupInOneDir ==
  \A j, k \in Keys : Has(j) /\ Has(k) /\ entries[j].name = entries[k].name
    => j[1] = k[1]

\* Only an absent file costs an entry: a walk that could not list, stat or
\* read a file never erases the Name it was given.
PresentFileKeepsEntry ==
  [][\A k \in files \cap files' : Has(k) => Has(k)']_vars

\* A reservation that has expired does not block its destination for
\* ever: a walk sweeps it, unless it is stamped anew or its file turns up.
ExpiredReservationResolved ==
  \A k \in Keys : Expired(k) ~> ~Expired(k)

\* A file that has landed under a reservation becomes a listed model once
\* it can be read, whatever walks, renames and plans do meanwhile.
LandedFileCommitted ==
  \A k \in Keys : (k \in files /\ Has(k))
                    ~> (Committed(k) \/ k \notin files \/ ~Has(k))
=============================================================================
