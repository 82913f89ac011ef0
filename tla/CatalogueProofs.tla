--------------------------- MODULE CatalogueProofs ---------------------------
(***************************************************************************)
(* Proofs about Catalogue, for any names, directories, files and number of *)
(* goroutines.  The first three theorems hold in any environment (Overlap) *)
(* and for all bounds; those on installs hold where the operator waits, by *)
(* the hypotheses they state.                                              *)
(***************************************************************************)
EXTENDS Catalogue, TLAPS

(***************************************************************************)
(* The entry pointer of a walk that reads a header, or is about to store   *)
(* it, is an entry of the catalogue, and plans and renames under way have a Name.  TypeOK needs   *)
(* both: a header stored through the pointer of a deleted entry would give *)
(* an absent entry a phase without a name.                                 *)
(***************************************************************************)
HeaderEntryLive ==
  \A w \in Walkers : walk[w].at \in {"header", "store"} => \A k \in walk[w].cur : Has(k)

PlansNamed == \A p \in Planners : plan[p].at # "idle" => plan[p].name \in Names
RenamesNamed == \A r \in Renamers : ren[r].at # "idle" => ren[r].new \in Names

TInv == TypeOK /\ HeaderEntryLive /\ PlansNamed /\ RenamesNamed

BudgetOK == budget \in [plans: 0..MaxPlans, renames: 0..MaxRenames,
                        deletes: 0..MaxDeletes, expiries: 0..MaxExpiries]

\* What an entry is, field by field.
LEMMA EntryFields ==
  /\ NoEntry \in Entry /\ NoEntry.phase = "none"
  /\ \A e \in Entry : e.phase # "none" => e \in [name: Names, phase: {"reserved", "expired", "committed"}]
  /\ [name: Names, phase: {"reserved", "expired", "committed"}] \subseteq Entry
BY DEF Entry, NoEntry

\* Entries that keep their place keep every pointer live.
LEMMA PointersKept ==
  ASSUME HeaderEntryLive, UNCHANGED walk, \A k \in Keys : Has(k) => Has(k)',
         \A w \in Walkers : walk[w].cur \subseteq Keys
  PROVE  HeaderEntryLive'
BY DEF HeaderEntryLive, Has

\* Spending one unit of a bound.
LEMMA BudgetSpent ==
  ASSUME BudgetOK
  PROVE  /\ budget.plans > 0 /\ budget' = [budget EXCEPT !.plans = @ - 1] => BudgetOK'
         /\ budget.renames > 0 /\ budget' = [budget EXCEPT !.renames = @ - 1] => BudgetOK'
         /\ budget.deletes > 0 /\ budget' = [budget EXCEPT !.deletes = @ - 1] => BudgetOK'
         /\ budget.expiries > 0 /\ budget' = [budget EXCEPT !.expiries = @ - 1] => BudgetOK'
BY BoundsAssumption DEF BudgetOK

\* What a plan holds, and what replacing one plan's state preserves.
LEMMA PlanFields ==
  ASSUME NEW s \in PlanState
  PROVE  /\ s.dest \subseteq Keys /\ s.out \subseteq Keys
         /\ s.name \in Names \cup {NoName} /\ s.companion \in Bases \cup {NoBase}
         /\ \A D \in SUBSET Keys : [s EXCEPT !.at = "stat", !.dest = D] \in PlanState
         /\ \A k \in Keys, a \in {"deliver", "dest"} :
              [s EXCEPT !.at = a, !.base = s.companion, !.companion = NoBase,
                        !.dest = {}, !.out = s.out \cup {k}] \in PlanState
BY DEF PlanState

LEMMA PlanReplaced ==
  ASSUME plan \in [Planners -> PlanState], PlansNamed, NEW p \in Planners,
         NEW s \in PlanState, s.at # "idle" => s.name \in Names,
         plan' = [plan EXCEPT ![p] = s]
  PROVE  (plan \in [Planners -> PlanState] /\ PlansNamed)'
BY DEF PlansNamed

LEMMA TypeInit == Init => TInv
<1> SUFFICES ASSUME Init PROVE TInv
  OBVIOUS
<1>1. entries \in [Keys -> Entry]
  BY EntryFields DEF Init
<1>2. plan \in [Planners -> PlanState]
  BY DEF Init, NoPlan, PlanState
<1>3. walk \in [Walkers -> WalkState]
  BY DEF Init, NoWalk, WalkState
<1>4. ren \in [Renamers -> RenameState]
  BY DEF Init, NoRename, RenameState
<1>5. BudgetOK
  BY BoundsAssumption DEF Init, BudgetOK
<1>6. HeaderEntryLive /\ PlansNamed /\ RenamesNamed
  BY DEF Init, NoWalk, NoPlan, NoRename, HeaderEntryLive, PlansNamed, RenamesNamed
<1>. QED
  BY <1>1, <1>2, <1>3, <1>4, <1>5, <1>6 DEF Init, TInv, TypeOK, BudgetOK

------------------------------------------------------------------------------
(* One lemma per kind of step.                                             *)

LEMMA PlanTypes ==
  ASSUME TInv, NEW p \in Planners,
         PlanStep(p) \/ \E n \in Names, b \in Bases, c \in Bases \cup {NoBase} : PlanBegin(p, n, b, c)
  PROVE  TInv'
<1>0. /\ entries \in [Keys -> Entry] /\ files \subseteq Keys /\ flight \subseteq Keys
      /\ doomed \subseteq Keys /\ plan \in [Planners -> PlanState]
      /\ walk \in [Walkers -> WalkState] /\ ren \in [Renamers -> RenameState]
      /\ BudgetOK /\ HeaderEntryLive /\ PlansNamed /\ RenamesNamed
  BY DEF TInv, TypeOK, BudgetOK
<1>a. \A w \in Walkers : walk[w].cur \subseteq Keys
  BY <1>0 DEF WalkState
<1>b. plan[p] \in PlanState
  BY <1>0
<1>1. /\ entries' \in [Keys -> Entry]
      /\ \A k \in Keys : Has(k) => Has(k)'
  <2>1. CASE PlanReserve(p)
    <3>1. PICK k \in plan[p].dest : entries' = [entries EXCEPT ![k] = Stamped(plan[p].name, k)]
      BY <2>1 DEF PlanReserve
    <3>2. k \in Keys /\ plan[p].name \in Names
      BY <1>0, <2>1 DEF PlanReserve, PlanState, PlansNamed
    <3>3. /\ Stamped(plan[p].name, k) \in Entry
          /\ Stamped(plan[p].name, k).phase # "none"
      BY <3>2, EntryFields DEF Stamped
    <3>. QED
      BY <1>0, <3>1, <3>2, <3>3 DEF Has
  <2>2. CASE UNCHANGED entries
    BY <1>0, <2>2 DEF Has
  <2>. QED
    BY <2>1, <2>2 DEF PlanStep, PlanBegin, PlanDest, PlanStat, PlanRefused,
                      PlanDelivered, PlanDropped
<1>2. (plan \in [Planners -> PlanState] /\ PlansNamed)'
  <2>1. ASSUME NEW n \in Names, NEW b \in Bases, NEW c \in Bases \cup {NoBase}, PlanBegin(p, n, b, c)
        PROVE  (plan \in [Planners -> PlanState] /\ PlansNamed)'
    BY <1>0, <2>1 DEF PlanBegin, PlanState, NoPlan, PlansNamed
  <2>2. CASE PlanDest(p)
    <3>. DEFINE D == {k \in Keys : IsGroupDir(plan[p].name, k[1]) /\ k[2] = plan[p].base}
                s == [plan[p] EXCEPT !.at = "stat", !.dest = D]
    <3>1. D \in SUBSET Keys
      OBVIOUS
    <3>2. s \in PlanState
      BY <1>b, <3>1, PlanFields
    <3>3. plan' = [plan EXCEPT ![p] = s]
      BY <1>0, <2>2 DEF PlanDest
    <3>4. s.name \in Names
      BY <1>0, <1>b, <2>2 DEF PlanDest, PlansNamed, PlanState
    <3>. HIDE DEF s
    <3>. QED
      BY <1>0, <3>2, <3>3, <3>4, PlanReplaced
  <2>3. CASE PlanStat(p)
    BY <1>0, <2>3 DEF PlanStat, PlanState, PlansNamed
  <2>4. CASE PlanReserve(p)
    <3>1. PICK k \in plan[p].dest : plan' = [plan EXCEPT ![p] = [plan[p] EXCEPT
            !.at = IF plan[p].companion = NoBase THEN "deliver" ELSE "dest",
            !.base = plan[p].companion, !.companion = NoBase,
            !.dest = {}, !.out = plan[p].out \cup {k}]]
      BY <2>4 DEF PlanReserve
    <3>. DEFINE a == IF plan[p].companion = NoBase THEN "deliver" ELSE "dest"
                s == [plan[p] EXCEPT !.at = a, !.base = plan[p].companion,
                        !.companion = NoBase, !.dest = {}, !.out = plan[p].out \cup {k}]
    <3>2. k \in Keys /\ a \in {"deliver", "dest"}
      BY <1>b, PlanFields
    <3>3. s \in PlanState
      BY <1>b, <3>2, PlanFields
    <3>4. plan' = [plan EXCEPT ![p] = s]
      BY <1>0, <3>1
    <3>5. s.name \in Names
      BY <1>0, <1>b, <2>4 DEF PlanReserve, PlansNamed, PlanState
    <3>. HIDE DEF s
    <3>. QED
      BY <1>0, <3>3, <3>4, <3>5, PlanReplaced
  <2>5. CASE PlanRefused(p) \/ PlanDelivered(p) \/ PlanDropped(p)
    BY <1>0, <2>5 DEF PlanRefused, PlanDelivered, PlanDropped, PlanState, NoPlan, PlansNamed
  <2>. QED
    BY <2>1, <2>2, <2>3, <2>4, <2>5 DEF PlanStep
<1>3. BudgetOK' /\ flight' \subseteq Keys
  <2>0. UNCHANGED budget \/ \E n \in Names, b \in Bases, c \in Bases \cup {NoBase} : PlanBegin(p, n, b, c)
    BY DEF PlanStep, PlanDest, PlanStat, PlanReserve, PlanRefused,
           PlanDelivered, PlanDropped
  <2>1. flight' = flight \/ flight' = flight \cup plan[p].out
    BY DEF PlanStep, PlanBegin, PlanDest, PlanStat, PlanReserve, PlanRefused,
           PlanDelivered, PlanDropped
  <2>a. flight' \subseteq Keys
    BY <1>0, <1>b, <2>1, PlanFields
  <2>2. BudgetOK'
    <3>1. CASE UNCHANGED budget
      BY <1>0, <3>1 DEF BudgetOK
    <3>2. CASE budget.plans > 0 /\ budget' = [budget EXCEPT !.plans = @ - 1]
      BY <1>0, <3>2, BudgetSpent
    <3>. QED
      BY <2>0, <3>1, <3>2 DEF PlanBegin
  <2>. QED
    BY <2>a, <2>2
<1>4. UNCHANGED <<files, doomed, walk, ren>>
  BY DEF PlanStep, PlanBegin, PlanDest, PlanStat, PlanReserve, PlanRefused,
         PlanDelivered, PlanDropped
<1>5. HeaderEntryLive'
  BY <1>0, <1>a, <1>1, <1>4, PointersKept
<1>. QED
  BY <1>0, <1>1, <1>2, <1>3, <1>4, <1>5 DEF TInv, TypeOK, BudgetOK, RenamesNamed

\* Replacing one walk's state while the catalogue stays as it is.
LEMMA WalkReplaced ==
  ASSUME TInv, NEW w \in Walkers, NEW s \in WalkState,
         s.at \in {"header", "store"} => \A k \in s.cur : Has(k),
         walk' = [walk EXCEPT ![w] = s],
         UNCHANGED <<entries, files, flight, doomed, plan, ren, budget>>
  PROVE  TInv'
<1>1. walk' \in [Walkers -> WalkState] /\ HeaderEntryLive'
  BY DEF TInv, TypeOK, HeaderEntryLive, Has
<1>. QED
  BY <1>1 DEF TInv, TypeOK, PlansNamed, RenamesNamed

LEMMA WalkTypes ==
  ASSUME TInv, NEW w \in Walkers, WalkBegin(w) \/ WalkStep(w)
  PROVE  TInv'
<1>0. /\ entries \in [Keys -> Entry] /\ walk \in [Walkers -> WalkState]
      /\ walk[w] \in WalkState /\ files \subseteq Keys /\ HeaderEntryLive
  BY DEF TInv, TypeOK
<1>1. CASE WalkBegin(w)
  <2>1. PICK D \in SUBSET Slugs :
          walk' = [walk EXCEPT ![w] = [NoWalk EXCEPT !.at = "scan", !.dirs = D]]
    BY <1>1 DEF WalkBegin
  <2>. DEFINE s == [NoWalk EXCEPT !.at = "scan", !.dirs = D]
  <2>2. s \in WalkState /\ s.at = "scan"
    BY DEF NoWalk, WalkState
  <2>3. walk' = [walk EXCEPT ![w] = s]
    BY <2>1
  <2>. HIDE DEF s
  <2>. QED
    BY <1>1, <2>2, <2>3, WalkReplaced DEF WalkBegin
<1>2. CASE WalkReadDir(w)
  <2>1. PICK d \in walk[w].dirs :
          walk' = [walk EXCEPT ![w] = [walk[w] EXCEPT !.dirs = walk[w].dirs \ {d},
                     !.todo = {k \in files : k[1] = d}]]
    BY <1>2 DEF WalkReadDir
  <2>. DEFINE T == {k \in files : k[1] = d}
              s == [walk[w] EXCEPT !.dirs = walk[w].dirs \ {d}, !.todo = T]
  <2>2. T \in SUBSET Keys
    BY <1>0
  <2>3. walk' = [walk EXCEPT ![w] = s]
    BY <2>1
  <2>. HIDE DEF T
  <2>4. s \in WalkState /\ s.at = "scan"
    BY <1>0, <1>2, <2>2 DEF WalkState, WalkReadDir
  <2>. HIDE DEF s
  <2>. QED
    BY <1>2, <2>3, <2>4, WalkReplaced DEF WalkReadDir
<1>2a. CASE WalkSkipDir(w)
  <2>1. PICK d \in walk[w].dirs :
          walk' = [walk EXCEPT ![w] = [walk[w] EXCEPT !.dirs = walk[w].dirs \ {d}]]
    BY <1>2a DEF WalkSkipDir
  <2>. DEFINE s == [walk[w] EXCEPT !.dirs = walk[w].dirs \ {d}]
  <2>2. s \in WalkState /\ s.at = "scan"
    BY <1>0, <1>2a DEF WalkState, WalkSkipDir
  <2>3. walk' = [walk EXCEPT ![w] = s]
    BY <2>1
  <2>. HIDE DEF s
  <2>. QED
    BY <1>2a, <2>2, <2>3, WalkReplaced DEF WalkSkipDir
<1>3. CASE WalkStat(w)
  <2>1. PICK k \in walk[w].todo : walk' = [walk EXCEPT ![w] =
          IF k \in files
            THEN [walk[w] EXCEPT !.at = "lookup", !.cur = {k}, !.todo = walk[w].todo \ {k}]
            ELSE [walk[w] EXCEPT !.todo = walk[w].todo \ {k}]]
    BY <1>3 DEF WalkStat
  <2>. DEFINE s == IF k \in files
            THEN [walk[w] EXCEPT !.at = "lookup", !.cur = {k}, !.todo = walk[w].todo \ {k}]
            ELSE [walk[w] EXCEPT !.todo = walk[w].todo \ {k}]
  <2>2. s \in WalkState /\ s.at \in {"scan", "lookup"}
    BY <1>0, <1>3 DEF WalkState, WalkStat
  <2>3. walk' = [walk EXCEPT ![w] = s]
    BY <2>1
  <2>. HIDE DEF s
  <2>. QED
    BY <1>3, <2>2, <2>3, WalkReplaced DEF WalkStat
<1>4. CASE WalkLookup(w)
  <2>. DEFINE s == IF \A k \in walk[w].cur : Has(k)
         THEN [walk[w] EXCEPT !.at = "header"]
         ELSE [walk[w] EXCEPT !.at = "scan", !.cur = {}]
  <2>1. s \in WalkState /\ (s.at \in {"header", "store"} => \A k \in s.cur : Has(k))
    BY <1>0, <1>4 DEF WalkState, WalkLookup
  <2>2. walk' = [walk EXCEPT ![w] = s]
    BY <1>4 DEF WalkLookup, Installed
  <2>. HIDE DEF s
  <2>. QED
    BY <1>4, <2>1, <2>2, WalkReplaced DEF WalkLookup, Installed
<1>4a. CASE WalkRead(w)
  <2>. DEFINE s == [walk[w] EXCEPT !.at = "store"]
  <2>1. s \in WalkState /\ \A k \in s.cur : Has(k)
    BY <1>0, <1>4a DEF WalkState, WalkRead, HeaderEntryLive
  <2>2. walk' = [walk EXCEPT ![w] = s]
    BY <1>0, <1>4a DEF WalkRead
  <2>. HIDE DEF s
  <2>. QED
    BY <1>4a, <2>1, <2>2, WalkReplaced DEF WalkRead
<1>5. ASSUME Observe(w),
             UNCHANGED <<files, flight, doomed, plan, ren, budget>>,
             entries' \in [Keys -> Entry], \A k \in Keys : Has(k) => Has(k)'
      PROVE  TInv'
  <2>. DEFINE s == [walk[w] EXCEPT !.at = "scan",
                      !.observed = walk[w].observed \cup walk[w].cur, !.cur = {}]
  <2>1. s \in WalkState /\ s.at = "scan"
    BY <1>0 DEF WalkState
  <2>2. walk' = [walk EXCEPT ![w] = s]
    BY <1>5 DEF Observe
  <2>3. \A v \in Walkers : walk[v].cur \subseteq Keys
    BY <1>0 DEF WalkState
  <2>. HIDE DEF s
  <2>4. walk' \in [Walkers -> WalkState] /\ HeaderEntryLive'
    BY <1>0, <1>5, <2>1, <2>2, <2>3 DEF HeaderEntryLive, Has
  <2>. QED
    BY <1>5, <2>4 DEF TInv, TypeOK, PlansNamed, RenamesNamed
<1>6. CASE WalkCommit(w)
  <2>1. \A k \in walk[w].cur : k \in Keys /\ Has(k)
    BY <1>0, <1>6 DEF WalkCommit, HeaderEntryLive, WalkState
  <2>2. \A k \in walk[w].cur : /\ [entries[k] EXCEPT !.phase = "committed"] \in Entry
                               /\ [entries[k] EXCEPT !.phase = "committed"].phase # "none"
    BY <1>0, <2>1, EntryFields DEF Has
  <2>3. entries' \in [Keys -> Entry] /\ \A k \in Keys : Has(k) => Has(k)'
    BY <1>0, <1>6, <2>2 DEF WalkCommit, Has
  <2>. QED
    BY <1>5, <1>6, <2>3 DEF WalkCommit
<1>7. CASE WalkFresh(w) \/ WalkOrphan(w)
  <2>1. entries' \in [Keys -> Entry] /\ \A k \in Keys : Has(k) => Has(k)'
    BY <1>0, <1>7 DEF WalkFresh, HeaderFresh, WalkOrphan, Has
  <2>. QED
    BY <1>5, <1>7, <2>1 DEF WalkFresh, HeaderFresh, WalkOrphan
<1>8. CASE WalkUnreadable(w)
  <2>. DEFINE s == [walk[w] EXCEPT !.at = "scan", !.cur = {}]
  <2>1. s \in WalkState /\ s.at = "scan"
    BY <1>0 DEF WalkState
  <2>2. walk' = [walk EXCEPT ![w] = s]
    BY <1>8 DEF WalkUnreadable
  <2>. HIDE DEF s
  <2>. QED
    BY <1>8, <2>1, <2>2, WalkReplaced DEF WalkUnreadable
<1>9. CASE PruneCollect(w)
  <2>. DEFINE C == {k \in Keys \ walk[w].observed : Committed(k) \/ Expired(k)}
              s == [walk[w] EXCEPT !.at = "prune", !.cand = C]
  <2>1. C \in SUBSET Keys
    OBVIOUS
  <2>2. walk' = [walk EXCEPT ![w] = s]
    BY <1>9 DEF PruneCollect, Prunable
  <2>. HIDE DEF C
  <2>3. s \in WalkState /\ s.at = "prune"
    BY <1>0, <2>1 DEF WalkState
  <2>. HIDE DEF s
  <2>. QED
    BY <1>9, <2>2, <2>3, WalkReplaced DEF PruneCollect, Prunable
<1>10. CASE PruneAbsent(w)
  <2>1. PICK k \in walk[w].cand :
          walk' = [walk EXCEPT ![w] = [walk[w] EXCEPT
            !.cand = walk[w].cand \ {k}, !.gone = walk[w].gone \cup {k}]]
    BY <1>10 DEF PruneAbsent, StatAbsent
  <2>. DEFINE s == [walk[w] EXCEPT !.cand = walk[w].cand \ {k}, !.gone = walk[w].gone \cup {k}]
  <2>2. s \in WalkState /\ s.at = "prune"
    BY <1>0, <1>10 DEF WalkState, PruneAbsent
  <2>3. walk' = [walk EXCEPT ![w] = s]
    BY <2>1
  <2>. HIDE DEF s
  <2>. QED
    BY <1>10, <2>2, <2>3, WalkReplaced DEF PruneAbsent
<1>10a. CASE PruneKeep(w)
  <2>1. PICK k \in walk[w].cand :
          walk' = [walk EXCEPT ![w] = [walk[w] EXCEPT !.cand = walk[w].cand \ {k}]]
    BY <1>10a DEF PruneKeep
  <2>. DEFINE s == [walk[w] EXCEPT !.cand = walk[w].cand \ {k}]
  <2>2. s \in WalkState /\ s.at = "prune"
    BY <1>0, <1>10a DEF WalkState, PruneKeep
  <2>3. walk' = [walk EXCEPT ![w] = s]
    BY <2>1
  <2>. HIDE DEF s
  <2>. QED
    BY <1>10a, <2>2, <2>3, WalkReplaced DEF PruneKeep
<1>11. CASE PruneDelete(w)
  <2>1. entries' \in [Keys -> Entry]
    BY <1>0, <1>11, EntryFields DEF PruneDelete
  <2>2. walk' \in [Walkers -> WalkState]
    <3>1. NoWalk \in WalkState
      BY DEF WalkState, NoWalk
    <3>2. \A v \in Walkers, a \in {"orphan", "lost"} :
            walk[v] \in WalkState /\ [walk[v] EXCEPT !.at = a] \in WalkState
      BY <1>0 DEF WalkState
    <3>. QED
      BY <1>11, <3>1, <3>2 DEF PruneDelete
  <2>3. HeaderEntryLive'
    <3>. SUFFICES ASSUME NEW v \in Walkers, walk'[v].at \in {"header", "store"}, NEW k \in walk'[v].cur
                  PROVE  Has(k)'
      BY DEF HeaderEntryLive
    <3>1. walk'[v] = walk[v] /\ walk[v].cur \cap walk[w].gone = {}
      BY <1>0, <1>11 DEF PruneDelete, NoWalk, WalkState
    <3>2. k \in Keys /\ Has(k) /\ k \notin walk[w].gone
      BY <1>0, <3>1 DEF HeaderEntryLive, WalkState
    <3>. QED
      BY <1>11, <3>2 DEF PruneDelete, Has
  <2>. QED
    BY <1>11, <2>1, <2>2, <2>3 DEF PruneDelete, TInv, TypeOK, PlansNamed, RenamesNamed
<1>. QED
  BY <1>1, <1>2, <1>2a, <1>3, <1>4, <1>4a, <1>6, <1>7, <1>8, <1>9, <1>10, <1>10a, <1>11 DEF WalkStep

LEMMA RenameTypes ==
  ASSUME TInv, NEW r \in Renamers,
         RenameApply(r) \/ \E m, n \in Names : RenameLookup(r, m, n)
  PROVE  TInv'
<1>0. /\ entries \in [Keys -> Entry] /\ walk \in [Walkers -> WalkState]
      /\ ren \in [Renamers -> RenameState] /\ BudgetOK
      /\ HeaderEntryLive /\ RenamesNamed
  BY DEF TInv, TypeOK, BudgetOK
<1>1. CASE RenameApply(r)
  <2>1. ren[r].new \in Names
    BY <1>0, <1>1 DEF RenameApply, Renamed, RenamesNamed
  <2>2. \A k \in Keys : Has(k) => /\ [entries[k] EXCEPT !.name = ren[r].new] \in Entry
                                  /\ [entries[k] EXCEPT !.name = ren[r].new].phase # "none"
    BY <1>0, <2>1, EntryFields DEF Has
  <2>3. entries' \in [Keys -> Entry] /\ \A k \in Keys : Has(k) => Has(k)'
    BY <1>0, <1>1, <2>2 DEF RenameApply, Renamed, Has, KeysOf
  <2>4. HeaderEntryLive'
    BY <1>0, <1>1, <2>3, PointersKept DEF RenameApply, Renamed, WalkState
  <2>5. ren' \in [Renamers -> RenameState] /\ RenamesNamed'
    BY <1>0, <1>1 DEF RenameApply, Renamed, RenameState, NoRename, RenamesNamed
  <2>. QED
    BY <1>1, <2>3, <2>4, <2>5 DEF RenameApply, Renamed, TInv, TypeOK, PlansNamed
<1>2. ASSUME NEW m \in Names, NEW n \in Names, RenameLookup(r, m, n)
      PROVE  TInv'
  <2>1. ren' \in [Renamers -> RenameState] /\ RenamesNamed'
    BY <1>0, <1>2 DEF RenameLookup, RenameState, RenamesNamed
  <2>2. BudgetOK'
    BY <1>0, <1>2, BudgetSpent DEF RenameLookup
  <2>. QED
    BY <1>2, <2>1, <2>2
       DEF RenameLookup, TInv, TypeOK, BudgetOK, PlansNamed, HeaderEntryLive, Has
<1>. QED
  BY <1>1, <1>2

LEMMA EnvironmentTypes ==
  ASSUME TInv, Mass \/ \E n \in Names : PlanDelete(n)
  PROVE  TInv'
<1>0. /\ entries \in [Keys -> Entry] /\ walk \in [Walkers -> WalkState]
      /\ files \subseteq Keys /\ flight \subseteq Keys /\ doomed \subseteq Keys
      /\ BudgetOK /\ HeaderEntryLive
  BY DEF TInv, TypeOK, BudgetOK
<1>1. ASSUME NEW n \in Names, PlanDelete(n)
      PROVE  TInv'
  <2>1. doomed' \subseteq Keys
    BY <1>0, <1>1 DEF PlanDelete, KeysOf
  <2>2. BudgetOK'
    BY <1>0, <1>1, BudgetSpent DEF PlanDelete
  <2>. QED
    BY <1>1, <2>1, <2>2 DEF PlanDelete, TInv, TypeOK, BudgetOK,
       PlansNamed, RenamesNamed, HeaderEntryLive, Has
<1>2. ASSUME NEW k \in Keys, Land(k) \/ DownloadFails(k) \/ Remove(k)
      PROVE  TInv'
  <2>1. files' \subseteq Keys /\ flight' \subseteq Keys /\ doomed' \subseteq Keys
    BY <1>0, <1>2 DEF Land, DownloadFails, Remove
  <2>2. UNCHANGED <<entries, plan, walk, ren, budget>>
    BY <1>2 DEF Land, DownloadFails, Remove
  <2>. QED
    BY <2>1, <2>2 DEF TInv, TypeOK, PlansNamed, RenamesNamed, HeaderEntryLive, Has
<1>3. ASSUME NEW k \in Keys, Expire(k)
      PROVE  TInv'
  <2>1. [entries[k] EXCEPT !.phase = "expired"] \in Entry
    BY <1>0, <1>3, EntryFields DEF Expire
  <2>2. entries' = [entries EXCEPT ![k] = [entries[k] EXCEPT !.phase = "expired"]]
    BY <1>0, <1>3 DEF Expire
  <2>3. entries' \in [Keys -> Entry] /\ \A j \in Keys : Has(j) => Has(j)'
    BY <1>0, <2>1, <2>2 DEF Has, Entry, NoEntry
  <2>4. HeaderEntryLive'
    BY <1>0, <1>3, <2>3, PointersKept DEF Expire, WalkState
  <2>5. BudgetOK'
    BY <1>0, <1>3, BudgetSpent DEF Expire
  <2>. QED
    BY <1>3, <2>3, <2>4, <2>5 DEF Expire, TInv, TypeOK, BudgetOK, PlansNamed, RenamesNamed
<1>. QED
  BY <1>1, <1>2, <1>3 DEF Mass

------------------------------------------------------------------------------

LEMMA TypeStep == TInv /\ [Next]_vars => TInv'
<1> SUFFICES ASSUME TInv, [Next]_vars PROVE TInv'
  OBVIOUS
<1>1. CASE UNCHANGED vars
  BY <1>1 DEF vars, TInv, TypeOK, HeaderEntryLive, PlansNamed, RenamesNamed, Has
<1>2. CASE Next
  BY <1>2, PlanTypes, WalkTypes, RenameTypes, EnvironmentTypes DEF Next
<1>. QED
  BY <1>1, <1>2

\* Every variable of the catalogue model keeps its type: in particular an
\* entry always has a name and a phase together, although walks store
\* headers through pointers they fetched under an earlier lock.
THEOREM CatalogueTypeOK == Spec => []TypeOK
<1>1. TInv => TypeOK
  BY DEF TInv
<1>. QED
  BY <1>1, TypeInit, TypeStep, PTL DEF Spec

------------------------------------------------------------------------------
(* What each step that writes entries does to the Names.                   *)

NamesKept == \A k \in Keys : Has(k)' => Has(k) /\ entries'[k].name = entries[k].name

\* The steps that write entries.
LEMMA EntryWriters ==
  ASSUME [Next]_vars
  PROVE  \/ UNCHANGED entries
         \/ \E w \in Walkers : WalkCommit(w) \/ PruneDelete(w)
         \/ \E k \in Keys : Expire(k)
         \/ \E p \in Planners : PlanReserve(p)
         \/ \E r \in Renamers : RenameApply(r)
BY DEF vars, Next, PlanStep, WalkStep, Mass, PlanBegin, PlanDest, PlanStat, PlanRefused,
       PlanDelivered, PlanDropped, WalkBegin, WalkReadDir, WalkSkipDir, WalkStat,
       WalkLookup, WalkRead, WalkFresh, WalkOrphan, WalkUnreadable, PruneCollect, PruneAbsent,
       PruneKeep, RenameLookup, PlanDelete, Land, DownloadFails, Remove

\* Only a reservation and a rename touch Names.
LEMMA NameWriters ==
  ASSUME TInv, [Next]_vars
  PROVE  \/ NamesKept
         \/ \E p \in Planners : PlanReserve(p)
         \/ \E r \in Renamers : RenameApply(r)
<1>0. entries \in [Keys -> Entry] /\ walk \in [Walkers -> WalkState] /\ HeaderEntryLive
  BY DEF TInv, TypeOK
<1>1. CASE UNCHANGED entries
  BY <1>1 DEF NamesKept, Has
<1>2. ASSUME NEW w \in Walkers, WalkCommit(w)
      PROVE  NamesKept
  <2>1. SUFFICES ASSUME NEW k \in Keys, Has(k)'
                 PROVE  Has(k) /\ entries'[k].name = entries[k].name
    BY DEF NamesKept
  <2>2. CASE k \in walk[w].cur
    BY <1>0, <1>2, <2>2, EntryFields DEF WalkCommit, HeaderEntryLive, Has
  <2>3. CASE k \notin walk[w].cur
    BY <1>2, <2>1, <2>3 DEF WalkCommit, Has
  <2>. QED
    BY <2>2, <2>3
<1>3. ASSUME NEW w \in Walkers, PruneDelete(w)
      PROVE  NamesKept
  BY <1>3 DEF PruneDelete, NamesKept, Has, NoEntry
<1>4. ASSUME NEW k \in Keys, Expire(k)
      PROVE  NamesKept
  <2>1. Has(k) /\ entries'[k].name = entries[k].name
    BY <1>0, <1>4, EntryFields DEF Expire, Has
  <2>2. \A j \in Keys \ {k} : entries'[j] = entries[j]
    BY <1>0, <1>4 DEF Expire
  <2>. QED
    BY <2>1, <2>2 DEF NamesKept, Has
<1>. QED
  BY <1>1, <1>2, <1>3, <1>4, EntryWriters

LEMMA SlugStep == TInv /\ SlugIdentifiesGroup /\ [Next]_vars => SlugIdentifiesGroup'
<1> SUFFICES ASSUME TInv, SlugIdentifiesGroup, [Next]_vars
             PROVE  SlugIdentifiesGroup'
  OBVIOUS
<1>0. entries \in [Keys -> Entry]
  BY DEF TInv, TypeOK
<1>1. CASE NamesKept
  BY <1>1 DEF NamesKept, SlugIdentifiesGroup
<1>2. ASSUME NEW p \in Planners, PlanReserve(p)
      PROVE  SlugIdentifiesGroup'
  <2>. DEFINE name == plan[p].name
  <2>1. PICK k \in plan[p].dest :
          SlugAvailable(name, {}) /\ entries' = [entries EXCEPT ![k] = Stamped(name, k)]
    BY <1>2 DEF PlanReserve, Reservable
  <2>2. k \in Keys /\ Stamped(name, k).name = name
    BY <1>2 DEF TInv, TypeOK, PlanState, PlanReserve, Stamped
  <2>3. \A j \in Keys : Has(j)' => \/ j = k /\ entries'[j].name = name
                                   \/ Has(j) /\ entries'[j].name = entries[j].name
    BY <1>0, <2>1, <2>2 DEF Has
  <2>4. SlugOf[name] # 0
    BY <2>1 DEF SlugAvailable
  <2>5. \A j \in Keys : Has(j) /\ entries[j].name # name => SlugOf[entries[j].name] # SlugOf[name]
    BY <2>1 DEF SlugAvailable
  <2>. HIDE DEF name
  <2>. QED
    BY <2>3, <2>4, <2>5 DEF SlugIdentifiesGroup
<1>3. ASSUME NEW r \in Renamers, RenameApply(r)
      PROVE  SlugIdentifiesGroup'
  <2>. DEFINE old == ren[r].old
              new == ren[r].new
  <2>1. CASE SlugAvailable(new, {old})
    <3>1. entries' = [k \in Keys |-> IF k \in KeysOf(old) THEN [entries[k] EXCEPT !.name = new]
                                                        ELSE entries[k]]
      BY <1>3, <2>1 DEF RenameApply, Renamed
    <3>2. \A k \in KeysOf(old) : [entries[k] EXCEPT !.name = new].name = new
      BY <1>0, EntryFields DEF KeysOf, Has
    <3>3. \A j \in Keys : Has(j)' =>
            \/ entries'[j].name = new
            \/ Has(j) /\ entries[j].name # old /\ entries'[j].name = entries[j].name
      BY <1>0, <3>1, <3>2 DEF Has, KeysOf
    <3>4. SlugOf[new] # 0
      BY <2>1 DEF SlugAvailable
    <3>5. \A j \in Keys : Has(j) /\ entries[j].name # old /\ entries[j].name # new
                            => SlugOf[entries[j].name] # SlugOf[new]
      BY <2>1 DEF SlugAvailable
    <3>. HIDE DEF old, new
    <3>. QED
      BY <3>3, <3>4, <3>5 DEF SlugIdentifiesGroup
  <2>2. CASE ~SlugAvailable(new, {old})
    BY <1>3, <2>2 DEF RenameApply, Renamed, SlugIdentifiesGroup, Has
  <2>. QED
    BY <2>1, <2>2
<1>. QED
  BY <1>1, <1>2, <1>3, NameWriters

\* Group.id is unambiguous whatever plans, renames, walks and deletes
\* overlap: no two Names of the catalogue share a slug, because reserve and
\* renameGroup check and write under one lock.
THEOREM SlugsIdentifyGroups == Spec => []SlugIdentifiesGroup
<1>1. Init => SlugIdentifiesGroup
  BY DEF Init, SlugIdentifiesGroup, Has, NoEntry
<1>. QED
  BY <1>1, TypeInit, TypeStep, SlugStep, PTL DEF Spec

LEMMA WholeGroupStep ==
  ASSUME TInv, [Next]_vars, NEW k \in Keys, Has(k), Has(k)',
         entries'[k].name # entries[k].name, NEW j \in KeysOf(entries[k].name)
  PROVE  entries'[j].name = entries'[k].name
<1>0. entries \in [Keys -> Entry]
  BY DEF TInv, TypeOK
<1>1. CASE NamesKept
  BY <1>1 DEF NamesKept
<1>2. ASSUME NEW p \in Planners, PlanReserve(p)
      PROVE  FALSE
  <2>1. PICK i \in plan[p].dest :
          /\ Has(i) => entries[i].name = plan[p].name
          /\ entries' = [entries EXCEPT ![i] = Stamped(plan[p].name, i)]
    BY <1>2 DEF PlanReserve, Reservable
  <2>2. Stamped(plan[p].name, i).name = plan[p].name
    BY DEF Stamped
  <2>. QED
    BY <1>0, <2>1, <2>2
<1>3. ASSUME NEW r \in Renamers, RenameApply(r)
      PROVE  entries'[j].name = entries'[k].name
  <2>. DEFINE old == ren[r].old
              new == ren[r].new
  <2>1. entries' = [i \in Keys |-> IF i \in KeysOf(old) THEN [entries[i] EXCEPT !.name = new]
                                                      ELSE entries[i]]
    BY <1>3 DEF RenameApply, Renamed
  <2>2. \A i \in KeysOf(old) : entries'[i].name = new
    BY <1>0, <2>1, EntryFields DEF KeysOf, Has
  <2>3. k \in KeysOf(old) /\ entries[k].name = old
    BY <2>1 DEF KeysOf
  <2>. QED
    BY <2>2, <2>3
<1>. QED
  BY <1>1, <1>2, <1>3, NameWriters

\* A Name only ever changes for its whole group at once: no plan takes a
\* destination over from another group, no rename leaves files behind.
THEOREM GroupsRenameWhole == Spec => WholeGroupRenamed
<1>1. TInv /\ [Next]_vars =>
        [\A k \in Keys : Has(k) /\ Has(k)' /\ entries'[k].name # entries[k].name
           => \A j \in KeysOf(entries[k].name) : entries'[j].name = entries'[k].name]_vars
  BY WholeGroupStep
<1>. QED
  BY <1>1, TypeInit, TypeStep, PTL DEF Spec, WholeGroupRenamed

------------------------------------------------------------------------------
(***************************************************************************)
(* What walks cost.  Let groups be deleted only while nothing is being     *)
(* installed; let nothing be installed before a walk has pruned them, nor  *)
(* while a walk has still to store the header of a file that is gone; and  *)
(* let no download outlive its reservation.  Walks may overlap and         *)
(* reservations that are left over may expire.  Then ReservesApart is all  *)
(* it takes: an entry is lost only to a prune between whose stat and       *)
(* deletion its file was planned anew.                                     *)
(***************************************************************************)
Orderly ==
  /\ "delete" \notin Overlap /\ "held" \notin Overlap
  /\ "slow" \notin Overlap \/ MaxExpiries = 0

(***************************************************************************)
(* The inductive invariant: while something is being planned or downloaded *)
(* every committed entry has its file, and so has every header that a walk *)
(* is about to store; what is planned or downloaded has an entry that is no expired reservation; and what a prune has given up  *)
(* for gone, or will, is neither there nor on its way.                     *)
(***************************************************************************)
Busy == Planning \/ flight # {}
Owed(k) == k \in flight \/ \E p \in Planners : k \in plan[p].out

Calm == Settled /\ HeldPresent

BusySettled == Busy => Calm
PlannedBusy == \A p \in Planners : plan[p].out # {} => plan[p].at # "idle"
OwedHeld == \A k \in Keys : Owed(k) => Has(k) /\ ~Expired(k)
GoneAbsent ==
  \A w \in Walkers :
    IF walk[w].at = "prune"
      THEN /\ walk[w].gone \cap files = {}
           /\ \A k \in Keys : Owed(k) => k \notin walk[w].gone \cup (walk[w].cand \ files)
      ELSE walk[w].gone = {}

WInv == TInv /\ BusySettled /\ PlannedBusy /\ OwedHeld /\ GoneAbsent

LEMMA OwedIsBusy ==
  ASSUME PlannedBusy, NEW k, Owed(k)
  PROVE  Busy
BY DEF PlannedBusy, Owed, Busy, Planning

\* A walk is about to store the header of file k.
Stored(k) == \E w \in Walkers : walk[w].at = "store" /\ k \in walk[w].cur

\* What a step does to the phase of an entry.
LEMMA PhaseStep ==
  ASSUME TInv, [Next]_vars
  PROVE  /\ \A k \in Keys : Committed(k)' => Committed(k) \/ Stored(k)
         /\ \A k \in Keys :
              \/ (Has(k) => Has(k)') /\ (Committed(k) => Committed(k)')
              \/ \E w \in Walkers : PruneDelete(w) /\ k \in walk[w].gone
         /\ \A k \in Keys : Expired(k)' => Expired(k) \/ Expire(k)
<1>0. /\ entries \in [Keys -> Entry] /\ walk \in [Walkers -> WalkState]
      /\ HeaderEntryLive /\ RenamesNamed
      /\ \A k \in Keys : entries[k] \in Entry
  BY DEF TInv, TypeOK
<1>1. CASE UNCHANGED entries
  BY <1>0, <1>1 DEF Has, Committed, Expired
<1>2. ASSUME NEW p \in Planners, PlanReserve(p)
      PROVE  \A k \in Keys : /\ Committed(k)' => Committed(k)
                             /\ Has(k) => Has(k)'
                             /\ Committed(k) => Committed(k)'
                             /\ Expired(k)' => Expired(k)
  <2>1. PICK i \in plan[p].dest : entries' = [entries EXCEPT ![i] = Stamped(plan[p].name, i)]
    BY <1>2 DEF PlanReserve
  <2>2. \A k \in Keys : entries'[k] = IF k = i THEN Stamped(plan[p].name, i) ELSE entries[k]
    BY <1>0, <2>1
  <2>3. Stamped(plan[p].name, i).phase = IF Committed(i) THEN "committed" ELSE "reserved"
    BY DEF Stamped
  <2>. QED
    BY <1>0, <2>2, <2>3 DEF Has, Committed, Expired
<1>3. ASSUME NEW w \in Walkers, WalkCommit(w)
      PROVE  \A k \in Keys : /\ Committed(k)' => Committed(k) \/ Stored(k)
                             /\ Has(k) => Has(k)'
                             /\ Committed(k) => Committed(k)'
                             /\ Expired(k)' => Expired(k)
  <2>1. \A k \in Keys : entries'[k] = IF k \in walk[w].cur
                                        THEN [entries[k] EXCEPT !.phase = "committed"]
                                        ELSE entries[k]
    BY <1>3 DEF WalkCommit
  <2>2. \A k \in Keys : [entries[k] EXCEPT !.phase = "committed"].phase = "committed"
    BY <1>0 DEF Entry, NoEntry
  <2>3. \A k \in walk[w].cur : Stored(k)
    BY <1>3 DEF WalkCommit, Stored
  <2>. QED
    BY <1>0, <2>1, <2>2, <2>3 DEF Has, Committed, Expired
<1>4. ASSUME NEW w \in Walkers, PruneDelete(w)
      PROVE  \A k \in Keys : /\ Committed(k)' => Committed(k)
                             /\ k \notin walk[w].gone => (Has(k) => Has(k)') /\ (Committed(k) => Committed(k)')
                             /\ Expired(k)' => Expired(k)
  <2>1. \A k \in Keys : entries'[k] = IF k \in walk[w].gone THEN NoEntry ELSE entries[k]
    BY <1>4 DEF PruneDelete
  <2>. QED
    BY <1>0, <2>1 DEF Has, Committed, Expired, NoEntry
<1>5. ASSUME NEW r \in Renamers, RenameApply(r)
      PROVE  \A k \in Keys : entries'[k].phase = entries[k].phase
  <2>1. \A k \in Keys : [entries[k] EXCEPT !.name = ren[r].new].phase = entries[k].phase
    BY <1>0 DEF Entry, NoEntry
  <2>2. \A k \in Keys : entries'[k] \in {entries[k], [entries[k] EXCEPT !.name = ren[r].new]}
    BY <1>0, <1>5 DEF RenameApply
  <2>. QED
    BY <2>1, <2>2
<1>6. ASSUME NEW i \in Keys, Expire(i)
      PROVE  \A k \in Keys : /\ Committed(k)' => Committed(k)
                             /\ Has(k) => Has(k)'
                             /\ Committed(k) => Committed(k)'
                             /\ Expired(k)' => Expired(k) \/ k = i
  <2>1. \A k \in Keys : k # i => entries'[k] = entries[k]
    BY <1>0, <1>6 DEF Expire
  <2>2. [entries[i] EXCEPT !.phase = "expired"].phase = "expired"
    BY <1>0, <1>6 DEF Expire, Entry, NoEntry
  <2>3. entries'[i].phase = "expired" /\ entries[i].phase = "reserved"
    BY <1>0, <1>6, <2>2 DEF Expire
  <2>. QED
    BY <2>1, <2>3 DEF Has, Committed, Expired
<1>7. CASE \E r \in Renamers : RenameApply(r)
  BY <1>0, <1>5, <1>7 DEF Has, Committed, Expired
<1>. QED
  BY <1>1, <1>2, <1>3, <1>4, <1>6, <1>7, EntryWriters

\* A header is about to be stored because it was so before, or has just
\* been read from a file that was there.
LEMMA StoreMoves ==
  ASSUME TInv, [Next]_vars, NEW w \in Walkers, walk'[w].at = "store"
  PROVE  \/ walk[w].at = "store" /\ walk'[w].cur = walk[w].cur
         \/ walk'[w].cur \subseteq files
<1>0. walk \in [Walkers -> WalkState] /\ \A v \in Walkers : walk[v] \in WalkState
  BY DEF TInv, TypeOK
<1>1. CASE UNCHANGED walk
  BY <1>1
<1>2. ASSUME NEW v \in Walkers, WalkBegin(v) \/ WalkStep(v), v # w, ~PruneDelete(v)
      PROVE  walk'[w] = walk[w]
  BY <1>0, <1>2 DEF WalkStep, WalkBegin, WalkReadDir, WalkSkipDir, WalkStat, WalkLookup, WalkRead,
     WalkCommit, WalkFresh, WalkOrphan, WalkUnreadable, Observe, PruneCollect, PruneAbsent, PruneKeep
<1>3. ASSUME NEW v \in Walkers, PruneDelete(v)
      PROVE  walk'[w] = walk[w]
  <2>1. walk'[w] = IF w = v THEN NoWalk
                   ELSE IF walk[w].at \in {"header", "store"} /\ walk[w].cur \cap walk[v].gone # {}
                     THEN [walk[w] EXCEPT !.at = IF walk[w].at = "header" THEN "orphan" ELSE "lost"]
                     ELSE walk[w]
    BY <1>3 DEF PruneDelete
  <2>2. \A a \in {"orphan", "lost"} : [walk[w] EXCEPT !.at = a].at = a
    BY <1>0 DEF WalkState
  <2>. QED
    BY <2>1, <2>2 DEF NoWalk
<1>4. CASE WalkRead(w)
  BY <1>0, <1>4 DEF WalkRead, WalkState
<1>5. CASE WalkBegin(w)
  <2>1. walk'[w].at = "scan"
    BY <1>0, <1>5 DEF WalkBegin, NoWalk
  <2>. QED
    BY <2>1
<1>5b. CASE WalkLookup(w)
  <2>1. walk'[w].at \in {"header", "scan"}
    BY <1>0, <1>5b DEF WalkLookup, WalkState
  <2>. QED
    BY <2>1
<1>5a. CASE WalkStat(w)
  <2>1. PICK k \in walk[w].todo : walk' = [walk EXCEPT ![w] =
          IF k \in files
            THEN [walk[w] EXCEPT !.at = "lookup", !.cur = {k}, !.todo = walk[w].todo \ {k}]
            ELSE [walk[w] EXCEPT !.todo = walk[w].todo \ {k}]]
    BY <1>5a DEF WalkStat
  <2>2. walk'[w].at \in {"scan", "lookup"}
    BY <1>0, <1>5a, <2>1 DEF WalkState, WalkStat
  <2>. QED
    BY <2>2
<1>6. CASE WalkReadDir(w) \/ WalkSkipDir(w)
  <2>1. walk[w].at = "scan"
    BY <1>6 DEF WalkReadDir, WalkSkipDir
  <2>2. ASSUME NEW D, NEW T, walk' = [walk EXCEPT ![w] = [walk[w] EXCEPT !.dirs = D, !.todo = T]]
        PROVE  walk'[w].at = walk[w].at
    BY <1>0, <2>2 DEF WalkState
  <2>3. ASSUME NEW D, walk' = [walk EXCEPT ![w] = [walk[w] EXCEPT !.dirs = D]]
        PROVE  walk'[w].at = walk[w].at
    BY <1>0, <2>3 DEF WalkState
  <2>. QED
    BY <1>6, <2>1, <2>2, <2>3 DEF WalkReadDir, WalkSkipDir
<1>7. CASE WalkCommit(w) \/ WalkFresh(w) \/ WalkOrphan(w) \/ WalkUnreadable(w)
  <2>1. walk' = [walk EXCEPT ![w] = [walk[w] EXCEPT !.at = "scan",
                   !.observed = walk[w].observed \cup walk[w].cur, !.cur = {}]]
        \/ walk' = [walk EXCEPT ![w] = [walk[w] EXCEPT !.at = "scan", !.cur = {}]]
    BY <1>7 DEF WalkCommit, WalkFresh, WalkOrphan, WalkUnreadable, Observe
  <2>2. walk'[w].at = "scan"
    BY <1>0, <2>1 DEF WalkState
  <2>. QED
    BY <2>2
<1>8. CASE PruneCollect(w) \/ PruneAbsent(w) \/ PruneKeep(w)
  <2>1. CASE PruneCollect(w)
    BY <1>0, <2>1 DEF PruneCollect, WalkState
  <2>2. CASE PruneAbsent(w)
    BY <1>0, <2>2 DEF PruneAbsent, WalkState
  <2>3. CASE PruneKeep(w)
    BY <1>0, <2>3 DEF PruneKeep, WalkState
  <2>. QED
    BY <1>8, <2>1, <2>2, <2>3
<1>9. \/ UNCHANGED walk
      \/ \E v \in Walkers : WalkBegin(v) \/ WalkStep(v)
  BY DEF vars, Next, PlanStep, Mass, PlanBegin, PlanDest, PlanStat, PlanReserve, PlanRefused,
     PlanDelivered, PlanDropped, RenameLookup, RenameApply, PlanDelete, Land, DownloadFails,
     Remove, Expire
<1>. QED
  BY <1>1, <1>2, <1>3, <1>4, <1>5, <1>5a, <1>5b, <1>6, <1>7, <1>8, <1>9 DEF WalkStep

\* What a step does to the files, and when it begins something.
LEMMA FileStep ==
  ASSUME TInv, Orderly, [Next]_vars
  PROVE  /\ Calm => Calm' \/ \E n \in Names : PlanDelete(n)
         /\ Busy' /\ ~Busy => Calm
         /\ \A k \in Keys : k \in files' => k \in files \/ k \in flight
         /\ Settled => files \subseteq files'
         /\ MaxDeletes = 0 => \A n \in Names : ~PlanDelete(n)
<1>1. \/ UNCHANGED files
      \/ \E k \in Keys : Land(k) \/ Remove(k)
  BY DEF vars, Next, PlanStep, WalkStep, Mass, PlanBegin, PlanDest, PlanStat, PlanReserve,
     PlanRefused, PlanDelivered, PlanDropped, WalkBegin, WalkReadDir, WalkSkipDir, WalkStat,
     WalkLookup, WalkRead, WalkCommit, WalkFresh, WalkOrphan, WalkUnreadable, PruneCollect, PruneAbsent,
     PruneKeep, PruneDelete, RenameLookup, RenameApply, PlanDelete, DownloadFails, Expire
<1>2. \/ doomed' \subseteq doomed
      \/ \E n \in Names : PlanDelete(n)
  BY DEF vars, Next, PlanStep, WalkStep, Mass, PlanBegin, PlanDest, PlanStat, PlanReserve,
     PlanRefused, PlanDelivered, PlanDropped, WalkBegin, WalkReadDir, WalkSkipDir, WalkStat,
     WalkLookup, WalkRead, WalkCommit, WalkFresh, WalkOrphan, WalkUnreadable, PruneCollect, PruneAbsent,
     PruneKeep, PruneDelete, RenameLookup, RenameApply, Land, DownloadFails, Remove, Expire
<1>3. Busy' /\ ~Busy => Calm
  <2>. SUFFICES ASSUME Busy', ~Busy PROVE Calm
    OBVIOUS
  <2>1. plan \in [Planners -> PlanState]
    BY DEF TInv, TypeOK
  <2>2. \A p \in Planners : plan[p].at = "idle"
    BY DEF Busy, Planning
  <2>3. CASE \E p \in Planners, n \in Names, b \in Bases, c \in Bases \cup {NoBase} :
               PlanBegin(p, n, b, c)
    BY <2>3 DEF PlanBegin, Orderly, Calm
  <2>4. CASE UNCHANGED <<plan, flight>>
    BY <2>2, <2>4 DEF Busy, Planning
  <2>5. CASE \E p \in Planners : PlanStep(p)
    BY <2>2, <2>5 DEF PlanStep, PlanDest, PlanStat, PlanReserve, PlanRefused, PlanDelivered,
       PlanDropped
  <2>6. CASE \E k \in Keys : Land(k) \/ DownloadFails(k)
    BY <2>6 DEF Land, DownloadFails, Busy
  <2>. QED
    BY <2>3, <2>4, <2>5, <2>6 DEF vars, Next, WalkStep, Mass, WalkBegin, WalkReadDir, WalkSkipDir,
       WalkStat, WalkLookup, WalkRead, WalkCommit, WalkFresh, WalkOrphan, WalkUnreadable, PruneCollect,
       PruneAbsent, PruneKeep, PruneDelete, RenameLookup, RenameApply, PlanDelete, Remove, Expire
<1>4. Settled => \A k \in Keys : ~Remove(k)
  BY DEF Settled, Remove
<1>5. \A k \in Keys : Land(k) => k \in flight /\ files' = files \cup {k}
  BY DEF Land
<1>6. \A k \in Keys : Remove(k) => files' \subseteq files
  BY DEF Remove
<1>7. Calm => Calm' \/ \E n \in Names : PlanDelete(n)
  <2>. SUFFICES ASSUME Calm, \A n \in Names : ~PlanDelete(n)
                PROVE  Calm'
    OBVIOUS
  <2>1. files \subseteq files'
    BY <1>1, <1>4, <1>5 DEF Calm
  <2>2. Settled'
    BY <1>2, <2>1, PhaseStep DEF Calm, Settled, HeldPresent, Stored
  <2>3. HeldPresent'
    BY <2>1, StoreMoves DEF Calm, HeldPresent
  <2>. QED
    BY <2>2, <2>3 DEF Calm
<1>8. MaxDeletes = 0 => \A n \in Names : ~PlanDelete(n)
  BY DEF PlanDelete, TInv, TypeOK
<1>9. Settled => files \subseteq files'
  BY <1>1, <1>4, <1>5
<1>10. \A k \in Keys : k \in files' => k \in files \/ k \in flight
  BY <1>1, <1>5, <1>6
<1>. QED
  BY <1>3, <1>7, <1>8, <1>9, <1>10

LEMMA SettledStep ==
  ASSUME TInv, BusySettled, Orderly, [Next]_vars
  PROVE  BusySettled'
<1>1. ASSUME NEW n \in Names, PlanDelete(n)
      PROVE  ~Busy'
  BY <1>1 DEF PlanDelete, Orderly, Busy, Planning
<1>. QED
  BY <1>1, FileStep DEF BusySettled

\* What a step does to the prune of a walk.
LEMMA PruneMoves ==
  ASSUME TInv, GoneAbsent, [Next]_vars, NEW w \in Walkers
  PROVE  \/ walk'[w].at # "prune" /\ walk'[w].gone = {}
         \/ /\ walk'[w].at = walk[w].at /\ walk'[w].gone = walk[w].gone
            /\ walk'[w].cand \subseteq walk[w].cand
         \/ /\ walk'[w].at = "prune" /\ walk'[w].gone = {} /\ UNCHANGED <<entries, files>>
            /\ \A k \in walk'[w].cand : k \in Keys /\ Prunable(k)
         \/ /\ walk[w].at = "prune" /\ walk'[w].at = "prune" /\ UNCHANGED <<entries, files>>
            /\ walk'[w].cand \subseteq walk[w].cand
            /\ \E k \in walk[w].cand : k \notin files /\ walk'[w].gone = walk[w].gone \cup {k}
<1>0. /\ walk \in [Walkers -> WalkState] /\ \A v \in Walkers : walk[v] \in WalkState
      /\ walk[w].at # "prune" => walk[w].gone = {}
  BY DEF TInv, TypeOK, GoneAbsent
<1>1. CASE UNCHANGED walk
  BY <1>1
<1>2. ASSUME NEW v \in Walkers, WalkBegin(v) \/ WalkStep(v), v # w, ~PruneDelete(v)
      PROVE  walk'[w] = walk[w]
  BY <1>0, <1>2 DEF WalkStep, WalkBegin, WalkReadDir, WalkSkipDir, WalkStat, WalkLookup, WalkRead,
     WalkCommit, WalkFresh, WalkOrphan, WalkUnreadable, Observe, PruneCollect, PruneAbsent, PruneKeep
<1>3. ASSUME NEW v \in Walkers, PruneDelete(v)
      PROVE  \/ walk'[w].at # "prune" /\ walk'[w].gone = {}
             \/ walk'[w] = walk[w]
  <2>1. walk'[w] = IF w = v THEN NoWalk
                   ELSE IF walk[w].at \in {"header", "store"} /\ walk[w].cur \cap walk[v].gone # {}
                     THEN [walk[w] EXCEPT !.at = IF walk[w].at = "header" THEN "orphan" ELSE "lost"]
                     ELSE walk[w]
    BY <1>3 DEF PruneDelete
  <2>2. CASE w # v /\ walk[w].at \in {"header", "store"}
    <3>1. \A a \in {"orphan", "lost"} :
            [walk[w] EXCEPT !.at = a].gone = walk[w].gone /\ [walk[w] EXCEPT !.at = a].at = a
      BY <1>0 DEF WalkState
    <3>. QED
      BY <1>0, <2>1, <2>2, <3>1
  <2>3. CASE w # v /\ walk[w].at \notin {"header", "store"}
    BY <2>1, <2>3
  <2>4. CASE w = v
    BY <2>1, <2>4 DEF NoWalk
  <2>. QED
    BY <2>2, <2>3, <2>4
<1>4. CASE WalkBegin(w)
  BY <1>0, <1>4 DEF WalkBegin, NoWalk
<1>5. CASE WalkReadDir(w) \/ WalkSkipDir(w)
  <2>1. walk[w].at = "scan"
    BY <1>5 DEF WalkReadDir, WalkSkipDir
  <2>2. PICK D, T : walk' = [walk EXCEPT ![w] = [walk[w] EXCEPT !.dirs = D, !.todo = T]]
                    \/ walk' = [walk EXCEPT ![w] = [walk[w] EXCEPT !.dirs = D]]
    BY <1>5 DEF WalkReadDir, WalkSkipDir
  <2>. DEFINE q == [walk[w] EXCEPT !.dirs = D, !.todo = T]
              r == [walk[w] EXCEPT !.dirs = D]
  <2>3. q.at = walk[w].at /\ q.gone = walk[w].gone /\ r.at = walk[w].at /\ r.gone = walk[w].gone
    BY <1>0 DEF WalkState
  <2>4. walk' = [walk EXCEPT ![w] = q] \/ walk' = [walk EXCEPT ![w] = r]
    BY <2>2
  <2>. HIDE DEF q, r
  <2>5. walk'[w].at = walk[w].at /\ walk'[w].gone = walk[w].gone
    BY <1>0, <2>3, <2>4
  <2>. QED
    BY <1>0, <2>1, <2>5
<1>6. CASE WalkStat(w) \/ WalkLookup(w)
  <2>1. walk[w].at \in {"scan", "lookup"}
    BY <1>6 DEF WalkStat, WalkLookup
  <2>2. CASE WalkStat(w)
    <3>1. PICK k \in walk[w].todo : walk' = [walk EXCEPT ![w] =
            IF k \in files
              THEN [walk[w] EXCEPT !.at = "lookup", !.cur = {k}, !.todo = walk[w].todo \ {k}]
              ELSE [walk[w] EXCEPT !.todo = walk[w].todo \ {k}]]
      BY <2>2 DEF WalkStat
    <3>2. walk'[w].at \in {"scan", "lookup"} /\ walk'[w].gone = walk[w].gone
      BY <1>0, <2>2, <3>1 DEF WalkState, WalkStat
    <3>. QED
      BY <1>0, <2>1, <3>2
  <2>3. CASE WalkLookup(w)
    <3>1. walk'[w].at \in {"scan", "header"} /\ walk'[w].gone = walk[w].gone
      BY <1>0, <2>3 DEF WalkState, WalkLookup
    <3>. QED
      BY <1>0, <2>1, <3>1
  <2>. QED
    BY <1>6, <2>2, <2>3
<1>6a. CASE WalkRead(w)
  BY <1>0, <1>6a DEF WalkRead, WalkState
<1>7. CASE WalkCommit(w) \/ WalkFresh(w) \/ WalkOrphan(w) \/ WalkUnreadable(w)
  <2>1. walk' = [walk EXCEPT ![w] = [walk[w] EXCEPT !.at = "scan",
                   !.observed = walk[w].observed \cup walk[w].cur, !.cur = {}]]
        \/ walk' = [walk EXCEPT ![w] = [walk[w] EXCEPT !.at = "scan", !.cur = {}]]
    BY <1>7 DEF WalkCommit, WalkFresh, WalkOrphan, WalkUnreadable, Observe
  <2>2. walk[w].at \in {"header", "store", "orphan", "lost"}
    BY <1>7 DEF WalkCommit, WalkFresh, WalkOrphan, WalkUnreadable
  <2>3. LET q == [walk[w] EXCEPT !.at = "scan", !.observed = walk[w].observed \cup walk[w].cur, !.cur = {}]
            r == [walk[w] EXCEPT !.at = "scan", !.cur = {}]
        IN  q.at = "scan" /\ q.gone = walk[w].gone /\ r.at = "scan" /\ r.gone = walk[w].gone
    BY <1>0 DEF WalkState
  <2>4. walk'[w].at = "scan" /\ walk'[w].gone = walk[w].gone
    BY <1>0, <2>1, <2>3
  <2>. QED
    BY <1>0, <2>2, <2>4
<1>8. CASE PruneCollect(w)
  BY <1>0, <1>8 DEF PruneCollect, WalkState
<1>9. CASE PruneAbsent(w)
  BY <1>0, <1>9 DEF PruneAbsent, StatAbsent, WalkState
<1>10. CASE PruneKeep(w)
  BY <1>0, <1>10 DEF PruneKeep, WalkState, PruneDelete
<1>11. \/ UNCHANGED walk
       \/ \E v \in Walkers : WalkBegin(v) \/ WalkStep(v)
  BY DEF vars, Next, PlanStep, Mass, PlanBegin, PlanDest, PlanStat, PlanReserve, PlanRefused,
     PlanDelivered, PlanDropped, RenameLookup, RenameApply, PlanDelete, Land, DownloadFails,
     Remove, Expire
<1>. QED
  BY <1>1, <1>2, <1>3, <1>4, <1>5, <1>6, <1>6a, <1>7, <1>8, <1>9, <1>10, <1>11 DEF WalkStep

\* What a step does to a plan and to what is in flight.
LEMMA PlanMoves ==
  ASSUME TInv, [Next]_vars
  PROVE  /\ \A p \in Planners :
              \/ PlanReserve(p)
              \/ plan'[p].out = {} /\ plan'[p].dest = {} /\ plan'[p].at \in {"idle", "dest"}
              \/ /\ PlanDest(p) /\ plan'[p].at = "stat"
                 /\ plan'[p].out = plan[p].out /\ plan'[p].name = plan[p].name
              \/ /\ plan'[p].out = plan[p].out /\ plan'[p].name = plan[p].name
                 /\ plan'[p].dest = plan[p].dest
                 /\ \/ plan'[p].at = plan[p].at
                    \/ plan[p].at = "stat" /\ plan'[p].at \in {"reserve", "occupied"}
         /\ \A k \in flight' : k \in flight \/ \E p \in Planners : k \in plan[p].out
<1>0. plan \in [Planners -> PlanState] /\ \A q \in Planners : plan[q] \in PlanState
  BY DEF TInv, TypeOK
<1>1. CASE UNCHANGED <<plan, flight>>
  BY <1>1
<1>2. ASSUME NEW p \in Planners, NEW n \in Names, NEW b \in Bases, NEW c \in Bases \cup {NoBase},
             PlanBegin(p, n, b, c)
      PROVE  /\ plan'[p].out = {} /\ plan'[p].dest = {} /\ plan'[p].at = "dest"
             /\ \A q \in Planners \ {p} : plan'[q] = plan[q]
             /\ UNCHANGED flight
  BY <1>0, <1>2 DEF PlanBegin, NoPlan
<1>3. ASSUME NEW p \in Planners, PlanReserve(p)
      PROVE  UNCHANGED flight /\ \A q \in Planners \ {p} : plan'[q] = plan[q]
  BY <1>0, <1>3 DEF PlanReserve
<1>4. ASSUME NEW p \in Planners, PlanDest(p)
      PROVE  /\ UNCHANGED flight /\ \A q \in Planners \ {p} : plan'[q] = plan[q]
             /\ plan'[p].out = plan[p].out /\ plan'[p].name = plan[p].name /\ plan'[p].at = "stat"
  BY <1>0, <1>4 DEF PlanDest, PlanState
<1>5. ASSUME NEW p \in Planners, PlanStat(p)
      PROVE  /\ UNCHANGED flight /\ \A q \in Planners \ {p} : plan'[q] = plan[q]
             /\ plan'[p].out = plan[p].out /\ plan'[p].name = plan[p].name
             /\ plan'[p].dest = plan[p].dest /\ plan[p].at = "stat"
             /\ plan'[p].at \in {"reserve", "occupied"}
  BY <1>0, <1>5 DEF PlanStat, PlanState
<1>6. ASSUME NEW p \in Planners, PlanRefused(p) \/ PlanDelivered(p) \/ PlanDropped(p)
      PROVE  /\ flight' = flight \/ flight' = flight \cup plan[p].out
             /\ \A q \in Planners \ {p} : plan'[q] = plan[q]
             /\ plan'[p].out = {} /\ plan'[p].dest = {} /\ plan'[p].at = "idle"
  BY <1>0, <1>6 DEF PlanRefused, PlanDelivered, PlanDropped, NoPlan
<1>7. ASSUME NEW k \in Keys, Land(k) \/ DownloadFails(k)
      PROVE  UNCHANGED plan /\ flight' \subseteq flight
  BY <1>7 DEF Land, DownloadFails
<1>8. \/ UNCHANGED <<plan, flight>>
      \/ \E p \in Planners, n \in Names, b \in Bases, c \in Bases \cup {NoBase} : PlanBegin(p, n, b, c)
      \/ \E p \in Planners : PlanStep(p)
      \/ \E k \in Keys : Land(k) \/ DownloadFails(k)
  BY DEF vars, Next, WalkStep, Mass, WalkBegin, WalkReadDir, WalkSkipDir,
       WalkStat, WalkLookup, WalkRead, WalkCommit, WalkFresh, WalkOrphan, WalkUnreadable, PruneCollect,
       PruneAbsent, PruneKeep, PruneDelete, RenameLookup, RenameApply, PlanDelete, Remove, Expire
<1>9. CASE \E p \in Planners, n \in Names, b \in Bases, c \in Bases \cup {NoBase} : PlanBegin(p, n, b, c)
  BY <1>2, <1>9
<1>10. CASE \E p \in Planners : PlanStep(p)
  BY <1>3, <1>4, <1>5, <1>6, <1>10 DEF PlanStep
<1>11. CASE \E k \in Keys : Land(k) \/ DownloadFails(k)
  BY <1>7, <1>11
<1>. QED
  BY <1>1, <1>8, <1>9, <1>10, <1>11

\* What a reservation does.
LEMMA ReserveFields ==
  ASSUME TInv, NEW p \in Planners, PlanReserve(p)
  PROVE  \E k \in plan[p].dest :
           /\ k \in Keys /\ Reservable(plan[p].name, k)
           /\ Has(k)' /\ ~Expired(k)' /\ entries'[k].name = plan[p].name
           /\ \A j \in Keys \ {k} : entries'[j] = entries[j]
           /\ plan'[p].out = plan[p].out \cup {k} /\ plan'[p].dest = {}
           /\ plan'[p].name = plan[p].name
           /\ plan'[p].at # "idle" /\ plan[p].at # "idle"
           /\ \A q \in Planners \ {p} : plan'[q] = plan[q]
<1>0. plan \in [Planners -> PlanState] /\ plan[p] \in PlanState /\ entries \in [Keys -> Entry]
  BY DEF TInv, TypeOK
<1>1. PICK k \in plan[p].dest :
        /\ Reservable(plan[p].name, k)
        /\ entries' = [entries EXCEPT ![k] = Stamped(plan[p].name, k)]
        /\ plan' = [plan EXCEPT ![p] = [plan[p] EXCEPT
             !.at = IF plan[p].companion = NoBase THEN "deliver" ELSE "dest",
             !.base = plan[p].companion, !.companion = NoBase,
             !.dest = {}, !.out = plan[p].out \cup {k}]]
  BY DEF PlanReserve
<1>2. k \in Keys
  BY <1>0, PlanFields
<1>3. /\ entries'[k].name = plan[p].name /\ Has(k)' /\ ~Expired(k)'
      /\ \A j \in Keys \ {k} : entries'[j] = entries[j]
  BY <1>0, <1>1, <1>2 DEF Stamped, Has, Expired
<1>. DEFINE s == [plan[p] EXCEPT
             !.at = IF plan[p].companion = NoBase THEN "deliver" ELSE "dest",
             !.base = plan[p].companion, !.companion = NoBase,
             !.dest = {}, !.out = plan[p].out \cup {k}]
<1>4. s.out = plan[p].out \cup {k} /\ s.dest = {} /\ s.name = plan[p].name /\ s.at # "idle"
  BY <1>0 DEF PlanState
<1>5. plan' = [plan EXCEPT ![p] = s]
  BY <1>1
<1>. HIDE DEF s
<1>6. plan'[p] = s /\ \A q \in Planners \ {p} : plan'[q] = plan[q]
  BY <1>0, <1>5
<1>7. plan[p].at # "idle"
  BY DEF PlanReserve
<1>. QED
  BY <1>1, <1>2, <1>3, <1>4, <1>6, <1>7

\* What is planned or in flight was so before, or has just been reserved.
LEMMA OwedMoves ==
  ASSUME TInv, [Next]_vars, NEW k \in Keys, Owed(k)'
  PROVE  \/ Owed(k)
         \/ \E p \in Planners : PlanReserve(p) /\ k \in plan[p].dest /\ Has(k)' /\ ~Expired(k)'
<1>1. CASE k \in flight'
  BY <1>1, PlanMoves DEF Owed
<1>2. ASSUME NEW p \in Planners, k \in plan'[p].out, ~PlanReserve(p)
      PROVE  Owed(k)
  <2>1. k \in plan[p].out
    BY <1>2, PlanMoves
  <2>. QED
    BY <2>1 DEF Owed
<1>3. ASSUME NEW p \in Planners, k \in plan'[p].out, PlanReserve(p)
      PROVE  Owed(k) \/ (k \in plan[p].dest /\ Has(k)' /\ ~Expired(k)')
  <2>1. PICK i \in plan[p].dest : Has(i)' /\ ~Expired(i)' /\ plan'[p].out = plan[p].out \cup {i}
    BY <1>3, ReserveFields
  <2>. QED
    BY <1>3, <2>1 DEF Owed
<1>. QED
  BY <1>1, <1>2, <1>3 DEF Owed

LEMMA PlannedBusyStep ==
  ASSUME TInv, PlannedBusy, [Next]_vars
  PROVE  PlannedBusy'
<1>. SUFFICES ASSUME NEW p \in Planners, plan'[p].out # {} PROVE plan'[p].at # "idle"
  BY DEF PlannedBusy
<1>1. CASE PlanReserve(p)
  BY <1>1, ReserveFields
<1>2. CASE ~PlanReserve(p)
  BY <1>2, PlanMoves DEF PlannedBusy
<1>. QED
  BY <1>1, <1>2

\* What is planned or in flight is not lost.
LEMMA OwedStep ==
  ASSUME WInv, Orderly, [Next]_vars
  PROVE  OwedHeld'
<1>. SUFFICES ASSUME NEW k \in Keys, Owed(k), ~(Has(k)' /\ ~Expired(k)')
              PROVE  FALSE
  BY OwedMoves DEF OwedHeld, WInv
<1>1. Has(k) /\ ~Expired(k)
  BY DEF WInv, OwedHeld
<1>2. ASSUME NEW w \in Walkers, PruneDelete(w), k \in walk[w].gone
      PROVE  FALSE
  BY <1>2 DEF PruneDelete, WInv, GoneAbsent
<1>3. ~Expire(k)
  <2>1. ASSUME MaxExpiries = 0 PROVE ~Expire(k)
    BY <2>1 DEF WInv, TInv, TypeOK, Expire
  <2>. QED
    BY <2>1 DEF Expire, Orderly, Owed
<1>. QED
  BY <1>1, <1>2, <1>3, PhaseStep DEF WInv

LEMMA GoneStep ==
  ASSUME WInv, Orderly, [Next]_vars, UNCHANGED vars \/ ReservesApart
  PROVE  GoneAbsent'
<1>. SUFFICES ASSUME NEW w \in Walkers
              PROVE  IF walk'[w].at = "prune"
                       THEN /\ walk'[w].gone \cap files' = {}
                            /\ \A k \in Keys : Owed(k)' =>
                                 k \notin walk'[w].gone \cup (walk'[w].cand \ files')
                       ELSE walk'[w].gone = {}
  BY DEF GoneAbsent
<1>0. /\ TInv /\ GoneAbsent /\ PlannedBusy
      /\ walk[w].gone \subseteq Keys /\ walk[w].cand \subseteq Keys /\ files \subseteq Keys
  BY DEF WInv, TInv, TypeOK, WalkState
<1>1. walk'[w].at # "prune" => walk'[w].gone = {}
  BY <1>0, PruneMoves DEF GoneAbsent
<1>2. ASSUME NEW k \in Keys, Owed(k)
      PROVE  /\ k \in files => k \in files'
             /\ Committed(k) => k \in files
             /\ Has(k) /\ ~Expired(k)
  <2>1. Calm
    BY <1>0, <1>2, OwedIsBusy DEF WInv, BusySettled
  <2>. QED
    BY <1>0, <1>2, <2>1, FileStep DEF Calm, Settled, WInv, OwedHeld
<1>3. ASSUME walk'[w].at = "prune", NEW k \in walk'[w].gone, k \in files'
      PROVE  FALSE
  <2>1. CASE UNCHANGED files
    BY <1>0, <1>3, <2>1, PruneMoves DEF GoneAbsent
  <2>2. CASE files' # files
    <3>1. k \in walk[w].gone /\ walk[w].at = "prune"
      BY <1>0, <1>3, <2>2, PruneMoves
    <3>2. k \in Keys /\ ~Owed(k) /\ k \notin files
      BY <1>0, <3>1 DEF GoneAbsent
    <3>. QED
      BY <1>0, <1>3, <3>2, FileStep DEF Owed
  <2>. QED
    BY <2>1, <2>2
<1>4. ASSUME walk'[w].at = "prune", NEW k \in Keys, Owed(k)',
             k \in walk'[w].gone \cup (walk'[w].cand \ files')
      PROVE  FALSE
  <2>1. ASSUME NEW p \in Planners, PlanReserve(p), k \in plan[p].dest
        PROVE  FALSE
    <3>1. UNCHANGED <<walk, files>>
      BY <2>1 DEF PlanReserve
    <3>2. ~UNCHANGED plan
      <4>1. k \in plan[p].dest /\ plan'[p].dest = {}
        BY <1>0, <2>1, ReserveFields
      <4>. QED
        BY <4>1
    <3>. QED
      BY <1>4, <2>1, <3>1, <3>2 DEF ReservesApart, vars
  <2>2. CASE Owed(k)
    <3>1. CASE /\ walk'[w].at = walk[w].at /\ walk'[w].gone = walk[w].gone
               /\ walk'[w].cand \subseteq walk[w].cand
      BY <1>0, <1>2, <1>4, <2>2, <3>1 DEF GoneAbsent
    <3>2. CASE /\ walk'[w].gone = {} /\ UNCHANGED <<entries, files>>
               /\ \A i \in walk'[w].cand : i \in Keys /\ Prunable(i)
      BY <1>2, <1>4, <2>2, <3>2 DEF Prunable
    <3>3. CASE /\ walk[w].at = "prune" /\ UNCHANGED <<entries, files>>
               /\ walk'[w].cand \subseteq walk[w].cand
               /\ \E i \in walk[w].cand : i \notin files /\ walk'[w].gone = walk[w].gone \cup {i}
      BY <1>0, <1>4, <2>2, <3>3 DEF GoneAbsent
    <3>. QED
      BY <1>0, <1>4, <3>1, <3>2, <3>3, PruneMoves
  <2>. QED
    BY <1>0, <1>4, <2>1, <2>2, OwedMoves
<1>. QED
  BY <1>1, <1>3, <1>4

LEMMA ApartStep ==
  ASSUME WInv, Orderly, [Next]_vars, UNCHANGED vars \/ ReservesApart
  PROVE  WInv'
BY TypeStep, SettledStep, PlannedBusyStep, OwedStep, GoneStep DEF WInv

LEMMA ApartInit == Init => WInv
<1> SUFFICES ASSUME Init PROVE WInv
  OBVIOUS
<1>1. \A k \in Keys : entries[k].phase = "none"
  BY DEF Init, NoEntry
<1>2. BusySettled /\ PlannedBusy /\ OwedHeld /\ GoneAbsent
  BY <1>1 DEF Init, BusySettled, Calm, Settled, HeldPresent, Committed, PlannedBusy, OwedHeld, Owed, GoneAbsent,
     NoWalk, NoPlan
<1>. QED
  BY <1>2, TypeInit DEF WInv

LEMMA ApartAlways == Orderly => (ApartSpec => []WInv)
<1> SUFFICES ASSUME Orderly PROVE ApartSpec => []WInv
  OBVIOUS
<1>1. Init => WInv
  BY ApartInit
<1>2. WInv /\ [Next /\ ReservesApart]_vars => WInv'
  BY ApartStep
<1>. QED
  BY <1>1, <1>2, PTL DEF ApartSpec

\* What a walk may cost, if nobody plans a file between a prune's stat of it
\* and the deletion (pruneAbsent): no download in flight ever loses its
\* entry, however walks overlap, reading fails and reservations expire.
THEOREM FlightKeptApart == Orderly => (ApartSpec => []FlightCatalogued)
<1> SUFFICES ASSUME Orderly PROVE ApartSpec => []FlightCatalogued
  OBVIOUS
<1>1. WInv => FlightCatalogued
  BY DEF WInv, TInv, TypeOK, OwedHeld, Owed, FlightCatalogued
<1>2. ApartSpec => []WInv
  BY ApartAlways
<1>. QED
  BY <1>1, <1>2, PTL

\* Nor does a file that is there ever lose its entry: what pruneAbsent
\* deletes has no file, and gets none between the stat and the deletion.
THEOREM PresentKeptApart == Orderly => (ApartSpec => PresentFileKeepsEntry)
<1> SUFFICES ASSUME Orderly PROVE ApartSpec => PresentFileKeepsEntry
  OBVIOUS
<1>1. ASSUME WInv, [Next]_vars, NEW k \in files \cap files', Has(k)
      PROVE  Has(k)'
  <2>1. k \in Keys
    BY <1>1 DEF WInv, TInv, TypeOK
  <2>2. \A w \in Walkers : k \notin walk[w].gone
    BY <1>1 DEF WInv, GoneAbsent
  <2>. QED
    BY <1>1, <2>1, <2>2, PhaseStep DEF WInv
<1>2. WInv /\ [Next /\ ReservesApart]_vars => [\A k \in files \cap files' : Has(k) => Has(k)']_vars
  BY <1>1
<1>3. ApartSpec => []WInv
  BY ApartAlways
<1>. QED
  BY <1>2, <1>3, PTL DEF ApartSpec, PresentFileKeepsEntry

------------------------------------------------------------------------------
(***************************************************************************)
(* Use that keeps reservations and prunes apart.  If no reservation        *)
(* expires, and walks do not overlap unless nothing is ever deleted, then  *)
(* what a prune has collected is committed, so that all of it is there     *)
(* when something is planned.                                              *)
(***************************************************************************)
OneWalkAtATime == \A v, w \in Walkers : v = w

OrderlyInstalls ==
  /\ "delete" \notin Overlap /\ "held" \notin Overlap
  /\ MaxExpiries = 0
  /\ MaxDeletes = 0 \/ OneWalkAtATime

NoneExpired == \A k \in Keys : ~Expired(k)
NeverDeleted == MaxDeletes = 0 => Calm
PrunesCommitted ==
  \A w \in Walkers : walk[w].at = "prune" => \A k \in walk[w].cand \cup walk[w].gone : Committed(k)

OInv == WInv /\ NoneExpired /\ NeverDeleted /\ PrunesCommitted

LEMMA NothingGone ==
  ASSUME OInv, Busy \/ MaxDeletes = 0, NEW w \in Walkers
  PROVE  walk[w].gone = {} /\ (walk[w].at = "prune" => walk[w].cand \subseteq files)
<1>1. walk[w].gone \subseteq Keys /\ walk[w].cand \subseteq Keys
  BY DEF OInv, WInv, TInv, TypeOK, WalkState
<1>2. Settled
  BY DEF OInv, WInv, BusySettled, NeverDeleted, Calm
<1>. QED
  BY <1>1, <1>2 DEF OInv, WInv, Settled, GoneAbsent, PrunesCommitted

LEMMA OrderlyApart ==
  ASSUME OInv
  PROVE  ReservesApart
<1>. SUFFICES ASSUME NEW p \in Planners, NEW w \in Walkers, PlanReserve(p), walk[w].at = "prune"
              PROVE  walk[w].gone \cup (walk[w].cand \ files) = {}
  BY DEF ReservesApart
<1>1. Busy
  BY DEF PlanReserve, Busy, Planning
<1>. QED
  BY <1>1, NothingGone

\* Nothing but a prune takes an entry, and none takes one that is still
\* there to be taken from another walk.
LEMMA GoneKept ==
  ASSUME OInv, OrderlyInstalls, [Next]_vars, NEW w \in Walkers, NEW k \in Keys, Committed(k),
         walk'[w].at = "prune"
  PROVE  Committed(k)'
<1>1. ASSUME NEW v \in Walkers, PruneDelete(v), k \in walk[v].gone
      PROVE  FALSE
  <2>1. MaxDeletes # 0
    BY <1>1, NothingGone
  <2>2. v = w
    BY <2>1 DEF OrderlyInstalls, OneWalkAtATime
  <2>. QED
    BY <1>1, <2>2 DEF PruneDelete, NoWalk
<1>. QED
  BY <1>1, PhaseStep DEF OInv, WInv

LEMMA PrunesStep ==
  ASSUME OInv, OrderlyInstalls, [Next]_vars
  PROVE  PrunesCommitted'
<1>. SUFFICES ASSUME NEW w \in Walkers, walk'[w].at = "prune",
                     NEW k \in walk'[w].cand \cup walk'[w].gone
              PROVE  Committed(k)'
  BY DEF PrunesCommitted, Committed
<1>1. walk[w].cand \subseteq Keys /\ walk[w].gone \subseteq Keys
  BY DEF OInv, WInv, TInv, TypeOK, WalkState
<1>2. k \in Keys /\ Committed(k)
  BY <1>1, PruneMoves DEF OInv, WInv, PrunesCommitted, Prunable, NoneExpired
<1>. QED
  BY <1>2, GoneKept

LEMMA OrderlyStep ==
  ASSUME OInv, OrderlyInstalls, [Next]_vars
  PROVE  OInv'
<1>0. Orderly /\ TInv
  BY DEF Orderly, OrderlyInstalls, OInv, WInv
<1>1. NoneExpired'
  <2>1. \A k \in Keys : ~Expire(k)
    BY <1>0 DEF OrderlyInstalls, TInv, TypeOK, Expire
  <2>. QED
    BY <1>0, <2>1, PhaseStep DEF OInv, NoneExpired
<1>2. NeverDeleted'
  BY <1>0, FileStep DEF OInv, NeverDeleted
<1>. QED
  BY <1>0, <1>1, <1>2, OrderlyApart, ApartStep, PrunesStep DEF OInv

LEMMA OrderlyInit == Init => OInv
<1> SUFFICES ASSUME Init PROVE OInv
  OBVIOUS
<1>1. \A k \in Keys : entries[k].phase = "none"
  BY DEF Init, NoEntry
<1>2. NoneExpired /\ NeverDeleted /\ PrunesCommitted
  BY <1>1 DEF Init, NoneExpired, Expired, NeverDeleted, Calm, Settled, HeldPresent,
     Committed, PrunesCommitted, NoWalk
<1>. QED
  BY <1>2, ApartInit DEF OInv

LEMMA OrderlyAlways == OrderlyInstalls => (Spec => []OInv)
<1> SUFFICES ASSUME OrderlyInstalls PROVE Spec => []OInv
  OBVIOUS
<1>1. Init => OInv
  BY OrderlyInit
<1>2. OInv /\ [Next]_vars => OInv'
  BY OrderlyStep
<1>. QED
  BY <1>1, <1>2, PTL DEF Spec

\* While something is planned or in flight no entry is lost at all.
LEMMA BusyKeepsEntries ==
  ASSUME OInv, [Next]_vars, Busy, NEW k \in Keys, Has(k)
  PROVE  Has(k)'
BY NothingGone, PhaseStep DEF OInv, WInv

\* So orderly use needs no second look.
THEOREM OrderlyIsApart == OrderlyInstalls => (Spec => ApartSpec)
<1> SUFFICES ASSUME OrderlyInstalls PROVE Spec => ApartSpec
  OBVIOUS
<1>1. OInv /\ [Next]_vars => [Next /\ ReservesApart]_vars
  BY OrderlyApart
<1>2. Spec => []OInv
  BY OrderlyAlways
<1>. QED
  BY <1>1, <1>2, PTL DEF Spec, ApartSpec

\* A download in flight never loses the entry it will be recognised by: no
\* walk, no prune, no rename and no other plan takes it, whatever reading
\* fails and however groups are renamed and merged meanwhile.
THEOREM FlightKeepsEntry == OrderlyInstalls => (Spec => []FlightCatalogued)
BY OrderlyIsApart, FlightKeptApart, PTL DEF OrderlyInstalls, Orderly

\* Listing, reading or stat failing on a file that is there never costs its
\* entry: what pruneAbsent deletes has no file, and gets none between the
\* stat, outside the lock, and the deletion.
THEOREM PresentFilesKept == OrderlyInstalls => (Spec => PresentFileKeepsEntry)
BY OrderlyIsApart, PresentKeptApart, PTL DEF OrderlyInstalls, Orderly

------------------------------------------------------------------------------
(***************************************************************************)
(* If moreover no group is renamed while an install is being planned, the  *)
(* files a plan has reserved stand under its Name until it is delivered.   *)
(***************************************************************************)
OrderlyPlans == Orderly /\ "rename" \notin Overlap

PlanOrRename == ~(Planning /\ Renaming)
BInv == WInv /\ PlanOrRename /\ BundleCatalogued

LEMMA ExclusiveStep ==
  ASSUME BInv, OrderlyPlans, [Next]_vars
  PROVE  PlanOrRename'
<1>0. plan \in [Planners -> PlanState] /\ ren \in [Renamers -> RenameState]
  BY DEF BInv, WInv, TInv, TypeOK
<1>1. ASSUME Planning', ~Planning
      PROVE  ~Renaming /\ UNCHANGED ren
  <2>1. \A p \in Planners : plan[p].at = "idle"
    BY <1>1 DEF Planning
  <2>2. \A p \in Planners : ~PlanStep(p)
    BY <2>1 DEF PlanStep, PlanDest, PlanStat, PlanReserve, PlanRefused, PlanDelivered, PlanDropped
  <2>3. CASE UNCHANGED plan
    BY <1>1, <2>3 DEF Planning
  <2>4. ASSUME NEW p \in Planners, NEW n \in Names, NEW b \in Bases, NEW c \in Bases \cup {NoBase},
               PlanBegin(p, n, b, c)
        PROVE  ~Renaming /\ UNCHANGED ren
    BY <2>4 DEF PlanBegin, OrderlyPlans
  <2>. QED
    BY <2>2, <2>3, <2>4 DEF vars, Next, WalkStep, Mass, WalkBegin, WalkReadDir, WalkSkipDir,
       WalkStat, WalkLookup, WalkRead, WalkCommit, WalkFresh, WalkOrphan, WalkUnreadable, PruneCollect,
       PruneAbsent, PruneKeep, PruneDelete, RenameLookup, RenameApply, PlanDelete, Land,
       DownloadFails, Remove, Expire
<1>2. ASSUME Renaming', ~Renaming
      PROVE  ~Planning /\ UNCHANGED plan
  <2>1. \A r \in Renamers : ren[r].at = "idle"
    BY <1>2 DEF Renaming
  <2>2. \A r \in Renamers : ~RenameApply(r)
    BY <2>1 DEF RenameApply
  <2>3. CASE UNCHANGED ren
    BY <1>2, <2>3 DEF Renaming
  <2>4. ASSUME NEW r \in Renamers, NEW m \in Names, NEW n \in Names, RenameLookup(r, m, n)
        PROVE  ~Planning /\ UNCHANGED plan
    BY <2>4 DEF RenameLookup, OrderlyPlans
  <2>. QED
    BY <2>2, <2>3, <2>4 DEF vars, Next, WalkStep, Mass, WalkBegin, WalkReadDir, WalkSkipDir,
       WalkStat, WalkLookup, WalkRead, WalkCommit, WalkFresh, WalkOrphan, WalkUnreadable, PruneCollect,
       PruneAbsent, PruneKeep, PruneDelete, PlanDelete, Land, DownloadFails, Remove, Expire,
       PlanBegin, PlanStep, PlanDest, PlanStat, PlanReserve, PlanRefused, PlanDelivered, PlanDropped
<1>. QED
  BY <1>1, <1>2 DEF BInv, PlanOrRename, Planning, Renaming

\* What happens to the Names while a plan is under way.
LEMMA PlanningNames ==
  ASSUME BInv, [Next]_vars, Planning
  PROVE  /\ \A r \in Renamers : ~RenameApply(r)
         /\ \A k \in Keys : Has(k) /\ Has(k)' => entries'[k].name = entries[k].name
         /\ \/ \E p \in Planners : PlanReserve(p)
            \/ \A k \in Keys : Has(k)' => Has(k)
<1>0. TInv
  BY DEF BInv, WInv
<1>1. \A r \in Renamers : ~RenameApply(r)
  BY DEF BInv, PlanOrRename, Renaming, RenameApply
<1>2. CASE NamesKept
  BY <1>1, <1>2 DEF NamesKept
<1>3. ASSUME NEW p \in Planners, PlanReserve(p)
      PROVE  \A k \in Keys : Has(k) => entries'[k].name = entries[k].name
  BY <1>0, <1>3, ReserveFields DEF Reservable
<1>. QED
  BY <1>0, <1>1, <1>2, <1>3, NameWriters

LEMMA BundleStep ==
  ASSUME BInv, OrderlyPlans, [Next]_vars, UNCHANGED vars \/ ReservesApart
  PROVE  BInv'
<1>0. TInv
  BY DEF BInv, WInv
<1>1. WInv'
  BY ApartStep DEF BInv, OrderlyPlans
<1>2. ASSUME NEW p \in Planners, NEW k \in plan'[p].out
      PROVE  entries'[k].name = plan'[p].name
  <2>0. plan[p].out \subseteq Keys
    BY <1>0 DEF TInv, TypeOK, PlanState
  <2>1. ASSUME k \in plan[p].out
        PROVE  entries'[k].name = plan[p].name
    <3>1. k \in Keys /\ Owed(k) /\ Owed(k)'
      BY <1>2, <2>0, <2>1 DEF Owed
    <3>2. Planning /\ Has(k) /\ Has(k)'
      BY <1>1, <2>1, <3>1 DEF BInv, WInv, OwedHeld, PlannedBusy, Planning
    <3>. QED
      BY <2>1, <3>1, <3>2, PlanningNames DEF BInv, BundleCatalogued
  <2>2. CASE PlanReserve(p)
    BY <1>0, <1>2, <2>1, <2>2, ReserveFields
  <2>3. CASE ~PlanReserve(p)
    BY <1>0, <1>2, <2>1, <2>3, PlanMoves
  <2>. QED
    BY <2>2, <2>3
<1>. QED
  BY <1>1, <1>2, ExclusiveStep DEF BInv, BundleCatalogued

LEMMA BundleInit == Init => BInv
<1> SUFFICES ASSUME Init PROVE BInv
  OBVIOUS
<1>1. PlanOrRename /\ BundleCatalogued
  BY DEF Init, NoPlan, NoRename, PlanOrRename, Planning, BundleCatalogued
<1>. QED
  BY <1>1, ApartInit DEF BInv

\* Primary and companion of one plan stay one group until MASS has the plan:
\* neither another plan nor a prune nor a rename takes one of the two away.
THEOREM BundlesKeptApart == OrderlyPlans => (ApartSpec => []BundleCatalogued)
<1> SUFFICES ASSUME OrderlyPlans PROVE ApartSpec => []BundleCatalogued
  OBVIOUS
<1>1. Init => BInv
  BY BundleInit
<1>2. BInv /\ [Next /\ ReservesApart]_vars => BInv'
  BY BundleStep
<1>3. BInv => BundleCatalogued
  BY DEF BInv
<1>. QED
  BY <1>1, <1>2, <1>3, PTL DEF ApartSpec

OrderlyNames == OrderlyInstalls /\ "rename" \notin Overlap

\* The same of orderly use.
THEOREM BundlesStayTogether == OrderlyNames => (Spec => []BundleCatalogued)
BY OrderlyIsApart, BundlesKeptApart, PTL DEF OrderlyNames, OrderlyPlans, OrderlyInstalls, Orderly

------------------------------------------------------------------------------
(***************************************************************************)
(* If moreover no rename takes another group's name, a group stays in one  *)
(* directory.  The destination of a plan is chosen under one lock and used *)
(* under a later one: it stays with its group in between.  Here it is not  *)
(* enough that reservations and prunes keep apart: a prune that takes the  *)
(* last, expired reservation of a renamed group sends the next plan of its *)
(* name elsewhere than the one whose destination is chosen already.        *)
(***************************************************************************)
OrderlyGroups == OrderlyNames /\ "merge" \notin Overlap

RenamesApart ==
  \A r \in Renamers : ren[r].at = "apply" =>
    /\ KeysOf(ren[r].new) = {}
    /\ \A q \in Renamers \ {r} : ren[q].new # ren[r].new
DestWithGroup ==
  \A p \in Planners : \A k \in plan[p].dest :
    /\ plan[p].at \in {"stat", "reserve", "occupied"}
    /\ \A j \in KeysOf(plan[p].name) : j[1] = k[1]
    /\ KeysOf(plan[p].name) = {} => k[1] = SlugOf[plan[p].name]

GInv == OInv /\ BInv /\ RenamesApart /\ DestWithGroup /\ GroupInOneDir

LEMMA RenameMoves ==
  ASSUME GInv, [Next]_vars, NEW q \in Renamers
  PROVE  \/ ren'[q] = ren[q]
         \/ ren'[q].at = "idle" /\ ren'[q].new = NoName
         \/ \E m, n \in Names : RenameLookup(q, m, n)
<1>0. ren \in [Renamers -> RenameState]
  BY DEF GInv, BInv, WInv, TInv, TypeOK
<1>1. CASE UNCHANGED ren
  BY <1>1
<1>2. ASSUME NEW r \in Renamers, RenameApply(r)
      PROVE  ren'[q] = ren[q] \/ (ren'[q].at = "idle" /\ ren'[q].new = NoName)
  BY <1>0, <1>2 DEF RenameApply, NoRename
<1>3. ASSUME NEW r \in Renamers, NEW m \in Names, NEW n \in Names, RenameLookup(r, m, n), r # q
      PROVE  ren'[q] = ren[q]
  BY <1>0, <1>3 DEF RenameLookup
<1>. QED
  BY <1>1, <1>2, <1>3 DEF vars, Next, WalkStep, Mass, WalkBegin, WalkReadDir, WalkSkipDir,
     WalkStat, WalkLookup, WalkRead, WalkCommit, WalkFresh, WalkOrphan, WalkUnreadable, PruneCollect,
     PruneAbsent, PruneKeep, PruneDelete, PlanDelete, Land, DownloadFails, Remove, Expire,
     PlanBegin, PlanStep, PlanDest, PlanStat, PlanReserve, PlanRefused, PlanDelivered, PlanDropped

\* What applying a rename does to the Names.
LEMMA ApplyNames ==
  ASSUME GInv, NEW r \in Renamers, RenameApply(r), NEW k \in Keys
  PROVE  /\ ren[r].at = "apply" /\ ren[r].new \in Names /\ ren'[r].at = "idle"
         /\ Has(k)' <=> Has(k)
         /\ \/ \A j \in Keys : entries'[j] = entries[j]
            \/ \A j \in Keys : IF j \in KeysOf(ren[r].old)
                                THEN entries'[j].name = ren[r].new
                                ELSE entries'[j] = entries[j]
<1>0. /\ ren \in [Renamers -> RenameState] /\ entries \in [Keys -> Entry]
      /\ RenamesNamed /\ \A j \in Keys : entries[j] \in Entry
  BY DEF GInv, BInv, WInv, TInv, TypeOK
<1>1. ren[r].at = "apply" /\ ren[r].new \in Names /\ ren'[r].at = "idle"
  BY <1>0 DEF RenameApply, NoRename, RenamesNamed
<1>2. \A j \in Keys : LET e == [entries[j] EXCEPT !.name = ren[r].new]
                      IN  e.name = ren[r].new /\ e.phase = entries[j].phase
  BY <1>0 DEF Entry, NoEntry
<1>3. CASE SlugAvailable(ren[r].new, {ren[r].old})
  <2>1. \A j \in Keys : entries'[j] = IF j \in KeysOf(ren[r].old)
                          THEN [entries[j] EXCEPT !.name = ren[r].new] ELSE entries[j]
    BY <1>3 DEF RenameApply, Renamed
  <2>. QED
    BY <1>1, <1>2, <2>1 DEF Has
<1>4. CASE ~SlugAvailable(ren[r].new, {ren[r].old})
  BY <1>1, <1>4 DEF RenameApply, Has
<1>. QED
  BY <1>3, <1>4

LEMMA RenamesApartStep ==
  ASSUME GInv, OrderlyGroups, [Next]_vars
  PROVE  RenamesApart'
<1>0. /\ ren \in [Renamers -> RenameState] /\ entries \in [Keys -> Entry]
      /\ \A r \in Renamers : ren[r].at # "idle" => ren[r].new \in Names
      /\ TInv
  BY DEF GInv, BInv, WInv, TInv, TypeOK, RenamesNamed
<1>. SUFFICES ASSUME NEW r \in Renamers, ren'[r].at = "apply"
              PROVE  /\ \A k \in Keys : Has(k)' => entries'[k].name # ren'[r].new
                     /\ \A q \in Renamers \ {r} : ren'[q].new # ren'[r].new
  BY DEF RenamesApart, KeysOf
<1>1. CASE \E m, n \in Names : RenameLookup(r, m, n)
  BY <1>0, <1>1 DEF RenameLookup, OrderlyGroups, KeysOf, Has
<1>2. CASE ~ \E m, n \in Names : RenameLookup(r, m, n)
  <2>1. ren'[r] = ren[r] /\ ren[r].at = "apply" /\ ren[r].new \in Names
    BY <1>0, <1>2, RenameMoves
  <2>2. ~Planning
    BY <2>1 DEF GInv, BInv, PlanOrRename, Renaming
  <2>3. \A p \in Planners : ~PlanReserve(p)
    BY <2>2 DEF Planning, PlanReserve
  <2>4. \A k \in Keys : Has(k) => entries[k].name # ren[r].new
    BY <2>1 DEF GInv, RenamesApart, KeysOf
  <2>5. ASSUME NEW q \in Renamers, RenameApply(q), NEW k \in Keys, Has(k)'
        PROVE  entries'[k].name # ren[r].new
    <3>1. q # r
      BY <2>1, <2>5, ApplyNames
    <3>2. ren[q].new # ren[r].new
      BY <2>1, <3>1 DEF GInv, RenamesApart
    <3>. QED
      BY <2>4, <2>5, <3>2, ApplyNames
  <2>6. \A k \in Keys : Has(k)' => entries'[k].name # ren[r].new
    BY <1>0, <2>3, <2>4, <2>5, NameWriters DEF NamesKept
  <2>7. ASSUME NEW q \in Renamers \ {r}
        PROVE  ren'[q].new # ren[r].new
    <3>1. CASE ren'[q] = ren[q]
      BY <2>1, <3>1 DEF GInv, RenamesApart
    <3>2. CASE ren'[q].new = NoName
      BY <2>1, <3>2, NamesAssumption
    <3>3. ASSUME NEW m \in Names, NEW n \in Names, RenameLookup(q, m, n)
          PROVE  ren'[q].new # ren[r].new
      BY <1>0, <3>3 DEF RenameLookup, OrderlyGroups
    <3>. QED
      BY <3>1, <3>2, <3>3, RenameMoves
  <2>. QED
    BY <2>1, <2>6, <2>7
<1>. QED
  BY <1>1, <1>2

LEMMA DestStep ==
  ASSUME GInv, OrderlyGroups, [Next]_vars
  PROVE  DestWithGroup'
<1>0. /\ plan \in [Planners -> PlanState] /\ entries \in [Keys -> Entry]
      /\ \A q \in Planners : plan[q].dest \subseteq Keys
      /\ BInv /\ OInv /\ TInv /\ OrderlyInstalls
  BY DEF GInv, BInv, WInv, TInv, TypeOK, PlanState, OrderlyGroups, OrderlyNames
<1>. DEFINE NewKeysOf(n) == {j \in Keys : Has(j)' /\ entries'[j].name = n}
<1>. SUFFICES ASSUME NEW p \in Planners, NEW k \in plan'[p].dest
              PROVE  /\ plan'[p].at \in {"stat", "reserve", "occupied"}
                     /\ \A j \in NewKeysOf(plan'[p].name) : j[1] = k[1]
                     /\ NewKeysOf(plan'[p].name) = {} => k[1] = SlugOf[plan'[p].name]
  BY DEF DestWithGroup, KeysOf
<1>1. CASE PlanDest(p)
  <2>1. UNCHANGED entries
    BY <1>1 DEF PlanDest
  <2>2. plan'[p].at = "stat" /\ plan'[p].name = plan[p].name /\ k \in Keys
        /\ IsGroupDir(plan[p].name, k[1])
    BY <1>0, <1>1 DEF PlanDest, PlanState
  <2>3. NewKeysOf(plan[p].name) = KeysOf(plan[p].name)
    BY <2>1 DEF KeysOf, Has
  <2>4. \A i, j \in KeysOf(plan[p].name) : i[1] = j[1]
    BY DEF GInv, GroupInOneDir, KeysOf
  <2>. HIDE DEF NewKeysOf
  <2>. QED
    BY <2>2, <2>3, <2>4 DEF IsGroupDir
<1>2. CASE ~PlanDest(p)
  <2>1. k \in plan[p].dest /\ plan'[p].name = plan[p].name
        /\ plan'[p].at \in {plan[p].at, "reserve", "occupied"} /\ ~PlanReserve(p)
    BY <1>0, <1>2, PlanMoves, ReserveFields
  <2>2. /\ plan[p].at \in {"stat", "reserve", "occupied"}
        /\ \A j \in KeysOf(plan[p].name) : j[1] = k[1]
        /\ KeysOf(plan[p].name) = {} => k[1] = SlugOf[plan[p].name]
    BY <2>1 DEF GInv, DestWithGroup
  <2>3. Planning
    BY <2>2 DEF Planning
  <2>4. \A i \in KeysOf(plan[p].name) : i \in NewKeysOf(plan[p].name)
    BY <1>0, <2>1, <2>3, PlanningNames, BusyKeepsEntries DEF KeysOf, Busy
  <2>5. ASSUME NEW i \in NewKeysOf(plan[p].name), i \notin KeysOf(plan[p].name)
        PROVE  i[1] = k[1]
    <3>1. i \in Keys /\ Has(i)' /\ entries'[i].name = plan[p].name /\ ~Has(i)
      BY <1>0, <2>1, <2>3, <2>5, PlanningNames DEF KeysOf
    <3>2. PICK q \in Planners : PlanReserve(q)
      BY <1>0, <2>3, <3>1, PlanningNames
    <3>3. PICK h \in plan[q].dest : /\ entries'[h].name = plan[q].name
                                  /\ \A j \in Keys \ {h} : entries'[j] = entries[j]
      BY <1>0, <3>2, ReserveFields
    <3>4. i = h
      BY <3>1, <3>3 DEF Has
    <3>5. plan[q].name = plan[p].name /\ i \in plan[q].dest
      BY <3>1, <3>3, <3>4
    <3>6. /\ \A j \in KeysOf(plan[p].name) : j[1] = i[1]
          /\ KeysOf(plan[p].name) = {} => i[1] = SlugOf[plan[p].name]
      BY <3>5 DEF GInv, DestWithGroup
    <3>. QED
      BY <2>2, <3>6
  <2>. HIDE DEF NewKeysOf
  <2>. QED
    BY <2>1, <2>2, <2>4, <2>5
<1>. QED
  BY <1>1, <1>2

LEMMA OneDirStep ==
  ASSUME GInv, OrderlyGroups, [Next]_vars
  PROVE  GroupInOneDir'
<1>0. entries \in [Keys -> Entry] /\ TInv /\ OInv
  BY DEF GInv, BInv, WInv, TInv, TypeOK
<1>1. CASE NamesKept
  BY <1>1 DEF NamesKept, GInv, GroupInOneDir
<1>2. ASSUME NEW p \in Planners, PlanReserve(p)
      PROVE  GroupInOneDir'
  <2>1. PICK k \in plan[p].dest : /\ k \in Keys /\ entries'[k].name = plan[p].name
                                  /\ \A j \in Keys \ {k} : entries'[j] = entries[j]
    BY <1>0, <1>2, ReserveFields
  <2>2. \A j \in KeysOf(plan[p].name) : j[1] = k[1]
    BY DEF GInv, DestWithGroup
  <2>. QED
    BY <2>1, <2>2 DEF GInv, GroupInOneDir, KeysOf, Has
<1>3. ASSUME NEW r \in Renamers, RenameApply(r)
      PROVE  GroupInOneDir'
  <2>1. \A k \in Keys : Has(k)' <=> Has(k)
    BY <1>3, ApplyNames
  <2>2. CASE \A j \in Keys : entries'[j] = entries[j]
    BY <2>1, <2>2 DEF GInv, GroupInOneDir
  <2>3. CASE \A j \in Keys : IF j \in KeysOf(ren[r].old)
                                THEN entries'[j].name = ren[r].new
                                ELSE entries'[j] = entries[j]
    <3>1. \A j \in Keys : Has(j) => entries[j].name # ren[r].new
      BY <1>3 DEF GInv, RenamesApart, KeysOf, RenameApply
    <3>2. \A i, j \in KeysOf(ren[r].old) : i[1] = j[1]
      BY DEF GInv, GroupInOneDir, KeysOf
    <3>. QED
      BY <2>1, <2>3, <3>1, <3>2 DEF GInv, GroupInOneDir
  <2>4. (\A j \in Keys : entries'[j] = entries[j]) \/
        (\A j \in Keys : IF j \in KeysOf(ren[r].old)
                                THEN entries'[j].name = ren[r].new
                                ELSE entries'[j] = entries[j]) \/ Keys = {}
    BY <1>3, ApplyNames
  <2>. QED
    BY <2>2, <2>3, <2>4 DEF GroupInOneDir
<1>. QED
  BY <1>0, <1>1, <1>2, <1>3, NameWriters

LEMMA GroupInit == OrderlyGroups /\ Init => GInv
<1> SUFFICES ASSUME OrderlyGroups, Init PROVE GInv
  OBVIOUS
<1>1. RenamesApart /\ DestWithGroup /\ GroupInOneDir
  BY DEF Init, NoRename, NoPlan, NoEntry, RenamesApart, DestWithGroup, GroupInOneDir, Has
<1>. QED
  BY <1>1, BundleInit, OrderlyInit DEF GInv

\* A group never spans directories, so that groupRelPath has one answer:
\* plans of one group that overlap agree on its directory although each
\* looked before the other had reserved, and a rename moves a group whole.
THEOREM GroupsStayTogether == OrderlyGroups => (Spec => []GroupInOneDir)
<1> SUFFICES ASSUME OrderlyGroups PROVE Spec => []GroupInOneDir
  OBVIOUS
<1>1. Init => GInv
  BY GroupInit
<1>2. GInv /\ [Next]_vars => GInv'
  <2> SUFFICES ASSUME GInv, [Next]_vars PROVE GInv'
    OBVIOUS
  <2>1. OInv' /\ BInv'
    BY OrderlyStep, OrderlyApart, BundleStep
       DEF GInv, OrderlyGroups, OrderlyNames, OrderlyPlans, OrderlyInstalls, Orderly
  <2>. QED
    BY <2>1, RenamesApartStep, DestStep, OneDirStep DEF GInv
<1>3. GInv => GroupInOneDir
  BY DEF GInv
<1>. QED
  BY <1>1, <1>2, <1>3, PTL DEF Spec
=============================================================================
