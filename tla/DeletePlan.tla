----------------------------- MODULE DeletePlan ------------------------------
(***************************************************************************)
(* The residency side of Gateway.PlanDelete: the workers' loaded instances *)
(* are listed, those of the doomed files are matched, a delete under a     *)
(* running job is refused, idle instances are evicted, and MASS removes    *)
(* the files of the plan it is handed.                                     *)
(*                                                                         *)
(* Workers and jobs are MASS's: jobs are scheduled, finish, and instances  *)
(* are unloaded at any time.  Which files a delete dooms is GroupIds'      *)
(* question; here they are a constant.  The scheduler is never nil where   *)
(* snapshot succeeds (module GatewayInit), so that return is not modelled. *)
(***************************************************************************)
EXTENDS Integers, Sequences, SequencesExt

CONSTANTS
  WorkerCount,   \* workers 1..WorkerCount, in the order MASS lists them
  Reporting,     \* workers that report the files of an instance
  Instances,     \* model ids, each "<request path>#<hash>"
  Files,         \* store keys of an instance's files: [Instances -> SUBSET Path]
  Named,         \* the request path in its id, which lacks the format directory
  Doomed,        \* store keys the plan removes
  Spread,        \* a bound: instances that more than one worker may hold
  MaxJobs        \* jobs running on one instance at a time

Workers == 1..WorkerCount
Slots == Workers \X Instances

ASSUME WorkersAssumption == WorkerCount \in Nat /\ Reporting \subseteq Workers
ASSUME MaxJobsAssumption == MaxJobs \in Nat \ {0}
ASSUME SpreadAssumption == Spread \subseteq Instances

VARIABLES
  running,       \* jobs on each slot; Absent when it is not loaded there
  plan,          \* where the PlanDelete call is
  todo,          \* matched instances still to be evicted
  removed,       \* MASS has removed the files
  late,          \* history: doomed slots given a job since they were listed
  kept,          \* history: instances whose eviction failed
  passed         \* history: doomed slots the listing passed over

mass == <<running, late>>
history == <<kept, passed>>
deleteVars == <<running, plan, todo, removed, late, kept, passed>>

Absent == -1
Loaded(s) == running[s] # Absent
Serving(s) == running[s] > 0

\* The instance has a file below, above or among the doomed ones.
Backed(i) == \E p \in Doomed, f \in Files[i] : IsPrefix(p, f) \/ IsPrefix(f, p)

------------------------------------------------------------------------------
(* Matching a listed instance with the doomed files.                       *)

\* anyPathMatches: equal, or one is a directory above the other.
Overlaps(a, b) == IsPrefix(a, b) \/ IsPrefix(b, a)

\* fallbackWant, the doomed paths without the format directory.
Fallback(i) == \E p \in Doomed : Tail(p) = Named[i]

Matches(w, i) ==
  IF w \in Reporting THEN \E p \in Doomed, f \in Files[i] : Overlaps(p, f)
                     ELSE Fallback(i)

Hits(i) == { w \in Workers : Loaded(<<w, i>>) /\ Matches(w, i) }

\* seen: the first listing of an instance stands for all of them.
FirstHit(i) == CHOOSE w \in Hits(i) : \A v \in Hits(i) : w <= v

Matched == { i \in Instances : Hits(i) # {} }

\* Mutant: a job that has just started is not counted.
BusyOften == \E i \in Matched : running[<<FirstHit(i), i>>] > 1

\* active > 0, summed over loadedInstancesForRelPaths.
Busy == \E i \in Matched : Serving(<<FirstHit(i), i>>)

\* What the listing may pass over.  A job, because another worker is listed
\* before with the same instance, or because its worker reports no files and
\* the id is of no doomed path (a ChatStream's after a rename); an instance
\* at rest, because nobody that holds it gives it away.
GivesAway(s) == s[1] \in Reporting \/ Fallback(s[2])
Shadowed(s) == \E w \in Workers : w < s[1] /\ Loaded(<<w, s[2]>>)
PassedOver(s) ==
  IF Serving(s) THEN Shadowed(s) \/ ~GivesAway(s)
  ELSE \A w \in Workers : Loaded(<<w, s[2]>>) => ~GivesAway(<<w, s[2]>>)

------------------------------------------------------------------------------

DeleteInit ==
  /\ running = [s \in Slots |-> Absent]
  /\ plan = "called"
  /\ todo = {}
  /\ removed = FALSE
  /\ late = {}
  /\ kept = {} /\ passed = {}

(* MASS and its workers.                                                   *)

\* A job is given to a worker, which loads the instance if it must and can.
ScheduleOn(s) ==
  /\ Loaded(s) \/ ~removed
  /\ running[s] < MaxJobs
  /\ s[2] \in Spread \/ \A w \in Workers \ {s[1]} : ~Loaded(<<w, s[2]>>)
  /\ running' = [running EXCEPT ![s] = IF @ = Absent THEN 1 ELSE @ + 1]
  /\ late' = IF plan \in {"called", "refused"} \/ ~Backed(s[2]) THEN late ELSE late \cup {s}
  /\ UNCHANGED <<plan, todo, removed, history>>

Finish(s) ==
  /\ Serving(s)
  /\ running' = [running EXCEPT ![s] = @ - 1]
  /\ UNCHANGED <<plan, todo, removed, late, history>>

Unload(s) ==
  /\ running[s] = 0
  /\ running' = [running EXCEPT ![s] = Absent]
  /\ UNCHANGED <<plan, todo, removed, late, history>>

\* The files of the plan are removed by MASS once it has the answer.
RemoveFiles ==
  /\ plan \in {"planned", "blind"}
  /\ ~removed
  /\ removed' = TRUE
  /\ UNCHANGED <<plan, todo, mass, history>>

(* evictLoadedInstances.                                                   *)

Refuse ==
  /\ plan = "called"
  /\ Busy
  /\ plan' = "refused"
  /\ UNCHANGED <<todo, removed, mass, history>>

Admit ==
  /\ plan = "called"
  /\ ~Busy
  /\ todo' = Matched
  /\ plan' = "evict"
  /\ passed' = { s \in Slots : Loaded(s) /\ Backed(s[2]) /\ PassedOver(s) }
  /\ UNCHANGED <<removed, mass, kept>>

\* ListWorkers fails: a warning, and the plan goes ahead.
ListFails ==
  /\ plan = "called"
  /\ plan' = "blind"
  /\ UNCHANGED <<todo, removed, mass, history>>

\* EvictModel on every worker; whether MASS spares an instance that has got
\* a job is its own affair.
Evict(i) ==
  /\ plan = "evict"
  /\ i \in todo
  /\ todo' = todo \ {i}
  /\ \E spare \in BOOLEAN :
       running' = [s \in Slots |->
                     IF s[2] = i /\ ~(spare /\ Serving(s)) THEN Absent ELSE running[s]]
  /\ UNCHANGED <<plan, removed, late, history>>

EvictFails(i) ==
  /\ plan = "evict"
  /\ i \in todo
  /\ todo' = todo \ {i}
  /\ kept' = kept \cup {i}
  /\ UNCHANGED <<plan, removed, mass, passed>>

\* Mutant: the plan is answered while evictions are under way.
AnyRemain == TRUE

NoneRemain == todo = {}

Answer ==
  /\ plan = "evict"
  /\ NoneRemain
  /\ plan' = "planned"
  /\ UNCHANGED <<todo, removed, mass, history>>

DeleteNext ==
  \/ \E s \in Slots : ScheduleOn(s) \/ Finish(s) \/ Unload(s)
  \/ RemoveFiles \/ Refuse \/ Admit \/ ListFails \/ Answer
  \/ \E i \in Instances : Evict(i) \/ EvictFails(i)

DeleteSpec == DeleteInit /\ [][DeleteNext]_deleteVars

------------------------------------------------------------------------------
(* Properties.                                                             *)

DeleteTypeOK ==
  /\ running \in [Slots -> -1..MaxJobs]
  /\ plan \in {"called", "evict", "planned", "blind", "refused"}
  /\ todo \subseteq Instances
  /\ removed \in BOOLEAN
  /\ late \subseteq Slots
  /\ kept \subseteq Instances /\ passed \subseteq Slots

\* "If any loaded instance backed by a doomed file is still serving
\* (active > 0) the delete is refused": a listing that is not refused has
\* passed over the jobs there are, on a worker behind another with the same
\* instance or where the instance cannot be recognised.
RefusedWhenServing ==
  [][plan = "called" /\ plan' = "evict"
       => \A s \in Slots : Backed(s[2]) /\ Serving(s) => Shadowed(s) \/ ~GivesAway(s)]_deleteVars

\* A job loses its files only if it was scheduled after the listing, the
\* listing passed over it, or the workers could not be listed.
RemovalSparesJobs ==
  [][removed # removed'
       => \A s \in Slots :
            Serving(s) /\ Backed(s[2]) => s \in late \/ s \in passed \/ plan = "blind"]_deleteVars

\* No delete takes the files of a job it could have known of.
JobsSpared == RefusedWhenServing /\ RemovalSparesJobs

\* When the plan is answered no worker keeps a doomed file open, unless it
\* got a job for it meanwhile, would not evict it, or was passed over.
AnsweredMeansEvicted ==
  plan = "planned" =>
    \A s \in Slots : Loaded(s) /\ Backed(s[2]) => s \in late \/ s[2] \in kept \/ s \in passed
=============================================================================
