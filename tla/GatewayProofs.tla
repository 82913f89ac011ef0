--------------------------- MODULE GatewayProofs ----------------------------
(***************************************************************************)
(* Proofs about four parts of the gateway, which share no state: what a    *)
(* delete may rely on (DeletePlan), what a request sees of a running Init  *)
(* (GatewayInit), what a header's counts are (GgufReader), and whether the *)
(* views of the catalogue agree (ModelViews).  At the end, that the eight  *)
(* parts side by side (MCGateway) are each as they are alone.              *)
(***************************************************************************)
EXTENDS MCGateway, RequestProofs, InstallSearchProofs, FiniteSetTheorems,
        WellFoundedInduction, TLAPS

(***************************************************************************)
(* A delete, for any number of workers, instances and files, however the   *)
(* instances are spread and whatever the workers report of them.           *)
(***************************************************************************)

\* From the listing on, jobs on a doomed instance are late or passed over,
\* and its slots are late, kept, passed over, or still to be evicted.
Cleared ==
  plan \in {"evict", "planned"} =>
    \A s \in Slots : Backed(s[2]) =>
      /\ Serving(s) => s \in late \/ s \in passed
      /\ Loaded(s) => s \in late \/ s \in passed \/ s[2] \in kept \/ s[2] \in todo

DeleteInv ==
  /\ DeleteTypeOK
  /\ Cleared
  /\ plan = "planned" => todo = {}

\* What a slot of the workers' state is.
LEMMA RunningType ==
  ASSUME DeleteTypeOK, NEW s \in Slots
  PROVE  running[s] \in -1..MaxJobs
BY DEF DeleteTypeOK

\* A worker that tells enough of a doomed instance is matched.
LEMMA ToldIsMatched ==
  ASSUME NEW w \in Workers, NEW i \in Instances, Backed(i), GivesAway(<<w, i>>)
  PROVE  Matches(w, i)
<1>1. CASE w \in Reporting
  BY <1>1 DEF Matches, Backed, Overlaps
<1>2. CASE w \notin Reporting
  BY <1>2 DEF Matches, GivesAway
<1> QED
  BY <1>1, <1>2

\* A listing that is not refused has passed over the jobs there are.
LEMMA IdleWhenAdmitted ==
  ASSUME DeleteTypeOK, ~Busy, WorkersAssumption, NEW s \in Slots, Backed(s[2]), Serving(s)
  PROVE  Shadowed(s) \/ ~GivesAway(s)
<1>1. PICK w \in Workers, i \in Instances : s = <<w, i>>
  BY DEF Slots
<1>2. SUFFICES ASSUME ~Shadowed(<<w, i>>), GivesAway(<<w, i>>) PROVE FALSE
  BY <1>1
<1>3. Loaded(<<w, i>>)
  BY <1>1, RunningType DEF Serving, Loaded, Absent
<1>4. w \in Hits(i)
  BY <1>1, <1>2, <1>3, ToldIsMatched DEF Hits
<1>5. \A v \in Hits(i) : w <= v
  BY <1>2 DEF Hits, Shadowed, Workers
<1>6. FirstHit(i) = w
  <2>1. \A v \in Hits(i) : v \in Nat
    BY DEF Hits, Workers
  <2> QED
    BY <1>4, <1>5, <2>1 DEF FirstHit
<1>7. i \in Matched
  BY <1>4 DEF Matched
<1> QED
  BY <1>1, <1>6, <1>7 DEF Busy

\* Matched holds every loaded doomed instance that a worker gives away.
LEMMA LoadedMatched ==
  ASSUME NEW s \in Slots, Backed(s[2]), Loaded(s), ~Serving(s), ~PassedOver(s)
  PROVE  s[2] \in Matched
<1>1. s[2] \in Instances
  BY DEF Slots
<1>2. PICK w \in Workers : Loaded(<<w, s[2]>>) /\ GivesAway(<<w, s[2]>>)
  BY DEF PassedOver
<1>3. w \in Hits(s[2])
  BY <1>1, <1>2, ToldIsMatched DEF Hits
<1> QED
  BY <1>1, <1>3 DEF Matched

LEMMA InitInv == DeleteInit => DeleteInv
<1> SUFFICES ASSUME DeleteInit PROVE DeleteInv
  OBVIOUS
<1>1. \A s \in Slots : running[s] = -1
  BY DEF DeleteInit, Absent
<1>2. DeleteTypeOK
  <2>1. running \in [Slots -> -1..MaxJobs]
    BY MaxJobsAssumption DEF DeleteInit, Absent
  <2> QED
    BY <2>1 DEF DeleteInit, DeleteTypeOK
<1> QED
  BY <1>2 DEF DeleteInit, DeleteInv, Cleared

LEMMA StepInv ==
  ASSUME DeleteInv, [DeleteNext]_deleteVars
  PROVE  DeleteInv'
<1> USE DEF Loaded, Serving, Absent
<1>0. \A s \in Slots : running[s] \in -1..MaxJobs
  BY RunningType DEF DeleteInv
<1>1. ASSUME NEW s \in Slots, ScheduleOn(s) PROVE DeleteInv'
  <2>1. PICK w \in Workers, i \in Instances : s = <<w, i>>
    BY DEF Slots
  <2>3. /\ running' \in [Slots -> -1..MaxJobs]
        /\ running'[s] \in 1..MaxJobs
        /\ \A t \in Slots : t # s => running'[t] = running[t]
    BY <1>0, <1>1, MaxJobsAssumption DEF ScheduleOn, DeleteInv, DeleteTypeOK
  <2>4. UNCHANGED <<plan, todo, removed, kept, passed>>
    BY <1>1 DEF ScheduleOn, history
  <2>5. /\ late' \subseteq Slots /\ late \subseteq late'
        /\ plan \notin {"called", "refused"} /\ Backed(s[2]) => s \in late'
    BY <1>1 DEF ScheduleOn, DeleteInv, DeleteTypeOK
  <2>6. DeleteTypeOK'
    BY <2>3, <2>4, <2>5 DEF DeleteInv, DeleteTypeOK
  <2>8. Cleared'
    BY <2>3, <2>4, <2>5 DEF DeleteInv, Cleared, Backed
  <2> QED
    BY <2>4, <2>6, <2>8 DEF DeleteInv
<1>2. ASSUME NEW s \in Slots, Finish(s) \/ Unload(s) PROVE DeleteInv'
  <2>1. /\ running' \in [Slots -> -1..MaxJobs]
        /\ \A t \in Slots : /\ running'[t] > 0 => running[t] > 0
                            /\ running'[t] # -1 => running[t] # -1
    BY <1>0, <1>2, MaxJobsAssumption DEF Finish, Unload, DeleteInv, DeleteTypeOK
  <2>2. UNCHANGED <<plan, todo, removed, late, kept, passed>>
    BY <1>2 DEF Finish, Unload, history
  <2>3. DeleteTypeOK'
    BY <2>1, <2>2 DEF DeleteInv, DeleteTypeOK
  <2>5. Cleared'
    BY <2>1, <2>2 DEF DeleteInv, Cleared, Backed
  <2> QED
    BY <2>2, <2>3, <2>5 DEF DeleteInv
<1>3. CASE RemoveFiles
  BY <1>3 DEF RemoveFiles, mass, history, DeleteInv, DeleteTypeOK, Cleared, Backed
<1>4. CASE Refuse
  BY <1>4 DEF Refuse, mass, history, DeleteInv, DeleteTypeOK, Cleared
<1>5. CASE Admit
  <2>1. /\ UNCHANGED <<running, late, kept, removed>> /\ plan' = "evict" /\ todo' = Matched /\ ~Busy
        /\ passed' = { s \in Slots : Loaded(s) /\ Backed(s[2]) /\ PassedOver(s) }
    BY <1>5 DEF Admit, mass
  <2>2. DeleteTypeOK'
    BY <2>1 DEF DeleteInv, DeleteTypeOK, Matched
  <2>4. Cleared'
    <3> SUFFICES ASSUME NEW s \in Slots, Backed(s[2])
                 PROVE  /\ running[s] > 0 => s \in passed'
                        /\ running[s] # -1 => s \in passed' \/ s[2] \in Matched
      BY <2>1 DEF Cleared, Backed
    <3>1. Serving(s) => PassedOver(s)
      BY <2>1, IdleWhenAdmitted, WorkersAssumption DEF DeleteInv, PassedOver
    <3>2. Loaded(s) /\ ~PassedOver(s) => s[2] \in Matched
      BY <3>1, LoadedMatched
    <3> QED
      BY <1>0, <2>1, <3>1, <3>2
  <2> QED
    BY <2>1, <2>2, <2>4 DEF DeleteInv
<1>6. CASE ListFails
  BY <1>6 DEF ListFails, mass, history, DeleteInv, DeleteTypeOK, Cleared
<1>7. CASE Answer
  <2>1. /\ UNCHANGED <<running, todo, late, kept, passed, removed>>
        /\ plan = "evict" /\ plan' = "planned" /\ todo = {}
    BY <1>7 DEF Answer, NoneRemain, mass, history
  <2> QED
    BY <2>1 DEF DeleteInv, DeleteTypeOK, Cleared, Backed
<1>8. ASSUME NEW i \in Instances, Evict(i) PROVE DeleteInv'
  <2>1. UNCHANGED <<plan, removed, late, kept, passed>> /\ plan = "evict" /\ todo' = todo \ {i}
    BY <1>8 DEF Evict, history
  <2>2. PICK spare \in BOOLEAN :
          running' = [s \in Slots |-> IF s[2] = i /\ ~(spare /\ Serving(s)) THEN -1 ELSE running[s]]
    BY <1>8 DEF Evict
  <2>3. \A s \in Slots : running'[s] = running[s] \/ running'[s] = -1
    BY <2>2
  <2>4. \A s \in Slots : s[2] = i /\ running'[s] # -1 => running[s] > 0
    BY <2>2
  <2>5. running' \in [Slots -> -1..MaxJobs]
    BY <1>0, <2>2, MaxJobsAssumption
  <2>6. DeleteTypeOK'
    BY <2>1, <2>5 DEF DeleteInv, DeleteTypeOK
  <2>8. Cleared'
    <3> SUFFICES ASSUME NEW s \in Slots, Backed(s[2])
                 PROVE  /\ running'[s] > 0 => s \in late \/ s \in passed
                        /\ running'[s] # -1 => s \in late \/ s \in passed \/ s[2] \in kept \/ s[2] \in todo \ {i}
      BY <2>1 DEF Cleared, Backed
    <3>1. /\ running[s] > 0 => s \in late \/ s \in passed
          /\ running[s] # -1 => s \in late \/ s \in passed \/ s[2] \in kept \/ s[2] \in todo
      BY <2>1 DEF DeleteInv, Cleared
    <3> QED
      BY <2>3, <2>4, <3>1
  <2> QED
    BY <2>1, <2>6, <2>8 DEF DeleteInv
<1>9. ASSUME NEW i \in Instances, EvictFails(i) PROVE DeleteInv'
  <2>1. UNCHANGED <<running, plan, removed, late, passed>> /\ plan = "evict"
        /\ todo' = todo \ {i} /\ kept' = kept \cup {i}
    BY <1>9 DEF EvictFails, mass
  <2> QED
    BY <2>1 DEF DeleteInv, DeleteTypeOK, Cleared, Backed
<1>10. CASE UNCHANGED deleteVars
  BY <1>10 DEF deleteVars, DeleteInv, DeleteTypeOK, Cleared, Backed
<1> QED
  BY <1>1, <1>2, <1>3, <1>4, <1>5, <1>6, <1>7, <1>8, <1>9, <1>10 DEF DeleteNext

\* What holds of a delete in every state.
THEOREM DeleteInvariant == DeleteSpec => []DeleteInv
<1>1. DeleteInv /\ [DeleteNext]_deleteVars => DeleteInv'
  BY StepInv
<1> QED
  BY InitInv, <1>1, PTL DEF DeleteSpec

\* The state of workers and plan has its type.
THEOREM DeleteTypes == DeleteSpec => []DeleteTypeOK
<1>1. DeleteInv => DeleteTypeOK
  BY DEF DeleteInv
<1> QED
  BY DeleteInvariant, <1>1, PTL

\* A delete is refused while a doomed instance is serving, unless the listing
\* passes over it.
THEOREM DeleteRefusedWhenServing == DeleteSpec => RefusedWhenServing
<1>1. ASSUME DeleteInv, [DeleteNext]_deleteVars
      PROVE  [plan = "called" /\ plan' = "evict"
                => \A s \in Slots : Backed(s[2]) /\ Serving(s) => Shadowed(s) \/ ~GivesAway(s)]_deleteVars
  <2>1. SUFFICES ASSUME plan = "called", plan' = "evict", NEW s \in Slots, Backed(s[2]), Serving(s)
                 PROVE  Shadowed(s) \/ ~GivesAway(s)
    OBVIOUS
  <2>2. ~Busy
    BY <1>1, <2>1 DEF DeleteNext, deleteVars, ScheduleOn, Finish, Unload, RemoveFiles, Refuse,
                      Admit, ListFails, Answer, Evict, EvictFails
  <2> QED
    BY <1>1, <2>1, <2>2, IdleWhenAdmitted, WorkersAssumption DEF DeleteInv
<1> QED
  BY DeleteInvariant, <1>1, PTL DEF DeleteSpec, RefusedWhenServing

\* The removal of the files hurts only jobs the plan could not have seen.
THEOREM DeleteSparesJobs == DeleteSpec => RemovalSparesJobs
<1>1. ASSUME DeleteInv, [DeleteNext]_deleteVars
      PROVE  [removed # removed'
                => \A s \in Slots :
                     Serving(s) /\ Backed(s[2]) => s \in late \/ s \in passed \/ plan = "blind"]_deleteVars
  <2>1. SUFFICES ASSUME removed # removed', NEW s \in Slots, Serving(s), Backed(s[2])
                 PROVE  s \in late \/ s \in passed \/ plan = "blind"
    OBVIOUS
  <2>2. plan \in {"planned", "blind"}
    BY <1>1, <2>1 DEF DeleteNext, deleteVars, ScheduleOn, Finish, Unload, RemoveFiles, Refuse,
                      Admit, ListFails, Answer, Evict, EvictFails
  <2> QED
    BY <1>1, <2>1, <2>2 DEF DeleteInv, Cleared
<1> QED
  BY DeleteInvariant, <1>1, PTL DEF DeleteSpec, RemovalSparesJobs

\* evictLoadedInstances lets no delete pass that it could know to hurt a job,
\* and MASS's removal hurts none but those.
THEOREM DeleteLeavesJobs == DeleteSpec => JobsSpared
BY DeleteRefusedWhenServing, DeleteSparesJobs DEF JobsSpared

\* A plan is answered with the idle instances it was told of out of memory.
THEOREM DeleteEvictsFirst == DeleteSpec => []AnsweredMeansEvicted
<1>1. DeleteInv => AnsweredMeansEvicted
  BY DEF DeleteInv, Cleared, AnsweredMeansEvicted
<1> QED
  BY DeleteInvariant, <1>1, PTL

------------------------------------------------------------------------------
(***************************************************************************)
(* Init, for any number of Inits and requests: what a request reads comes  *)
(* from one Init, and once initialised the gateway stays so.  The          *)
(* invariant says what the fields hold while no Init writes (the values of *)
(* one Init that has returned, or nothing), and that during a write the    *)
(* fields before the next one are the writer's and the others still what   *)
(* they were.                                                              *)
(***************************************************************************)

Places == 1..6
FieldNames == {"modelsDir", "scheduler", "cache", "h", "router", "grpcSrv"}

\* v is what the fields hold between two writes.
Settled(v) ==
  \/ v = 0 /\ \A i \in Inits : init[i] # "returned"
  \/ v \in Inits /\ init[v] = "returned"

Typed ==
  /\ field \in [Places -> {0} \cup Inits]
  /\ init \in [Inits -> {"called", "failed", "dialled", "writes", "returned"}]
  /\ \A i \in Inits : init[i] = "writes" => lock # NoLock /\ lock[1] = i

LockHeld ==
  \/ lock = NoLock
  \/ \E i \in Inits, n \in 1..7 : lock = <<i, n>> /\ init[i] = "writes"

Whole == lock = NoLock => \E v : Settled(v) /\ \A n \in Places : field[n] = v

Halfway ==
  \A i \in Inits, n \in 1..7 :
    lock = <<i, n>> =>
      \E v : Settled(v) /\ \A m \in Places : field[m] = IF m < n THEN i ELSE v

\* What a served request has read.
ReadsWhole(r) ==
  \E c \in Inits :
    /\ init[c] = "returned"
    /\ \/ /\ request[r].kind \in {"http", "model", "bench"}
          /\ request[r].read = [f \in Reads[request[r].kind] |-> c]
       \/ /\ request[r].kind = "delete"
          /\ \E s \in Inits :
               /\ init[s] = "returned"
               /\ request[r].read = [f \in Reads.model \cup {"scheduler"} |->
                                       IF f = "scheduler" THEN s ELSE c]

ServedWhole ==
  /\ DOMAIN request = Requests
  /\ \A r \in Requests : request[r].at = "served" => ReadsWhole(r)

IInv == Typed /\ LockHeld /\ Whole /\ Halfway /\ ServedWhole

------------------------------------------------------------------------------
LEMMA FieldsLength == Len(Fields) = 6
BY DEF Fields

\* While all fields hold one value, a field read by its name holds it.
LEMMA ReadsThatValue ==
  ASSUME NEW v, \A n \in Places : field[n] = v, NEW f \in FieldNames
  PROVE  ValueOf(f) = v
<1>1. \E n \in 1..6 : Fields[n] = f
  BY DEF Fields, FieldNames
<1>2. (CHOOSE n \in 1..Len(Fields) : Fields[n] = f) \in Places
  BY <1>1, FieldsLength DEF Places
<1> QED BY <1>2 DEF ValueOf

LEMMA ReadsAreNames ==
  ASSUME NEW k \in {"http", "model", "bench"}
  PROVE  Reads[k] \subseteq FieldNames \ {"scheduler"} /\ Reads[k] # {}
BY DEF Reads, FieldNames

LEMMA StartsSo == GatewayStart => IInv
<1> SUFFICES ASSUME GatewayStart PROVE IInv
  OBVIOUS
<1>1. Typed /\ LockHeld
  BY FieldsLength DEF GatewayStart, Typed, LockHeld, Places
<1>2. Whole
  <2>1. Settled(0) /\ \A n \in Places : field[n] = 0
    BY FieldsLength DEF GatewayStart, Settled, Places
  <2> QED BY <2>1 DEF Whole
<1>3. Halfway
  BY DEF GatewayStart, Halfway, NoLock
<1>4. ServedWhole
  BY DEF GatewayStart, ServedWhole
<1> QED BY <1>1, <1>2, <1>3, <1>4 DEF IInv

------------------------------------------------------------------------------
\* A step that changes neither the fields nor the lock, and lets no Init
\* return or begin to write, disturbs nothing but the requests.
LEMMA StillWhole ==
  ASSUME IInv, UNCHANGED <<field, lock>>,
         init' \in [Inits -> {"called", "failed", "dialled", "writes", "returned"}],
         \A i \in Inits : /\ init'[i] = "returned" <=> init[i] = "returned"
                          /\ init'[i] = "writes" <=> init[i] = "writes"
  PROVE  Typed' /\ LockHeld' /\ Whole' /\ Halfway'
<1>1. Typed'
  BY DEF IInv, Typed
<1>2. LockHeld'
  BY DEF IInv, LockHeld, NoLock
<1>3. \A v : Settled(v) => Settled(v)'
  BY DEF Settled
<1>4. Whole'
  BY <1>3 DEF IInv, Whole, NoLock
<1>5. Halfway'
  BY <1>3 DEF IInv, Halfway
<1> QED BY <1>1, <1>2, <1>4, <1>5

\* What was read stays read while no returned Init is undone.
LEMMA StillServed ==
  ASSUME IInv, UNCHANGED request,
         \A i \in Inits : init[i] = "returned" => init'[i] = "returned"
  PROVE  ServedWhole'
<1>1. \A r \in Requests : ReadsWhole(r) => ReadsWhole(r)'
  BY DEF ReadsWhole
<1> QED BY <1>1 DEF IInv, ServedWhole

LEMMA KeptWhole ==
  ASSUME NEW q \in Requests, request'[q] = request[q], UNCHANGED init, ReadsWhole(q)
  PROVE  ReadsWhole(q)'
<1>1. PICK c \in Inits :
        /\ init[c] = "returned"
        /\ \/ /\ request[q].kind \in {"http", "model", "bench"}
              /\ request[q].read = [f \in Reads[request[q].kind] |-> c]
           \/ /\ request[q].kind = "delete"
              /\ \E s \in Inits :
                   /\ init[s] = "returned"
                   /\ request[q].read = [f \in Reads.model \cup {"scheduler"} |->
                                           IF f = "scheduler" THEN s ELSE c]
  BY DEF ReadsWhole
<1>2. /\ init'[c] = "returned"
      /\ request'[q].kind = request[q].kind
      /\ request'[q].read = request[q].read
  BY <1>1
<1> QED BY <1>1, <1>2 DEF ReadsWhole

LEMMA Steps == IInv /\ [GatewayNext]_gatewayVars => IInv'
<1> SUFFICES ASSUME IInv, [GatewayNext]_gatewayVars PROVE IInv'
  OBVIOUS
<1> USE FieldsLength, InitsAssumption
<1>1. ASSUME NEW i \in Inits, InitRefused(i) \/ Dial(i) \/ MkdirFails(i) PROVE IInv'
  <2>1. /\ UNCHANGED <<field, lock, request>>
        /\ init' \in [Inits -> {"called", "failed", "dialled", "writes", "returned"}]
        /\ \A j \in Inits : /\ init'[j] = "returned" <=> init[j] = "returned"
                            /\ init'[j] = "writes" <=> init[j] = "writes"
    BY <1>1 DEF InitRefused, Dial, MkdirFails, IInv, Typed
  <2> QED BY <2>1, StillWhole, StillServed DEF IInv
<1>2. ASSUME NEW i \in Inits, Lock(i) PROVE IInv'
  <2>1. PICK v : Settled(v) /\ \A n \in Places : field[n] = v
    BY <1>2 DEF IInv, Whole, Lock
  <2>2. Settled(v)'
    BY <1>2, <2>1 DEF Lock, Settled, IInv, Typed
  <2>3. Typed' /\ LockHeld'
    BY <1>2 DEF Lock, IInv, Typed, LockHeld, NoLock
  <2>4. Whole'
    BY <1>2 DEF Lock, Whole, NoLock
  <2>5. Halfway'
    BY <1>2, <2>1, <2>2 DEF Lock, Halfway, Places
  <2>6. ServedWhole'
    BY <1>2, StillServed DEF Lock, IInv, Typed
  <2> QED BY <2>3, <2>4, <2>5, <2>6 DEF IInv
<1>3. ASSUME NEW i \in Inits, Unlock(i) PROVE IInv'
  <2>1. lock = <<i, 7>> /\ lock' = NoLock /\ UNCHANGED <<field, request>>
    BY <1>3 DEF Unlock
  <2>2. init \in [Inits -> {"called", "failed", "dialled", "writes", "returned"}]
    BY DEF IInv, Typed
  <2>3. init'[i] = "returned" /\ \A j \in Inits : init[j] = "returned" => init'[j] = "returned"
    BY <1>3, <2>2 DEF Unlock
  <2>4. \A n \in Places : field[n] = i
    BY <2>1 DEF IInv, Halfway, Places
  <2>5. Whole'
    BY <2>1, <2>3, <2>4 DEF Whole, Settled
  <2>6. Typed' /\ LockHeld'
    BY <1>3, <2>1 DEF Unlock, IInv, Typed, LockHeld
  <2>7. Halfway'
    BY <2>1 DEF Halfway, NoLock
  <2>8. ServedWhole'
    BY <2>1, <2>3, StillServed
  <2> QED BY <2>5, <2>6, <2>7, <2>8 DEF IInv
<1>4. CASE Assign
  <2>1. PICK i \in Inits, n \in Places :
          /\ lock = <<i, n>>
          /\ field' = [field EXCEPT ![n] = i]
          /\ lock' = <<i, n + 1>>
          /\ UNCHANGED <<init, request>>
    BY <1>4 DEF Assign, Places
  <2>2. PICK v : Settled(v) /\ \A m \in Places : field[m] = IF m < n THEN i ELSE v
    BY <2>1 DEF IInv, Halfway, Places
  <2>3. Settled(v)'
    BY <2>1, <2>2 DEF Settled
  <2>4. init[i] = "writes"
    BY <2>1 DEF IInv, LockHeld, NoLock
  <2>5. Typed' /\ LockHeld' /\ Whole'
    BY <2>1, <2>4 DEF IInv, Typed, LockHeld, Whole, Places, NoLock
  <2>6. \A m \in Places : field'[m] = IF m < n + 1 THEN i ELSE v
    BY <2>1, <2>2 DEF IInv, Typed, Places
  <2>7. Halfway'
    BY <2>1, <2>3, <2>6 DEF Halfway, Places
  <2>8. ServedWhole'
    BY <2>1, StillServed
  <2> QED BY <2>5, <2>7, <2>8 DEF IInv
<1>5. ASSUME NEW r \in Requests, Arrive(r) PROVE IInv'
  <2>1. Typed' /\ LockHeld' /\ Whole' /\ Halfway'
    BY <1>5, StillWhole DEF Arrive, IInv, Typed
  <2>2. PICK v : Settled(v) /\ \A n \in Places : field[n] = v
    BY <1>5 DEF Arrive, MayRead, IInv, Whole
  <2>3. PICK k \in {"http", "model", "bench"} :
          LET read == [f \in Reads[k] |-> ValueOf(f)] IN
          request' = [request EXCEPT ![r] =
            [kind |-> k, read |-> read,
             at |-> IF \A f \in Reads[k] : read[f] # 0 THEN "served" ELSE "refused"]]
    BY <1>5 DEF Arrive, Reads
  <2>4. [f \in Reads[k] |-> ValueOf(f)] = [f \in Reads[k] |-> v]
    BY <2>2, ReadsThatValue, ReadsAreNames
  <2>5. request' = [request EXCEPT ![r] =
            [kind |-> k, read |-> [f \in Reads[k] |-> v], at |-> IF v # 0 THEN "served" ELSE "refused"]]
    <3>0. PICK d : d \in Reads[k]
      BY ReadsAreNames
    <3> DEFINE same == [f \in Reads[k] |-> v]
    <3>1. (\A f \in Reads[k] : same[f] # 0) <=> v # 0
      BY <3>0
    <3> HIDE DEF same
    <3>2. request' = [request EXCEPT ![r] =
            [kind |-> k, read |-> same,
             at |-> IF \A f \in Reads[k] : same[f] # 0 THEN "served" ELSE "refused"]]
      BY <2>3, <2>4 DEF same
    <3> QED BY <3>1, <3>2 DEF same
  <2>6. UNCHANGED init /\ DOMAIN request = Requests
    BY <1>5 DEF Arrive, IInv, ServedWhole
  <2>7. \A q \in Requests \ {r} : request'[q] = request[q]
    BY <2>5, <2>6
  <2>8. \A q \in Requests \ {r} : ReadsWhole(q) => ReadsWhole(q)'
    BY <2>6, <2>7, KeptWhole
  <2>9. ASSUME request'[r].at = "served" PROVE ReadsWhole(r)'
    <3>1. v # 0 /\ request'[r].kind = k /\ request'[r].read = [f \in Reads[k] |-> v]
      BY <2>5, <2>6, <2>9
    <3>2. v \in Inits /\ init'[v] = "returned"
      BY <2>2, <2>6, <3>1 DEF Settled
    <3> QED BY <3>1, <3>2 DEF ReadsWhole
  <2>10. ServedWhole'
    BY <2>5, <2>6, <2>7, <2>8, <2>9 DEF IInv, ServedWhole
  <2> QED BY <2>1, <2>10 DEF IInv
<1>6. ASSUME NEW r \in Requests, ReadScheduler(r) PROVE IInv'
  <2>1. Typed' /\ LockHeld' /\ Whole' /\ Halfway'
    BY <1>6, StillWhole DEF ReadScheduler, IInv, Typed
  <2>2. PICK v : Settled(v) /\ \A n \in Places : field[n] = v
    BY <1>6 DEF ReadScheduler, MayRead, IInv, Whole
  <2>3. UNCHANGED init /\ DOMAIN request = Requests
    BY <1>6 DEF ReadScheduler, IInv, ServedWhole
  <2>4. PICK c \in Inits : /\ init[c] = "returned"
                           /\ request[r].read = [f \in Reads.model |-> c]
    BY <1>6 DEF ReadScheduler, IInv, ServedWhole, ReadsWhole
  <2>5. v \in Inits /\ init[v] = "returned"
    BY <2>2, <2>4 DEF Settled
  <2>6. ValueOf("scheduler") = v
    BY <2>2, ReadsThatValue DEF FieldNames
  <2>7. request' = [request EXCEPT ![r] =
          [kind |-> "delete", at |-> "served",
           read |-> [f \in Reads.model \cup {"scheduler"} |-> IF f = "scheduler" THEN v ELSE c]]]
    BY <1>6, <2>4, <2>6, ReadsAreNames DEF ReadScheduler
  <2>8. \A q \in Requests \ {r} : request'[q] = request[q]
    BY <2>3, <2>7
  <2>9. \A q \in Requests \ {r} : ReadsWhole(q) => ReadsWhole(q)'
    BY <2>3, <2>8, KeptWhole
  <2>10. ReadsWhole(r)'
    BY <2>3, <2>4, <2>5, <2>7 DEF ReadsWhole
  <2>11. ServedWhole'
    BY <2>3, <2>7, <2>8, <2>9, <2>10 DEF IInv, ServedWhole
  <2> QED BY <2>1, <2>11 DEF IInv
<1>7. CASE UNCHANGED gatewayVars
  BY <1>7, StillWhole, StillServed DEF gatewayVars, IInv, Typed
<1> QED BY <1>1, <1>2, <1>3, <1>4, <1>5, <1>6, <1>7 DEF GatewayNext

\* The fields are consistent whenever no Init writes, and what requests have
\* read is too.
THEOREM InitInvariant == GatewaySpec => []IInv
BY StartsSo, Steps, PTL DEF GatewaySpec

\* The write lock is held by an Init that is writing.
THEOREM InitTypes == GatewaySpec => []GatewayTypeOK
<1>1. IInv => GatewayTypeOK
  <2> SUFFICES ASSUME IInv PROVE GatewayTypeOK
    OBVIOUS
  <2>1. field \in [1..Len(Fields) -> {0} \cup Inits]
    BY FieldsLength DEF IInv, Typed, Places
  <2>2. lock = NoLock \/ (lock[1] \in Inits /\ init[lock[1]] = "writes" /\ lock[2] \in 1..Len(Fields) + 1)
    BY FieldsLength DEF IInv, LockHeld
  <2> QED
    BY <2>1, <2>2 DEF IInv, Typed, GatewayTypeOK
<1> QED BY <1>1, InitInvariant, PTL

\* No request works with the parts of two Inits under one lock, and the
\* scheduler a delete reads later is never missing: HandleRequest, snapshot,
\* benchHandlers and evictLoadedInstances under Init's write lock.
THEOREM InitSeen == GatewaySpec => []SeesOneInit
<1>1. IInv => SeesOneInit
  <2> SUFFICES ASSUME IInv, NEW r \in Requests, request[r].at = "served"
               PROVE  /\ \A f, g \in DOMAIN request[r].read \ {"scheduler"} :
                           request[r].read[f] = request[r].read[g]
                      /\ request[r].kind = "delete" =>
                           /\ request[r].read["scheduler"] # 0
                           /\ request[r].read["scheduler"] # request[r].read["cache"] =>
                                \E i \in Inits : i = request[r].read["scheduler"] /\ init[i] = "returned"
    BY DEF SeesOneInit
  <2>1. ReadsWhole(r)
    BY DEF IInv, ServedWhole
  <2> QED BY <2>1, InitsAssumption DEF ReadsWhole
<1> QED BY <1>1, InitInvariant, PTL

\* Once an Init has returned no request is refused as "not initialised",
\* not even while another Init writes.
THEOREM InitStays == GatewaySpec => StaysInitialised
<1>1. ASSUME IInv, GatewayNext
      PROVE  \A r \in Requests :
               request'[r].at = "refused" /\ request[r].at = "idle"
                 => \A i \in Inits : init[i] # "returned"
  <2> SUFFICES ASSUME NEW r \in Requests, request'[r].at = "refused", request[r].at = "idle"
               PROVE  \A i \in Inits : init[i] # "returned"
    OBVIOUS
  <2> USE <1>1
  <2>1. request' # request
    OBVIOUS
  <2>2. PICK q \in Requests : Arrive(q) \/ ReadScheduler(q)
    BY <2>1 DEF GatewayNext, InitRefused, Dial, MkdirFails, Lock, Unlock, Assign
  <2>3. q = r /\ Arrive(r)
    BY <2>2 DEF Arrive, ReadScheduler, IInv, ServedWhole
  <2>4. PICK v : Settled(v) /\ \A n \in Places : field[n] = v
    BY <2>3 DEF Arrive, MayRead, IInv, Whole
  <2>5. PICK k \in {"http", "model", "bench"} : \E f \in Reads[k] : ValueOf(f) = 0
    BY <2>3 DEF Arrive, Reads, IInv, ServedWhole
  <2>6. v = 0
    BY <2>4, <2>5, ReadsThatValue, ReadsAreNames
  <2> QED BY <2>4, <2>6, InitsAssumption DEF Settled
<1>2. ASSUME UNCHANGED gatewayVars
      PROVE  \A r \in Requests :
               request'[r].at = "refused" /\ request[r].at = "idle"
                 => \A i \in Inits : init[i] # "returned"
  BY <1>2 DEF gatewayVars
<1> QED BY <1>1, <1>2, InitInvariant, PTL DEF GatewaySpec, StaysInitialised

------------------------------------------------------------------------------
(***************************************************************************)
(* The header reader, for every word size, table and keys: the types hold, *)
(* the active parameter count is a positive part of the total, and the     *)
(* sums are exact.  The second needs nothing of the first but the ranges:  *)
(* whatever the keys and the sums say of each other, Usable lets through   *)
(* only what the subtraction can take.  The third keeps, beside the sums,  *)
(* the partial products and partial sums they were made by.                *)
(***************************************************************************)

Tensor == [routed: BOOLEAN, dims: Seq(Sizes), elems: 0..Word - 1]

\* A remainder is in range.
LEMMA ModRange ==
  ASSUME NEW n \in Int
  PROVE  n % Word \in 0..Word - 1
BY WordAssumption

\* Appending a tensor, and rewriting the last one, keep a table a table.
LEMMA TableAppend ==
  ASSUME NEW table \in Seq(Tensor), NEW t \in Tensor
  PROVE  Append(table, t) \in Seq(Tensor) /\ Append(table, t) # <<>>
<1>1. Append(table, t) \in Seq(Tensor) /\ Len(Append(table, t)) = Len(table) + 1
  OBVIOUS
<1>2. Len(table) \in Nat /\ Len(<<>>) = 0
  OBVIOUS
<1> QED BY <1>1, <1>2

LEMMA TableReplace ==
  ASSUME NEW table \in Seq(Tensor), table # <<>>, NEW t \in Tensor
  PROVE  [table EXCEPT ![Len(table)] = t] \in Seq(Tensor) /\ [table EXCEPT ![Len(table)] = t] # <<>>
OBVIOUS

\* So does another dimension.
LEMMA TensorGrows ==
  ASSUME NEW t \in Tensor, NEW ds \in Seq(Sizes), NEW n \in 0..Word - 1
  PROVE  [t EXCEPT !.dims = ds, !.elems = n] \in Tensor
BY DEF Tensor

\* The parts of the type invariant, with the record set named.
LEMMA TypeParts ==
  GgufTypeOK <=>
    /\ reader.at \in {"magic", "kv", "tensor", "dims", "done", "failed"}
    /\ reader.left \in Nat
    /\ kv \in [Keys -> 0..Word - 1]
    /\ tensors \in Seq(Tensor)
    /\ reader.at = "dims" => tensors # <<>> /\ reader.left > 0
    /\ sums \in [total: 0..Word - 1, exps: 0..Word - 1]
BY DEF GgufTypeOK, Tensor

\* The variables of ReadMeta and tensorSums stay in range: no key, element
\* count or sum leaves a machine word, and a dimension is read only into a
\* tensor there is.
THEOREM GgufTypes == ReaderSpec => []GgufTypeOK
<1>1. ReaderInit => GgufTypeOK
  BY WordAssumption DEF ReaderInit, GgufTypeOK, Keys
<1>2. ASSUME GgufTypeOK, [ReaderNext]_ggufVars
      PROVE  GgufTypeOK'
  <2> USE DEF Go
  <2>0. /\ reader.at \in {"magic", "kv", "tensor", "dims", "done", "failed"}
        /\ reader.left \in Nat
        /\ kv \in [Keys -> 0..Word - 1]
        /\ tensors \in Seq(Tensor)
        /\ reader.at = "dims" => tensors # <<>> /\ reader.left > 0
        /\ sums \in [total: 0..Word - 1, exps: 0..Word - 1]
    BY <1>2, TypeParts
  <2>1. CASE ReadCounts
    BY <2>0, <2>1, LimitAssumption DEF ReadCounts, GgufTypeOK, Tensor
  <2>2. CASE Fails
    BY <2>0, <2>2 DEF Fails, GgufTypeOK, Tensor
  <2>3. CASE ReadPair
    <3>1. 0 \in 0..Word - 1 /\ 1 \in 0..Word - 1 /\ Labels \subseteq 0..Word - 1 /\ Counts \subseteq 0..Word - 1
      BY WordAssumption, NumbersAssumption
    <3>2. PICK k \in Keys, v \in 0..Word - 1 : kv' = [kv EXCEPT ![k] = v]
      BY <3>1, <2>3 DEF ReadPair, Keys, CountKeys, NoNumber
    <3>3. kv' \in [Keys -> 0..Word - 1]
      BY <3>2, <2>0
    <3> QED BY <3>3, <2>0, <2>3 DEF ReadPair, GgufTypeOK, Tensor
  <2>4. CASE StartTensors
    BY <2>0, <2>4, LimitAssumption DEF StartTensors, GgufTypeOK, Tensor
  <2>5. CASE TableBreaks
    BY <2>0, <2>5, WordAssumption DEF TableBreaks, NoSums, GgufTypeOK, Tensor
  <2>6. CASE ReadTensor
    <3>1. PICK r \in BOOLEAN : tensors' = Append(tensors, [routed |-> r, dims |-> <<>>, elems |-> 1])
      BY <2>6 DEF ReadTensor
    <3>2. [routed |-> r, dims |-> <<>>, elems |-> 1] \in Tensor
      BY WordAssumption DEF Tensor
    <3>3. tensors' \in Seq(Tensor) /\ tensors' # <<>>
      BY <3>1, <3>2, <2>0, TableAppend
    <3> QED BY <3>3, <2>0, <2>6 DEF ReadTensor, GgufTypeOK, Tensor
  <2>7. CASE ReadDim
    <3> DEFINE t == tensors[Len(tensors)]
    <3>1. reader.at = "dims" /\ tensors # <<>>
      BY <2>7, <2>0 DEF ReadDim
    <3>2. t \in Tensor
      BY <3>1, <2>0
    <3>3. PICK d \in Sizes :
            /\ tensors' = [tensors EXCEPT ![Len(tensors)] =
                             [@ EXCEPT !.dims = Append(t.dims, d), !.elems = (t.elems * d) % Word]]
            /\ \/ reader' = [at |-> "done", left |-> 0] /\ sums' = [total |-> 0, exps |-> 0]
               \/ UNCHANGED <<reader, sums>>
      BY <2>7 DEF ReadDim, NoSums
    <3> DEFINE u == [t EXCEPT !.dims = Append(t.dims, d), !.elems = (t.elems * d) % Word]
    <3>4. (t.elems * d) % Word \in 0..Word - 1
      <4>1. t.elems \in Int /\ d \in Int
        BY <3>2, NumbersAssumption, WordAssumption DEF Tensor
      <4>2. t.elems * d \in Int
        BY <4>1
      <4> QED BY <4>2, ModRange
    <3>5. u \in Tensor
      <4>1. t.dims \in Seq(Sizes)
        BY <3>2 DEF Tensor
      <4> HIDE DEF t
      <4>2. Append(t.dims, d) \in Seq(Sizes)
        BY <4>1
      <4> QED BY <4>2, <3>2, <3>4, TensorGrows
    <3>6. tensors' = [tensors EXCEPT ![Len(tensors)] = u]
      BY <3>3, <2>0, <3>1
    <3>7. tensors' \in Seq(Tensor) /\ tensors' # <<>>
      BY <3>5, <3>6, <3>1, <2>0, TableReplace
    <3>8. kv' = kv
      BY <2>7 DEF ReadDim
    <3>9. /\ reader'.at \in {"dims", "done"} /\ reader'.left \in Nat
          /\ reader'.at = "dims" => reader'.left > 0
          /\ sums' \in [total: 0..Word - 1, exps: 0..Word - 1]
      <4>1. CASE reader' = [at |-> "done", left |-> 0] /\ sums' = [total |-> 0, exps |-> 0]
        BY <4>1, WordAssumption
      <4>2. CASE UNCHANGED <<reader, sums>>
        BY <4>2, <3>1, <2>0
      <4> QED BY <4>1, <4>2, <3>3
    <3>10. kv' \in [Keys -> 0..Word - 1]
      BY <3>8, <2>0
    <3> HIDE DEF t, u
    <3> QED BY <3>7, <3>9, <3>10 DEF GgufTypeOK, Tensor
  <2>8. CASE AddTensor
    <3> DEFINE t == tensors[Len(tensors)]
    <3>1. t \in Tensor
      BY <2>8, <2>0 DEF AddTensor
    <3>2. t.elems \in Int /\ sums.total \in Int /\ sums.exps \in Int
      BY <3>1, <2>0, WordAssumption DEF Tensor
    <3>3. (sums.total + t.elems) % Word \in 0..Word - 1 /\ (sums.exps + t.elems) % Word \in 0..Word - 1
      <4> HIDE DEF t
      <4>1. sums.total + t.elems \in Int /\ sums.exps + t.elems \in Int
        BY <3>2
      <4> QED BY <4>1, ModRange
    <3>4. sums' = [total |-> (sums.total + t.elems) % Word,
                   exps |-> IF t.routed THEN (sums.exps + t.elems) % Word ELSE sums.exps]
      BY <2>8 DEF AddTensor
    <3>5. sums' \in [total: 0..Word - 1, exps: 0..Word - 1]
      BY <3>3, <3>4, <2>0
    <3>6. reader'.at = "tensor" /\ reader'.left \in Nat /\ kv' = kv /\ tensors' = tensors
      BY <2>0, <2>8 DEF AddTensor, Go
    <3> HIDE DEF t
    <3> QED BY <3>5, <3>6, <2>0 DEF GgufTypeOK, Tensor
  <2>9. CASE ReadDone
    BY <2>0, <2>9 DEF ReadDone, GgufTypeOK, Tensor
  <2>10. CASE UNCHANGED ggufVars
    BY <2>0, <2>10 DEF ggufVars, GgufTypeOK, Tensor
  <2> QED BY <1>2, <2>1, <2>2, <2>3, <2>4, <2>5, <2>6, <2>7, <2>8, <2>9, <2>10 DEF ReaderNext
<1> QED BY <1>1, <1>2, PTL DEF ReaderSpec

\* What is taken off the total for the experts that stay idle.
LEMMA IdleShare ==
  ASSUME NEW c \in Nat \ {0}, NEW u \in 1..c, NEW exps \in Nat
  PROVE  (exps \div c) * (c - u) \in 0..exps
<1> DEFINE q == exps \div c
<1>1. q \in Nat /\ c * q <= exps
  OBVIOUS
<1>2. q * (c - u) >= 0
  BY <1>1
<1>3. q * (c - u) = q * c - q * u /\ q * u >= 0
  BY <1>1
<1>4. q * (c - u) <= exps
  BY <1>1, <1>3
<1> QED BY <1>1, <1>2, <1>4

\* However the keys, the size label and the sums of a file contradict each
\* other, jobs of its model are never priced as if it had no parameters, or
\* more active ones than it has.
THEOREM GgufActiveIsPart == ReaderSpec => []ActiveIsPart
<1>1. ASSUME GgufTypeOK
      PROVE  ActiveIsPart
  <2> DEFINE total == ParameterCount(kv, sums.total)
             exps == sums.exps
             c == kv["expert_count"]
             u == kv["expert_used_count"]
             idle == (exps \div c) * (c - u)
  <2>1. /\ sums.total \in 0..Word - 1 /\ exps \in 0..Word - 1
        /\ kv["parameter_count"] \in 0..Word - 1 /\ kv["size_label"] \in 0..Word - 1
        /\ c \in 0..Word - 1 /\ u \in 0..Word - 1
    BY <1>1 DEF GgufTypeOK, Keys, CountKeys
  <2>2. total \in 0..Word - 1
    BY <2>1 DEF ParameterCount
  <2>3. CASE Usable(kv, total, exps)
    <3>1. exps < total /\ u \in 1..c - 1
      BY <2>3 DEF Usable
    <3>2. idle \in 0..exps
      BY <3>1, <2>1, WordAssumption, IdleShare
    <3>3. total - idle \in 1..total
      BY <3>1, <3>2, <2>1, <2>2, WordAssumption
    <3>4. (total - idle) % Word = total - idle
      BY <3>3, <2>2, WordAssumption
    <3>5. ActiveParameterCount(kv, total, exps) = total - idle
      BY <2>3, <3>4 DEF ActiveParameterCount
    <3> QED BY <3>1, <3>3, <3>5, <2>1, <2>2 DEF ActiveIsPart
  <2>4. CASE ~Usable(kv, total, exps)
    BY <2>4, <2>2, WordAssumption DEF ActiveIsPart, ActiveParameterCount
  <2> QED BY <2>3, <2>4
<1> QED BY <1>1, GgufTypes, PTL

\* A set of numbers that is not empty has a least one.
LEMMA LeastPlace ==
  ASSUME NEW T \in SUBSET Nat, T # {}
  PROVE  \E x \in T : \A y \in T : x <= y
<1> DEFINE R == OpToRel(<, Nat)
<1>1. PICK x \in T : \A y \in T : <<y, x>> \notin R
  BY NatLessThanWellFounded, WFMin
<1>2. ASSUME NEW y \in T
      PROVE  x <= y
  <2>1. <<y, x>> \notin { ss \in Nat \X Nat : ss[1] < ss[2] }
    BY <1>1 DEF OpToRel
  <2>2. QED
    BY <2>1
<1>3. QED
  BY <1>1, <1>2

\* What is computed step by step is determined by the start and the steps.
LEMMA SameSteps ==
  ASSUME NEW k \in Nat, NEW f, NEW g, f[0] = g[0],
         \A i \in 1..k : f[i - 1] = g[i - 1] => f[i] = g[i]
  PROVE  f[k] = g[k]
<1> DEFINE T == { i \in 0..k : f[i] # g[i] }
<1>1. SUFFICES ASSUME T # {} PROVE FALSE
  OBVIOUS
<1>2. T \in SUBSET Nat
  OBVIOUS
<1>3. PICK x \in T : \A y \in T : x <= y
  <2> HIDE DEF T
  <2>1. QED
    BY <1>1, <1>2, LeastPlace
<1>4. x \in 1..k /\ x - 1 \in 0..k /\ x - 1 < x
  OBVIOUS
<1>5. x - 1 \notin T
  BY <1>2, <1>3, <1>4
<1>6. QED
  BY <1>4, <1>5

\* What a sequence of factors multiplies to, one after the other, exactly:
\* Product of GgufReader, by its partial products.
Multiplies(dims, n) ==
  \E p \in [0..Len(dims) -> Nat] :
    /\ p[0] = 1 /\ p[Len(dims)] = n
    /\ \A i \in 1..Len(dims) : p[i] = p[i - 1] * dims[i]

\* What the first k tensors add up to, all and the routed ones: Sum of
\* GgufReader, by its partial sums.
Adds(table, k, total, exps) ==
  \E s, e \in [0..k -> Nat] :
    /\ s[0] = 0 /\ e[0] = 0 /\ s[k] = total /\ e[k] = exps
    /\ \A i \in 1..k :
         /\ s[i] = s[i - 1] + table[i].elems
         /\ e[i] = e[i - 1] + (IF table[i].routed THEN table[i].elems ELSE 0)

\* Each product is exact, and the sums are those of the first k tensors.
ExactProducts == \A i \in 1..Len(tensors) : Multiplies(tensors[i].dims, tensors[i].elems)

ExactSums(k) ==
  \E total, exps \in Nat :
    Adds(tensors, k, total, exps) /\ sums = [total |-> total % Word, exps |-> exps % Word]

ExactInv ==
  /\ GgufTypeOK
  /\ reader.at \in {"magic", "kv", "failed"} => tensors = <<>> /\ sums = NoSums
  /\ reader.at = "tensor" => ExactProducts /\ ExactSums(Len(tensors))
  /\ reader.at = "dims" => ExactProducts /\ ExactSums(Len(tensors) - 1)
  /\ reader.at = "done" => sums = NoSums \/ (ExactProducts /\ ExactSums(Len(tensors)))

\* A remainder is told by any quotient.
LEMMA RemainderUnique ==
  ASSUME NEW w \in Nat, w > 0, NEW q \in Int, NEW p \in Int, NEW r \in 0..w - 1, NEW t \in 0..w - 1,
         w * q + r = w * p + t
  PROVE  r = t
<1>1. ASSUME NEW a \in Int, a >= 1
      PROVE  w * a >= w
  BY <1>1
<1>2. w * (q - p) = t - r /\ w * (p - q) = r - t
  OBVIOUS
<1>3. CASE q > p
  BY <1>1, <1>2, <1>3
<1>4. CASE p > q
  BY <1>1, <1>2, <1>4
<1>5. CASE p = q
  BY <1>5
<1>6. QED
  BY <1>3, <1>4, <1>5

\* Adding modulo Word at every step is adding modulo Word at the end.
LEMMA ModAdds ==
  ASSUME NEW a \in Nat, NEW b \in Nat
  PROVE  ((a % Word) + b) % Word = (a + b) % Word
<1> DEFINE w == Word
           r == a % w
           x == r + b
           y == a + b
<1>1. w \in Nat /\ w > 0
  BY WordAssumption
<1>2. /\ a = w * (a \div w) + r /\ a \div w \in Int /\ r \in 0..w - 1
  BY <1>1
<1>3. x \in Nat /\ x = w * (x \div w) + (x % w) /\ x \div w \in Int /\ x % w \in 0..w - 1
  BY <1>1, <1>2
<1>4. y = w * (y \div w) + (y % w) /\ y \div w \in Int /\ y % w \in 0..w - 1
  BY <1>1
<1>6. w * ((a \div w) + (x \div w)) = w * (a \div w) + w * (x \div w)
  BY <1>1, <1>2, <1>3
<1> HIDE DEF w, r, x, y
<1>5. y = w * (a \div w) + x
  <2> DEFINE m == w * (a \div w)
  <2>1. a = m + r /\ m \in Int
    BY <1>1, <1>2
  <2> HIDE DEF m
  <2>2. y = m + x
    BY <1>2, <2>1 DEF x, y
  <2>3. QED
    BY <2>2 DEF m
<1>7. y = w * ((a \div w) + (x \div w)) + (x % w)
  BY <1>1, <1>2, <1>3, <1>5, <1>6
<1>8. x % w = y % w
  <2> DEFINE q == (a \div w) + (x \div w)
             p == y \div w
  <2>1. q \in Int /\ p \in Int /\ w * q + (x % w) = w * p + (y % w)
    BY <1>2, <1>3, <1>4, <1>7
  <2> HIDE DEF q, p
  <2>2. QED
    BY <1>1, <1>3, <1>4, <2>1, RemainderUnique
<1>9. QED
  BY <1>8 DEF w, r, x, y

LEMMA MultipliesMore ==
  ASSUME NEW dims \in Seq(Sizes), NEW n \in Nat, Multiplies(dims, n), NEW d \in Sizes
  PROVE  Multiplies(Append(dims, d), n * d)
<1>1. PICK p \in [0..Len(dims) -> Nat] :
        /\ p[0] = 1 /\ p[Len(dims)] = n
        /\ \A i \in 1..Len(dims) : p[i] = p[i - 1] * dims[i]
  BY DEF Multiplies
<1> DEFINE more == Append(dims, d)
           k == Len(dims)
           q == [i \in 0..k + 1 |-> IF i = k + 1 THEN n * d ELSE p[i]]
<1>2. k \in Nat /\ Len(more) = k + 1 /\ more[k + 1] = d /\ \A i \in 1..k : more[i] = dims[i]
  OBVIOUS
<1>3. d \in Nat /\ n * d \in Nat
  BY NumbersAssumption, WordAssumption
<1> HIDE DEF more, k
<1>4. q \in [0..k + 1 -> Nat]
  BY <1>1, <1>2, <1>3 DEF k
<1>5. q[0] = 1 /\ q[k + 1] = n * d /\ q[k] = n
  BY <1>1, <1>2 DEF k
<1>6. \A i \in 1..k + 1 : q[i] = q[i - 1] * more[i]
  <2> SUFFICES ASSUME NEW i \in 1..k + 1
               PROVE  q[i] = q[i - 1] * more[i]
    OBVIOUS
  <2>1. CASE i = k + 1
    BY <1>2, <1>5, <2>1
  <2>2. CASE i \in 1..k
    <3>1. q[i] = p[i] /\ q[i - 1] = p[i - 1] /\ more[i] = dims[i] /\ p[i] = p[i - 1] * dims[i]
      BY <1>1, <1>2, <2>2 DEF k
    <3>2. QED
      BY <3>1
  <2>3. QED
    BY <1>2, <2>1, <2>2
<1> HIDE DEF q
<1>7. QED
  BY <1>2, <1>4, <1>5, <1>6 DEF Multiplies, more

LEMMA AddsMore ==
  ASSUME NEW table \in Seq(Tensor), NEW k \in Nat, k < Len(table), NEW a \in Nat, NEW b \in Nat,
         Adds(table, k, a, b)
  PROVE  Adds(table, k + 1, a + table[k + 1].elems,
              b + (IF table[k + 1].routed THEN table[k + 1].elems ELSE 0))
<1>1. PICK s \in [0..k -> Nat], e \in [0..k -> Nat] :
        /\ s[0] = 0 /\ e[0] = 0 /\ s[k] = a /\ e[k] = b
        /\ \A i \in 1..k : /\ s[i] = s[i - 1] + table[i].elems
                           /\ e[i] = e[i - 1] + (IF table[i].routed THEN table[i].elems ELSE 0)
  BY DEF Adds
<1> DEFINE n == table[k + 1].elems
           m == IF table[k + 1].routed THEN n ELSE 0
           t == [i \in 0..k + 1 |-> IF i = k + 1 THEN a + n ELSE s[i]]
           f == [i \in 0..k + 1 |-> IF i = k + 1 THEN b + m ELSE e[i]]
<1>2. n \in Nat /\ m \in Nat
  <2>1. table[k + 1] \in Tensor
    OBVIOUS
  <2>2. n \in Nat
    <3>1. ASSUME NEW u \in Tensor
          PROVE  u.elems \in Nat
      BY WordAssumption DEF Tensor
    <3> QED BY <2>1, <3>1
  <2>3. QED
    BY <2>2
<1>3. \A i \in 1..k + 1 : i = k + 1 \/ i \in 1..k
  OBVIOUS
<1> HIDE DEF n, m
<1>4. t \in [0..k + 1 -> Nat] /\ f \in [0..k + 1 -> Nat]
  BY <1>1, <1>2
<1>5. t[0] = 0 /\ f[0] = 0 /\ t[k + 1] = a + n /\ f[k + 1] = b + m /\ t[k] = a /\ f[k] = b
  BY <1>1
<1>6. \A i \in 1..k : t[i] = s[i] /\ f[i] = e[i] /\ t[i - 1] = s[i - 1] /\ f[i - 1] = e[i - 1]
  OBVIOUS
<1> HIDE DEF t, f
<1>7. \A i \in 1..k + 1 :
        /\ t[i] = t[i - 1] + table[i].elems
        /\ f[i] = f[i - 1] + (IF table[i].routed THEN table[i].elems ELSE 0)
  <2> SUFFICES ASSUME NEW i \in 1..k + 1
               PROVE  /\ t[i] = t[i - 1] + table[i].elems
                      /\ f[i] = f[i - 1] + (IF table[i].routed THEN table[i].elems ELSE 0)
    OBVIOUS
  <2>1. CASE i = k + 1
    BY <1>5, <2>1 DEF n, m
  <2>2. CASE i \in 1..k
    BY <1>1, <1>6, <2>2
  <2>3. QED
    BY <1>3, <2>1, <2>2
<1>8. QED
  BY <1>4, <1>5, <1>7 DEF Adds, n, m

LEMMA AddsSame ==
  ASSUME NEW table, NEW same, NEW k \in Nat, NEW a, NEW b, Adds(table, k, a, b),
         \A i \in 1..k : same[i] = table[i]
  PROVE  Adds(same, k, a, b)
<1>1. PICK s \in [0..k -> Nat], e \in [0..k -> Nat] :
        /\ s[0] = 0 /\ e[0] = 0 /\ s[k] = a /\ e[k] = b
        /\ \A i \in 1..k : /\ s[i] = s[i - 1] + table[i].elems
                           /\ e[i] = e[i - 1] + (IF table[i].routed THEN table[i].elems ELSE 0)
  BY DEF Adds
<1>2. \A i \in 1..k : /\ s[i] = s[i - 1] + same[i].elems
                     /\ e[i] = e[i - 1] + (IF same[i].routed THEN same[i].elems ELSE 0)
  BY <1>1
<1>3. QED
  BY <1>1, <1>2 DEF Adds

LEMMA NoFactors == Multiplies(<<>>, 1)
<1> DEFINE p == [i \in 0..0 |-> 1]
<1>1. p \in [0..0 -> Nat] /\ p[0] = 1 /\ Len(<<>>) = 0
  OBVIOUS
<1> HIDE DEF p
<1>2. QED
  BY <1>1 DEF Multiplies

LEMMA NoTensors == ASSUME NEW table PROVE Adds(table, 0, 0, 0)
<1> DEFINE s == [i \in 0..0 |-> 0]
<1>1. s \in [0..0 -> Nat] /\ s[0] = 0
  OBVIOUS
<1> HIDE DEF s
<1>2. QED
  BY <1>1 DEF Adds

\* A product that does not wrap is what the dimensions multiply to.
LEMMA ExactProduct ==
  ASSUME NEW n \in 0..Word - 1, NEW d \in 0..Word - 1, ~Wraps(n, d)
  PROVE  (n * d) % Word = n * d /\ n * d \in 0..Word - 1
<1>1. Word \in Nat /\ Word > 1
  BY WordAssumption
<1>2. n * d \in 0..Word - 1
  <2>1. CASE d = 0
    BY <1>1, <2>1
  <2>2. CASE d # 0
    <3> DEFINE q == (Word - 1) \div d
    <3>1. q \in Nat /\ q * d <= Word - 1
      BY <1>1, <2>2
    <3>2. n <= q
      BY <1>1, <2>2, <3>1 DEF Wraps
    <3> HIDE DEF q
    <3>3. n * d <= q * d
      BY <1>1, <3>1, <3>2
    <3>4. n * d \in Nat
      BY <1>1
    <3>5. QED
      BY <1>1, <3>1, <3>3, <3>4
  <2>3. QED
    BY <2>1, <2>2
<1> DEFINE m == n * d
<1>3. m \in 0..Word - 1
  BY <1>2
<1> HIDE DEF m
<1>4. m % Word = m
  BY <1>1, <1>3
<1>5. QED
  BY <1>3, <1>4 DEF m

LEMMA ExactStarts == ReaderInit => ExactInv
<1>1. ReaderInit => GgufTypeOK
  BY WordAssumption DEF ReaderInit, GgufTypeOK, Keys
<1>2. QED
  BY <1>1 DEF ReaderInit, ExactInv, NoSums

LEMMA ExactSteps == ExactInv /\ GgufTypeOK' /\ [ReaderNext]_ggufVars => ExactInv'
<1> SUFFICES ASSUME ExactInv, GgufTypeOK', [ReaderNext]_ggufVars
             PROVE  ExactInv'
  OBVIOUS
<1>0. /\ tensors \in Seq(Tensor) /\ tensors' \in Seq(Tensor)
      /\ sums \in [total: 0..Word - 1, exps: 0..Word - 1]
      /\ Len(tensors) \in Nat /\ (reader.at = "dims" => Len(tensors) > 0)
  BY TypeParts DEF ExactInv, GgufTypeOK, Tensor
<1>1. CASE ReadCounts \/ Fails \/ ReadPair
  <2>1. UNCHANGED <<tensors, sums>> /\ reader.at \in {"magic", "kv"} /\ reader'.at \in {"kv", "failed"}
    BY <1>1 DEF ReadCounts, Fails, ReadPair, Go
  <2>2. QED
    BY <2>1 DEF ExactInv, NoSums
<1>2. CASE StartTensors
  <2>1. /\ tensors = <<>> /\ sums = NoSums /\ UNCHANGED <<tensors, sums>>
        /\ reader'.at = "tensor"
    BY <1>2 DEF StartTensors, Go, ExactInv
  <2>2. 0 % Word = 0
    BY WordAssumption
  <2>3. ExactProducts' /\ ExactSums(Len(tensors))'
    BY <2>1, <2>2, NoTensors DEF ExactProducts, ExactSums, NoSums
  <2>4. QED
    BY <2>1, <2>3 DEF ExactInv
<1>3. CASE TableBreaks
  BY <1>3 DEF TableBreaks, Go, ExactInv, NoSums
<1>4. CASE ReadTensor
  <2>1. PICK r \in BOOLEAN : tensors' = Append(tensors, [routed |-> r, dims |-> <<>>, elems |-> 1])
    BY <1>4 DEF ReadTensor
  <2>2. reader.at = "tensor" /\ reader'.at = "dims" /\ sums' = sums
    BY <1>4 DEF ReadTensor, Go
  <2> DEFINE t == [routed |-> r, dims |-> <<>>, elems |-> 1]
             k == Len(tensors)
  <2>3. t.dims = <<>> /\ t.elems = 1
    OBVIOUS
  <2> HIDE DEF t
  <2>4. Len(tensors') = k + 1 /\ tensors'[k + 1] = t /\ \A i \in 1..k : tensors'[i] = tensors[i]
    BY <1>0, <2>1 DEF t
  <2>5. k \in Nat /\ ExactProducts /\ ExactSums(k)
    BY <1>0, <2>2 DEF ExactInv
  <2>6. ExactProducts'
    BY <2>3, <2>4, <2>5, NoFactors DEF ExactProducts
  <2>7. PICK total \in Nat, exps \in Nat :
          Adds(tensors, k, total, exps) /\ sums = [total |-> total % Word, exps |-> exps % Word]
    BY <2>5 DEF ExactSums
  <2>8. Adds(tensors', k, total, exps)
    BY <2>4, <2>5, <2>7, AddsSame
  <2>9. Len(tensors') - 1 = k
    BY <2>4, <2>5
  <2>10. ExactSums(Len(tensors) - 1)'
    BY <2>2, <2>7, <2>8, <2>9 DEF ExactSums
  <2>11. QED
    BY <2>2, <2>6, <2>10 DEF ExactInv
<1>5. CASE ReadDim
  <2> DEFINE k == Len(tensors)
             t == tensors[k]
  <2>1. reader.at = "dims" /\ k \in Nat /\ k > 0 /\ ExactProducts /\ ExactSums(k - 1) /\ t \in Tensor
    BY <1>0, <1>5 DEF ExactInv, ReadDim
  <2>2. PICK d \in Sizes :
          /\ tensors' = [tensors EXCEPT ![Len(tensors)] =
                           [@ EXCEPT !.dims = Append(t.dims, d), !.elems = (t.elems * d) % Word]]
          /\ IF Wraps(t.elems, d)
               THEN reader' = [at |-> "done", left |-> 0] /\ sums' = NoSums
               ELSE UNCHANGED <<reader, sums>>
    BY <1>5 DEF ReadDim, Go
  <2>3. CASE Wraps(t.elems, d)
    BY <2>2, <2>3 DEF ExactInv
  <2>4. CASE ~Wraps(t.elems, d)
    <3>1. reader' = reader /\ sums' = sums
      BY <2>2, <2>4
    <3>2. /\ t.elems \in 0..Word - 1 /\ d \in 0..Word - 1 /\ d \in Nat /\ t.elems \in Nat
          /\ t.dims \in Seq(Sizes)
      BY <2>1, NumbersAssumption, WordAssumption DEF Tensor
    <3>3. (t.elems * d) % Word = t.elems * d
      BY <2>4, <3>2, ExactProduct
    <3> DEFINE u == [t EXCEPT !.dims = Append(t.dims, d), !.elems = (t.elems * d) % Word]
    <3>4. tensors' = [tensors EXCEPT ![k] = u]
      BY <1>0, <2>1, <2>2
    <3>5. u.dims = Append(t.dims, d) /\ u.elems = t.elems * d
      BY <2>1, <3>3 DEF Tensor
    <3>6. Multiplies(t.dims, t.elems)
      BY <2>1 DEF ExactProducts
    <3> HIDE DEF u, t
    <3>7. Multiplies(u.dims, u.elems)
      BY <3>2, <3>5, <3>6, MultipliesMore
    <3>8. Len(tensors') = k /\ tensors'[k] = u /\ \A i \in 1..k - 1 : tensors'[i] = tensors[i]
      BY <1>0, <2>1, <3>4
    <3>9. ExactProducts'
      BY <2>1, <3>7, <3>8 DEF ExactProducts
    <3>10. PICK total \in Nat, exps \in Nat :
            Adds(tensors, k - 1, total, exps) /\ sums = [total |-> total % Word, exps |-> exps % Word]
      BY <2>1 DEF ExactSums
    <3>11. Adds(tensors', k - 1, total, exps)
      BY <2>1, <3>8, <3>10, AddsSame
    <3>12. ExactSums(Len(tensors) - 1)'
      BY <3>1, <3>8, <3>10, <3>11 DEF ExactSums
    <3>13. QED
      BY <2>1, <3>1, <3>9, <3>12 DEF ExactInv
  <2>5. QED
    BY <2>3, <2>4
<1>6. CASE AddTensor
  <2> DEFINE k == Len(tensors)
             t == tensors[k]
  <2>1. /\ reader.at = "dims" /\ reader'.at = "tensor" /\ tensors' = tensors
        /\ sums' = [total |-> (sums.total + t.elems) % Word,
                    exps |-> IF t.routed THEN (sums.exps + t.elems) % Word ELSE sums.exps]
    BY <1>6 DEF AddTensor, Go
  <2>2. k \in Nat /\ k > 0 /\ ExactProducts /\ ExactSums(k - 1) /\ t \in Tensor
    BY <1>0, <2>1 DEF ExactInv
  <2>3. PICK total \in Nat, exps \in Nat :
          Adds(tensors, k - 1, total, exps) /\ sums = [total |-> total % Word, exps |-> exps % Word]
    BY <2>2 DEF ExactSums
  <2>4. t.elems \in Nat /\ t.routed \in BOOLEAN
    BY <2>2, WordAssumption DEF Tensor
  <2> DEFINE more == IF t.routed THEN t.elems ELSE 0
  <2>5. Adds(tensors, k, total + t.elems, exps + more)
    <3> DEFINE j == k - 1
    <3>1. j \in Nat /\ j < Len(tensors) /\ j + 1 = k /\ Adds(tensors, j, total, exps)
      BY <2>2, <2>3
    <3> HIDE DEF j
    <3>2. Adds(tensors, j + 1, total + tensors[j + 1].elems,
               exps + (IF tensors[j + 1].routed THEN tensors[j + 1].elems ELSE 0))
      BY <1>0, <3>1, AddsMore
    <3>3. QED
      BY <3>1, <3>2
  <2>6. sums.total = total % Word /\ sums.exps = exps % Word
    BY <2>3
  <2> HIDE DEF t
  <2>7. /\ (sums.total + t.elems) % Word = (total + t.elems) % Word
        /\ (sums.exps + t.elems) % Word = (exps + t.elems) % Word
    BY <2>4, <2>6, ModAdds
  <2>8. sums' = [total |-> (total + t.elems) % Word, exps |-> (exps + more) % Word]
    <3>1. CASE t.routed
      BY <2>1, <2>7, <3>1
    <3>2. CASE ~t.routed
      <4>1. exps + more = exps
        BY <3>2
      <4>2. QED
        BY <2>1, <2>6, <2>7, <3>2, <4>1
    <3>3. QED
      BY <3>1, <3>2
  <2>9. total + t.elems \in Nat /\ exps + more \in Nat
    BY <2>4
  <2> HIDE DEF more
  <2>10. ExactSums(Len(tensors))'
    BY <2>1, <2>5, <2>8, <2>9 DEF ExactSums
  <2>11. ExactProducts'
    BY <2>1, <2>2 DEF ExactProducts
  <2>12. QED
    BY <2>1, <2>10, <2>11 DEF ExactInv
<1>7. CASE ReadDone
  <2>1. reader.at = "tensor" /\ reader'.at = "done" /\ UNCHANGED <<tensors, sums>>
    BY <1>7 DEF ReadDone, Go
  <2>2. QED
    BY <2>1 DEF ExactInv, ExactProducts, ExactSums
<1>8. CASE UNCHANGED ggufVars
  BY <1>8 DEF ggufVars, ExactInv, ExactProducts, ExactSums, NoSums
<1>9. QED
  BY <1>1, <1>2, <1>3, <1>4, <1>5, <1>6, <1>7, <1>8 DEF ReaderNext

\* Product is what the partial products come to: its recursion has the solution
\* they are, and no other.
LEMMA ProductIs ==
  ASSUME NEW dims, Len(dims) \in Nat, NEW n, Multiplies(dims, n)
  PROVE  Product(dims) = n
<1> DEFINE k == Len(dims)
           Eq(f) == f = [i \in 0..k |-> IF i = 0 THEN 1 ELSE f[i - 1] * dims[i]]
           P == CHOOSE f : Eq(f)
<1>1. PICK p \in [0..k -> Nat] :
        p[0] = 1 /\ p[k] = n /\ \A i \in 1..k : p[i] = p[i - 1] * dims[i]
  BY DEF Multiplies
<1>2. Eq(p)
  <2>1. \A i \in 0..k : p[i] = IF i = 0 THEN 1 ELSE p[i - 1] * dims[i]
    BY <1>1
  <2>2. p = [i \in 0..k |-> p[i]]
    OBVIOUS
  <2>3. QED
    BY <2>1, <2>2
<1>3. Eq(P)
  BY <1>2
<1>4. P[0] = 1 /\ \A i \in 1..k : P[i] = P[i - 1] * dims[i]
  <2> HIDE DEF P
  <2>1. QED
    BY <1>3
<1>5. Product(dims) = P[k]
  BY DEF Product
<1>6. QED
  <2> HIDE DEF P, k
  <2>1. k \in Nat
    BY DEF k
  <2>0. P[0] = p[0] /\ \A i \in 1..k : P[i - 1] = p[i - 1] => P[i] = p[i]
    BY <1>1, <1>4
  <2>2. P[k] = p[k]
    BY <2>0, <2>1, SameSteps
  <2>3. QED
    BY <1>1, <1>5, <2>2

\* And so with the sums.
LEMMA SumsAre ==
  ASSUME NEW table, Len(table) \in Nat, NEW total, NEW exps, Adds(table, Len(table), total, exps),
         \A i \in 1..Len(table) : Product(table[i].dims) = table[i].elems
  PROVE  Sum(table) = total /\ RoutedSum(table) = exps
<1> DEFINE k == Len(table)
           All(f) == f = [i \in 0..k |-> IF i = 0 THEN 0 ELSE f[i - 1] + Product(table[i].dims)]
           Part(f) == f = [i \in 0..k |->
                        IF i = 0 THEN 0
                        ELSE f[i - 1] + (IF table[i].routed THEN Product(table[i].dims) ELSE 0)]
           S == CHOOSE f : All(f)
           E == CHOOSE f : Part(f)
<1>1. PICK s \in [0..k -> Nat], e \in [0..k -> Nat] :
        /\ s[0] = 0 /\ e[0] = 0 /\ s[k] = total /\ e[k] = exps
        /\ \A i \in 1..k : /\ s[i] = s[i - 1] + table[i].elems
                           /\ e[i] = e[i - 1] + (IF table[i].routed THEN table[i].elems ELSE 0)
  BY DEF Adds
<1>2. All(s)
  <2>1. \A i \in 0..k : s[i] = IF i = 0 THEN 0 ELSE s[i - 1] + Product(table[i].dims)
    BY <1>1
  <2>2. s = [i \in 0..k |-> s[i]]
    OBVIOUS
  <2>3. QED
    BY <2>1, <2>2
<1>3. Part(e)
  <2>1. \A i \in 0..k : e[i] = IF i = 0 THEN 0
          ELSE e[i - 1] + (IF table[i].routed THEN Product(table[i].dims) ELSE 0)
    BY <1>1
  <2>2. e = [i \in 0..k |-> e[i]]
    OBVIOUS
  <2>3. QED
    BY <2>1, <2>2
<1>4. All(S)
  BY <1>2
<1>5. Part(E)
  BY <1>3
<1>6. /\ S[0] = 0 /\ \A i \in 1..k : S[i] = S[i - 1] + table[i].elems
      /\ E[0] = 0 /\ \A i \in 1..k : E[i] = E[i - 1] + (IF table[i].routed THEN table[i].elems ELSE 0)
  <2> HIDE DEF S, E
  <2>1. S[0] = 0 /\ \A i \in 1..k : S[i] = S[i - 1] + Product(table[i].dims)
    <3>1. 0 \in 0..k
      OBVIOUS
    <3>2. S[0] = 0
      BY <1>4, <3>1
    <3>3. ASSUME NEW i \in 1..k
          PROVE  S[i] = S[i - 1] + Product(table[i].dims)
      <4>1. i \in 0..k /\ i # 0
        OBVIOUS
      <4>2. QED
        BY <1>4, <4>1
    <3>4. QED
      BY <3>2, <3>3
  <2>2. /\ E[0] = 0
        /\ \A i \in 1..k : E[i] = E[i - 1] + (IF table[i].routed THEN Product(table[i].dims) ELSE 0)
    BY <1>5
  <2>3. QED
    BY <2>1, <2>2
<1>7. Sum(table) = S[k] /\ RoutedSum(table) = E[k]
  BY DEF Sum, RoutedSum
<1>8. S[k] = s[k] /\ E[k] = e[k]
  <2> HIDE DEF S, E, k
  <2>1. k \in Nat
    BY DEF k
  <2>2. S[0] = s[0] /\ \A i \in 1..k : S[i - 1] = s[i - 1] => S[i] = s[i]
    BY <1>1, <1>6
  <2>3. E[0] = e[0] /\ \A i \in 1..k : E[i - 1] = e[i - 1] => E[i] = e[i]
    BY <1>1, <1>6
  <2>4. S[k] = s[k]
    BY <2>1, <2>2, SameSteps
  <2>5. E[k] = e[k]
    BY <2>1, <2>3, SameSteps
  <2>6. QED
    BY <2>4, <2>5
<1>9. QED
  BY <1>1, <1>7, <1>8

\* For every word size and table, once the file is read its sums are nothing,
\* or those of the whole table, whose products have not wrapped: tensorSums
\* never counts a part of a table, nor a product that left the word.
THEOREM GgufSumsExact == ReaderSpec => []SumsExactOrNone
<1>1. ExactInv => SumsExactOrNone
  <2> SUFFICES ASSUME ExactInv, reader.at = "done", sums.total + sums.exps > 0
               PROVE  /\ \A i \in DOMAIN tensors : Product(tensors[i].dims) < Word
                      /\ sums = [total |-> Sum(tensors) % Word, exps |-> RoutedSum(tensors) % Word]
    BY DEF SumsExactOrNone
  <2>1. sums # NoSums
    BY DEF NoSums
  <2>2. ExactProducts /\ ExactSums(Len(tensors))
    BY <2>1 DEF ExactInv
  <2>3. tensors \in Seq(Tensor) /\ DOMAIN tensors = 1..Len(tensors) /\ Len(tensors) \in Nat
    BY TypeParts DEF ExactInv
  <2>4. ASSUME NEW i \in 1..Len(tensors)
        PROVE  Product(tensors[i].dims) = tensors[i].elems /\ tensors[i].elems < Word
    <3>1. tensors[i] \in Tensor
      BY <2>3
    <3>2. Len(tensors[i].dims) \in Nat /\ tensors[i].elems < Word
      BY <3>1, WordAssumption DEF Tensor
    <3>3. Multiplies(tensors[i].dims, tensors[i].elems)
      BY <2>2 DEF ExactProducts
    <3>4. QED
      BY <3>2, <3>3, ProductIs
  <2>5. PICK total \in Nat, exps \in Nat :
          /\ Adds(tensors, Len(tensors), total, exps)
          /\ sums = [total |-> total % Word, exps |-> exps % Word]
    BY <2>2 DEF ExactSums
  <2>6. Sum(tensors) = total /\ RoutedSum(tensors) = exps
    BY <2>3, <2>4, <2>5, SumsAre
  <2>7. QED
    BY <2>3, <2>4, <2>5, <2>6
<1>2. ReaderSpec => []ExactInv
  BY ExactStarts, ExactSteps, GgufTypes, PTL DEF ReaderSpec
<1>3. QED
  BY <1>1, <1>2, PTL

\* For every word size, table, label and keys: the counts a model is priced
\* by are nothing or the whole table's modulo the word, none of whose products
\* has wrapped, and the active count is a positive part of the total (ReadMeta).
THEOREM GgufCountsSound == ReaderSpec => []CountsSound
BY GgufSumsExact, GgufActiveIsPart, PTL DEF CountsSound

------------------------------------------------------------------------------
(***************************************************************************)
(* The views of the catalogue, for any files, names, headers and listing.  *)
(* The invariant follows the walk: so long as nothing has changed since it *)
(* began, what it has been through is listed, by the header on disk, and   *)
(* the entry has that header.  So after it entries and files agree, and    *)
(* the walk after that knows every projector from its first view.          *)
(***************************************************************************)

\* Entries have the headers of their files.
CaughtUp == \A f \in Entered : headers[f] = disk[f]

\* A projector beside a file, or one that the walk has come to before it.
Beside(f) == \E o \in Installed : o # f /\ names[o] = names[f] /\ disk[o].arch = "clip"
BesideBefore(f) == \E o \in Installed : o < f /\ names[o] = names[f] /\ disk[o].arch = "clip"

ViewOf(i, f, b) == i = Info(f, names[f], disk[f], b) /\ (BesideBefore(f) => b)

TrueViews ==
  \A i \in listed :
    \E f \in Installed \ unseen, b \in BOOLEAN : ViewOf(i, f, b) /\ (calm >= 3 => b = Beside(f))

AllViewed ==
  \A f \in Installed \ unseen : headers[f] = disk[f] /\ \E i \in listed : i.id[2] = f

ViewedOnce == \A i, j \in listed : i.id[2] = j.id[2] => i = j

NextRead ==
  walk = "viewing" => \A f \in unseen : Foremost(f) => f \in Installed /\ headers[f] = disk[f]

ViewsInv ==
  /\ ViewsTypeOK
  /\ calm >= 1 => TrueViews /\ AllViewed /\ ViewedOnce /\ NextRead
  /\ calm >= 2 => CaughtUp

LEMMA ViewsStart == ViewsInit => ViewsInv
<1> SUFFICES ASSUME ViewsInit
             PROVE  ViewsInv
  OBVIOUS
<1>1. <<>> \in Seq(Listable)
  OBVIOUS
<1>2. QED
  BY <1>1 DEF ViewsInit, ViewsInv, ViewsTypeOK

\* What a view has of a header.
LEMMA InfoParts ==
  ASSUME NEW f, NEW n, NEW h \in Headers, NEW b \in BOOLEAN
  PROVE  /\ Info(f, n, h, b).id[2] = f /\ Info(f, n, h, b).name = n
         /\ Info(f, n, h, b).companion = "none" <=> h.arch # "clip"
         /\ Info(f, n, h, b).companion = "none" <=> Info(f, n, h, b).type # "none"
         /\ Info(f, n, h, b).vision = (h.arch # "clip" /\ b)
         /\ Info(f, n, h, b).type = "chat" => ~(h.arch # "none" /\ h.pooling)
         /\ Info(f, n, h, b).thinking => Info(f, n, h, b).type = "chat"
<1> DEFINE said == Summary(h)
           i == Info(f, n, h, b)
<1>1. /\ said.clip = (h.arch = "clip") /\ said.pooling = (h.arch # "none" /\ h.pooling)
      /\ said.clip \in BOOLEAN /\ said.pooling \in BOOLEAN
  BY HeadersAssumption DEF Summary
<1>2. /\ i.id[2] = f /\ i.name = n /\ i.companion = CompanionOf(said)
      /\ i.type = ModelType(said)
      /\ i.vision = (CompanionOf(said) # "mmproj" /\ b)
      /\ i.thinking = (CompanionOf(said) # "mmproj" /\ Thinks(said))
  BY DEF Info
<1> HIDE DEF said
<1>3. /\ CompanionOf(said) = "none" <=> ~said.clip
      /\ CompanionOf(said) # "mmproj" <=> ~said.clip
      /\ ModelType(said) = "none" <=> said.clip
      /\ ModelType(said) = "chat" => ~said.pooling
      /\ Thinks(said) => ModelType(said) = "chat"
  BY <1>1 DEF CompanionOf, ModelType, Thinks
<1>4. QED
  BY <1>1, <1>2, <1>3

\* A projector is known by its entry's header.
LEMMA ProjectorKnown ==
  ASSUME NEW f
  PROVE  HasProjector(f) <=> \E o \in Entered : o # f /\ names[o] = names[f] /\ headers[o].arch = "clip"
BY DEF HasProjector, CompanionOf, Summary

LEMMA EntriesKept ==
  ASSUME ViewsInv, UNCHANGED <<disk, names>>
  PROVE  Entered' = Entered /\ Installed' = Installed
BY DEF Entered, Installed

\* What is listed stays true while files and names do.
LEMMA TrueKept ==
  ASSUME ViewsInv, TrueViews, UNCHANGED <<disk, names, listed, calm>>,
         Installed \ unseen \subseteq Installed \ unseen'
  PROVE  TrueViews'
<1>1. Installed' = Installed
  BY EntriesKept
<1>2. ASSUME NEW i, NEW f, NEW b
      PROVE  ViewOf(i, f, b)' <=> ViewOf(i, f, b)
  BY <1>1 DEF ViewOf, BesideBefore
<1>3. ASSUME NEW f
      PROVE  Beside(f)' <=> Beside(f)
  BY <1>1 DEF Beside
<1> SUFFICES ASSUME NEW i \in listed
             PROVE  \E f \in Installed' \ unseen', b \in BOOLEAN : ViewOf(i, f, b)' /\ (calm' >= 3 => b = Beside(f)')
  BY DEF TrueViews
<1>4. PICK f \in Installed \ unseen, b \in BOOLEAN : ViewOf(i, f, b) /\ (calm >= 3 => b = Beside(f))
  BY DEF TrueViews
<1>5. Beside(f)' = Beside(f)
  BY <1>3 DEF Beside
<1>6. QED
  BY <1>1, <1>2, <1>4, <1>5

\* A change of the files or the names ends the calm.
LEMMA ChangesStep ==
  ASSUME ViewsInv,
         \/ \E f \in Stored : Planned(f) \/ FileChanges(f)
         \/ \E old, new \in Names : GroupRenamed(old, new)
  PROVE  ViewsInv'
<1> USE DEF ViewsInv, ViewsTypeOK, Changes, Foremost
<1>1. ASSUME NEW f \in Stored, Planned(f)
      PROVE  ViewsInv'
  BY <1>1 DEF Planned
<1>2. ASSUME NEW f \in Stored, FileChanges(f)
      PROVE  ViewsInv'
  BY <1>2 DEF FileChanges
<1>3. ASSUME NEW old \in Names, NEW new \in Names, GroupRenamed(old, new)
      PROVE  ViewsInv'
  BY <1>3, NamesAssumption DEF GroupRenamed
<1>4. QED
  BY <1>1, <1>2, <1>3

LEMMA WalkBeginsStep == ViewsInv /\ WalkBegins => ViewsInv'
<1> SUFFICES ASSUME ViewsInv, WalkBegins
             PROVE  ViewsInv'
  OBVIOUS
<1>1. /\ walk = "idle" /\ calm \in {0, 2, 4} /\ walk' = "reading" /\ unseen' = Stored /\ listed' = {}
      /\ calm' = IF calm = 4 THEN 3 ELSE calm + 1
      /\ UNCHANGED <<disk, names, headers, repo>>
  BY DEF WalkBegins, ViewsInv, ViewsTypeOK
<1>2. calm' \in {0, 1, 3} /\ (calm' >= 2 => calm >= 2)
  BY <1>1
<1>3. ViewsTypeOK'
  BY <1>1, <1>2 DEF ViewsInv, ViewsTypeOK
<1>4. TrueViews' /\ AllViewed' /\ ViewedOnce' /\ NextRead'
  BY <1>1 DEF TrueViews, AllViewed, ViewedOnce, NextRead, Installed, Entered
<1>5. calm' >= 2 => CaughtUp'
  BY <1>1, <1>2 DEF ViewsInv, CaughtUp, Entered
<1>6. QED
  BY <1>3, <1>4, <1>5 DEF ViewsInv

LEMMA WalkSkipsStep ==
  ASSUME ViewsInv, NEW f \in Stored, WalkSkips(f)
  PROVE  ViewsInv'
<1>1. /\ walk = "reading" /\ f \in unseen /\ f \notin Installed /\ unseen' = unseen \ {f}
      /\ UNCHANGED <<disk, names, headers, walk, listed, calm, repo>>
  BY DEF WalkSkips, Foremost
<1>2. ViewsTypeOK'
  BY <1>1 DEF ViewsInv, ViewsTypeOK
<1>3. Installed' \ unseen' = Installed \ unseen
  BY <1>1 DEF Installed, Entered
<1>4. ASSUME calm >= 1
      PROVE  TrueViews' /\ AllViewed' /\ ViewedOnce' /\ NextRead'
  <2>1. TrueViews /\ AllViewed /\ ViewedOnce
    BY <1>4 DEF ViewsInv
  <2>2. TrueViews'
    BY <1>1, <2>1, TrueKept
  <2>3. AllViewed' /\ ViewedOnce' /\ NextRead'
    BY <1>1, <1>3, <2>1 DEF AllViewed, ViewedOnce, NextRead
  <2>4. QED
    BY <2>2, <2>3
<1>5. CaughtUp' <=> CaughtUp
  BY <1>1 DEF CaughtUp, Entered
<1>6. QED
  BY <1>1, <1>2, <1>4, <1>5 DEF ViewsInv

LEMMA WalkReadsStep ==
  ASSUME ViewsInv, NEW f \in Stored, WalkReads(f)
  PROVE  ViewsInv'
<1>1. /\ walk = "reading" /\ Foremost(f) /\ f \in unseen /\ f \in Installed
      /\ headers' = [headers EXCEPT ![f] = disk[f]] /\ walk' = "viewing"
      /\ UNCHANGED <<disk, names, unseen, listed, calm, repo>>
  BY DEF WalkReads, Foremost
<1>2. \A g \in unseen : Foremost(g) => g = f
  BY <1>1, StoredAssumption DEF Foremost, ViewsInv, ViewsTypeOK
<1>3. disk[f] # NoHeader /\ names[f] # NoName
  BY <1>1 DEF Installed, Entered
<1>4. headers'[f] = disk[f] /\ \A g \in Stored \ {f} : headers'[g] = headers[g]
  BY <1>1 DEF ViewsInv, ViewsTypeOK
<1>5. \A g : Foremost(g)' <=> Foremost(g)
  BY <1>1 DEF Foremost
<1>6. ViewsTypeOK'
  <2>1. \A g \in unseen : Foremost(g)' => headers'[g] # NoHeader
    BY <1>2, <1>3, <1>4, <1>5
  <2>2. headers' \in [Stored -> Headers \cup {NoHeader}]
    BY <1>1 DEF ViewsInv, ViewsTypeOK
  <2>3. \A g \in Stored : names'[g] = NoName => headers'[g] = NoHeader
    BY <1>1, <1>3, <1>4 DEF ViewsInv, ViewsTypeOK
  <2>4. QED
    BY <1>1, <2>1, <2>2, <2>3 DEF ViewsInv, ViewsTypeOK
<1>7. ASSUME calm >= 1
      PROVE  TrueViews' /\ AllViewed' /\ ViewedOnce' /\ NextRead'
  <2>1. TrueViews /\ AllViewed /\ ViewedOnce
    BY <1>7 DEF ViewsInv
  <2>2. TrueViews'
    BY <1>1, <2>1, TrueKept
  <2>3. AllViewed'
    BY <1>1, <1>4, <2>1, EntriesKept DEF AllViewed, Installed, Entered
  <2>4. ViewedOnce'
    BY <1>1, <2>1 DEF ViewedOnce
  <2>5. NextRead'
    BY <1>1, <1>2, <1>4, <1>5, EntriesKept DEF NextRead
  <2>6. QED
    BY <2>2, <2>3, <2>4, <2>5
<1>8. CaughtUp => CaughtUp'
  BY <1>1, <1>4, EntriesKept DEF CaughtUp, Entered
<1>9. QED
  BY <1>1, <1>6, <1>7, <1>8 DEF ViewsInv

LEMMA WalkViewsStep ==
  ASSUME ViewsInv, NEW f \in Stored, WalkViews(f)
  PROVE  ViewsInv'
<1> DEFINE b == HasProjector(f)
           made == Info(f, names[f], headers[f], b)
<1>1. /\ walk = "viewing" /\ Foremost(f) /\ f \in unseen
      /\ listed' = listed \cup {made} /\ unseen' = unseen \ {f} /\ walk' = "reading"
      /\ UNCHANGED <<disk, names, headers, calm, repo>>
  BY DEF WalkViews, Foremost
<1>2. ViewsTypeOK'
  BY <1>1 DEF ViewsInv, ViewsTypeOK
<1>3. CaughtUp' <=> CaughtUp
  BY <1>1 DEF CaughtUp, Entered
<1>4. ASSUME calm >= 1
      PROVE  TrueViews' /\ AllViewed' /\ ViewedOnce' /\ NextRead'
  <2>1. TrueViews /\ AllViewed /\ ViewedOnce /\ NextRead
    BY <1>4 DEF ViewsInv
  <2>2. f \in Installed /\ headers[f] = disk[f] /\ b \in BOOLEAN /\ disk[f] \in Headers
    BY <1>1, <2>1 DEF NextRead, Installed, Entered, ViewsInv, ViewsTypeOK, HasProjector
  <2>3. BesideBefore(f) => b
    <3> SUFFICES ASSUME NEW o \in Installed, o < f, names[o] = names[f], disk[o].arch = "clip"
                 PROVE  b
      BY DEF BesideBefore
    <3>1. o \in Stored /\ o \in Entered /\ o \in Nat /\ f \in Nat
      BY StoredAssumption DEF Installed, Entered
    <3>2. o \notin unseen
      BY <1>1, <3>1 DEF Foremost
    <3>3. headers[o] = disk[o]
      BY <2>1, <3>2 DEF AllViewed
    <3>4. QED
      BY <3>1, <3>3, ProjectorKnown
  <2>4. calm >= 3 => b = Beside(f)
    <3> SUFFICES ASSUME calm >= 3
                 PROVE  b <=> Beside(f)
      BY <2>2 DEF Beside
    <3>1. CaughtUp /\ calm \in {0, 1, 2, 3, 4}
      BY DEF ViewsInv, ViewsTypeOK
    <3>2. ASSUME NEW o \in Entered, headers[o].arch = "clip"
          PROVE  o \in Installed /\ disk[o].arch = "clip"
      BY <3>1, <3>2 DEF CaughtUp, Installed, NoHeader
    <3>3. ASSUME NEW o \in Installed, disk[o].arch = "clip"
          PROVE  o \in Entered /\ headers[o].arch = "clip"
      BY <3>1, <3>3 DEF CaughtUp, Installed
    <3>4. QED
      BY <3>2, <3>3, ProjectorKnown DEF Beside
  <2> HIDE DEF b
  <2>5. ViewOf(made, f, b) /\ made.id[2] = f
    BY <2>2, <2>3, InfoParts DEF ViewOf
  <2>6. \A i \in listed : i.id[2] # f
    <3> SUFFICES ASSUME NEW i \in listed
                 PROVE  i.id[2] # f
      OBVIOUS
    <3>1. PICK e \in Installed \ unseen, c \in BOOLEAN : ViewOf(i, e, c)
      BY <2>1 DEF TrueViews
    <3>2. disk[e] \in Headers
      BY <3>1 DEF Installed, Entered, ViewsInv, ViewsTypeOK
    <3>3. i.id[2] = e
      BY <3>1, <3>2, InfoParts DEF ViewOf
    <3>4. QED
      BY <1>1, <3>1, <3>3
  <2> HIDE DEF made
  <2>7. TrueViews'
    <3>1. Installed' = Installed
      BY <1>1, EntriesKept
    <3>2. ASSUME NEW i, NEW e, NEW c
          PROVE  ViewOf(i, e, c)' <=> ViewOf(i, e, c)
      BY <1>1, <3>1 DEF ViewOf, BesideBefore
    <3>3. ASSUME NEW e
          PROVE  Beside(e)' = Beside(e)
      BY <1>1, <3>1 DEF Beside
    <3> SUFFICES ASSUME NEW i \in listed'
                 PROVE  \E e \in Installed' \ unseen', c \in BOOLEAN :
                          ViewOf(i, e, c)' /\ (calm' >= 3 => c = Beside(e)')
      BY DEF TrueViews
    <3>4. CASE i = made
      BY <1>1, <2>2, <2>4, <2>5, <3>1, <3>2, <3>3, <3>4
    <3>5. CASE i \in listed
      <4>1. PICK e \in Installed \ unseen, c \in BOOLEAN : ViewOf(i, e, c) /\ (calm >= 3 => c = Beside(e))
        BY <2>1, <3>5 DEF TrueViews
      <4>2. QED
        BY <1>1, <3>1, <3>2, <3>3, <4>1
    <3>6. QED
      BY <1>1, <3>4, <3>5
  <2>8. AllViewed'
    <3> SUFFICES ASSUME NEW e \in Installed \ unseen'
                 PROVE  headers[e] = disk[e] /\ \E i \in listed' : i.id[2] = e
      BY <1>1, EntriesKept DEF AllViewed
    <3>1. CASE e = f
      BY <1>1, <2>2, <2>5, <3>1
    <3>2. CASE e # f
      BY <1>1, <2>1, <3>2 DEF AllViewed
    <3>3. QED
      BY <3>1, <3>2
  <2>9. ViewedOnce'
    BY <1>1, <2>1, <2>5, <2>6 DEF ViewedOnce
  <2>10. NextRead'
    BY <1>1 DEF NextRead
  <2>11. QED
    BY <2>7, <2>8, <2>9, <2>10
<1>5. QED
  BY <1>1, <1>2, <1>3, <1>4 DEF ViewsInv

LEMMA WalkEndsStep == ViewsInv /\ WalkEnds => ViewsInv'
<1> SUFFICES ASSUME ViewsInv, WalkEnds
             PROVE  ViewsInv'
  OBVIOUS
<1>1. /\ walk = "reading" /\ unseen = {} /\ walk' = "idle" /\ calm \in {0, 1, 3}
      /\ names' = [f \in Stored |-> IF f \in Pruned THEN NoName ELSE names[f]]
      /\ headers' = [f \in Stored |-> IF f \in Pruned THEN NoHeader ELSE headers[f]]
      /\ calm' = IF calm = 0 THEN 0 ELSE calm + 1
      /\ UNCHANGED <<disk, unseen, listed, repo>>
  BY DEF WalkEnds, ViewsInv, ViewsTypeOK
<1>2. /\ calm' \in {0, 2, 4} /\ (calm' >= 1 => calm >= 1) /\ (calm' >= 2 => calm >= 1)
      /\ (calm' >= 3 => calm >= 3)
  BY <1>1
<1>3. ViewsTypeOK'
  BY <1>1, <1>2 DEF ViewsInv, ViewsTypeOK
<1>4. /\ \A f \in Installed : f \notin Pruned
      /\ Installed' = Installed /\ Entered' = Entered \ Pruned /\ Pruned \subseteq Stored
      /\ \A f \in Installed : names'[f] = names[f] /\ headers'[f] = headers[f]
  <2>1. \A f \in Installed : f \in Stored /\ f \notin Pruned
    BY DEF Pruned, Installed, Entered
  <2>2. Pruned \subseteq Entered /\ Entered \subseteq Stored
    BY DEF Pruned, Entered
  <2>3. Entered' = Entered \ Pruned
    BY <1>1 DEF Entered
  <2>4. Installed' = Installed
    BY <1>1, <2>1, <2>3 DEF Installed
  <2>5. QED
    BY <1>1, <2>1, <2>2, <2>3, <2>4
<1>5. ASSUME calm >= 1
      PROVE  TrueViews' /\ AllViewed' /\ ViewedOnce' /\ NextRead' /\ CaughtUp'
  <2>1. TrueViews /\ AllViewed /\ ViewedOnce
    BY <1>5 DEF ViewsInv
  <2>2. ASSUME NEW i, NEW f \in Installed, NEW b
        PROVE  /\ ViewOf(i, f, b)' <=> ViewOf(i, f, b)
               /\ Beside(f)' <=> Beside(f)
    BY <1>1, <1>4 DEF ViewOf, Beside, BesideBefore
  <2>3. TrueViews'
    <3> SUFFICES ASSUME NEW i \in listed
                 PROVE  \E f \in Installed', b \in BOOLEAN : ViewOf(i, f, b)' /\ (calm' >= 3 => b = Beside(f)')
      BY <1>1 DEF TrueViews
    <3>1. PICK f \in Installed, b \in BOOLEAN : ViewOf(i, f, b) /\ (calm >= 3 => b = Beside(f))
      BY <2>1 DEF TrueViews
    <3>2. Beside(f)' = Beside(f)
      BY <2>2 DEF Beside
    <3>3. QED
      BY <1>2, <1>4, <2>2, <3>1, <3>2
  <2>4. AllViewed'
    BY <1>1, <1>4, <2>1 DEF AllViewed
  <2>5. ViewedOnce' /\ NextRead'
    BY <1>1, <2>1 DEF ViewedOnce, NextRead
  <2>6. CaughtUp'
    <3> SUFFICES ASSUME NEW f \in Entered \ Pruned
                 PROVE  headers[f] = disk[f]
      BY <1>1, <1>4 DEF CaughtUp, Entered
    <3>1. CASE f \in Installed
      BY <1>1, <2>1, <3>1 DEF AllViewed
    <3>2. CASE f \notin Installed
      <4>1. disk[f] = NoHeader
        BY <3>2 DEF Installed
      <4>2. ASSUME NEW i \in listed
            PROVE  i.id[2] # f
        <5>1. PICK e \in Installed, b \in BOOLEAN : ViewOf(i, e, b)
          BY <2>1 DEF TrueViews
        <5>2. disk[e] \in Headers
          BY <5>1 DEF Installed, Entered, ViewsInv, ViewsTypeOK
        <5>3. i.id[2] = e
          BY <5>1, <5>2, InfoParts DEF ViewOf
        <5>4. QED
          BY <3>2, <5>1, <5>3
      <4>3. headers[f] = NoHeader
        BY <4>1, <4>2 DEF Pruned
      <4>4. QED
        BY <4>1, <4>3
    <3>3. QED
      BY <3>1, <3>2
  <2>7. QED
    BY <2>3, <2>4, <2>5, <2>6
<1>6. QED
  BY <1>2, <1>3, <1>5 DEF ViewsInv

LEMMA ViewsStep == ViewsInv /\ [ViewsNext]_viewVars => ViewsInv'
<1> SUFFICES ASSUME ViewsInv, [ViewsNext]_viewVars
             PROVE  ViewsInv'
  OBVIOUS
<1>1. ASSUME NEW l \in Listable, Listed(l)
      PROVE  ViewsInv'
  <2>1. repo' = Append(repo, l) /\ repo \in Seq(Listable)
        /\ UNCHANGED <<disk, names, headers, walk, unseen, listed, calm>>
    BY <1>1 DEF Listed, ViewsInv, ViewsTypeOK
  <2>2. repo' \in Seq(Listable)
    BY <2>1
  <2>3. ViewsTypeOK'
    BY <2>1, <2>2 DEF ViewsInv, ViewsTypeOK, Foremost
  <2>4. /\ calm >= 1 => TrueViews' /\ AllViewed' /\ ViewedOnce' /\ NextRead'
        /\ calm >= 2 => CaughtUp'
    BY <2>1, EntriesKept, TrueKept DEF ViewsInv, AllViewed, ViewedOnce, NextRead, CaughtUp, Foremost
  <2>5. QED
    BY <2>1, <2>3, <2>4 DEF ViewsInv
<1>2. CASE UNCHANGED viewVars
  <2>1. UNCHANGED <<disk, names, headers, walk, unseen, listed, calm, repo>>
    BY <1>2 DEF viewVars
  <2>2. ViewsTypeOK'
    BY <2>1 DEF ViewsInv, ViewsTypeOK, Foremost
  <2>3. /\ calm >= 1 => TrueViews' /\ AllViewed' /\ ViewedOnce' /\ NextRead'
        /\ calm >= 2 => CaughtUp'
    BY <2>1, EntriesKept, TrueKept DEF ViewsInv, AllViewed, ViewedOnce, NextRead, CaughtUp, Foremost
  <2>4. QED
    BY <2>1, <2>2, <2>3 DEF ViewsInv
<1>3. CASE ViewsNext
  BY <1>1, <1>3, ChangesStep, WalkBeginsStep, WalkSkipsStep, WalkReadsStep, WalkViewsStep, WalkEndsStep
  DEF ViewsNext
<1>4. QED
  BY <1>2, <1>3

LEMMA AlwaysViewsInv == ViewsSpec => []ViewsInv
BY ViewsStart, ViewsStep, PTL DEF ViewsSpec

\* Each file of a rested list has one view, of its own header.
LEMMA RestedViews ==
  ASSUME ViewsInv, Rested
  PROVE  /\ \A i \in listed : \E f \in Installed, b \in BOOLEAN :
               /\ ViewOf(i, f, b) /\ (calm = 4 => b = Beside(f))
               /\ disk[f] \in Headers /\ f \in Stored /\ i.id[2] = f /\ i.name = names[f]
         /\ \A f \in Installed : \E i \in listed : i.id[2] = f
         /\ ViewedOnce
<1>1. calm \in {2, 4} /\ unseen = {}
  <2>1. calm \in {2, 4} /\ ViewsTypeOK
    BY DEF Rested, ViewsInv
  <2>2. calm \in IF walk = "idle" THEN {0, 2, 4} ELSE {0, 1, 3}
    BY <2>1 DEF ViewsTypeOK
  <2>3. walk = "idle"
    BY <2>1, <2>2
  <2>4. QED
    BY <2>1, <2>3 DEF ViewsTypeOK
<1>2. TrueViews /\ AllViewed /\ ViewedOnce
  BY <1>1 DEF ViewsInv
<1>3. ASSUME NEW i \in listed
      PROVE  \E f \in Installed, b \in BOOLEAN :
               /\ ViewOf(i, f, b) /\ (calm = 4 => b = Beside(f))
               /\ disk[f] \in Headers /\ f \in Stored /\ i.id[2] = f /\ i.name = names[f]
  <2>1. PICK f \in Installed, b \in BOOLEAN : ViewOf(i, f, b) /\ (calm >= 3 => b = Beside(f))
    BY <1>1, <1>2 DEF TrueViews
  <2>2. disk[f] \in Headers /\ f \in Stored
    BY <2>1 DEF Installed, Entered, ViewsInv, ViewsTypeOK
  <2>3. i.id[2] = f /\ i.name = names[f]
    BY <2>1, <2>2, InfoParts DEF ViewOf
  <2>4. calm = 4 => b = Beside(f)
    BY <2>1
  <2>5. QED
    BY <2>1, <2>2, <2>3, <2>4
<1>4. QED
  BY <1>1, <1>2, <1>3 DEF AllViewed

\* The groups, by name.
LEMMA GroupParts ==
  /\ \A g \in Groups : \E i \in listed : g = Group(i.name)
  /\ \A i \in listed : Group(i.name) \in Groups /\ i \in Group(i.name).models
  /\ \A n : /\ Group(n).id = n /\ Group(n).models = { i \in listed : i.name = n }
            /\ Group(n).types = { i.type : i \in { m \in Members(n) : m.companion = "none" /\ m.type # "none" } }
            /\ Group(n).vision = \E i \in Members(n) : i.vision
BY DEF Groups, Group, Members

LEMMA GroupsHaveFiles == ViewsInv => EveryFileInOneGroup
<1> SUFFICES ASSUME ViewsInv, Rested, NEW f \in Stored
             PROVE  LET places == { p \in Groups \X listed : p[2] \in p[1].models /\ p[2].id[2] = f }
                    IN  IF f \in Installed THEN \E p \in places : places = {p} /\ p[1].id = names[f]
                        ELSE places = {}
  BY DEF EveryFileInOneGroup
<1> DEFINE places == { p \in Groups \X listed : p[2] \in p[1].models /\ p[2].id[2] = f }
<1>1. ASSUME NEW p \in places
      PROVE  p[1] = Group(p[2].name) /\ p[2] \in listed /\ p[2].id[2] = f /\ p = <<p[1], p[2]>>
  <2>1. p[1] \in Groups /\ p[2] \in listed /\ p[2] \in p[1].models /\ p[2].id[2] = f /\ p = <<p[1], p[2]>>
    OBVIOUS
  <2>2. PICK i \in listed : p[1] = Group(i.name)
    BY <2>1, GroupParts
  <2>3. p[2].name = i.name
    BY <2>1, <2>2, GroupParts
  <2>4. QED
    BY <2>1, <2>2, <2>3
<1>2. CASE f \notin Installed
  BY <1>1, <1>2, RestedViews
<1>3. CASE f \in Installed
  <2>1. PICK i \in listed : i.id[2] = f
    BY <1>3, RestedViews
  <2>2. i.name = names[f]
    BY <2>1, RestedViews
  <2> DEFINE p == <<Group(i.name), i>>
  <2>3. p \in places /\ p[1].id = names[f]
    BY <2>1, <2>2, GroupParts
  <2>4. \A q \in places : q = p
    <3> SUFFICES ASSUME NEW q \in places
                 PROVE  q = p
      OBVIOUS
    <3>1. q[2] = i
      BY <1>1, <2>1, RestedViews DEF ViewedOnce
    <3>2. QED
      BY <1>1, <3>1
  <2>5. places = {p}
    BY <2>3, <2>4
  <2>6. QED
    BY <1>3, <2>3, <2>5
<1>4. QED
  BY <1>2, <1>3

LEMMA RunnableShown == ViewsInv => RunnableIsOffered
<1> SUFFICES ASSUME ViewsInv, Rested, NEW n \in Names
             PROVE  LET runs == \E f \in Installed : names[f] = n /\ disk[f].arch # "clip"
                    IN  /\ (\E g \in Groups : g.id = n /\ g.types # {}) = runs
                        /\ (\E i \in Offered : i.name = n) = runs
  BY DEF RunnableIsOffered
<1> DEFINE runs == \E f \in Installed : names[f] = n /\ disk[f].arch # "clip"
           typed == \E g \in Groups : g.id = n /\ g.types # {}
           offers == \E i \in Offered : i.name = n
<1>1. ASSUME NEW i \in listed
      PROVE  /\ i.companion = "none" <=> i.type # "none"
             /\ \E f \in Installed : i.id[2] = f /\ i.name = names[f]
                                     /\ (i.companion = "none" <=> disk[f].arch # "clip")
  BY RestedViews, InfoParts DEF ViewOf
<1>2. offers <=> runs
  <2>1. ASSUME offers
        PROVE  runs
    BY <1>1, <2>1 DEF Offered
  <2>2. ASSUME NEW f \in Installed, names[f] = n, disk[f].arch # "clip"
        PROVE  offers
    <3>1. PICK i \in listed : i.id[2] = f
      BY RestedViews
    <3>2. i.name = n /\ i.companion = "none"
      BY <1>1, <2>2, <3>1
    <3>3. QED
      BY <3>2 DEF Offered
  <2>3. QED
    BY <2>1, <2>2
<1>3. typed <=> offers
  <2>1. ASSUME NEW g \in Groups, g.id = n, g.types # {}
        PROVE  offers
    BY <2>1, GroupParts DEF Offered, Members
  <2>2. ASSUME NEW i \in Offered, i.name = n
        PROVE  typed
    <3>1. i \in listed /\ i.companion = "none" /\ i.type # "none"
      BY <1>1 DEF Offered
    <3>2. i \in Members(n) /\ Group(n) \in Groups /\ Group(n).id = n
      BY <2>2, <3>1, GroupParts DEF Members
    <3>3. i.type \in Group(n).types
      BY <3>1, <3>2, GroupParts
    <3>4. QED
      BY <3>2, <3>3
  <2>3. QED
    BY <2>1, <2>2
<1> HIDE DEF runs, typed, offers
<1>4. typed = runs /\ offers = runs
  <2>1. typed \in BOOLEAN /\ offers \in BOOLEAN /\ runs \in BOOLEAN
    BY DEF typed, offers, runs
  <2>2. QED
    BY <1>2, <1>3, <2>1
<1>5. QED
  BY <1>4 DEF typed, offers, runs

LEMMA VisionIsSettled == ViewsInv => VisionSettles
<1> SUFFICES ASSUME ViewsInv, NEW g \in Groups, Rested
             PROVE  /\ calm = 4 => g.vision = \E f, o \in Installed : Sees(g.id, f, o)
                    /\ calm = 2 /\ (\E f, o \in Installed : o < f /\ Sees(g.id, f, o)) => g.vision
  BY DEF VisionSettles, Rested
<1>1. PICK n : g = Group(n)
  BY GroupParts
<1>2. g.id = n /\ (g.vision <=> \E i \in listed : i.name = n /\ i.vision)
  BY <1>1, GroupParts DEF Members
<1>3. ASSUME NEW i \in listed
      PROVE  \E f \in Installed, b \in BOOLEAN :
               /\ f \in Stored /\ i.id[2] = f /\ i.name = names[f]
               /\ i.vision = (disk[f].arch # "clip" /\ b)
               /\ (calm = 4 => b = Beside(f)) /\ (BesideBefore(f) => b)
  BY RestedViews, InfoParts DEF ViewOf
<1>4. ASSUME calm = 4, NEW i \in listed, i.name = n, i.vision
      PROVE  \E f, o \in Installed : Sees(n, f, o)
  <2>1. PICK f \in Installed : names[f] = n /\ disk[f].arch # "clip" /\ Beside(f)
    BY <1>3, <1>4
  <2>2. PICK o \in Installed : names[o] = names[f] /\ disk[o].arch = "clip"
    BY <2>1 DEF Beside
  <2>3. QED
    BY <2>1, <2>2 DEF Sees
<1>5. ASSUME NEW f \in Installed, NEW o \in Installed, Sees(n, f, o), calm = 4 \/ o < f
      PROVE  g.vision
  <2>1. PICK i \in listed : i.id[2] = f
    BY RestedViews
  <2>2. /\ names[f] = n /\ names[o] = n /\ disk[f].arch # "clip" /\ disk[o].arch = "clip" /\ o # f
    BY <1>5 DEF Sees
  <2>3. Beside(f) /\ (o < f => BesideBefore(f))
    BY <2>2 DEF Beside, BesideBefore
  <2>4. i.name = n /\ i.vision
    BY <1>3, <1>5, <2>1, <2>2, <2>3
  <2>5. QED
    BY <1>2, <2>4
<1>6. g.vision \in BOOLEAN
  BY <1>1, GroupParts
<1>7. QED
  BY <1>2, <1>4, <1>5, <1>6

LEMMA PoolingIsEmbedding == ViewsInv => PoolingWins
<1> SUFFICES ASSUME ViewsInv, Rested, NEW i \in listed,
                    disk[i.id[2]].arch # "none", disk[i.id[2]].pooling
             PROVE  ~i.thinking /\ Detail(i).type # "Chat"
  BY DEF PoolingWins
<1>1. i.type # "chat" /\ ~i.thinking
  BY RestedViews, InfoParts DEF ViewOf
<1>2. QED
  BY <1>1 DEF Detail

LEMMA PickPrefers == ViewsTypeOK => F16Preferred
<1> SUFFICES ASSUME ViewsTypeOK, NEW i \in DOMAIN repo, repo[i].projector, repo[i].says = "f16"
             PROVE  \/ Pick(repo) = {repo[i]}
                    \/ \E j \in 1..i - 1 :
                         repo[j].projector /\ repo[j].says = "bf16" /\ Pick(repo) = {repo[j]}
  BY DEF F16Preferred
<1> DEFINE found == { n \in DOMAIN repo : LooksLikeMmproj(repo[n]) }
           best == { n \in found : ClaimsF16(repo[n]) }
           j == CHOOSE n \in best : \A m \in best : n <= m
<1>1. repo \in Seq(Listable) /\ DOMAIN repo = 1..Len(repo) /\ Len(repo) \in Nat
  BY DEF ViewsTypeOK
<1>2. ASSUME NEW n \in DOMAIN repo
      PROVE  /\ repo[n] \in [projector: BOOLEAN, f16: BOOLEAN, says: {"f16", "bf16", "f32", "q4"}]
             /\ repo[n].f16 = (repo[n].says \in {"f16", "bf16"})
  BY <1>1, ListableAssumption
<1>3. i \in best /\ best \in SUBSET Nat
  BY <1>1, <1>2 DEF LooksLikeMmproj, ClaimsF16
<1>4. j \in best /\ \A m \in best : j <= m
  <2> HIDE DEF best
  <2>1. \E x \in best : \A y \in best : x <= y
    BY <1>3, LeastPlace
  <2>2. QED
    BY <2>1
<1>5. Pick(repo) = {repo[j]}
  <2>1. found # {} /\ best # {}
    BY <1>3
  <2>2. QED
    BY <2>1, Zenon DEF Pick
<1> HIDE DEF j
<1>6. j \in DOMAIN repo /\ repo[j].projector /\ repo[j].says \in {"f16", "bf16"} /\ j <= i
  BY <1>2, <1>3, <1>4 DEF LooksLikeMmproj, ClaimsF16
<1>7. CASE j = i
  BY <1>5, <1>7
<1>8. CASE j # i /\ repo[j].says = "bf16"
  <2>1. j \in 1..i - 1
    BY <1>1, <1>6, <1>8
  <2>2. QED
    BY <1>5, <1>6, <1>8, <2>1
<1>9. CASE repo[j].says = "f16"
  <2>1. repo[j] = repo[i]
    BY <1>2, <1>6, <1>9
  <2>2. QED
    BY <1>5, <2>1
<1>10. QED
  BY <1>6, <1>7, <1>8, <1>9

\* After a walk in which nothing changed the operator's view, the apps' and
\* the files agree, but for a vision that may need the walk after it; and the
\* projector an install fetches is one that claims f16 if any does.
THEOREM ViewsAreSound == ViewsSpec => []ViewsSound
<1>1. ViewsInv => ViewsSound
  BY GroupsHaveFiles, RunnableShown, VisionIsSettled, PoolingIsEmbedding, PickPrefers
  DEF ViewsSound, ViewsInv
<1>2. QED
  BY <1>1, AlwaysViewsInv, PTL

------------------------------------------------------------------------------
(***************************************************************************)
(* The parts side by side.                                                 *)
(***************************************************************************)

\* A step of one part is a step or a stutter of every part.
LEMMA PartSteps ==
  [MCNext]_<<part, deleteVars, searchVars, gatewayVars, costVars, submissionVars,
             viewVars, ggufVars, resultVars>>
    => /\ [DeleteNext]_deleteVars /\ [SearchNext]_searchVars
       /\ [GatewayNext]_gatewayVars /\ [CostNext]_costVars
       /\ [SubmissionNext]_submissionVars /\ [ViewsNext]_viewVars
       /\ [ReaderNext]_ggufVars /\ [ResultNext]_resultVars
BY DEF MCNext, Rest

\* Each part goes through nothing but its own behaviours beside the others,
\* so whatever is proved of a part alone holds of it there.
THEOREM PartsAsAlone ==
  MCSpec => /\ DeleteSpec /\ SearchSpec /\ GatewaySpec /\ CostSpec
            /\ SubmissionSpec /\ ViewsSpec /\ ReaderSpec /\ ResultSpec
<1>1. MCInit => /\ DeleteInit /\ SearchInit /\ GatewayStart /\ CostInit
                /\ SubmissionInit /\ ViewsInit /\ ReaderInit /\ ResultInit
  BY DEF MCInit
<1> QED
  BY <1>1, PartSteps, PTL DEF MCSpec, DeleteSpec, SearchSpec, GatewaySpec, CostSpec,
     SubmissionSpec, ViewsSpec, ReaderSpec, ResultSpec

\* The types of all eight parts.
THEOREM PartsHaveTypes == MCSpec => []AllTypesOK
<1>1. ViewsInv => ViewsTypeOK
  BY DEF ViewsInv
<1> QED
  BY <1>1, AlwaysViewsInv, PartsAsAlone, DeleteTypes, SearchTypesHold, InitTypes, CostTypes, SubmissionTypes,
     GgufTypes, ResultTypesHold, PTL DEF AllTypesOK
=============================================================================
