----------------------------- MODULE GatewayInit -----------------------------
(***************************************************************************)
(* Gateway.Init against the requests that arrive before, during and after  *)
(* it, and against another Init.  Init fills the fields of the Gateway one *)
(* by one under the write lock; HandleRequest, snapshot, benchHandlers and *)
(* evictLoadedInstances read them under the read lock.                     *)
(*                                                                         *)
(* A field is modelled by the number of the Init that wrote it, 0 if none  *)
(* has: what an Init writes (cache, scheduler client, handlers, router,    *)
(* gRPC server) is built from that Init's own connection and cache.        *)
(***************************************************************************)
EXTENDS Naturals, Sequences

CONSTANTS
  Inits,         \* the calls of Init: 1..n
  Requests

ASSUME InitsAssumption == Inits \subseteq Nat \ {0}

Fields == <<"modelsDir", "scheduler", "cache", "h", "router", "grpcSrv">>

\* The fields a request reads: HandleRequest, a model RPC, AuthorBenchPayload.
Reads == [http |-> {"router", "grpcSrv"}, model |-> {"modelsDir", "cache"}, bench |-> {"h"}]

VARIABLES
  field,         \* the Gateway's fields
  init,          \* where each Init is
  lock,          \* the Init that writes and the field it writes next
  request        \* requests: what they are, and the fields they have read

gatewayVars == <<field, init, lock, request>>

NoLock == <<>>

GatewayStart ==
  /\ field = [n \in 1..Len(Fields) |-> 0]
  /\ init = [i \in Inits |-> "called"]
  /\ lock = NoLock
  /\ request = [r \in Requests |-> [kind |-> "none", at |-> "idle", read |-> <<>>]]

ValueOf(f) == field[CHOOSE n \in 1..Len(Fields) : Fields[n] = f]

------------------------------------------------------------------------------
(* Init.                                                                   *)

\* No broker id, no protocol in common, the dial fails.
InitRefused(i) ==
  /\ init[i] = "called"
  /\ init' = [init EXCEPT ![i] = "failed"]
  /\ UNCHANGED <<field, lock, request>>

Dial(i) ==
  /\ init[i] = "called"
  /\ init' = [init EXCEPT ![i] = "dialled"]
  /\ UNCHANGED <<field, lock, request>>

\* Mutant: the directory is noted before it is made, and dropped again.
MkdirFailsClears(i) ==
  /\ init[i] = "dialled"
  /\ lock = NoLock
  /\ init' = [init EXCEPT ![i] = "failed"]
  /\ field' = [field EXCEPT ![1] = 0]
  /\ UNCHANGED <<lock, request>>

\* The models directory cannot be made, or has no name; the connection that
\* was dialled stays open.
MkdirFails(i) ==
  /\ init[i] = "dialled"
  /\ init' = [init EXCEPT ![i] = "failed"]
  /\ UNCHANGED <<field, lock, request>>

Lock(i) ==
  /\ init[i] = "dialled"
  /\ lock = NoLock
  /\ lock' = <<i, 1>>
  /\ init' = [init EXCEPT ![i] = "writes"]
  /\ UNCHANGED <<field, request>>

\* The next field, in the order of the assignments.
Assign ==
  \E i \in Inits, n \in 1..Len(Fields) :
    /\ lock = <<i, n>>
    /\ field' = [field EXCEPT ![n] = i]
    /\ lock' = <<i, n + 1>>
    /\ UNCHANGED <<init, request>>

Unlock(i) ==
  /\ lock = <<i, Len(Fields) + 1>>
  /\ lock' = NoLock
  /\ init' = [init EXCEPT ![i] = "returned"]
  /\ UNCHANGED <<field, request>>

------------------------------------------------------------------------------
(* Requests.                                                               *)

\* Mutant: the fields are read without the lock.
AnyTime == TRUE

MayRead == lock = NoLock

\* snapshot and its kind: refused unless every field is set.
Arrive(r) ==
  /\ request[r].at = "idle"
  /\ MayRead
  /\ \E k \in DOMAIN Reads :
       LET read == [f \in Reads[k] |-> ValueOf(f)] IN
       request' = [request EXCEPT ![r] =
         [kind |-> k, read |-> read,
          at |-> IF \A f \in Reads[k] : read[f] # 0 THEN "served" ELSE "refused"]]
  /\ UNCHANGED <<field, init, lock>>

\* evictLoadedInstances, later in a PlanDelete, reads the scheduler.
ReadScheduler(r) ==
  /\ request[r].kind = "model"
  /\ request[r].at = "served"
  /\ MayRead
  /\ request' = [request EXCEPT ![r] =
       [kind |-> "delete", at |-> "served",
        read |-> [f \in Reads.model \cup {"scheduler"} |->
                    IF f = "scheduler" THEN ValueOf(f) ELSE request[r].read[f]]]]
  /\ UNCHANGED <<field, init, lock>>

GatewayNext ==
  \/ \E i \in Inits : InitRefused(i) \/ Dial(i) \/ MkdirFails(i) \/ Lock(i) \/ Unlock(i)
  \/ Assign
  \/ \E r \in Requests : Arrive(r) \/ ReadScheduler(r)

GatewaySpec == GatewayStart /\ [][GatewayNext]_gatewayVars

------------------------------------------------------------------------------
(* Properties.                                                             *)

GatewayTypeOK ==
  /\ field \in [1..Len(Fields) -> {0} \cup Inits]
  /\ init \in [Inits -> {"called", "failed", "dialled", "writes", "returned"}]
  /\ lock = NoLock \/ (lock[1] \in Inits /\ init[lock[1]] = "writes" /\ lock[2] \in 1..Len(Fields) + 1)

\* What a request reads under one lock comes from one Init, so its router,
\* cache and directory belong together; a delete's scheduler is never
\* missing, and is that of the cache's Init or, if another Init came
\* between, of that one.
SeesOneInit ==
  \A r \in Requests :
    request[r].at = "served" =>
      /\ \A f, g \in DOMAIN request[r].read \ {"scheduler"} : request[r].read[f] = request[r].read[g]
      /\ request[r].kind = "delete" =>
           /\ request[r].read["scheduler"] # 0
           /\ request[r].read["scheduler"] # request[r].read["cache"] =>
                \E i \in Inits : i = request[r].read["scheduler"] /\ init[i] = "returned"

\* Once an Init has returned, no request is refused for want of one, not
\* even during another Init.
StaysInitialised ==
  [][\A r \in Requests :
       request'[r].at = "refused" /\ request[r].at = "idle"
         => \A i \in Inits : init[i] # "returned"]_gatewayVars
=============================================================================
