------------------------- MODULE CatalogueFileProofs -------------------------
(***************************************************************************)
(* Proofs about CatalogueFile, for any entries, any finite number of       *)
(* concurrent savers with inodes enough for them, and any bounds on        *)
(* changes, crashes, failures and unreadable files.                        *)
(***************************************************************************)
EXTENDS CatalogueFile, FiniteSetTheorems, TLAPS

(***************************************************************************)
(* The inductive invariant, in parts.  A saver holds an inode only between *)
(* its open and its write, and what it is to reserve is catalogued.        *)
(***************************************************************************)
OpenToWrite == \A s \in Savers : saver[s].at = "write" <=> saver[s].fd # NoFile
OwedItemsHeld == \A s \in Savers : saver[s].item \in Items => saver[s].item \in mem

\* A saver between its snapshot and its rename.
InFlight(s) == saver[s].at \in {"open", "write", "rename"}

(***************************************************************************)
(* While no two saves have overlapped one saver at most is under way; the  *)
(* temporary file is never the catalogue file, it is the inode the saver   *)
(* has open, and before its rename it holds the whole snapshot.            *)
(***************************************************************************)
SavesAlone == \A s, t \in Savers : Saving(s) /\ Saving(t) => s = t
TmpApart == tmp # NoFile => tmp # file
WritesTmp ==
  \A s \in Savers : saver[s].at = "write" => saver[s].fd = tmp /\ content[tmp] = Empty
RenamesSnapshot ==
  \A s \in Savers : saver[s].at = "rename" => tmp # NoFile /\ content[tmp] = Json(saver[s].buf)

AloneInv == ~crossed => SavesAlone /\ TmpApart /\ Parses /\ WritesTmp /\ RenamesSnapshot

(***************************************************************************)
(* If moreover every load read the file, a clean catalogue is on disk or   *)
(* in the snapshot that is on its way there.                               *)
(***************************************************************************)
SnapshotCurrent == \A s \in Savers : InFlight(s) /\ ~dirty => saver[s].buf = mem

ReadInv ==
  ~crossed /\ budget.badReads = MaxBadReads => CleanMeansSaved /\ SnapshotCurrent

(***************************************************************************)
(* If moreover no write has failed, what has been acknowledged is in the   *)
(* catalogue, on disk, and in the snapshot about to replace what is on     *)
(* disk; the snapshot also has what its own saver is to acknowledge.       *)
(***************************************************************************)
NoneFailed == \A s \in Savers : saver[s].at \notin {"cleanup", "failed"}
SnapshotCovers ==
  \A s \in Savers : InFlight(s) => acked \cup ({saver[s].item} \cap Items) \subseteq saver[s].buf

AckInv ==
  ~crossed /\ budget.badReads = MaxBadReads /\ budget.failures = MaxFailures
    => acked \subseteq OnDisk \cap mem /\ NoneFailed /\ SnapshotCovers

TInv == TypeOK /\ OpenToWrite
IInv == TInv /\ OwedItemsHeld /\ AloneInv /\ ReadInv /\ AckInv

------------------------------------------------------------------------------
(* Types.                                                                  *)

BudgetOK == budget \in [changes: 0..MaxChanges, crashes: 0..MaxCrashes,
                        failures: 0..MaxFailures, badReads: 0..MaxBadReads]

\* Spending one unit of a bound.
LEMMA BudgetSpent ==
  ASSUME BudgetOK
  PROVE  /\ budget.changes > 0 /\ budget' = [budget EXCEPT !.changes = @ - 1]
              => BudgetOK' /\ UNCHANGED <<budget.failures, budget.badReads>>
         /\ budget.crashes > 0 /\ budget' = [budget EXCEPT !.crashes = @ - 1]
              => BudgetOK' /\ UNCHANGED <<budget.failures, budget.badReads>>
         /\ budget.failures > 0 /\ budget' = [budget EXCEPT !.failures = @ - 1]
              => /\ BudgetOK' /\ UNCHANGED budget.badReads
                 /\ budget'.failures # MaxFailures
         /\ budget.crashes > 0 /\ budget.badReads > 0
            /\ budget' = [budget EXCEPT !.crashes = @ - 1, !.badReads = @ - 1]
              => BudgetOK' /\ budget'.badReads # MaxBadReads
<1>. DEFINE C == budget.changes
            R == budget.crashes
            F == budget.failures
            B == budget.badReads
<1>1. /\ C \in 0..MaxChanges /\ R \in 0..MaxCrashes /\ F \in 0..MaxFailures
      /\ B \in 0..MaxBadReads
  BY DEF BudgetOK
<1>2. budget = [changes |-> C, crashes |-> R, failures |-> F, badReads |-> B]
  BY DEF BudgetOK
<1>. HIDE DEF C, R, F, B
<1>3. /\ C > 0 => C - 1 \in 0..MaxChanges
      /\ R > 0 => R - 1 \in 0..MaxCrashes
      /\ F > 0 => F - 1 \in 0..MaxFailures /\ F - 1 # MaxFailures
      /\ B > 0 => B - 1 \in 0..MaxBadReads /\ B - 1 # MaxBadReads
  BY <1>1, BoundsAssumption
<1>. QED
  BY <1>1, <1>2, <1>3 DEF BudgetOK

\* The inodes in use at an open are the catalogue file and what other
\* savers have open: fewer than there are, so that a new one is to be had.
LEMMA NewInodeFree ==
  ASSUME TInv, NEW s \in Savers, tmp = NoFile
  PROVE  NewInode \in Inodes /\ ~InUse(NewInode)
<1>. DEFINE fds == [t \in Savers |-> saver[t].fd]
            Fds == {fds[t] : t \in Savers}
            Used == Fds \cup {file}
<1>1. /\ IsFiniteSet(Savers) /\ IsFiniteSet(Inodes)
      /\ Cardinality(Inodes) >= Cardinality(Savers) + 2
      /\ Cardinality(Savers) \in Nat /\ Cardinality(Inodes) \in Nat
  BY InodeAssumption, FS_CardinalityType
<1>2. IsFiniteSet(Fds) /\ Cardinality(Fds) <= Cardinality(Savers)
  <2>1. fds \in Surjection(Savers, Fds)
    BY DEF Surjection
  <2>. HIDE DEF fds, Fds
  <2>. QED
    BY <1>1, <2>1, FS_Surjection
<1>3. IsFiniteSet(Used) /\ Cardinality(Used) <= Cardinality(Savers) + 1
  <2>. HIDE DEF Fds
  <2>1. Cardinality(Fds) \in Nat
    BY <1>2, FS_CardinalityType
  <2>. QED
    BY <1>1, <1>2, <2>1, FS_AddElement
<1>4. ~ (Inodes \subseteq Used)
  <2>. HIDE DEF Used
  <2>1. Cardinality(Used) \in Nat
    BY <1>3, FS_CardinalityType
  <2>2. Inodes \subseteq Used => Cardinality(Inodes) <= Cardinality(Used)
    BY <1>3, FS_Subset
  <2>. QED
    BY <1>1, <1>3, <2>1, <2>2
<1>5. \E i \in Inodes : ~InUse(i)
  <2>1. PICK i \in Inodes : i \notin Used
    BY <1>4
  <2>2. i # NoFile
    BY SentinelAssumption
  <2>. QED
    BY <2>1, <2>2 DEF InUse
<1>. QED
  BY <1>5 DEF NewInode

------------------------------------------------------------------------------
(* One lemma per action.                                                   *)

LEMMA ReserveStep ==
  ASSUME IInv, NEW s \in Savers, NEW x \in Items, Reserve(s, x)
  PROVE  IInv'
<1>0. /\ saver \in [Savers -> SaverState] /\ mem \subseteq Items /\ BudgetOK
      /\ UNCHANGED <<crossed, tmp, file, content, acked>>
      /\ mem' = mem \cup {x} /\ dirty' = TRUE
  BY DEF IInv, TInv, TypeOK, BudgetOK, Reserve
<1>1. /\ \A t \in Savers \ {s} : saver'[t] = saver[t]
      /\ saver'[s].at = "save" /\ saver'[s].item = x /\ saver'[s].fd = NoFile
      /\ saver'[s] \in SaverState
  <2>. DEFINE q == [NoSave EXCEPT !.at = "save", !.item = x]
  <2>1. saver' = [saver EXCEPT ![s] = q]
    BY <1>0 DEF Reserve
  <2>2. /\ q \in SaverState
        /\ q.at = "save" /\ q.item = x /\ q.fd = NoFile
    BY <1>0 DEF SaverState, NoSave
  <2>. HIDE DEF q
  <2>. QED
    BY <1>0, <2>1, <2>2
<1>2. BudgetOK' /\ UNCHANGED <<budget.failures, budget.badReads>>
  BY <1>0, BudgetSpent DEF Reserve
<1>3. saver' \in [Savers -> SaverState]
  BY <1>0, <1>1 DEF Reserve
<1>4. TInv'
  BY <1>0, <1>1, <1>2, <1>3 DEF IInv, TInv, TypeOK, BudgetOK, OpenToWrite
<1>5. OwedItemsHeld'
  BY <1>0, <1>1 DEF IInv, OwedItemsHeld
<1>6. AloneInv'
  BY <1>0, <1>1 DEF IInv, AloneInv, SavesAlone, Saving, TmpApart, Parses, WritesTmp, RenamesSnapshot
<1>7. ReadInv'
  BY <1>0, <1>1, <1>2 DEF IInv, ReadInv, CleanMeansSaved, SnapshotCurrent
<1>8. AckInv'
  BY <1>0, <1>1, <1>2 DEF IInv, AckInv, OnDisk, NoneFailed, SnapshotCovers, InFlight
<1>. QED
  BY <1>4, <1>5, <1>6, <1>7, <1>8 DEF IInv

LEMMA PruneStep ==
  ASSUME IInv, NEW x \in Items, Prune(x)
  PROVE  IInv'
<1>0. /\ saver \in [Savers -> SaverState] /\ mem \subseteq Items /\ BudgetOK
      /\ UNCHANGED <<crossed, tmp, file, content>>
      /\ mem' = mem \ {x} /\ acked' = acked \ {x} /\ dirty' = TRUE
  BY DEF IInv, TInv, TypeOK, BudgetOK, Prune
<1>1. \A t \in Savers :
        /\ saver'[t].at = saver[t].at /\ saver'[t].buf = saver[t].buf
        /\ saver'[t].fd = saver[t].fd /\ saver'[t] \in SaverState
        /\ saver'[t].item = IF saver[t].item = x THEN NoItem ELSE saver[t].item
  <2>. TAKE t \in Savers
  <2>. DEFINE q == [saver[t] EXCEPT !.item = NoItem]
  <2>1. saver'[t] = IF saver[t].item = x THEN q ELSE saver[t]
    BY DEF Prune
  <2>2. /\ q \in SaverState
        /\ q.at = saver[t].at /\ q.buf = saver[t].buf /\ q.fd = saver[t].fd /\ q.item = NoItem
    BY <1>0 DEF SaverState
  <2>. HIDE DEF q
  <2>. QED
    BY <1>0, <2>1, <2>2
<1>2. BudgetOK' /\ UNCHANGED <<budget.failures, budget.badReads>>
  BY <1>0, BudgetSpent DEF Prune
<1>3. saver' \in [Savers -> SaverState]
  BY <1>0, <1>1 DEF Prune
<1>4. TInv'
  BY <1>0, <1>1, <1>2, <1>3 DEF IInv, TInv, TypeOK, BudgetOK, OpenToWrite
<1>5. OwedItemsHeld'
  BY <1>0, <1>1, SentinelAssumption DEF IInv, OwedItemsHeld
<1>6. AloneInv'
  BY <1>0, <1>1 DEF IInv, AloneInv, SavesAlone, Saving, TmpApart, Parses, WritesTmp, RenamesSnapshot
<1>7. ReadInv'
  BY <1>0, <1>1, <1>2 DEF IInv, ReadInv, CleanMeansSaved, SnapshotCurrent
<1>8. AckInv'
  BY <1>0, <1>1, <1>2, SentinelAssumption DEF IInv, AckInv, OnDisk, NoneFailed, SnapshotCovers, InFlight
<1>. QED
  BY <1>4, <1>5, <1>6, <1>7, <1>8 DEF IInv

LEMMA BeginSaveStep ==
  ASSUME IInv, NEW s \in Savers, BeginSave(s)
  PROVE  IInv'
<1>0. /\ saver \in [Savers -> SaverState] /\ saver[s].at = "idle"
      /\ UNCHANGED <<crossed, mem, dirty, tmp, file, content, acked, budget>>
  BY DEF IInv, TInv, TypeOK, BeginSave
<1>1. /\ \A t \in Savers \ {s} : saver'[t] = saver[t]
      /\ saver'[s].at = "save" /\ saver'[s].item = saver[s].item
      /\ saver'[s].fd = saver[s].fd /\ saver'[s] \in SaverState
  <2>. DEFINE q == [saver[s] EXCEPT !.at = "save"]
  <2>1. saver' = [saver EXCEPT ![s] = q]
    BY <1>0 DEF BeginSave
  <2>2. /\ q \in SaverState
        /\ q.at = "save" /\ q.item = saver[s].item /\ q.fd = saver[s].fd
    BY <1>0 DEF SaverState
  <2>. HIDE DEF q
  <2>. QED
    BY <1>0, <2>1, <2>2
<1>3. saver' \in [Savers -> SaverState]
  BY <1>0, <1>1 DEF BeginSave
<1>4. TInv'
  BY <1>0, <1>1, <1>3 DEF IInv, TInv, TypeOK, OpenToWrite
<1>5. OwedItemsHeld'
  BY <1>0, <1>1 DEF IInv, OwedItemsHeld
<1>6. AloneInv'
  BY <1>0, <1>1 DEF IInv, AloneInv, SavesAlone, Saving, TmpApart, Parses, WritesTmp, RenamesSnapshot
<1>7. ReadInv'
  BY <1>0, <1>1 DEF IInv, ReadInv, CleanMeansSaved, OnDisk, Saving, SnapshotCurrent, InFlight
<1>8. AckInv'
  BY <1>0, <1>1 DEF IInv, AckInv, OnDisk, NoneFailed, SnapshotCovers, InFlight
<1>. QED
  BY <1>4, <1>5, <1>6, <1>7, <1>8 DEF IInv

LEMMA SaveCleanStep ==
  ASSUME IInv, NEW s \in Savers, SaveClean(s)
  PROVE  IInv'
<1>0. /\ saver \in [Savers -> SaverState] /\ saver[s].at = "save" /\ dirty = FALSE
      /\ UNCHANGED <<mem, dirty, tmp, file, content, budget>>
      /\ acked' = acked \cup ({saver[s].item} \cap Items)
      /\ crossed' = (crossed \/ \E t \in Savers \ {s} : Saving(t))
  BY DEF IInv, TInv, TypeOK, SaveClean, Return, Cross
<1>1. /\ \A t \in Savers \ {s} : saver'[t] = saver[t]
      /\ saver'[s].at = "idle" /\ saver'[s].item = NoItem
      /\ saver'[s].fd = NoFile /\ saver'[s] \in SaverState
  <2>. DEFINE q == NoSave
  <2>1. saver' = [saver EXCEPT ![s] = q]
    BY <1>0 DEF SaveClean, Return
  <2>2. /\ q \in SaverState
        /\ q.at = "idle" /\ q.item = NoItem /\ q.fd = NoFile
    BY <1>0 DEF SaverState, NoSave
  <2>. HIDE DEF q
  <2>. QED
    BY <1>0, <2>1, <2>2
<1>3. saver' \in [Savers -> SaverState]
  BY <1>0, <1>1 DEF SaveClean, Return
<1>4. TInv'
  BY <1>0, <1>1, <1>3 DEF IInv, TInv, TypeOK, OpenToWrite
<1>5. OwedItemsHeld'
  BY <1>0, <1>1, SentinelAssumption DEF IInv, OwedItemsHeld
<1>6. AloneInv'
  BY <1>0, <1>1 DEF IInv, AloneInv, SavesAlone, Saving, TmpApart, Parses, WritesTmp, RenamesSnapshot
<1>7. ReadInv'
  BY <1>0, <1>1 DEF IInv, ReadInv, CleanMeansSaved, OnDisk, Saving, SnapshotCurrent, InFlight
<1>8. AckInv'
  <2>. SUFFICES ASSUME ~crossed', budget.badReads = MaxBadReads, budget.failures = MaxFailures
                PROVE  acked' \subseteq (OnDisk \cap mem)' /\ NoneFailed' /\ SnapshotCovers'
    BY <1>0 DEF AckInv
  <2>1. \A t \in Savers : ~Saving(t)
    BY <1>0 DEF Saving
  <2>2. OnDisk = mem
    BY <1>0, <2>1 DEF IInv, ReadInv, CleanMeansSaved
  <2>3. acked' \subseteq (OnDisk \cap mem)'
    BY <1>0, <2>2 DEF IInv, AckInv, OwedItemsHeld, OnDisk
  <2>4. \A t \in Savers : saver'[t].at \in {"idle", "save"}
    BY <1>0, <1>1, <2>1 DEF Saving
  <2>. QED
    BY <2>3, <2>4 DEF NoneFailed, SnapshotCovers, InFlight
<1>. QED
  BY <1>4, <1>5, <1>6, <1>7, <1>8 DEF IInv

LEMMA SaveSnapshotStep ==
  ASSUME IInv, NEW s \in Savers, SaveSnapshot(s)
  PROVE  IInv'
<1>0. /\ saver \in [Savers -> SaverState] /\ saver[s].at = "save" /\ mem \subseteq Items
      /\ UNCHANGED <<mem, tmp, file, content, acked, budget>>
      /\ dirty' = FALSE
      /\ crossed' = (crossed \/ \E t \in Savers \ {s} : Saving(t))
  BY DEF IInv, TInv, TypeOK, SaveSnapshot, Cross
<1>1. /\ \A t \in Savers \ {s} : saver'[t] = saver[t]
      /\ saver'[s].at = "open" /\ saver'[s].item = saver[s].item
      /\ saver'[s].fd = saver[s].fd /\ saver'[s].buf = mem /\ saver'[s] \in SaverState
  <2>. DEFINE q == [saver[s] EXCEPT !.at = "open", !.buf = mem]
  <2>1. saver' = [saver EXCEPT ![s] = q]
    BY <1>0 DEF SaveSnapshot
  <2>2. /\ q \in SaverState
        /\ q.at = "open" /\ q.item = saver[s].item /\ q.fd = saver[s].fd /\ q.buf = mem
    BY <1>0 DEF SaverState
  <2>. HIDE DEF q
  <2>. QED
    BY <1>0, <2>1, <2>2
<1>3. saver' \in [Savers -> SaverState]
  BY <1>0, <1>1 DEF SaveSnapshot
<1>4. TInv'
  BY <1>0, <1>1, <1>3 DEF IInv, TInv, TypeOK, OpenToWrite
<1>5. OwedItemsHeld'
  BY <1>0, <1>1 DEF IInv, OwedItemsHeld
<1>6. AloneInv'
  BY <1>0, <1>1 DEF IInv, AloneInv, SavesAlone, Saving, TmpApart, Parses, WritesTmp, RenamesSnapshot
<1>7. ReadInv'
  BY <1>0, <1>1 DEF IInv, ReadInv, CleanMeansSaved, OnDisk, Saving, SnapshotCurrent, InFlight
<1>8. AckInv'
  <2>. SUFFICES ASSUME ~crossed', budget'.badReads = MaxBadReads, budget'.failures = MaxFailures
                PROVE  acked' \subseteq OnDisk' \cap mem' /\ NoneFailed' /\ SnapshotCovers'
    BY DEF AckInv
  <2>1. acked \subseteq OnDisk \cap mem /\ NoneFailed /\ SnapshotCovers
    BY <1>0 DEF IInv, AckInv
  <2>2. acked' \subseteq OnDisk' \cap mem'
    BY <1>0, <2>1 DEF OnDisk
  <2>3. NoneFailed'
    BY <1>0, <1>1, <2>1 DEF NoneFailed
  <2>4. {saver[s].item} \cap Items \subseteq mem
    BY <1>0 DEF IInv, OwedItemsHeld
  <2>5. ASSUME NEW t \in Savers, InFlight(t)'
        PROVE  acked' \cup ({saver'[t].item} \cap Items) \subseteq saver'[t].buf
    <3>1. CASE t = s
      BY <1>0, <1>1, <2>1, <2>4, <3>1
    <3>2. CASE t # s
      BY <1>0, <1>1, <2>1, <2>5, <3>2 DEF SnapshotCovers, InFlight
    <3>. QED
      BY <3>1, <3>2
  <2>. QED
    BY <2>2, <2>3, <2>5 DEF SnapshotCovers
<1>. QED
  BY <1>4, <1>5, <1>6, <1>7, <1>8 DEF IInv

LEMMA SaveOpenStep ==
  ASSUME IInv, NEW s \in Savers, SaveOpen(s)
  PROVE  IInv'
<1>. DEFINE i == TmpInode
<1>a. /\ saver \in [Savers -> SaverState] /\ saver[s].at = "open"
      /\ content \in [Inodes -> Content]
      /\ UNCHANGED <<crossed, mem, dirty, file, acked, budget>>
      /\ tmp' = i /\ content' = [content EXCEPT ![i] = Empty]
  BY DEF IInv, TInv, TypeOK, SaveOpen
<1>b. i \in Inodes /\ (tmp # NoFile => i = tmp) /\ (tmp = NoFile => i # file)
  BY NewInodeFree DEF IInv, TInv, TypeOK, TmpInode, InUse
<1>c. saver' = [saver EXCEPT ![s] = [saver[s] EXCEPT !.at = "write", !.fd = i]]
  BY DEF SaveOpen
<1>. HIDE DEF i
<1>0. /\ saver \in [Savers -> SaverState] /\ saver[s].at = "open" /\ i # NoFile
      /\ UNCHANGED <<crossed, mem, dirty, file, acked, budget>>
      /\ tmp' = i /\ content' = [content EXCEPT ![i] = Empty] /\ i \in Inodes
  BY <1>a, <1>b, SentinelAssumption
<1>1. /\ \A t \in Savers \ {s} : saver'[t] = saver[t]
      /\ saver'[s].at = "write" /\ saver'[s].item = saver[s].item
      /\ saver'[s].fd = i /\ saver'[s].buf = saver[s].buf /\ saver'[s] \in SaverState
  <2>. DEFINE q == [saver[s] EXCEPT !.at = "write", !.fd = i]
  <2>1. saver' = [saver EXCEPT ![s] = q]
    BY <1>c
  <2>2. /\ q \in SaverState
        /\ q.at = "write" /\ q.item = saver[s].item /\ q.fd = i /\ q.buf = saver[s].buf
    BY <1>0 DEF SaverState
  <2>. HIDE DEF q
  <2>. QED
    BY <1>0, <2>1, <2>2
<1>2. /\ content' \in [Inodes -> Content]
      /\ content'[i] = Empty /\ \A j \in Inodes \ {i} : content'[j] = content[j]
  BY <1>a, <1>0 DEF Content
<1>3. saver' \in [Savers -> SaverState]
  BY <1>0, <1>1, <1>c
<1>4. TInv'
  BY <1>0, <1>1, <1>2, <1>3 DEF IInv, TInv, TypeOK, OpenToWrite
<1>5. OwedItemsHeld'
  BY <1>0, <1>1 DEF IInv, OwedItemsHeld
<1>6. ~crossed => /\ i # file
                  /\ \A t \in Savers : t # s => ~Saving(t) /\ ~Saving(t)'
                  /\ UNCHANGED <<OnDisk, Parses>>
  <2>. SUFFICES ASSUME ~crossed
                PROVE  /\ i # file
                       /\ \A t \in Savers : t # s => ~Saving(t) /\ ~Saving(t)'
                       /\ UNCHANGED <<OnDisk, Parses>>
    OBVIOUS
  <2>1. i # file
    BY <1>b DEF IInv, AloneInv, TmpApart
  <2>2. \A t \in Savers : t # s => ~Saving(t) /\ ~Saving(t)'
    BY <1>0, <1>1 DEF IInv, AloneInv, SavesAlone, Saving
  <2>3. file \in Inodes \cup {NoFile}
    BY DEF IInv, TInv, TypeOK
  <2>. QED
    BY <1>0, <1>2, <2>1, <2>2, <2>3 DEF OnDisk, Parses
<1>7. AloneInv'
  <2>. SUFFICES ASSUME ~crossed
                PROVE  (SavesAlone /\ TmpApart /\ Parses /\ WritesTmp /\ RenamesSnapshot)'
    BY <1>0 DEF AloneInv
  <2>. QED
    BY <1>0, <1>1, <1>2, <1>6
       DEF IInv, AloneInv, SavesAlone, Saving, TmpApart, WritesTmp, RenamesSnapshot
<1>8. ReadInv'
  BY <1>0, <1>1, <1>6 DEF IInv, ReadInv, CleanMeansSaved, Saving, SnapshotCurrent, InFlight
<1>9. AckInv'
  BY <1>0, <1>1, <1>6 DEF IInv, AckInv, NoneFailed, SnapshotCovers, InFlight
<1>. QED
  BY <1>4, <1>5, <1>7, <1>8, <1>9 DEF IInv

LEMMA SaveWriteStep ==
  ASSUME IInv, NEW s \in Savers, SaveWrite(s)
  PROVE  IInv'
<1>. DEFINE i == saver[s].fd
<1>0. /\ saver \in [Savers -> SaverState] /\ saver[s].at = "write"
      /\ content \in [Inodes -> Content]
      /\ UNCHANGED <<crossed, mem, dirty, tmp, file, acked, budget>>
      /\ i \in Inodes
  BY DEF IInv, TInv, TypeOK, SaveWrite, OpenToWrite, SaverState
<1>a. PICK c \in {Json(saver[s].buf), Mixed} :
        /\ c = Mixed => content[i] \notin {Empty, Json(saver[s].buf)}
        /\ content' = [content EXCEPT ![i] = c]
  BY DEF SaveWrite
<1>1. /\ \A t \in Savers \ {s} : saver'[t] = saver[t]
      /\ saver'[s].at = "rename" /\ saver'[s].item = saver[s].item
      /\ saver'[s].fd = NoFile /\ saver'[s].buf = saver[s].buf /\ saver'[s] \in SaverState
  <2>. DEFINE q == [saver[s] EXCEPT !.at = "rename", !.fd = NoFile]
  <2>1. saver' = [saver EXCEPT ![s] = q]
    BY <1>0 DEF SaveWrite
  <2>2. /\ q \in SaverState
        /\ q.at = "rename" /\ q.item = saver[s].item /\ q.fd = NoFile /\ q.buf = saver[s].buf
    BY <1>0 DEF SaverState
  <2>. HIDE DEF q
  <2>. QED
    BY <1>0, <2>1, <2>2
<1>2. /\ content' \in [Inodes -> Content]
      /\ content'[i] = c /\ \A j \in Inodes \ {i} : content'[j] = content[j]
  <2>1. c \in Content
    BY <1>0 DEF Content, SaverState
  <2>. QED
    BY <1>0, <1>a, <2>1
<1>3. saver' \in [Savers -> SaverState]
  BY <1>0, <1>1 DEF SaveWrite
<1>4. TInv'
  BY <1>0, <1>1, <1>2, <1>3 DEF IInv, TInv, TypeOK, OpenToWrite
<1>5. OwedItemsHeld'
  BY <1>0, <1>1 DEF IInv, OwedItemsHeld
<1>6. ~crossed => /\ i = tmp /\ tmp # NoFile /\ c = Json(saver[s].buf)
                  /\ \A t \in Savers : t # s => ~Saving(t) /\ ~Saving(t)'
                  /\ UNCHANGED <<OnDisk, Parses>>
  <2>. SUFFICES ASSUME ~crossed
                PROVE  /\ i = tmp /\ tmp # NoFile /\ c = Json(saver[s].buf)
                       /\ \A t \in Savers : t # s => ~Saving(t) /\ ~Saving(t)'
                       /\ UNCHANGED <<OnDisk, Parses>>
    OBVIOUS
  <2>1. i = tmp /\ content[tmp] = Empty /\ i # NoFile /\ i # file
    BY <1>0, SentinelAssumption DEF IInv, AloneInv, WritesTmp, TmpApart
  <2>2. \A t \in Savers : t # s => ~Saving(t) /\ ~Saving(t)'
    BY <1>0, <1>1 DEF IInv, AloneInv, SavesAlone, Saving
  <2>3. file \in Inodes \cup {NoFile}
    BY DEF IInv, TInv, TypeOK
  <2>. QED
    BY <1>0, <1>a, <1>2, <2>1, <2>2, <2>3 DEF OnDisk, Parses
<1>7. AloneInv'
  <2>. SUFFICES ASSUME ~crossed
                PROVE  (SavesAlone /\ TmpApart /\ Parses /\ WritesTmp /\ RenamesSnapshot)'
    BY <1>0 DEF AloneInv
  <2>. QED
    BY <1>0, <1>1, <1>2, <1>6
       DEF IInv, AloneInv, SavesAlone, Saving, TmpApart, WritesTmp, RenamesSnapshot
<1>8. ReadInv'
  BY <1>0, <1>1, <1>6 DEF IInv, ReadInv, CleanMeansSaved, Saving, SnapshotCurrent, InFlight
<1>9. AckInv'
  BY <1>0, <1>1, <1>6 DEF IInv, AckInv, NoneFailed, SnapshotCovers, InFlight
<1>. QED
  BY <1>4, <1>5, <1>7, <1>8, <1>9 DEF IInv

LEMMA SaveRenameStep ==
  ASSUME IInv, NEW s \in Savers, SaveRename(s)
  PROVE  IInv'
<1>0. /\ saver \in [Savers -> SaverState] /\ saver[s].at = "rename"
      /\ tmp \in Inodes
      /\ UNCHANGED <<crossed, mem, dirty, content, budget>>
      /\ tmp' = NoFile /\ file' = tmp
      /\ acked' = acked \cup ({saver[s].item} \cap Items)
  BY DEF IInv, TInv, TypeOK, SaveRename, Return
<1>1. /\ \A t \in Savers \ {s} : saver'[t] = saver[t]
      /\ saver'[s].at = "idle" /\ saver'[s].item = NoItem
      /\ saver'[s].fd = NoFile /\ saver'[s] \in SaverState
  <2>. DEFINE q == NoSave
  <2>1. saver' = [saver EXCEPT ![s] = q]
    BY <1>0 DEF SaveRename, Return
  <2>2. /\ q \in SaverState
        /\ q.at = "idle" /\ q.item = NoItem /\ q.fd = NoFile
    BY <1>0 DEF SaverState, NoSave
  <2>. HIDE DEF q
  <2>. QED
    BY <1>0, <2>1, <2>2
<1>3. saver' \in [Savers -> SaverState]
  BY <1>0, <1>1 DEF SaveRename, Return
<1>4. TInv'
  BY <1>0, <1>1, <1>3 DEF IInv, TInv, TypeOK, OpenToWrite
<1>5. OwedItemsHeld'
  BY <1>0, <1>1, SentinelAssumption DEF IInv, OwedItemsHeld
<1>6. ~crossed => /\ Parses' /\ OnDisk' = saver[s].buf
                  /\ \A t \in Savers : ~Saving(t)'
  <2>. SUFFICES ASSUME ~crossed
                PROVE  Parses' /\ OnDisk' = saver[s].buf /\ \A t \in Savers : ~Saving(t)'
    OBVIOUS
  <2>1. content[tmp] = Json(saver[s].buf) /\ tmp # NoFile
    BY <1>0, SentinelAssumption DEF IInv, AloneInv, RenamesSnapshot
  <2>2. \A t \in Savers : t # s => ~Saving(t)
    BY <1>0 DEF IInv, AloneInv, SavesAlone, Saving
  <2>. QED
    BY <1>0, <1>1, <2>1, <2>2 DEF Saving, OnDisk, Parses, Json
<1>7. AloneInv'
  BY <1>0, <1>6 DEF AloneInv, SavesAlone, TmpApart, WritesTmp, RenamesSnapshot, Saving
<1>8. ReadInv'
  BY <1>0, <1>6 DEF IInv, ReadInv, CleanMeansSaved, SnapshotCurrent, InFlight, Saving
<1>9. AckInv'
  <2>. SUFFICES ASSUME ~crossed', budget'.badReads = MaxBadReads, budget'.failures = MaxFailures
                PROVE  acked' \subseteq (OnDisk \cap mem)' /\ NoneFailed' /\ SnapshotCovers'
    BY DEF AckInv
  <2>1. acked' \subseteq saver[s].buf
    BY <1>0 DEF IInv, AckInv, SnapshotCovers, InFlight
  <2>2. acked' \subseteq mem
    BY <1>0 DEF IInv, AckInv, OwedItemsHeld
  <2>. QED
    BY <1>0, <1>6, <2>1, <2>2 DEF NoneFailed, SnapshotCovers, InFlight, Saving
<1>. QED
  BY <1>4, <1>5, <1>7, <1>8, <1>9 DEF IInv

LEMMA SaveWriteFailsStep ==
  ASSUME IInv, NEW s \in Savers, SaveWriteFails(s)
  PROVE  IInv'
<1>0. /\ saver \in [Savers -> SaverState] /\ saver[s].at \in {"open", "write"} /\ BudgetOK
      /\ content \in [Inodes -> Content]
      /\ UNCHANGED <<crossed, mem, dirty, tmp, file, acked>>
  BY DEF IInv, TInv, TypeOK, BudgetOK, SaveWriteFails
<1>1. /\ \A t \in Savers \ {s} : saver'[t] = saver[t]
      /\ saver'[s].at = "failed" /\ saver'[s].item = saver[s].item
      /\ saver'[s].fd = NoFile /\ saver'[s].buf = saver[s].buf /\ saver'[s] \in SaverState
  <2>. DEFINE q == [saver[s] EXCEPT !.at = "failed", !.fd = NoFile]
  <2>1. saver' = [saver EXCEPT ![s] = q]
    BY <1>0 DEF SaveWriteFails
  <2>2. /\ q \in SaverState
        /\ q.at = "failed" /\ q.item = saver[s].item /\ q.fd = NoFile /\ q.buf = saver[s].buf
    BY <1>0 DEF SaverState
  <2>. HIDE DEF q
  <2>. QED
    BY <1>0, <2>1, <2>2
<1>2. BudgetOK' /\ UNCHANGED budget.badReads /\ budget'.failures # MaxFailures
  BY <1>0, BudgetSpent DEF SaveWriteFails
<1>a. /\ content' \in [Inodes -> Content]
      /\ \/ content' = content
         \/ /\ saver[s].at = "write" /\ saver[s].fd \in Inodes
            /\ \A j \in Inodes \ {saver[s].fd} : content'[j] = content[j]
  <2>1. CASE saver[s].at = "open"
    BY <1>0, <2>1 DEF SaveWriteFails
  <2>2. CASE saver[s].at = "write"
    <3>1. content' = [content EXCEPT ![saver[s].fd] = Mixed] /\ Mixed \in Content
      BY <2>2 DEF SaveWriteFails, Content
    <3>2. saver[s].fd \in Inodes
      BY <1>0, <2>2 DEF IInv, TInv, OpenToWrite, SaverState
    <3>. QED
      BY <1>0, <2>2, <3>1, <3>2
  <2>. QED
    BY <1>0, <2>1, <2>2
<1>3. saver' \in [Savers -> SaverState]
  BY <1>0, <1>1 DEF SaveWriteFails
<1>4. TInv'
  BY <1>0, <1>1, <1>2, <1>3, <1>a DEF IInv, TInv, TypeOK, OpenToWrite, BudgetOK
<1>5. OwedItemsHeld'
  BY <1>0, <1>1 DEF IInv, OwedItemsHeld
<1>6. ~crossed => /\ UNCHANGED <<OnDisk, Parses>>
                  /\ \A t \in Savers : t # s => ~Saving(t) /\ ~Saving(t)'
  <2>. SUFFICES ASSUME ~crossed
                PROVE  /\ UNCHANGED <<OnDisk, Parses>>
                       /\ \A t \in Savers : t # s => ~Saving(t) /\ ~Saving(t)'
    OBVIOUS
  <2>1. file \in Inodes \cup {NoFile} /\ (saver[s].at = "write" => saver[s].fd # file \/ file = NoFile)
    BY DEF IInv, TInv, TypeOK, AloneInv, WritesTmp, TmpApart
  <2>2. \A t \in Savers : t # s => ~Saving(t) /\ ~Saving(t)'
    BY <1>0, <1>1 DEF IInv, AloneInv, SavesAlone, Saving
  <2>. QED
    BY <1>0, <1>a, <2>1, <2>2 DEF OnDisk, Parses
<1>7. AloneInv'
  <2>. SUFFICES ASSUME ~crossed
                PROVE  (SavesAlone /\ TmpApart /\ Parses /\ WritesTmp /\ RenamesSnapshot)'
    BY <1>0 DEF AloneInv
  <2>. QED
    BY <1>0, <1>1, <1>6
       DEF IInv, AloneInv, SavesAlone, Saving, TmpApart, WritesTmp, RenamesSnapshot
<1>8. ReadInv'
  BY <1>0, <1>1, <1>2, <1>6 DEF IInv, ReadInv, CleanMeansSaved, Saving, SnapshotCurrent, InFlight
<1>9. AckInv'
  BY <1>2 DEF AckInv
<1>. QED
  BY <1>4, <1>5, <1>7, <1>8, <1>9 DEF IInv

LEMMA SaveRenameFailsStep ==
  ASSUME IInv, NEW s \in Savers, SaveRenameFails(s)
  PROVE  IInv'
<1>0. /\ saver \in [Savers -> SaverState] /\ saver[s].at = "rename" /\ BudgetOK
      /\ UNCHANGED <<crossed, mem, dirty, tmp, file, content, acked>>
  BY DEF IInv, TInv, TypeOK, BudgetOK, SaveRenameFails
<1>1. /\ \A t \in Savers \ {s} : saver'[t] = saver[t]
      /\ saver'[s].at = "cleanup" /\ saver'[s].item = saver[s].item
      /\ saver'[s].fd = saver[s].fd /\ saver'[s] \in SaverState
  <2>. DEFINE q == [saver[s] EXCEPT !.at = "cleanup"]
  <2>1. saver' = [saver EXCEPT ![s] = q]
    BY <1>0 DEF SaveRenameFails
  <2>2. /\ q \in SaverState
        /\ q.at = "cleanup" /\ q.item = saver[s].item /\ q.fd = saver[s].fd
    BY <1>0 DEF SaverState
  <2>. HIDE DEF q
  <2>. QED
    BY <1>0, <2>1, <2>2
<1>2. /\ BudgetOK' /\ UNCHANGED budget.badReads
      /\ ~crossed => budget'.failures # MaxFailures
  <2>1. CASE TmpGone /\ UNCHANGED budget
    BY <1>0, <2>1 DEF IInv, AloneInv, RenamesSnapshot, TmpGone, BudgetOK
  <2>2. CASE budget.failures > 0 /\ budget' = [budget EXCEPT !.failures = @ - 1]
    BY <1>0, <2>2, BudgetSpent
  <2>. QED
    BY <2>1, <2>2 DEF SaveRenameFails
<1>3. saver' \in [Savers -> SaverState]
  BY <1>0, <1>1 DEF SaveRenameFails
<1>4. TInv'
  BY <1>0, <1>1, <1>2, <1>3 DEF IInv, TInv, TypeOK, OpenToWrite, BudgetOK
<1>5. OwedItemsHeld'
  BY <1>0, <1>1 DEF IInv, OwedItemsHeld
<1>6. AloneInv'
  BY <1>0, <1>1 DEF IInv, AloneInv, SavesAlone, Saving, TmpApart, Parses, WritesTmp, RenamesSnapshot
<1>7. ReadInv'
  BY <1>0, <1>1, <1>2 DEF IInv, ReadInv, CleanMeansSaved, Saving, SnapshotCurrent, InFlight
<1>8. AckInv'
  BY <1>0, <1>2 DEF AckInv
<1>. QED
  BY <1>4, <1>5, <1>6, <1>7, <1>8 DEF IInv

LEMMA SaveCleanupStep ==
  ASSUME IInv, NEW s \in Savers, SaveCleanup(s)
  PROVE  IInv'
<1>0. /\ saver \in [Savers -> SaverState] /\ saver[s].at = "cleanup"
      /\ UNCHANGED <<crossed, mem, dirty, file, content, acked, budget>>
      /\ tmp' = NoFile
  BY DEF IInv, TInv, TypeOK, SaveCleanup
<1>1. /\ \A t \in Savers \ {s} : saver'[t] = saver[t]
      /\ saver'[s].at = "failed" /\ saver'[s].item = saver[s].item
      /\ saver'[s].fd = saver[s].fd /\ saver'[s] \in SaverState
  <2>. DEFINE q == [saver[s] EXCEPT !.at = "failed"]
  <2>1. saver' = [saver EXCEPT ![s] = q]
    BY <1>0 DEF SaveCleanup
  <2>2. /\ q \in SaverState
        /\ q.at = "failed" /\ q.item = saver[s].item /\ q.fd = saver[s].fd
    BY <1>0 DEF SaverState
  <2>. HIDE DEF q
  <2>. QED
    BY <1>0, <2>1, <2>2
<1>3. saver' \in [Savers -> SaverState]
  BY <1>0, <1>1 DEF SaveCleanup
<1>4. TInv'
  BY <1>0, <1>1, <1>3 DEF IInv, TInv, TypeOK, OpenToWrite
<1>5. OwedItemsHeld'
  BY <1>0, <1>1 DEF IInv, OwedItemsHeld
<1>6. AloneInv'
  BY <1>0, <1>1 DEF IInv, AloneInv, SavesAlone, Saving, TmpApart, Parses, WritesTmp, RenamesSnapshot
<1>7. ReadInv'
  BY <1>0, <1>1 DEF IInv, ReadInv, CleanMeansSaved, Saving, SnapshotCurrent, InFlight
<1>8. AckInv'
  BY <1>0 DEF IInv, AckInv, NoneFailed
<1>. QED
  BY <1>4, <1>5, <1>6, <1>7, <1>8 DEF IInv

LEMMA SaveMarkDirtyStep ==
  ASSUME IInv, NEW s \in Savers, SaveMarkDirty(s)
  PROVE  IInv'
<1>0. /\ saver \in [Savers -> SaverState] /\ saver[s].at = "failed"
      /\ UNCHANGED <<crossed, mem, tmp, file, content, budget>>
      /\ dirty' = TRUE
      /\ acked' = acked \cup ({saver[s].item} \cap Items)
  BY DEF IInv, TInv, TypeOK, SaveMarkDirty, Return
<1>1. /\ \A t \in Savers \ {s} : saver'[t] = saver[t]
      /\ saver'[s].at = "idle" /\ saver'[s].item = NoItem
      /\ saver'[s].fd = NoFile /\ saver'[s] \in SaverState
  <2>. DEFINE q == NoSave
  <2>1. saver' = [saver EXCEPT ![s] = q]
    BY <1>0 DEF SaveMarkDirty, Return
  <2>2. /\ q \in SaverState
        /\ q.at = "idle" /\ q.item = NoItem /\ q.fd = NoFile
    BY <1>0 DEF SaverState, NoSave
  <2>. HIDE DEF q
  <2>. QED
    BY <1>0, <2>1, <2>2
<1>3. saver' \in [Savers -> SaverState]
  BY <1>0, <1>1 DEF SaveMarkDirty, Return
<1>4. TInv'
  BY <1>0, <1>1, <1>3 DEF IInv, TInv, TypeOK, OpenToWrite
<1>5. OwedItemsHeld'
  BY <1>0, <1>1, SentinelAssumption DEF IInv, OwedItemsHeld
<1>6. AloneInv'
  BY <1>0, <1>1 DEF IInv, AloneInv, SavesAlone, Saving, TmpApart, Parses, WritesTmp, RenamesSnapshot
<1>7. ReadInv'
  BY <1>0 DEF ReadInv, CleanMeansSaved, SnapshotCurrent
<1>8. AckInv'
  BY <1>0 DEF IInv, AckInv, NoneFailed
<1>. QED
  BY <1>4, <1>5, <1>6, <1>7, <1>8 DEF IInv

LEMMA RestartStep ==
  ASSUME IInv, Restart
  PROVE  IInv'
<1>0. /\ saver' = [s \in Savers |-> NoSave] /\ dirty' = FALSE
      /\ UNCHANGED <<crossed, tmp, content, acked>> /\ file' \in {file, NoFile} /\ BudgetOK
  BY DEF IInv, TInv, TypeOK, BudgetOK,
         Restart, RestartLoads, RestartQuarantines, RestartUnreadable, Crash
<1>1. \A s \in Savers : saver'[s].at = "idle" /\ saver'[s].item = NoItem /\ saver'[s].fd = NoFile
  BY <1>0 DEF NoSave
<1>2. \/ /\ RestartLoads \/ RestartQuarantines
         /\ BudgetOK' /\ UNCHANGED <<budget.failures, budget.badReads>>
      \/ BudgetOK' /\ budget'.badReads # MaxBadReads
  BY <1>0, BudgetSpent DEF Restart, RestartLoads, RestartQuarantines, RestartUnreadable, Crash
<1>3. saver' \in [Savers -> SaverState]
  BY <1>0 DEF NoSave, SaverState
<1>4. mem' \subseteq Items
  <2>1. file # NoFile => content[file] \in Content
    BY DEF IInv, TInv, TypeOK
  <2>2. OnDisk \subseteq Items
    BY <2>1 DEF OnDisk, Content, Empty, Mixed, Json
  <2>. QED
    BY <2>2 DEF Restart, RestartLoads, RestartQuarantines, RestartUnreadable
<1>5. TInv'
  BY <1>0, <1>1, <1>2, <1>3, <1>4 DEF IInv, TInv, TypeOK, OpenToWrite, BudgetOK
<1>6. OwedItemsHeld'
  BY <1>1, SentinelAssumption DEF OwedItemsHeld
<1>7. AloneInv'
  BY <1>0, <1>1 DEF IInv, AloneInv, SavesAlone, Saving, TmpApart, Parses, WritesTmp, RenamesSnapshot
<1>8. ~crossed /\ budget'.badReads = MaxBadReads =>
        /\ OnDisk' = OnDisk /\ mem' = OnDisk
        /\ UNCHANGED <<budget.failures, budget.badReads>>
  BY <1>0, <1>2 DEF IInv, AloneInv, RestartLoads, RestartQuarantines, OnDisk
<1>9. ReadInv'
  BY <1>0, <1>1, <1>8 DEF ReadInv, CleanMeansSaved, SnapshotCurrent, InFlight
<1>10. AckInv'
  BY <1>0, <1>1, <1>8 DEF IInv, AckInv, NoneFailed, SnapshotCovers, InFlight
<1>. QED
  BY <1>5, <1>6, <1>7, <1>9, <1>10 DEF IInv

------------------------------------------------------------------------------

LEMMA InvInit == Init => IInv
<1> SUFFICES ASSUME Init PROVE IInv
  OBVIOUS
<1>1. /\ saver \in [Savers -> SaverState] /\ content \in [Inodes -> Content]
      /\ \A s \in Savers : saver[s].at = "idle" /\ saver[s].item = NoItem /\ saver[s].fd = NoFile
  BY DEF Init, NoSave, SaverState, Content
<1>2. TInv
  <2>1. BudgetOK
    BY BoundsAssumption DEF Init, BudgetOK
  <2>2. OpenToWrite
    BY <1>1 DEF OpenToWrite
  <2>. QED
    BY <1>1, <2>1, <2>2 DEF Init, TInv, TypeOK, BudgetOK
<1>3. OwedItemsHeld /\ AloneInv
  BY <1>1, SentinelAssumption
     DEF Init, OwedItemsHeld, AloneInv, SavesAlone, Saving, TmpApart, Parses, WritesTmp, RenamesSnapshot
<1>4. ReadInv /\ AckInv
  BY <1>1 DEF Init, ReadInv, CleanMeansSaved, OnDisk, SnapshotCurrent, InFlight,
              AckInv, NoneFailed, SnapshotCovers
<1>. QED
  BY <1>2, <1>3, <1>4 DEF IInv

LEMMA InvStep == IInv /\ [Next]_vars => IInv'
<1> SUFFICES ASSUME IInv, [Next]_vars PROVE IInv'
  OBVIOUS
<1>1. CASE UNCHANGED vars
  BY <1>1 DEF vars, IInv, TInv, TypeOK, OpenToWrite, OwedItemsHeld, AloneInv, SavesAlone, Saving,
     TmpApart, Parses, WritesTmp, RenamesSnapshot, ReadInv, CleanMeansSaved, OnDisk,
     SnapshotCurrent, InFlight, AckInv, NoneFailed, SnapshotCovers
<1>2. CASE Next
  BY <1>2, ReserveStep, PruneStep, BeginSaveStep, SaveCleanStep, SaveSnapshotStep, SaveOpenStep,
     SaveWriteStep, SaveRenameStep, SaveWriteFailsStep, SaveRenameFailsStep, SaveCleanupStep,
     SaveMarkDirtyStep, RestartStep DEF Next, SaveStep
<1>. QED
  BY <1>1, <1>2

LEMMA InvAlways == Spec => []IInv
BY InvInit, InvStep, PTL DEF Spec

\* The catalogue file can be read back at every moment, and so after a crash
\* at any moment, as long as no two saves have overlapped: the temporary file
\* is another inode than the catalogue's and is renamed over it only when it
\* holds a whole snapshot.
THEOREM FileReadable == Spec => []FileSound
<1>1. IInv => FileSound
  BY DEF IInv, TInv, AloneInv, FileSound, FileParsesAlone
<1>. QED
  BY <1>1, InvAlways, PTL

\* The dirty mark is never lost: a change is on disk, in a snapshot on its
\* way there, or marked, because saveToDisk clears the mark under the lock
\* that takes the snapshot and sets it again when the save fails.
THEOREM CleanIsSaved == Spec => []CleanMeansSaved
<1>1. IInv => CleanMeansSaved
  BY DEF IInv, ReadInv, CleanMeansSaved
<1>. QED
  BY <1>1, InvAlways, PTL

\* What reserveEntry has acknowledged survives a crash, if its saves ran
\* alone and succeeded.
THEOREM AcknowledgedIsDurable == Spec => []AckedDurable
<1>1. IInv => AckedDurable
  BY DEF IInv, AckInv, AckedDurable
<1>. QED
  BY <1>1, InvAlways, PTL

------------------------------------------------------------------------------
(***************************************************************************)
(* The refinement.  While saves do not overlap, the files change under the *)
(* catalogue file's back: only a rename changes what is on disk, and that  *)
(* to the snapshot of the one save in progress.                            *)
(***************************************************************************)

\* A step that leaves every save under way, with its snapshot, leaves what
\* is taken.
LEMMA SameTaken ==
  ASSUME \A s \in Savers : Saving(s)' <=> Saving(s),
         \A s \in Savers : Saving(s) => saver'[s].buf = saver[s].buf
  PROVE  Taken' = Taken
BY DEF Taken

LEMMA OneTaken ==
  ASSUME SavesAlone, NEW s \in Savers, Saving(s)
  PROVE  Taken = {saver[s].buf}
BY DEF Taken, SavesAlone

\* One saver's step that is neither its first nor its last.
LEMMA MidSave ==
  ASSUME TInv, NEW s \in Savers, NEW t, saver' = [saver EXCEPT ![s] = t],
         t.at \notin {"idle", "save"} <=> Saving(s), t.buf = saver[s].buf
  PROVE  Taken' = Taken
<1>1. \A r \in Savers : saver'[r] = IF r = s THEN t ELSE saver[r]
  BY DEF TInv, TypeOK
<1>. QED
  BY <1>1, SameTaken DEF Saving

\* Its last step: nothing is taken any more.
LEMMA EndSave ==
  ASSUME TInv, SavesAlone, NEW s \in Savers, Saving(s), saver' = [saver EXCEPT ![s] = NoSave]
  PROVE  Taken' = {}
<1>1. \A r \in Savers : saver'[r] = IF r = s THEN NoSave ELSE saver[r]
  BY DEF TInv, TypeOK
<1>2. \A r \in Savers : ~Saving(r)'
  BY <1>1 DEF SavesAlone, Saving, NoSave
<1>. QED
  BY <1>2 DEF Taken

\* Before the step no two saves had overlapped.
Quiet == IInv /\ ~crossed /\ ~crossed'

LEMMA QuietFacts ==
  ASSUME Quiet
  PROVE  TInv /\ SavesAlone /\ TmpApart /\ Parses /\ WritesTmp /\ RenamesSnapshot
         /\ mem \subseteq Items /\ \A s \in Savers : saver[s] \in SaverState
BY DEF Quiet, IInv, AloneInv, TInv, TypeOK

LEMMA ChangeMaps ==
  ASSUME Quiet, (\E s \in Savers, x \in Items : Reserve(s, x)) \/ (\E x \in Items : Prune(x))
  PROVE  Store!Change
<1>0. saver \in [Savers -> SaverState] /\ \A s \in Savers : saver[s] \in SaverState
  BY DEF Quiet, IInv, TInv, TypeOK
<1>1. ASSUME NEW s \in Savers, NEW x \in Items, Reserve(s, x)
      PROVE  Store!Change
  <2>1. \A r \in Savers :
          IF r = s THEN ~Saving(r) /\ saver'[r].at = "save" ELSE saver'[r] = saver[r]
    BY <1>0, <1>1 DEF Reserve, Saving, NoSave
  <2>2. Taken' = Taken
    BY <2>1, SameTaken DEF Saving
  <2>3. mem' \in SUBSET Items /\ dirty' = TRUE /\ OnDisk' = OnDisk /\ crossed' = crossed
    BY <1>1, QuietFacts DEF Reserve, OnDisk
  <2>. QED
    BY <2>2, <2>3 DEF Store!Change
<1>2. ASSUME NEW x \in Items, Prune(x)
      PROVE  Store!Change
  <2>1. \A r \in Savers : saver'[r] = IF saver[r].item = x
                                        THEN [saver[r] EXCEPT !.item = NoItem] ELSE saver[r]
    BY <1>2 DEF Prune
  <2>2. \A r \in Savers : saver'[r].at = saver[r].at /\ saver'[r].buf = saver[r].buf
    BY <1>0, <2>1 DEF SaverState
  <2>3. Taken' = Taken
    BY <2>2, SameTaken DEF Saving
  <2>4. mem' \in SUBSET Items /\ dirty' = TRUE /\ OnDisk' = OnDisk /\ crossed' = crossed
    BY <1>2, QuietFacts DEF Prune, OnDisk
  <2>. QED
    BY <2>3, <2>4 DEF Store!Change
<1>. QED
  BY <1>1, <1>2

\* What the abstract store does not see.
Unseen == UNCHANGED <<mem, dirty, Taken, OnDisk, ~crossed>>

\* A save that begins, or finds the catalogue clean.
LEMMA EdgeUnseen ==
  ASSUME Quiet, NEW s \in Savers, BeginSave(s) \/ SaveClean(s)
  PROVE  Unseen
<1>0. saver \in [Savers -> SaverState] /\ saver[s] \in SaverState
  BY DEF Quiet, IInv, TInv, TypeOK
<1>1. ~Saving(s) /\ saver'[s].at \in {"idle", "save"}
  BY <1>0 DEF BeginSave, SaveClean, Return, Saving, NoSave, SaverState
<1>2. \A r \in Savers \ {s} : saver'[r] = saver[r]
  BY <1>0 DEF BeginSave, SaveClean, Return
<1>3. Taken' = Taken
  <2>1. \A r \in Savers : Saving(r)' <=> Saving(r)
    BY <1>1, <1>2 DEF Saving
  <2>2. \A r \in Savers : Saving(r) => saver'[r].buf = saver[r].buf
    BY <1>1, <1>2
  <2>. QED
    BY <2>1, <2>2, SameTaken
<1>4. UNCHANGED <<mem, dirty, file, content>>
  BY DEF BeginSave, SaveClean
<1>5. (~crossed)' = ~crossed
  BY DEF Quiet
<1>. QED
  BY <1>3, <1>4, <1>5 DEF Unseen, OnDisk

LEMMA SnapshotMaps ==
  ASSUME Quiet, NEW s \in Savers, SaveSnapshot(s)
  PROVE  Store!Take
<1>0. saver \in [Savers -> SaverState] /\ saver[s] \in SaverState
  BY DEF Quiet, IInv, TInv, TypeOK
<1>1. \A t \in Savers : ~Saving(t)
  BY DEF Quiet, SaveSnapshot, Cross, Saving
<1>2. PICK q : q = [saver[s] EXCEPT !.at = "open", !.buf = mem]
  OBVIOUS
<1>3. q.at = "open" /\ q.buf = mem
  BY <1>0, <1>2 DEF SaverState
<1>4. saver' = [saver EXCEPT ![s] = q]
  BY <1>2 DEF SaveSnapshot
<1>5. \A r \in Savers : IF r = s THEN saver'[r] = q ELSE saver'[r] = saver[r]
  BY <1>0, <1>4
<1>6. Taken = {}
  BY <1>1 DEF Taken
<1>7. Taken' = {mem}
  <2>1. \A r \in Savers : Saving(r)' <=> r = s
    BY <1>1, <1>3, <1>5 DEF Saving
  <2>. QED
    BY <1>3, <1>5, <2>1 DEF Taken
<1>8. dirty /\ dirty' = FALSE /\ mem' = mem /\ OnDisk' = OnDisk /\ (~crossed)' = (~crossed)
  BY DEF Quiet, SaveSnapshot, OnDisk
<1>. QED
  BY <1>6, <1>7, <1>8 DEF Store!Take

\* A save on its way to the rename, or that has failed and cleans up, leaves
\* the catalogue file alone.
LEMMA MidUnseen ==
  ASSUME Quiet, NEW s \in Savers,
         \/ SaveOpen(s) \/ SaveWrite(s) \/ SaveWriteFails(s)
         \/ SaveRenameFails(s) \/ SaveCleanup(s)
  PROVE  Unseen
<1>0. /\ saver \in [Savers -> SaverState] /\ saver[s] \in SaverState
      /\ content \in [Inodes -> Content]
      /\ file \in Inodes \cup {NoFile} /\ TInv
  BY DEF Quiet, IInv, TInv, TypeOK
<1>1. UNCHANGED <<mem, dirty, file>> /\ (~crossed)' = (~crossed)
  BY DEF SaveOpen, SaveWrite, SaveWriteFails, SaveRenameFails, SaveCleanup, Quiet
<1>2. PICK t : /\ saver' = [saver EXCEPT ![s] = t]
               /\ t.at \in {"write", "rename", "failed", "cleanup"} /\ t.buf = saver[s].buf
  <2>1. CASE SaveOpen(s)
    <3>. DEFINE t == [saver[s] EXCEPT !.at = "write", !.fd = TmpInode]
    <3>1. t.at = "write" /\ t.buf = saver[s].buf
      BY <1>0 DEF SaverState
    <3>2. saver' = [saver EXCEPT ![s] = t]
      BY <2>1 DEF SaveOpen
    <3>. QED
      BY <3>1, <3>2
  <2>2. CASE SaveWrite(s)
    <3>. DEFINE t == [saver[s] EXCEPT !.at = "rename", !.fd = NoFile]
    <3>1. t.at = "rename" /\ t.buf = saver[s].buf
      BY <1>0 DEF SaverState
    <3>2. saver' = [saver EXCEPT ![s] = t]
      BY <2>2 DEF SaveWrite
    <3>. QED
      BY <3>1, <3>2
  <2>3. CASE SaveWriteFails(s)
    <3>. DEFINE t == [saver[s] EXCEPT !.at = "failed", !.fd = NoFile]
    <3>1. t.at = "failed" /\ t.buf = saver[s].buf
      BY <1>0 DEF SaverState
    <3>2. saver' = [saver EXCEPT ![s] = t]
      BY <2>3 DEF SaveWriteFails
    <3>. QED
      BY <3>1, <3>2
  <2>4. CASE SaveRenameFails(s) \/ SaveCleanup(s)
    <3>1. PICK a \in {"cleanup", "failed"} : saver' = [saver EXCEPT ![s].at = a]
      BY <2>4 DEF SaveRenameFails, SaveCleanup
    <3>. DEFINE t == [saver[s] EXCEPT !.at = a]
    <3>2. t.at = a /\ t.buf = saver[s].buf
      BY <1>0 DEF SaverState
    <3>3. saver' = [saver EXCEPT ![s] = t]
      BY <3>1
    <3>. QED
      BY <3>2, <3>3
  <2>. QED
    BY <2>1, <2>2, <2>3, <2>4
<1>3. Saving(s)
  BY DEF SaveOpen, SaveWrite, SaveWriteFails, SaveRenameFails, SaveCleanup, Saving
<1>4. Taken' = Taken
  BY <1>0, <1>2, <1>3, MidSave
<1>5. file # NoFile => content'[file] = content[file]
  <2>1. CASE UNCHANGED content
    BY <2>1
  <2>2. CASE SaveOpen(s)
    <3>1. TmpInode # file \/ file = NoFile
      BY <1>0, NewInodeFree, QuietFacts DEF TmpInode, TmpApart, InUse
    <3>. QED
      BY <1>0, <2>2, <3>1 DEF SaveOpen
  <2>3. CASE saver[s].at = "write" /\ (SaveWrite(s) \/ SaveWriteFails(s))
    <3>1. saver[s].fd = tmp /\ tmp # NoFile
      BY <2>3, QuietFacts DEF WritesTmp, TInv, OpenToWrite
    <3>2. saver[s].fd # file
      BY <3>1, QuietFacts DEF TmpApart
    <3>3. PICK c : content' = [content EXCEPT ![saver[s].fd] = c]
      BY <2>3 DEF SaveWrite, SaveWriteFails
    <3>. QED
      BY <1>0, <3>2, <3>3
  <2>. QED
    BY <2>1, <2>2, <2>3 DEF SaveWrite, SaveWriteFails, SaveRenameFails, SaveCleanup
<1>. QED
  BY <1>1, <1>4, <1>5 DEF Unseen, OnDisk

LEMMA RenameMaps ==
  ASSUME Quiet, NEW s \in Savers, SaveRename(s)
  PROVE  Store!Land
<1>1. TInv /\ SavesAlone /\ RenamesSnapshot
  BY QuietFacts
<1>2. Saving(s) /\ tmp # NoFile /\ content[tmp] = Json(saver[s].buf)
  BY <1>1 DEF SaveRename, Saving, RenamesSnapshot
<1>3. OnDisk' = saver[s].buf
  BY <1>2 DEF SaveRename, OnDisk, Json
<1>4. Taken = {OnDisk'}
  BY <1>1, <1>2, <1>3, OneTaken
<1>5. Taken' = {}
  BY <1>1, <1>2, EndSave DEF SaveRename, Return
<1>6. UNCHANGED <<mem, dirty>> /\ (~crossed)' = (~crossed)
  BY DEF SaveRename
<1>. QED
  BY <1>4, <1>5, <1>6 DEF Store!Land

LEMMA MarkMaps ==
  ASSUME Quiet, NEW s \in Savers, SaveMarkDirty(s)
  PROVE  Store!GiveUp
<1>1. TInv /\ SavesAlone /\ Saving(s)
  BY QuietFacts DEF SaveMarkDirty, Saving
<1>2. Taken # {}
  BY <1>1, OneTaken
<1>3. Taken' = {}
  BY <1>1, EndSave DEF SaveMarkDirty, Return
<1>4. dirty' = TRUE /\ mem' = mem /\ OnDisk' = OnDisk /\ (~crossed)' = (~crossed)
  BY DEF SaveMarkDirty, OnDisk
<1>. QED
  BY <1>2, <1>3, <1>4 DEF Store!GiveUp

\* The catalogue file parses, so that it is not moved aside.
LEMMA RestartMaps ==
  ASSUME Quiet, Restart
  PROVE  Store!Restart
<1>1. RestartLoads \/ RestartUnreadable
  BY QuietFacts DEF Restart, RestartQuarantines
<1>2. mem' \in {OnDisk, {}} /\ dirty' = FALSE /\ OnDisk' = OnDisk /\ (~crossed)' = (~crossed)
  BY <1>1 DEF RestartLoads, RestartUnreadable, Crash, OnDisk
<1>3. \A s \in Savers : ~Saving(s)'
  BY <1>1 DEF RestartLoads, RestartUnreadable, Crash, Saving, NoSave
<1>4. Taken' = {}
  BY <1>3 DEF Taken
<1>. QED
  BY <1>2, <1>4 DEF Store!Restart

\* saveToDisk is the atomic write its comment calls it, for any number of
\* changes, failures, unreadable files and restarts, from the start until
\* two saves overlap: every step of the files is a step of CatalogueStore or
\* not seen there.
THEOREM FileImplementsStore == Spec => ImplementsStore
<1>1. Init => Store!Init
  BY DEF Init, Store!Init, Taken, NoSave, Saving, OnDisk
<1>2. IInv /\ [Next]_vars => [Store!Next]_<<mem, dirty, Taken, OnDisk, ~crossed>>
  <2> SUFFICES ASSUME IInv, [Next]_vars
               PROVE  Store!Next \/ Unseen
    BY DEF Unseen
  <2>1. CASE UNCHANGED vars
    BY <2>1 DEF vars, Unseen, Taken, Saving, OnDisk
  <2>2. CASE crossed'
    BY <2>2 DEF Store!Next, Store!Overlap
  <2>3. CASE Next /\ ~crossed'
    <3>1. Quiet
      <4>1. crossed => crossed'
        BY <2>3 DEF Next, SaveStep, Restart, RestartLoads, RestartQuarantines, RestartUnreadable,
           Crash, Reserve, Prune, BeginSave, SaveClean, SaveSnapshot, Cross, SaveOpen, SaveWrite,
           SaveRename, SaveWriteFails, SaveRenameFails, SaveCleanup, SaveMarkDirty
      <4>. QED
        BY <2>3, <4>1 DEF Quiet
    <3>. QED
      BY <2>3, <3>1, ChangeMaps, EdgeUnseen, SnapshotMaps, MidUnseen, RenameMaps, MarkMaps,
         RestartMaps DEF Next, SaveStep, Store!Next
  <2>. QED
    BY <2>1, <2>2, <2>3
<1>. QED
  BY <1>1, <1>2, InvAlways, PTL DEF Spec, ImplementsStore, Store!Spec
=============================================================================
