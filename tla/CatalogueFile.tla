---------------------------- MODULE CatalogueFile ----------------------------
(***************************************************************************)
(* Persistence of the catalogue: saveToDisk, loadFromDisk and              *)
(* quarantineCorrupt of internal/gateway/cache.go, with a process that may *)
(* crash at any point.  The catalogue is the set of entries it holds; what *)
(* an entry says is left to Catalogue.                                     *)
(*                                                                         *)
(* The snapshot is taken under c.mu, but the temporary file, which has one *)
(* name for all savers, is written and renamed outside it.  Files are      *)
(* inodes: a saver keeps the inode it opened even after another saver has  *)
(* renamed it over the catalogue file.                                     *)
(***************************************************************************)
EXTENDS Naturals, FiniteSets

CONSTANTS
  Items,       \* catalogue entries
  NoItem,      \* a save that reserves nothing
  Savers,      \* goroutines that may be in saveToDisk at one time
  Inodes,      \* files the model may have at a time
  NoFile,      \* no inode
  MaxChanges, MaxCrashes, MaxFailures, MaxBadReads     \* bounds of the model

ASSUME SentinelAssumption ==
  /\ NoItem \notin Items
  /\ NoFile \notin Inodes
ASSUME InodeAssumption ==
  /\ IsFiniteSet(Savers) /\ IsFiniteSet(Inodes)
  /\ Cardinality(Inodes) >= Cardinality(Savers) + 2
ASSUME BoundsAssumption ==
  /\ MaxChanges \in Nat
  /\ MaxCrashes \in Nat
  /\ MaxFailures \in Nat
  /\ MaxBadReads \in Nat

VARIABLES
  mem,       \* c.entries
  dirty,     \* c.dirty
  tmp,       \* inode of <catalogue>.tmp
  file,      \* inode of the catalogue file
  content,   \* [Inodes -> what the inode holds]
  saver,     \* [Savers -> SaverState]
  acked,     \* entries whose reserveEntry has returned nil and that stand since
  crossed,   \* history: two saves have overlapped
  budget     \* what is left of the Max* bounds

vars == <<mem, dirty, tmp, file, content, saver, acked, crossed, budget>>

\* A file holds nothing (opened with O_TRUNC and not yet written), a JSON
\* document of some entries, or remains of two documents.
Empty == [kind |-> "empty", items |-> {}]
Mixed == [kind |-> "mixed", items |-> {}]
Json(S) == [kind |-> "json", items |-> S]
Content == {Empty, Mixed} \cup {Json(S) : S \in SUBSET Items}

SaverState ==
  [at: {"idle", "save", "open", "write", "rename", "cleanup", "failed"},
   item: Items \cup {NoItem}, buf: SUBSET Items, fd: Inodes \cup {NoFile}]
NoSave == [at |-> "idle", item |-> NoItem, buf |-> {}, fd |-> NoFile]

Init ==
  /\ mem = {}
  /\ dirty = FALSE
  /\ tmp = NoFile
  /\ file = NoFile
  /\ content = [i \in Inodes |-> Empty]
  /\ saver = [s \in Savers |-> NoSave]
  /\ acked = {}
  /\ crossed = FALSE
  /\ budget = [changes |-> MaxChanges, crashes |-> MaxCrashes, failures |-> MaxFailures,
               badReads |-> MaxBadReads]

------------------------------------------------------------------------------
(* Changes of the catalogue, each under the lock with c.dirty set.         *)

\* reserve: the entry is in the map and reserveEntry goes on to save.
Reserve(s, x) ==
  /\ saver[s].at = "idle"
  /\ budget.changes > 0
  /\ mem' = mem \cup {x}
  /\ dirty' = TRUE
  /\ saver' = [saver EXCEPT ![s] = [NoSave EXCEPT !.at = "save", !.item = x]]
  /\ budget' = [budget EXCEPT !.changes = @ - 1]
  /\ UNCHANGED <<crossed, tmp, file, content, acked>>

\* pruneAbsent; the walk it is part of saves afterwards.  What it prunes
\* is no longer owed to whoever is saving it.
Prune(x) ==
  /\ x \in mem
  /\ budget.changes > 0
  /\ mem' = mem \ {x}
  /\ acked' = acked \ {x}
  /\ saver' = [s \in Savers |-> IF saver[s].item = x
                                  THEN [saver[s] EXCEPT !.item = NoItem] ELSE saver[s]]
  /\ dirty' = TRUE
  /\ budget' = [budget EXCEPT !.changes = @ - 1]
  /\ UNCHANGED <<crossed, tmp, file, content>>

\* A walk, or a rename, reaches its trailing save.
BeginSave(s) ==
  /\ saver[s].at = "idle"
  /\ saver' = [saver EXCEPT ![s].at = "save"]
  /\ UNCHANGED <<crossed, mem, dirty, tmp, file, content, acked, budget>>

------------------------------------------------------------------------------
(* saveToDisk.                                                             *)

\* The call returns; reserveEntry reports success whatever became of it.
Return(s) ==
  /\ saver' = [saver EXCEPT ![s] = NoSave]
  /\ acked' = acked \cup ({saver[s].item} \cap Items)

\* The history notes a save that comes before another has ended.
Saving(s) == saver[s].at \notin {"idle", "save"}
Cross(s) == crossed' = (crossed \/ \E t \in Savers \ {s} : Saving(t))

SaveClean(s) ==
  /\ saver[s].at = "save"
  /\ ~dirty
  /\ Return(s)
  /\ Cross(s)
  /\ UNCHANGED <<mem, dirty, tmp, file, content, budget>>

SaveSnapshot(s) ==
  /\ saver[s].at = "save"
  /\ dirty
  /\ dirty' = FALSE
  /\ saver' = [saver EXCEPT ![s] = [saver[s] EXCEPT !.at = "open", !.buf = mem]]
  /\ Cross(s)
  /\ UNCHANGED <<mem, tmp, file, content, acked, budget>>

InUse(i) == i \in {tmp, file} \/ \E s \in Savers : saver[s].fd = i
NewInode == CHOOSE i \in Inodes : ~InUse(i)

\* Mutant: the catalogue file is written in place.
CatalogueInode == IF file = NoFile THEN NewInode ELSE file

\* The temporary file, which may be left over from an earlier save.
TmpInode == IF tmp = NoFile THEN NewInode ELSE tmp

\* os.WriteFile opens the temporary file, creating or truncating it ...
SaveOpen(s) ==
  /\ saver[s].at = "open"
  /\ LET i == TmpInode
     IN /\ tmp' = i
        /\ content' = [content EXCEPT ![i] = Empty]
        /\ saver' = [saver EXCEPT ![s] = [saver[s] EXCEPT !.at = "write", !.fd = i]]
  /\ UNCHANGED <<crossed, mem, dirty, file, acked, budget>>

\* ... and writes from the start of the inode it opened: what another saver
\* has put there since is overwritten, as far as the new text reaches.
SaveWrite(s) ==
  /\ saver[s].at = "write"
  /\ \E c \in {Json(saver[s].buf), Mixed} :
       /\ c = Mixed => content[saver[s].fd] \notin {Empty, Json(saver[s].buf)}
       /\ content' = [content EXCEPT ![saver[s].fd] = c]
  /\ saver' = [saver EXCEPT ![s] = [saver[s] EXCEPT !.at = "rename", !.fd = NoFile]]
  /\ UNCHANGED <<crossed, mem, dirty, tmp, file, acked, budget>>

SaveRename(s) ==
  /\ saver[s].at = "rename"
  /\ tmp # NoFile
  /\ file' = tmp
  /\ tmp' = NoFile
  /\ Return(s)
  /\ UNCHANGED <<crossed, mem, dirty, content, budget>>

\* WriteFile fails, at its open or after part of its write.
SaveWriteFails(s) ==
  /\ \/ saver[s].at = "open" /\ UNCHANGED content
     \/ /\ saver[s].at = "write"
        /\ content' = [content EXCEPT ![saver[s].fd] = Mixed]
  /\ budget.failures > 0
  /\ saver' = [saver EXCEPT ![s] = [saver[s] EXCEPT !.at = "failed", !.fd = NoFile]]
  /\ budget' = [budget EXCEPT !.failures = @ - 1]
  /\ UNCHANGED <<crossed, mem, dirty, tmp, file, acked>>

\* Mutant: a rename whose source is gone does not return.
TmpNeverGone == FALSE

\* Another saver has renamed the temporary file away, or removed it.
TmpGone == tmp = NoFile

\* The rename fails, at the latest because its source is gone.
SaveRenameFails(s) ==
  /\ saver[s].at = "rename"
  /\ \/ TmpGone /\ UNCHANGED budget
     \/ budget.failures > 0 /\ budget' = [budget EXCEPT !.failures = @ - 1]
  /\ saver' = [saver EXCEPT ![s].at = "cleanup"]
  /\ UNCHANGED <<crossed, mem, dirty, tmp, file, content, acked>>

\* os.Remove of the temporary file, whoever wrote it.
SaveCleanup(s) ==
  /\ saver[s].at = "cleanup"
  /\ tmp' = NoFile
  /\ saver' = [saver EXCEPT ![s].at = "failed"]
  /\ UNCHANGED <<crossed, mem, dirty, file, content, acked, budget>>

\* Mutant: a failed save is forgotten.
SaveForgets(s) ==
  /\ saver[s].at = "failed"
  /\ Return(s)
  /\ UNCHANGED <<crossed, mem, dirty, tmp, file, content, budget>>

\* markDirty takes the lock again, so that a later save retries.
SaveMarkDirty(s) ==
  /\ saver[s].at = "failed"
  /\ dirty' = TRUE
  /\ Return(s)
  /\ UNCHANGED <<crossed, mem, tmp, file, content, budget>>

------------------------------------------------------------------------------

(* The process dies and starts again: newMetadataCache, loadFromDisk.      *)

Crash ==
  /\ budget.crashes > 0
  /\ dirty' = FALSE
  /\ saver' = [s \in Savers |-> NoSave]
  /\ UNCHANGED <<crossed, tmp, content, acked>>

\* What loading the catalogue file gives.
OnDisk == IF file = NoFile THEN {} ELSE content[file].items
Parses == file # NoFile => content[file].kind = "json"

RestartLoads ==
  /\ Crash
  /\ Parses
  /\ mem' = OnDisk
  /\ budget' = [budget EXCEPT !.crashes = @ - 1]
  /\ UNCHANGED file

\* quarantineCorrupt moves a file that does not parse aside.
RestartQuarantines ==
  /\ Crash
  /\ ~Parses
  /\ mem' = {}
  /\ file' = NoFile
  /\ budget' = [budget EXCEPT !.crashes = @ - 1]

\* The file cannot be read, or cannot be moved aside: it stays where it is
\* and the catalogue starts empty.
RestartUnreadable ==
  /\ Crash
  /\ file # NoFile
  /\ budget.badReads > 0
  /\ mem' = {}
  /\ budget' = [budget EXCEPT !.crashes = @ - 1, !.badReads = @ - 1]
  /\ UNCHANGED file

Restart == RestartLoads \/ RestartQuarantines \/ RestartUnreadable

SaveStep(s) ==
  \/ SaveClean(s) \/ SaveSnapshot(s) \/ SaveOpen(s) \/ SaveWrite(s) \/ SaveRename(s)
  \/ SaveWriteFails(s) \/ SaveRenameFails(s) \/ SaveCleanup(s) \/ SaveMarkDirty(s)

Next ==
  \/ \E s \in Savers : BeginSave(s) \/ SaveStep(s)
  \/ \E s \in Savers, x \in Items : Reserve(s, x)
  \/ \E x \in Items : Prune(x)
  \/ Restart

Spec == Init /\ [][Next]_vars

\* Saves run on, and walks keep coming to save again.
FairSpec == Spec /\ \A s \in Savers : WF_vars(BeginSave(s) \/ SaveStep(s))

------------------------------------------------------------------------------
(* Properties.                                                             *)

TypeOK ==
  /\ mem \subseteq Items
  /\ dirty \in BOOLEAN
  /\ tmp \in Inodes \cup {NoFile}
  /\ file \in Inodes \cup {NoFile}
  /\ content \in [Inodes -> Content]
  /\ saver \in [Savers -> SaverState]
  /\ acked \subseteq Items
  /\ crossed \in BOOLEAN
  /\ budget \in [changes: 0..MaxChanges, crashes: 0..MaxCrashes,
                 failures: 0..MaxFailures, badReads: 0..MaxBadReads]

\* What the comment of saveToDisk says: the catalogue file is never
\* half-written ("Atomic write"), so that no crash costs the operator-typed
\* names.
FileParses == Parses

\* So it is as long as no two saves overlap, whatever fails and whenever
\* the process dies.
FileParsesAlone == ~crossed => Parses

\* The files, the marks and the savers are what saveToDisk and loadFromDisk
\* can make of them, and the catalogue file can be read back.
FileSound == TypeOK /\ FileParsesAlone

\* Unless two saves overlapped, a write or a rename failed, or the file could
\* not be read, a reservation whose reserveEntry has returned is on disk, or
\* a crash would orphan the download it names.
AckedDurable ==
  ~crossed /\ budget.failures = MaxFailures /\ budget.badReads = MaxBadReads
    => acked \subseteq OnDisk

\* Once no save is under way, a clean catalogue is the one on disk, if no
\* saves overlapped and the file could be read: a change is either saved or
\* still marked for the next save.
CleanMeansSaved ==
  /\ ~crossed /\ budget.badReads = MaxBadReads
  /\ ~dirty /\ \A s \in Savers : ~Saving(s)
  => OnDisk = mem

\* A save that was begun ends, whatever other savers do to the temporary
\* file: the plan that waits for it is answered.
SavesFinish == \A s \in Savers : saver[s].at # "idle" ~> saver[s].at = "idle"

\* A change that failed to save, or came in during a save, reaches the disk
\* with some later save, unless saves overlap.
EventuallySaved ==
  \A x \in Items : (x \in mem) ~> (x \in OnDisk \/ x \notin mem \/ crossed)

\* The temporary file, its inodes and the failed steps are hidden: as long as
\* saves do not overlap, what a crash at any moment would find on disk goes
\* in one step from one whole snapshot to the next, and a save that fails
\* leaves the catalogue marked.
Taken == {saver[s].buf : s \in {t \in Savers : Saving(t)}}
Store == INSTANCE CatalogueStore
  WITH taken <- Taken, stored <- OnDisk, alone <- ~crossed
ImplementsStore == Store!Spec

\* No save hangs, and no change is lost by one that failed.
SavesComplete == SavesFinish /\ EventuallySaved
=============================================================================
