---------------------------- MODULE HeaderRefresh ----------------------------
(***************************************************************************)
(* How a catalogue entry follows its file: parseModelInfo of               *)
(* internal/gateway/cache.go, run by walks and by the backfills of         *)
(* sha256For and parameterCount at the same time, each stating the file,   *)
(* comparing, reading the header and hashing outside c.mu, while MASS or   *)
(* an operator writes, replaces or removes the file.  The entry stays: its *)
(* removal is in Catalogue.                                                *)
(*                                                                         *)
(* What a file holds is the number of its last change, 1..MaxVersion; so   *)
(* is its modification time and size, which a change is taken to change.   *)
(* What was read from a file is the number of the contents it was read     *)
(* from, 0 for nothing read.                                               *)
(***************************************************************************)
EXTENDS Naturals

CONSTANTS
  Readers,     \* goroutines that may be in parseModelInfo at one time
  NoCount,     \* contents whose header lacks the parameter count, or a
               \* projector's patch size, and is read again every time
  MaxVersion, MaxReadFailures, MaxHashFailures     \* bounds of the model

ASSUME VersionAssumption == MaxVersion \in Nat \ {0}
ASSUME NoCountAssumption == NoCount \subseteq 1..MaxVersion
ASSUME FailuresAssumption == MaxReadFailures \in Nat /\ MaxHashFailures \in Nat

VARIABLES
  disk,       \* the file: its contents, and whether it is all there
  entry,      \* its catalogue entry
  reader,     \* [Readers -> ReaderState]
  budget,     \* what is left of the Max*Failures bounds
  overlapped  \* history, read by the properties only: "yes" once a call has
              \* begun while another was under way

vars == <<disk, entry, reader, budget, overlapped>>

Version == 0..MaxVersion

Disk == [version: Version, state: {"absent", "partial", "whole"}]

\* Header stands for the fields read from the header (Capabilities is nil
\* while it is 0), stamp for MTime and Size, sum for Sha256.
Entry == [header: Version, stamp: Version, sum: Version]

ReaderState ==
  [at: {"idle", "stale", "needs", "header", "store", "hash", "keep"},
   stamp: Version, stale: {"yes", "no"}, needs: SUBSET {"header", "sum"}, got: Version]
NoReader == [at |-> "idle", stamp |-> 0, stale |-> "no", needs |-> {}, got |-> 0]

\* A reservation, its file not there yet.
Init ==
  /\ disk = [version |-> 0, state |-> "absent"]
  /\ entry = [header |-> 0, stamp |-> 0, sum |-> 0]
  /\ reader = [r \in Readers |-> NoReader]
  /\ budget = [reads |-> MaxReadFailures, hashes |-> MaxHashFailures]
  /\ overlapped = "no"

Present == disk.state # "absent"

------------------------------------------------------------------------------
(* The file.                                                               *)

\* A download is renamed into place, or a copy begins, goes on or ends.
Write(state) ==
  /\ disk.version < MaxVersion
  /\ disk' = [version |-> disk.version + 1, state |-> state]
  /\ UNCHANGED <<entry, reader, budget, overlapped>>

Remove ==
  /\ Present
  /\ disk' = [disk EXCEPT !.state = "absent"]
  /\ UNCHANGED <<entry, reader, budget, overlapped>>

------------------------------------------------------------------------------
(* parseModelInfo.                                                         *)

OthersIdle(r) == \A q \in Readers \ {r} : reader[q].at = "idle"

\* os.Stat.  The entry pointer is fetched next and read without the lock
\* from here on.
Stat(r) ==
  /\ reader[r].at = "idle"
  /\ Present
  /\ reader' = [reader EXCEPT ![r] =
       [NoReader EXCEPT !.at = "stale", !.stamp = disk.version]]
  /\ overlapped' = IF OthersIdle(r) THEN overlapped ELSE "yes"
  /\ UNCHANGED <<disk, entry, budget>>

\* Without a file the call is over at once.
StatFails(r) ==
  /\ reader[r].at = "idle"
  /\ ~Present
  /\ UNCHANGED vars

Differs(r) == entry.stamp # reader[r].stamp

ReadStale(r) ==
  /\ reader[r].at = "stale"
  /\ reader' = [reader EXCEPT ![r] = [reader[r] EXCEPT
       !.at = "needs", !.stale = IF Differs(r) THEN "yes" ELSE "no"]]
  /\ UNCHANGED <<disk, entry, budget, overlapped>>

Stale(r) == reader[r].stale = "yes"

\* Mutant: the header is read on first observation only.
NeedsHeaderMissing(r) == entry.header \in {0} \cup NoCount

NeedsHeader(r) == Stale(r) \/ entry.header \in {0} \cup NoCount

NeedsSum(r) == Stale(r) \/ entry.sum = 0

\* Each is computed on its own, though both from the one stale.
Needs(r) ==
  {n \in {"header", "sum"} :
     (n = "header" => NeedsHeader(r)) /\ (n = "sum" => NeedsSum(r))}

\* Where a call goes on that has these needs left.
Onward(r, needs) ==
  IF needs = {} THEN NoReader
  ELSE [reader[r] EXCEPT !.at = IF "header" \in needs THEN "header" ELSE "hash",
                         !.needs = needs, !.got = 0]

ReadNeeds(r) ==
  /\ reader[r].at = "needs"
  /\ reader' = [reader EXCEPT ![r] = Onward(r, Needs(r))]
  /\ UNCHANGED <<disk, entry, budget, overlapped>>

\* gguf.ReadMeta, which a file still being copied may satisfy or not ...
ReadHeader(r) ==
  /\ reader[r].at = "header"
  /\ Present
  /\ reader' = [reader EXCEPT ![r] = [reader[r] EXCEPT !.at = "store", !.got = disk.version]]
  /\ UNCHANGED <<disk, entry, budget, overlapped>>

\* ... and which ends the call when it fails; the next walk retries.
HeaderFails(r) ==
  /\ reader[r].at = "header"
  /\ \/ disk.state # "whole" /\ UNCHANGED budget
     \/ budget.reads > 0 /\ budget' = [budget EXCEPT !.reads = @ - 1]
  /\ reader' = [reader EXCEPT ![r] = NoReader]
  /\ UNCHANGED <<disk, entry, overlapped>>

\* Under the lock: what was read, stamped with what was stat'ed.
StoreHeader(r) ==
  /\ reader[r].at = "store"
  /\ entry' = [entry EXCEPT !.header = reader[r].got, !.stamp = reader[r].stamp]
  /\ reader' = [reader EXCEPT ![r] = Onward(r, reader[r].needs \ {"header"})]
  /\ UNCHANGED <<disk, budget, overlapped>>

Hash(r) ==
  /\ reader[r].at = "hash"
  /\ Present
  /\ reader' = [reader EXCEPT ![r] = [reader[r] EXCEPT !.at = "keep", !.got = disk.version]]
  /\ UNCHANGED <<disk, entry, budget, overlapped>>

\* The digest is left as it is.
HashFails(r) ==
  /\ reader[r].at = "hash"
  /\ \/ ~Present /\ UNCHANGED budget
     \/ budget.hashes > 0 /\ budget' = [budget EXCEPT !.hashes = @ - 1]
  /\ reader' = [reader EXCEPT ![r] = NoReader]
  /\ UNCHANGED <<disk, entry, overlapped>>

\* Mutant: the digest is anchored to the time it is stored.
StampNow(r) == disk.version

\* The digest is anchored to the file that was stat'ed, not hashed.
StampStat(r) == reader[r].stamp

StoreSum(r) ==
  /\ reader[r].at = "keep"
  /\ entry' = [entry EXCEPT !.sum = reader[r].got, !.stamp = StampStat(r)]
  /\ reader' = [reader EXCEPT ![r] = NoReader]
  /\ UNCHANGED <<disk, budget, overlapped>>

------------------------------------------------------------------------------

Read(r) ==
  \/ Stat(r) \/ StatFails(r) \/ ReadStale(r) \/ ReadNeeds(r)
  \/ ReadHeader(r) \/ HeaderFails(r) \/ StoreHeader(r)
  \/ Hash(r) \/ HashFails(r) \/ StoreSum(r)

Next ==
  \/ \E state \in {"partial", "whole"} : Write(state)
  \/ Remove
  \/ \E r \in Readers : Read(r)

Spec == Init /\ [][Next]_vars

\* Calls run on and walks keep coming; a copy need not end.
FairSpec == Spec /\ \A r \in Readers : WF_vars(Read(r))

------------------------------------------------------------------------------
(* Properties.                                                             *)

TypeOK ==
  /\ disk \in Disk
  /\ entry \in Entry
  /\ reader \in [Readers -> ReaderState]
  /\ budget \in [reads: 0..MaxReadFailures, hashes: 0..MaxHashFailures]
  /\ overlapped \in {"no", "yes"}

\* Calls have come one after the other.
Alone == overlapped = "no"

\* Every header there has been has a parameter count.
Counted == NoCount \cap 1..disk.version = {}

\* An entry may look fresh and have a digest of other contents than its
\* file's.
SumWrong == Present /\ entry.stamp = disk.version /\ entry.sum \notin {0, disk.version}

\* A call is about to store the right digest.
Rehashing ==
  \E r \in Readers : reader[r].at \in {"hash", "keep"} /\ reader[r].stamp = disk.version

\* Unless a hash has failed, a changed file gets a fresh digest: the old one
\* is taken for the new file's only while a call is about to replace it,
\* however many calls overlap, if headers have their count, and whatever
\* they lack, if calls do not overlap.
DigestFresh ==
  (Alone \/ Counted) /\ budget.hashes = MaxHashFailures /\ SumWrong => Rehashing

\* As the comments have it, hashing that fails leaves no digest either.
DigestFreshOrEmpty == SumWrong => Rehashing

\* An entry may look fresh and have a header of other contents than its
\* file's.
HeaderWrong ==
  Present /\ entry.stamp = disk.version /\ entry.header \notin {0, disk.version}

\* Calls one after the other never take an old file's walk-time fields for
\* the new one's.  Overlapping calls may: a slow one's header replaces the
\* new one before the other's digest gives it the new stamp.
HeaderFresh == Alone => ~HeaderWrong

\* An entry that looks fresh has neither an old file's header nor its
\* digest, though both are stored under one stamp (parseModelInfo).
FieldsFresh == HeaderFresh /\ DigestFresh

\* A file that is all there has its own walk-time fields in the end,
\* whatever there was before, if calls do not overlap.
HeaderCatchesUp ==
  \A v \in 1..MaxVersion :
    disk = [version |-> v, state |-> "whole"]
      ~> \/ entry.header = v
         \/ disk # [version |-> v, state |-> "whole"]
         \/ ~Alone

\* A file that is all there gets its digest in the end, whatever changed
\* before, if hashing does not fail and as DigestFresh has it.
DigestCatchesUp ==
  \A v \in 1..MaxVersion :
    disk = [version |-> v, state |-> "whole"]
      ~> \/ entry.sum = v
         \/ disk # [version |-> v, state |-> "whole"]
         \/ budget.hashes < MaxHashFailures
         \/ ~Alone /\ ~Counted

\* The entry of a file that is all there catches up with it, fields and
\* digest, as walks keep coming (parseModelInfo's stale, needsHeader and
\* needsHash).
FieldsCatchUp == HeaderCatchesUp /\ DigestCatchesUp
=============================================================================
