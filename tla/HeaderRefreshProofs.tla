------------------------- MODULE HeaderRefreshProofs -------------------------
(***************************************************************************)
(* Proofs about HeaderRefresh, for any number of calls and of changes of   *)
(* the file.  There are two inductive invariants.  The first allows calls  *)
(* to overlap and holds while every header has had a parameter count; the  *)
(* second allows headers without one and holds while calls have come one   *)
(* after the other.                                                        *)
(***************************************************************************)
EXTENDS HeaderRefresh, TLAPS

\* What a call in progress knows: it has stat'ed no later file than there
\* is; if it reads the header it will also hash; it hashes only for an
\* entry that has a header; and it hashes no older file than it stat'ed.
Fits(s) ==
  /\ s.stamp <= disk.version
  /\ s.at \in {"header", "store"} => s.needs = {"header", "sum"}
  /\ s.at = "store" => s.got # 0 /\ s.got <= disk.version
  /\ s.at \in {"hash", "keep"} => entry.header # 0
  /\ s.at = "keep" => s.stamp <= s.got /\ s.got <= disk.version

Bounded ==
  /\ Present => disk.version # 0
  /\ entry.stamp <= disk.version
  /\ entry.header <= disk.version
  /\ entry.header = 0 => entry.sum = 0

\* DigestFresh without its first hypothesis.
DigestKept == budget.hashes = MaxHashFailures /\ SumWrong => Rehashing

IInv == TypeOK /\ Bounded /\ (\A r \in Readers : Fits(reader[r])) /\ DigestKept

------------------------------------------------------------------------------

USE VersionAssumption, FailuresAssumption

LEMMA IdleFits ==
  ASSUME TypeOK
  PROVE  NoReader \in ReaderState /\ Fits(NoReader)
BY DEF TypeOK, Disk, Version, ReaderState, NoReader, Fits

LEMMA OnwardTyped ==
  ASSUME TypeOK, NEW r \in Readers, NEW needs \in SUBSET {"header", "sum"}
  PROVE  Onward(r, needs) \in ReaderState
<1>1. CASE needs = {}
  BY <1>1, IdleFits DEF Onward
<1>2. CASE needs # {}
  <2> DEFINE next == IF "header" \in needs THEN "header" ELSE "hash"
  <2>1. Onward(r, needs) = [reader[r] EXCEPT !.at = next, !.needs = needs, !.got = 0]
    BY <1>2 DEF Onward
  <2>2. next \in {"header", "hash"} /\ reader[r] \in ReaderState /\ 0 \in Version
    BY DEF TypeOK, Version
  <2> HIDE DEF next
  <2>3. QED
    BY <2>1, <2>2 DEF ReaderState
<1>3. QED
  BY <1>1, <1>2

\* What a call knows stays so while the file only gets newer and the entry
\* keeps a header it has.
LEMMA FitsKept ==
  ASSUME TypeOK, TypeOK', NEW s \in ReaderState, Fits(s),
         disk.version <= disk'.version, entry.header # 0 => entry'.header # 0
  PROVE  Fits(s)'
BY DEF TypeOK, Disk, Version, ReaderState, Fits

\* One call's step leaves the others' states alone.
LEMMA Replaced ==
  ASSUME TypeOK, NEW r \in Readers, NEW s \in ReaderState,
         reader' = [reader EXCEPT ![r] = s]
  PROVE  /\ reader' \in [Readers -> ReaderState]
         /\ reader'[r] = s
         /\ \A q \in Readers \ {r} : reader'[q] = reader[q]
BY DEF TypeOK

LEMMA InitTyped == Init => TypeOK
BY DEF Init, TypeOK, Disk, Entry, Version, ReaderState, NoReader

\* Every step keeps the types, and no step makes the file older.
LEMMA NextTyped ==
  ASSUME TypeOK, [Next]_vars
  PROVE  TypeOK' /\ disk.version <= disk'.version
<1>1. CASE Remove \/ \E state \in {"partial", "whole"} : Write(state)
  BY <1>1 DEF TypeOK, Disk, Version, Remove, Write, Present
<1>2. CASE UNCHANGED vars
  BY <1>2 DEF vars, TypeOK, Disk, Version
<1>3. ASSUME NEW r \in Readers, Read(r), ~UNCHANGED vars
      PROVE  TypeOK' /\ disk.version <= disk'.version
  <2>0. /\ reader[r] \in ReaderState /\ NoReader \in ReaderState
        /\ disk.version \in Version /\ disk.version <= disk.version
        /\ entry \in Entry
    BY IdleFits DEF TypeOK, Disk, Version
  <2>1. CASE Stat(r)
    BY <2>0, <2>1 DEF Stat, TypeOK, ReaderState, NoReader
  <2>2. CASE ReadStale(r)
    BY <2>0, <2>2 DEF ReadStale, TypeOK, ReaderState
  <2>3. CASE ReadNeeds(r)
    <3>1. Onward(r, Needs(r)) \in ReaderState
      BY OnwardTyped DEF Needs
    <3>2. QED
      BY <3>1, <2>0, <2>3 DEF ReadNeeds, TypeOK
  <2>4. CASE ReadHeader(r)
    BY <2>0, <2>4 DEF ReadHeader, TypeOK, ReaderState
  <2>5. CASE HeaderFails(r) \/ HashFails(r)
    BY <2>0, <2>5 DEF HeaderFails, HashFails, TypeOK
  <2>6. CASE StoreHeader(r)
    <3>1. Onward(r, reader[r].needs \ {"header"}) \in ReaderState
      BY <2>0, OnwardTyped DEF ReaderState
    <3>2. [entry EXCEPT !.header = reader[r].got, !.stamp = reader[r].stamp] \in Entry
      BY <2>0 DEF Entry, ReaderState
    <3>3. QED
      BY <3>1, <3>2, <2>0, <2>6 DEF StoreHeader, TypeOK
  <2>7. CASE Hash(r)
    BY <2>0, <2>7 DEF Hash, TypeOK, ReaderState
  <2>8. CASE StoreSum(r)
    <3>1. [entry EXCEPT !.sum = reader[r].got, !.stamp = reader[r].stamp] \in Entry
      BY <2>0 DEF Entry, ReaderState
    <3>2. QED
      BY <3>1, <2>0, <2>8 DEF StoreSum, StampStat, TypeOK
  <2>9. QED
    BY <1>3, <2>1, <2>2, <2>3, <2>4, <2>5, <2>6, <2>7, <2>8 DEF Read, StatFails
<1>4. QED
  BY <1>1, <1>2, <1>3 DEF Next

------------------------------------------------------------------------------
(* Overlapping calls, of headers with a parameter count.                   *)

\* A step of one call, seen from the invariant: what remains to show is
\* about the call's new state and about the entry.
LEMMA CallStep ==
  ASSUME IInv, NEW r \in Readers, NEW s \in ReaderState,
         reader' = [reader EXCEPT ![r] = s],
         UNCHANGED disk, TypeOK',
         entry.header # 0 => entry'.header # 0,
         Fits(s)', Bounded', DigestKept'
  PROVE  IInv'
<1>1. ASSUME NEW q \in Readers PROVE Fits(reader[q])'
  <2>1. CASE q = r
    BY <2>1, Replaced DEF IInv, Fits
  <2>2. CASE q # r
    <3>1. reader[q] \in ReaderState /\ Fits(reader[q]) /\ reader'[q] = reader[q]
      BY <2>2, Replaced DEF IInv, TypeOK
    <3>2. disk.version <= disk'.version
      BY DEF IInv, TypeOK, Disk, Version
    <3>3. QED
      BY <3>1, <3>2 DEF IInv, TypeOK, Disk, Entry, Version, ReaderState, Fits
  <2>3. QED
    BY <2>1, <2>2
<1>2. QED
  BY <1>1 DEF IInv

\* A step that leaves file and entry alone does not disturb DigestKept if
\* the call was not about to replace the digest, or still is.
LEMMA StillFresh ==
  ASSUME IInv, NEW r \in Readers, NEW s \in ReaderState,
         reader' = [reader EXCEPT ![r] = s],
         UNCHANGED <<disk, entry>>, budget'.hashes = budget.hashes,
         reader[r].at \in {"hash", "keep"}
           => s.at \in {"hash", "keep"} /\ s.stamp = reader[r].stamp
  PROVE  DigestKept' /\ Bounded'
<1>1. Bounded'
  BY DEF IInv, Bounded, Present
<1>2. ASSUME Rehashing PROVE Rehashing'
  <2>1. PICK q \in Readers :
           reader[q].at \in {"hash", "keep"} /\ reader[q].stamp = disk.version
    BY <1>2 DEF Rehashing
  <2>2. reader'[q].at \in {"hash", "keep"} /\ reader'[q].stamp = disk'.version
    BY <2>1, Replaced DEF IInv
  <2>3. QED
    BY <2>2 DEF Rehashing
<1>3. SumWrong' => SumWrong
  BY DEF SumWrong, Present
<1>4. QED
  BY <1>1, <1>2, <1>3 DEF IInv, DigestKept

------------------------------------------------------------------------------
(* The invariant holds at first, and the file's own steps keep it.         *)

LEMMA InitIInv == Init => IInv
<1>1. SUFFICES ASSUME Init PROVE IInv
  OBVIOUS
<1>2. TypeOK
  BY <1>1, InitTyped
<1>3. \A r \in Readers : Fits(reader[r])
  BY <1>1, <1>2, IdleFits DEF Init
<1>4. Bounded /\ DigestKept
  BY <1>1 DEF Init, Bounded, Present, DigestKept, SumWrong
<1>5. QED
  BY <1>2, <1>3, <1>4 DEF IInv

LEMMA FileStep ==
  ASSUME IInv, TypeOK', Remove \/ \E state \in {"partial", "whole"} : Write(state)
  PROVE  IInv'
<1>1. /\ disk' \in Disk
      /\ disk.version <= disk'.version
      /\ UNCHANGED <<entry, reader, budget>>
  BY DEF IInv, TypeOK, Disk, Version, Remove, Write, Present
<1>2. \A r \in Readers : Fits(reader[r])'
  BY <1>1, FitsKept DEF IInv, TypeOK
<1>3. Bounded'
  BY <1>1 DEF IInv, TypeOK, Disk, Entry, Version, Bounded, Remove, Write, Present
<1>4. ~SumWrong'
  BY <1>1 DEF IInv, TypeOK, Disk, Entry, Version, Bounded, Remove, Write, Present, SumWrong
<1>5. QED
  BY <1>2, <1>3, <1>4 DEF IInv, DigestKept

------------------------------------------------------------------------------
(* The steps of a call.                                                    *)

LEMMA StatStep ==
  ASSUME IInv, TypeOK', NEW r \in Readers, Stat(r)
  PROVE  IInv'
<1>1. PICK s \in ReaderState : s = [NoReader EXCEPT !.at = "stale", !.stamp = disk.version]
  <2>1. [NoReader EXCEPT !.at = "stale", !.stamp = disk.version] \in ReaderState
    BY IdleFits DEF IInv, TypeOK, Disk, Version, ReaderState
  <2>2. QED
    BY <2>1
<1>2. Fits(s)'
  BY <1>1 DEF IInv, TypeOK, Disk, Version, ReaderState, NoReader, Fits, Stat
<1>3. reader' = [reader EXCEPT ![r] = s] /\ reader[r].at = "idle"
      /\ UNCHANGED <<disk, entry, budget>>
  BY <1>1 DEF Stat
<1>4. DigestKept' /\ Bounded'
  BY <1>1, <1>3, StillFresh
<1>5. QED
  BY <1>2, <1>3, <1>4, CallStep DEF IInv, TypeOK

LEMMA ReadStaleStep ==
  ASSUME IInv, TypeOK', NEW r \in Readers, ReadStale(r)
  PROVE  IInv'
<1>1. PICK s \in ReaderState : s = [reader[r] EXCEPT
         !.at = "needs", !.stale = IF Differs(r) THEN "yes" ELSE "no"]
  <2>1. reader[r] \in ReaderState
    BY DEF IInv, TypeOK
  <2>2. QED
    BY <2>1 DEF ReaderState
<1>2. Fits(s)'
  BY <1>1 DEF IInv, TypeOK, Disk, Version, ReaderState, Fits, ReadStale
<1>3. reader' = [reader EXCEPT ![r] = s] /\ reader[r].at = "stale"
      /\ UNCHANGED <<disk, entry, budget>>
  BY <1>1 DEF ReadStale
<1>4. DigestKept' /\ Bounded'
  BY <1>1, <1>3, StillFresh
<1>5. QED
  BY <1>2, <1>3, <1>4, CallStep DEF IInv, TypeOK

\* A call that reads the header hashes too: an entry without a header has
\* no digest.
LEMMA ReadNeedsStep ==
  ASSUME IInv, Counted, TypeOK', NEW r \in Readers, ReadNeeds(r)
  PROVE  IInv'
<1>1. /\ "header" \in Needs(r) => Needs(r) = {"header", "sum"}
      /\ "header" \notin Needs(r) => entry.header # 0
      /\ Needs(r) \in SUBSET {"header", "sum"}
  <2>1. entry.header = 0 \/ entry.header \notin NoCount
    BY NoCountAssumption DEF IInv, TypeOK, Entry, Disk, Version, Bounded, Counted
  <2>2. QED
    BY <2>1 DEF IInv, Bounded, Needs, NeedsHeader, NeedsSum
<1>2. PICK s \in ReaderState : s = Onward(r, Needs(r))
  BY <1>1, OnwardTyped DEF IInv
<1>3. Fits(s)'
  <2>1. CASE Needs(r) = {}
    BY <2>1, <1>2 DEF IInv, TypeOK, Disk, Version, Onward, NoReader, ReadNeeds, Fits
  <2>2. CASE Needs(r) # {}
    BY <2>2, <1>1, <1>2 DEF IInv, TypeOK, Version, ReaderState, Fits, Onward, ReadNeeds
  <2>3. QED
    BY <2>1, <2>2
<1>4. reader' = [reader EXCEPT ![r] = s] /\ reader[r].at = "needs"
      /\ UNCHANGED <<disk, entry, budget>>
  BY <1>2 DEF ReadNeeds
<1>5. DigestKept' /\ Bounded'
  BY <1>4, StillFresh
<1>6. QED
  BY <1>3, <1>4, <1>5, CallStep DEF IInv, TypeOK

LEMMA ReadHeaderStep ==
  ASSUME IInv, TypeOK', NEW r \in Readers, ReadHeader(r)
  PROVE  IInv'
<1>0. reader[r] \in ReaderState /\ disk.version \in Version
  BY DEF IInv, TypeOK, Disk
<1>1. PICK s \in ReaderState : s = [reader[r] EXCEPT !.at = "store", !.got = disk.version]
  BY <1>0 DEF ReaderState
<1>2. Fits(s)'
  BY <1>1 DEF IInv, TypeOK, Disk, Version, ReaderState, Bounded, Fits, ReadHeader
<1>3. reader' = [reader EXCEPT ![r] = s] /\ reader[r].at = "header"
      /\ UNCHANGED <<disk, entry, budget>>
  BY <1>1 DEF ReadHeader
<1>4. DigestKept' /\ Bounded'
  BY <1>1, <1>3, StillFresh
<1>5. QED
  BY <1>2, <1>3, <1>4, CallStep DEF IInv, TypeOK

LEMMA HeaderFailsStep ==
  ASSUME IInv, TypeOK', NEW r \in Readers, HeaderFails(r)
  PROVE  IInv'
<1>1. NoReader \in ReaderState /\ Fits(NoReader)'
  BY IdleFits DEF IInv, HeaderFails, Fits
<1>2. reader' = [reader EXCEPT ![r] = NoReader] /\ reader[r].at = "header"
      /\ UNCHANGED <<disk, entry>>
  BY DEF HeaderFails
<1>3. /\ budget' \in [reads: 0..MaxReadFailures, hashes: 0..MaxHashFailures]
      /\ budget'.hashes = budget.hashes
  BY DEF IInv, TypeOK, HeaderFails
<1>4. DigestKept' /\ Bounded'
  BY <1>1, <1>2, <1>3, StillFresh
<1>5. QED
  BY <1>1, <1>2, <1>3, <1>4, CallStep DEF IInv, TypeOK

\* The call goes on to hash the file it has stamped the entry with.
LEMMA StoreHeaderStep ==
  ASSUME IInv, TypeOK', NEW r \in Readers, StoreHeader(r)
  PROVE  IInv'
<1>1. /\ reader[r] \in ReaderState
      /\ reader[r].at = "store" /\ reader[r].got # 0
      /\ reader[r].needs = {"header", "sum"} /\ reader[r].stamp <= disk.version
      /\ reader[r].got <= disk.version
  BY DEF IInv, TypeOK, StoreHeader, Fits
<1>2. reader[r].needs \ {"header"} = {"sum"}
  BY <1>1
<1>3. PICK s \in ReaderState :
        /\ s = Onward(r, reader[r].needs \ {"header"})
        /\ s.at = "hash" /\ s.stamp = reader[r].stamp
  <2>1. Onward(r, reader[r].needs \ {"header"})
          = [reader[r] EXCEPT !.at = "hash", !.needs = {"sum"}, !.got = 0]
    BY <1>2 DEF Onward
  <2>2. {"sum"} \in SUBSET {"header", "sum"} /\ 0 \in Version
    BY DEF Version
  <2>3. /\ Onward(r, reader[r].needs \ {"header"}) \in ReaderState
        /\ Onward(r, reader[r].needs \ {"header"}).at = "hash"
        /\ Onward(r, reader[r].needs \ {"header"}).stamp = reader[r].stamp
    BY <2>1, <2>2, <1>1 DEF ReaderState
  <2>4. QED
    BY <2>3
<1>4. /\ entry' = [entry EXCEPT !.header = reader[r].got, !.stamp = reader[r].stamp]
      /\ reader' = [reader EXCEPT ![r] = s]
      /\ UNCHANGED <<disk, budget>>
  BY <1>3 DEF StoreHeader
<1>5. entry' \in Entry /\ entry'.header # 0 /\ entry'.stamp = reader[r].stamp
  BY <1>1, <1>4 DEF IInv, TypeOK, Entry, ReaderState
<1>6. Fits(s)'
  BY <1>1, <1>3, <1>4, <1>5 DEF Fits
<1>7. Bounded'
  <2>1. entry'.header = reader[r].got
    BY <1>4 DEF IInv, TypeOK, Entry
  <2>2. QED
    BY <2>1, <1>1, <1>4, <1>5 DEF IInv, Bounded, Present
<1>8. SumWrong' => Rehashing'
  <2>1. reader'[r] = s
    BY <1>4, Replaced DEF IInv
  <2>2. QED
    BY <2>1, <1>3, <1>5 DEF SumWrong, Rehashing
<1>9. QED
  BY <1>4, <1>5, <1>6, <1>7, <1>8, CallStep DEF IInv, TypeOK, DigestKept

LEMMA HashStep ==
  ASSUME IInv, TypeOK', NEW r \in Readers, Hash(r)
  PROVE  IInv'
<1>0. reader[r] \in ReaderState /\ disk.version \in Version
  BY DEF IInv, TypeOK, Disk
<1>1. PICK s \in ReaderState : s = [reader[r] EXCEPT !.at = "keep", !.got = disk.version]
  BY <1>0 DEF ReaderState
<1>2. Fits(s)'
  BY <1>1 DEF IInv, TypeOK, Disk, Version, ReaderState, Fits, Hash
<1>3. reader' = [reader EXCEPT ![r] = s] /\ reader[r].at = "hash"
      /\ UNCHANGED <<disk, entry, budget>>
  BY <1>1 DEF Hash
<1>4. DigestKept' /\ Bounded'
  BY <1>1, <1>3, StillFresh DEF IInv, TypeOK, ReaderState
<1>5. QED
  BY <1>2, <1>3, <1>4, CallStep DEF IInv, TypeOK

\* A hash fails for want of a file, or is counted.
LEMMA HashFailsStep ==
  ASSUME IInv, TypeOK', NEW r \in Readers, HashFails(r)
  PROVE  IInv'
<1>1. NoReader \in ReaderState /\ Fits(NoReader)'
  BY IdleFits DEF IInv, HashFails, Fits
<1>2. reader' = [reader EXCEPT ![r] = NoReader] /\ UNCHANGED <<disk, entry>>
  BY DEF HashFails
<1>3. /\ budget' \in [reads: 0..MaxReadFailures, hashes: 0..MaxHashFailures]
      /\ ~Present' \/ budget'.hashes # MaxHashFailures
  BY DEF IInv, TypeOK, HashFails, Present
<1>4. DigestKept' /\ Bounded'
  BY <1>2, <1>3 DEF IInv, DigestKept, SumWrong, Bounded, Present
<1>5. QED
  BY <1>1, <1>2, <1>3, <1>4, CallStep DEF IInv, TypeOK

\* A digest stored under the present file's stamp is the present file's.
LEMMA StoreSumStep ==
  ASSUME IInv, TypeOK', NEW r \in Readers, StoreSum(r)
  PROVE  IInv'
<1>1. /\ reader[r] \in ReaderState
      /\ reader[r].stamp <= reader[r].got /\ reader[r].got <= disk.version
      /\ entry.header # 0
  BY DEF IInv, TypeOK, StoreSum, Fits
<1>2. entry' = [entry EXCEPT !.sum = reader[r].got, !.stamp = reader[r].stamp]
      /\ reader' = [reader EXCEPT ![r] = NoReader] /\ UNCHANGED <<disk, budget>>
  BY DEF StoreSum, StampStat
<1>3. /\ entry' \in Entry /\ entry'.header = entry.header
      /\ entry'.stamp = reader[r].stamp /\ entry'.sum = reader[r].got
  BY <1>1, <1>2 DEF IInv, TypeOK, Entry, ReaderState
<1>4. NoReader \in ReaderState /\ Fits(NoReader)'
  BY <1>2, IdleFits DEF IInv, Fits, NoReader
<1>5. reader[r].stamp \in Nat /\ reader[r].got \in Nat /\ disk.version \in Nat
  BY <1>1 DEF IInv, TypeOK, Disk, ReaderState, Version
<1>6. Bounded' /\ ~SumWrong'
  BY <1>1, <1>2, <1>3, <1>5 DEF IInv, Bounded, SumWrong, Present
<1>7. QED
  BY <1>1, <1>2, <1>3, <1>4, <1>6, CallStep DEF IInv, TypeOK, DigestKept

------------------------------------------------------------------------------

LEMMA NextIInv ==
  ASSUME IInv, Counted, [Next]_vars
  PROVE  IInv'
<1>0. TypeOK'
  BY NextTyped DEF IInv
<1>1. CASE Remove \/ \E state \in {"partial", "whole"} : Write(state)
  BY <1>0, <1>1, FileStep
<1>2. CASE UNCHANGED vars
  BY <1>2 DEF vars, IInv, TypeOK, Bounded, Present, Fits, DigestKept, SumWrong, Rehashing
<1>3. ASSUME NEW r \in Readers, Read(r), ~UNCHANGED vars PROVE IInv'
  BY <1>0, <1>3, StatStep, ReadStaleStep, ReadNeedsStep, ReadHeaderStep, HeaderFailsStep,
     StoreHeaderStep, HashStep, HashFailsStep, StoreSumStep DEF Read, StatFails
<1>4. QED
  BY <1>1, <1>2, <1>3 DEF Next

------------------------------------------------------------------------------
(* One call after another, of headers with and without a parameter count.  *)
(* What is stored is then never older than the stamp it is stored under;   *)
(* with two calls, the one that is behind breaks this by storing a header  *)
(* between the other's header and its digest.                              *)

\* What the one call knows: what it reads is no older than what it stat'ed;
\* it reads the header alone only of an entry under its own stamp; and when
\* it hashes, the entry's header is no older than what it stat'ed.
Knows(s) ==
  /\ s.stamp <= disk.version
  /\ s.at = "needs" /\ s.stale = "no" => s.stamp = entry.stamp
  /\ s.at \in {"header", "store"}
       => "header" \in s.needs /\ ("sum" \in s.needs \/ s.stamp = entry.stamp)
  /\ s.at \in {"store", "keep"} => s.stamp <= s.got /\ s.got <= disk.version
  /\ s.at \in {"hash", "keep"} => s.stamp <= entry.header

Ordered ==
  /\ entry.stamp <= disk.version
  /\ entry.header <= disk.version
  /\ entry.header # 0 => entry.stamp <= entry.header

OneAtATime ==
  \A q, r \in Readers : reader[q].at # "idle" /\ reader[r].at # "idle" => q = r

OneIInv ==
  /\ TypeOK
  /\ OneAtATime
  /\ Ordered
  /\ \A r \in Readers : Knows(reader[r])
  /\ DigestKept

LEMMA OneIdle ==
  ASSUME TypeOK
  PROVE  NoReader \in ReaderState /\ Knows(NoReader)
BY DEF TypeOK, Disk, Version, ReaderState, NoReader, Knows

\* The one call's step: what remains to show is about its new state and
\* about the entry.
LEMMA OneCallStep ==
  ASSUME OneIInv, NEW r \in Readers, OthersIdle(r), NEW s \in ReaderState,
         reader' = [reader EXCEPT ![r] = s], UNCHANGED disk, TypeOK',
         Knows(s)', Ordered', DigestKept'
  PROVE  OneIInv'
<1>1. reader'[r] = s /\ \A q \in Readers \ {r} : reader'[q] = reader[q]
  BY Replaced DEF OneIInv
<1>2. ASSUME NEW q \in Readers PROVE Knows(reader[q])'
  <2>1. CASE q = r
    BY <2>1, <1>1 DEF Knows
  <2>2. CASE q # r
    BY <2>2, <1>1 DEF OthersIdle, OneIInv, Knows
  <2>3. QED
    BY <2>1, <2>2
<1>3. OneAtATime'
  BY <1>1 DEF OthersIdle, OneAtATime
<1>4. QED
  BY <1>2, <1>3 DEF OneIInv

\* A step that leaves file and entry alone, of a call that was not about to
\* replace the digest or still is.
LEMMA OneStillFresh ==
  ASSUME OneIInv, NEW r \in Readers, OthersIdle(r), NEW s \in ReaderState,
         reader' = [reader EXCEPT ![r] = s],
         UNCHANGED <<disk, entry>>, budget'.hashes = budget.hashes,
         reader[r].at \in {"hash", "keep"}
           => s.at \in {"hash", "keep"} /\ s.stamp = reader[r].stamp
  PROVE  DigestKept' /\ Ordered'
<1>1. Ordered'
  BY DEF OneIInv, Ordered
<1>2. ASSUME Rehashing PROVE Rehashing'
  <2>1. reader[r].at \in {"hash", "keep"} /\ reader[r].stamp = disk.version
    BY <1>2 DEF Rehashing, OthersIdle
  <2>2. reader'[r] = s
    BY Replaced DEF OneIInv
  <2>3. QED
    BY <2>1, <2>2 DEF Rehashing
<1>3. SumWrong' => SumWrong
  BY DEF SumWrong, Present
<1>4. QED
  BY <1>1, <1>2, <1>3 DEF OneIInv, DigestKept

LEMMA InitOne == Init => OneIInv
<1>1. SUFFICES ASSUME Init PROVE OneIInv
  OBVIOUS
<1>2. TypeOK
  BY <1>1, InitIInv DEF IInv
<1>3. \A r \in Readers : Knows(reader[r])
  BY <1>1, <1>2, OneIdle DEF Init
<1>4. Ordered /\ OneAtATime /\ DigestKept
  BY <1>1 DEF Init, Ordered, OneAtATime, NoReader, Present, DigestKept, SumWrong
<1>5. QED
  BY <1>2, <1>3, <1>4 DEF OneIInv

LEMMA OneFileStep ==
  ASSUME OneIInv, TypeOK', Remove \/ \E state \in {"partial", "whole"} : Write(state)
  PROVE  OneIInv'
<1>1. /\ disk' \in Disk
      /\ disk.version <= disk'.version
      /\ UNCHANGED <<entry, reader, budget>>
  BY DEF OneIInv, TypeOK, Disk, Version, Remove, Write, Present
<1>2. OneAtATime'
  BY <1>1 DEF OneIInv, OneAtATime
<1>3. ASSUME NEW r \in Readers PROVE Knows(reader[r])'
  <2>1. reader[r] \in ReaderState /\ Knows(reader[r]) /\ reader'[r] = reader[r]
    BY <1>1 DEF OneIInv, TypeOK
  <2>2. QED
    BY <2>1, <1>1 DEF OneIInv, TypeOK, Disk, Version, ReaderState, Knows
<1>4. Ordered'
  BY <1>1 DEF OneIInv, TypeOK, Disk, Entry, Version, Ordered
<1>5. ~SumWrong'
  BY <1>1 DEF OneIInv, TypeOK, Disk, Entry, Version, Ordered, Remove, Write, Present, SumWrong
<1>6. QED
  BY <1>2, <1>3, <1>4, <1>5 DEF OneIInv, DigestKept

LEMMA OneStatStep ==
  ASSUME OneIInv, TypeOK', NEW r \in Readers, OthersIdle(r), Stat(r)
  PROVE  OneIInv'
<1>1. PICK s \in ReaderState : s = [NoReader EXCEPT !.at = "stale", !.stamp = disk.version]
  <2>1. [NoReader EXCEPT !.at = "stale", !.stamp = disk.version] \in ReaderState
    BY IdleFits DEF OneIInv, TypeOK, Disk, Version, ReaderState
  <2>2. QED
    BY <2>1
<1>2. Knows(s)'
  BY <1>1 DEF OneIInv, TypeOK, Disk, Version, ReaderState, NoReader, Knows, Stat
<1>3. reader' = [reader EXCEPT ![r] = s] /\ reader[r].at = "idle"
      /\ UNCHANGED <<disk, entry, budget>>
  BY <1>1 DEF Stat
<1>4. DigestKept' /\ Ordered'
  BY <1>1, <1>3, OneStillFresh
<1>5. QED
  BY <1>2, <1>3, <1>4, OneCallStep DEF OneIInv, TypeOK

LEMMA OneReadStaleStep ==
  ASSUME OneIInv, TypeOK', NEW r \in Readers, OthersIdle(r), ReadStale(r)
  PROVE  OneIInv'
<1>1. PICK s \in ReaderState : s = [reader[r] EXCEPT
         !.at = "needs", !.stale = IF Differs(r) THEN "yes" ELSE "no"]
  <2>1. reader[r] \in ReaderState
    BY DEF OneIInv, TypeOK
  <2>2. QED
    BY <2>1 DEF ReaderState
<1>2. Knows(s)'
  BY <1>1 DEF OneIInv, TypeOK, Disk, Version, ReaderState, Knows, ReadStale, Differs
<1>3. reader' = [reader EXCEPT ![r] = s] /\ reader[r].at = "stale"
      /\ UNCHANGED <<disk, entry, budget>>
  BY <1>1 DEF ReadStale
<1>4. DigestKept' /\ Ordered'
  BY <1>1, <1>3, OneStillFresh
<1>5. QED
  BY <1>2, <1>3, <1>4, OneCallStep DEF OneIInv, TypeOK

\* A stale entry needs both, and one that is not has the call's stamp.
LEMMA OneReadNeedsStep ==
  ASSUME OneIInv, TypeOK', NEW r \in Readers, OthersIdle(r), ReadNeeds(r)
  PROVE  OneIInv'
<1>0. /\ reader[r] \in ReaderState /\ Knows(reader[r]) /\ reader[r].at = "needs"
      /\ entry \in Entry /\ 0 \in Version
  BY DEF OneIInv, TypeOK, ReadNeeds, Version
<1>1. /\ Needs(r) \in SUBSET {"header", "sum"}
      /\ "sum" \in Needs(r) \/ reader[r].stamp = entry.stamp
      /\ "header" \in Needs(r) \/ reader[r].stamp <= entry.header
  <2>1. CASE Stale(r)
    BY <2>1 DEF Needs, NeedsHeader, NeedsSum
  <2>2. CASE ~Stale(r)
    <3>1. reader[r].stamp = entry.stamp
      BY <2>2, <1>0 DEF Stale, ReaderState, Knows
    <3>2. "header" \in Needs(r) \/ entry.header # 0
      BY DEF Needs, NeedsHeader
    <3>3. QED
      BY <3>1, <3>2 DEF OneIInv, Ordered, Needs
  <2>3. QED
    BY <2>1, <2>2
<1>2. CASE Needs(r) = {}
  <2>1. reader' = [reader EXCEPT ![r] = NoReader] /\ UNCHANGED <<disk, entry, budget>>
    BY <1>2 DEF ReadNeeds, Onward
  <2>2. NoReader \in ReaderState /\ Knows(NoReader)'
    BY <2>1, OneIdle DEF OneIInv, Knows
  <2>3. DigestKept' /\ Ordered'
    BY <1>0, <2>1, <2>2, OneStillFresh
  <2>4. QED
    BY <2>1, <2>2, <2>3, OneCallStep DEF OneIInv, TypeOK
<1>3. CASE Needs(r) # {}
  <2> DEFINE next == IF "header" \in Needs(r) THEN "header" ELSE "hash"
  <2>1. /\ next \in {"header", "hash"}
        /\ next = "header" <=> "header" \in Needs(r)
    OBVIOUS
  <2>2. Onward(r, Needs(r)) = [reader[r] EXCEPT !.at = next, !.needs = Needs(r), !.got = 0]
    BY <1>3 DEF Onward
  <2> HIDE DEF next
  <2>3. PICK s \in ReaderState :
          s = [reader[r] EXCEPT !.at = next, !.needs = Needs(r), !.got = 0]
    BY <1>0, <1>1, <2>1 DEF ReaderState
  <2>4. /\ s.at = next /\ s.needs = Needs(r) /\ s.stamp = reader[r].stamp
    BY <1>0, <2>3 DEF ReaderState
  <2>5. reader' = [reader EXCEPT ![r] = s] /\ UNCHANGED <<disk, entry, budget>>
    BY <2>2, <2>3 DEF ReadNeeds
  <2>6. Knows(s)'
    BY <1>0, <1>1, <2>1, <2>4, <2>5 DEF Knows
  <2>7. DigestKept' /\ Ordered'
    BY <1>0, <2>5, OneStillFresh
  <2>8. QED
    BY <2>5, <2>6, <2>7, OneCallStep DEF OneIInv, TypeOK
<1>4. QED
  BY <1>2, <1>3

LEMMA OneReadHeaderStep ==
  ASSUME OneIInv, TypeOK', NEW r \in Readers, OthersIdle(r), ReadHeader(r)
  PROVE  OneIInv'
<1>0. reader[r] \in ReaderState /\ Knows(reader[r]) /\ disk.version \in Version
  BY DEF OneIInv, TypeOK, Disk
<1>1. PICK s \in ReaderState : s = [reader[r] EXCEPT !.at = "store", !.got = disk.version]
  BY <1>0 DEF ReaderState
<1>2. reader' = [reader EXCEPT ![r] = s] /\ reader[r].at = "header"
      /\ UNCHANGED <<disk, entry, budget>>
  BY <1>1 DEF ReadHeader
<1>3. Knows(s)'
  BY <1>0, <1>1, <1>2 DEF Version, ReaderState, Knows
<1>4. DigestKept' /\ Ordered'
  BY <1>1, <1>2, OneStillFresh
<1>5. QED
  BY <1>2, <1>3, <1>4, OneCallStep DEF OneIInv, TypeOK

LEMMA OneHeaderFailsStep ==
  ASSUME OneIInv, TypeOK', NEW r \in Readers, OthersIdle(r), HeaderFails(r)
  PROVE  OneIInv'
<1>1. reader' = [reader EXCEPT ![r] = NoReader] /\ reader[r].at = "header"
      /\ UNCHANGED <<disk, entry>>
  BY DEF HeaderFails
<1>2. NoReader \in ReaderState /\ Knows(NoReader)'
  BY <1>1, OneIdle DEF OneIInv, Knows
<1>3. /\ budget' \in [reads: 0..MaxReadFailures, hashes: 0..MaxHashFailures]
      /\ budget'.hashes = budget.hashes
  BY DEF OneIInv, TypeOK, HeaderFails
<1>4. DigestKept' /\ Ordered'
  BY <1>1, <1>2, <1>3, OneStillFresh
<1>5. QED
  BY <1>1, <1>2, <1>3, <1>4, OneCallStep DEF OneIInv, TypeOK

\* A header stored alone leaves the stamp as it is; one stored before a
\* digest leaves a call about to replace it.
LEMMA OneStoreHeaderStep ==
  ASSUME OneIInv, TypeOK', NEW r \in Readers, OthersIdle(r), StoreHeader(r)
  PROVE  OneIInv'
<1>1. /\ reader[r] \in ReaderState /\ Knows(reader[r]) /\ reader[r].at = "store"
      /\ entry \in Entry /\ 0 \in Version /\ disk.version \in Nat
  BY DEF OneIInv, TypeOK, StoreHeader, Version, Disk
<1>2. /\ entry' = [entry EXCEPT !.header = reader[r].got, !.stamp = reader[r].stamp]
      /\ UNCHANGED <<disk, budget>>
      /\ reader' = [reader EXCEPT ![r] = Onward(r, reader[r].needs \ {"header"})]
  BY DEF StoreHeader
<1>3. /\ entry' \in Entry /\ entry'.header = reader[r].got
      /\ entry'.stamp = reader[r].stamp /\ entry'.sum = entry.sum
  BY <1>1, <1>2 DEF Entry, ReaderState
<1>4. reader[r].stamp \in Nat /\ reader[r].got \in Nat
  BY <1>1 DEF ReaderState, Version
<1>5. Ordered'
  BY <1>1, <1>2, <1>3, <1>4 DEF Ordered, Knows
<1>6. CASE "sum" \in reader[r].needs
  <2>1. reader[r].needs \ {"header"} = {"sum"}
    BY <1>6, <1>1 DEF ReaderState
  <2>2. Onward(r, reader[r].needs \ {"header"})
          = [reader[r] EXCEPT !.at = "hash", !.needs = {"sum"}, !.got = 0]
    BY <2>1 DEF Onward
  <2>3. PICK s \in ReaderState :
          s = [reader[r] EXCEPT !.at = "hash", !.needs = {"sum"}, !.got = 0]
    BY <1>1 DEF ReaderState
  <2>4. s.at = "hash" /\ s.stamp = reader[r].stamp
    BY <1>1, <2>3 DEF ReaderState
  <2>5. reader' = [reader EXCEPT ![r] = s] /\ reader'[r] = s
    BY <1>2, <2>2, <2>3, Replaced DEF OneIInv
  <2>6. Knows(s)'
    BY <1>1, <1>2, <1>3, <1>4, <2>4 DEF Knows
  <2>7. SumWrong' => Rehashing'
    BY <1>3, <2>4, <2>5 DEF SumWrong, Rehashing
  <2>8. QED
    BY <1>2, <1>3, <1>5, <2>5, <2>6, <2>7, OneCallStep DEF OneIInv, TypeOK, DigestKept
<1>7. CASE "sum" \notin reader[r].needs
  <2>1. reader[r].needs \ {"header"} = {} /\ reader[r].stamp = entry.stamp
    BY <1>7, <1>1 DEF ReaderState, Knows
  <2>2. reader' = [reader EXCEPT ![r] = NoReader]
    BY <1>2, <2>1 DEF Onward
  <2>3. NoReader \in ReaderState /\ Knows(NoReader)'
    BY <1>2, OneIdle DEF OneIInv, NoReader, Knows
  <2>4. ~Rehashing
    BY <1>1 DEF Rehashing, OthersIdle
  <2>5. SumWrong' => SumWrong
    BY <1>2, <1>3, <2>1 DEF SumWrong, Present
  <2>6. DigestKept'
    BY <1>2, <2>4, <2>5 DEF OneIInv, DigestKept
  <2>7. QED
    BY <1>2, <1>3, <1>5, <2>2, <2>3, <2>6, OneCallStep DEF OneIInv, TypeOK
<1>8. QED
  BY <1>6, <1>7

LEMMA OneHashStep ==
  ASSUME OneIInv, TypeOK', NEW r \in Readers, OthersIdle(r), Hash(r)
  PROVE  OneIInv'
<1>0. reader[r] \in ReaderState /\ Knows(reader[r]) /\ disk.version \in Version
  BY DEF OneIInv, TypeOK, Disk
<1>1. PICK s \in ReaderState : s = [reader[r] EXCEPT !.at = "keep", !.got = disk.version]
  BY <1>0 DEF ReaderState
<1>2. s.at = "keep" /\ s.stamp = reader[r].stamp /\ s.got = disk.version
  BY <1>0, <1>1 DEF ReaderState
<1>3. reader' = [reader EXCEPT ![r] = s] /\ reader[r].at = "hash"
      /\ UNCHANGED <<disk, entry, budget>>
  BY <1>1 DEF Hash
<1>4. Knows(s)'
  BY <1>0, <1>2, <1>3 DEF Version, Knows
<1>5. DigestKept' /\ Ordered'
  BY <1>2, <1>3, OneStillFresh
<1>6. QED
  BY <1>3, <1>4, <1>5, OneCallStep DEF OneIInv, TypeOK

LEMMA OneHashFailsStep ==
  ASSUME OneIInv, TypeOK', NEW r \in Readers, OthersIdle(r), HashFails(r)
  PROVE  OneIInv'
<1>1. reader' = [reader EXCEPT ![r] = NoReader] /\ UNCHANGED <<disk, entry>>
  BY DEF HashFails
<1>2. NoReader \in ReaderState /\ Knows(NoReader)'
  BY <1>1, OneIdle DEF OneIInv, Knows
<1>3. /\ budget' \in [reads: 0..MaxReadFailures, hashes: 0..MaxHashFailures]
      /\ ~Present' \/ budget'.hashes # MaxHashFailures
  BY DEF OneIInv, TypeOK, HashFails, Present
<1>4. DigestKept' /\ Ordered'
  BY <1>1, <1>3 DEF OneIInv, DigestKept, SumWrong, Ordered, Present
<1>5. QED
  BY <1>1, <1>2, <1>3, <1>4, OneCallStep DEF OneIInv, TypeOK

LEMMA OneStoreSumStep ==
  ASSUME OneIInv, TypeOK', NEW r \in Readers, OthersIdle(r), StoreSum(r)
  PROVE  OneIInv'
<1>1. /\ reader[r] \in ReaderState /\ Knows(reader[r]) /\ reader[r].at = "keep"
      /\ entry \in Entry /\ disk.version \in Nat
  BY DEF OneIInv, TypeOK, StoreSum, Disk, Version
<1>2. entry' = [entry EXCEPT !.sum = reader[r].got, !.stamp = reader[r].stamp]
      /\ reader' = [reader EXCEPT ![r] = NoReader] /\ UNCHANGED <<disk, budget>>
  BY DEF StoreSum, StampStat
<1>3. /\ entry' \in Entry /\ entry'.header = entry.header
      /\ entry'.stamp = reader[r].stamp /\ entry'.sum = reader[r].got
  BY <1>1, <1>2 DEF Entry, ReaderState
<1>4. NoReader \in ReaderState /\ Knows(NoReader)'
  BY <1>2, OneIdle DEF OneIInv, Knows, NoReader
<1>5. reader[r].stamp \in Nat /\ reader[r].got \in Nat
  BY <1>1 DEF ReaderState, Version
<1>6. Ordered' /\ ~SumWrong'
  BY <1>1, <1>2, <1>3, <1>5 DEF OneIInv, Ordered, Knows, SumWrong, Present
<1>7. QED
  BY <1>2, <1>3, <1>4, <1>6, OneCallStep DEF OneIInv, TypeOK, DigestKept

\* A call begins while no other is under way, or goes on as the only one.
LEMMA NextOne ==
  ASSUME OneIInv, [Next]_vars, Alone'
  PROVE  OneIInv'
<1>0. TypeOK'
  BY NextTyped DEF OneIInv
<1>1. CASE Remove \/ \E state \in {"partial", "whole"} : Write(state)
  BY <1>0, <1>1, OneFileStep
<1>2. CASE UNCHANGED vars
  BY <1>2 DEF vars, OneIInv, TypeOK, OneAtATime, Ordered, Present, Knows, DigestKept,
     SumWrong, Rehashing
<1>3. ASSUME NEW r \in Readers, Read(r), ~UNCHANGED vars PROVE OneIInv'
  <2>1. CASE Stat(r)
    <3>1. OthersIdle(r)
      BY <2>1 DEF Stat, Alone
    <3>2. QED
      BY <1>0, <2>1, <3>1, OneStatStep
  <2>2. CASE ~Stat(r)
    <3>1. reader[r].at # "idle"
      BY <1>3, <2>2 DEF Read, StatFails, ReadStale, ReadNeeds, ReadHeader, HeaderFails,
         StoreHeader, Hash, HashFails, StoreSum
    <3>2. OthersIdle(r)
      BY <3>1 DEF OthersIdle, OneIInv, OneAtATime
    <3>3. QED
      BY <1>0, <1>3, <2>2, <3>2, OneReadStaleStep, OneReadNeedsStep, OneReadHeaderStep,
         OneHeaderFailsStep, OneStoreHeaderStep, OneHashStep, OneHashFailsStep,
         OneStoreSumStep DEF Read, StatFails
  <2>3. QED
    BY <2>1, <2>2
<1>4. QED
  BY <1>1, <1>2, <1>3 DEF Next

------------------------------------------------------------------------------
(* Both together.                                                          *)

Inv == TypeOK /\ (Counted => IInv) /\ (Alone => OneIInv)

\* What has been there, and what has overlapped, does not go away.
LEMMA Before ==
  ASSUME TypeOK, [Next]_vars
  PROVE  (Counted' => Counted) /\ (Alone' => Alone)
<1>1. Counted' => Counted
  BY NextTyped, NoCountAssumption DEF Counted, TypeOK, Disk, Version
<1>2. Alone' => Alone
  BY DEF Alone, vars, Next, Write, Remove, Read, Stat, StatFails, ReadStale, ReadNeeds,
     ReadHeader, HeaderFails, StoreHeader, Hash, HashFails, StoreSum
<1>3. QED
  BY <1>1, <1>2

\* An entry that looks fresh has no older file's walk-time fields, nor,
\* unless a hash has failed, its digest, by which a worker verifies the
\* bytes: for every number of calls, of changes and of failing reads, the
\* fields if calls come one after the other, whatever headers lack, the
\* digest then and also if calls overlap and every header has had a
\* parameter count (parseModelInfo: stale, needsHeader, needsHash and the
\* two stores under one stat'ed time).
THEOREM FieldsAreFresh == Spec => []FieldsFresh
<1>1. Init => Inv
  BY InitTyped, InitIInv, InitOne DEF Inv
<1>2. Inv /\ [Next]_vars => Inv'
  BY Before, NextTyped, NextIInv, NextOne DEF Inv
<1>3. Inv => FieldsFresh
  <2>1. ASSUME Inv PROVE DigestFresh
    BY <2>1 DEF Inv, IInv, OneIInv, DigestKept, DigestFresh
  <2>2. ASSUME Inv PROVE HeaderFresh
    BY <2>2 DEF Inv, OneIInv, TypeOK, Disk, Entry, Version, Ordered, HeaderFresh, HeaderWrong
  <2>3. QED
    BY <2>1, <2>2 DEF FieldsFresh
<1>4. QED
  BY <1>1, <1>2, <1>3, PTL DEF Spec
=============================================================================
