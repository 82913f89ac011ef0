----------------------------- MODULE GgufReader ------------------------------
(***************************************************************************)
(* ReadMeta and tensorSums of internal/gguf/reader.go, and the counts that *)
(* are made of what they read.  The file is read field by field; what a    *)
(* field holds, or that the file ends there, is chosen when it is read: a  *)
(* file may be cut off anywhere, as one that is still being copied is.     *)
(*                                                                         *)
(* uint64 arithmetic is modulo Word, which is small for TLC.  The key-     *)
(* value pairs kept are those the counts use: the others are read and      *)
(* checked likewise, and shown by Summary as they are.                     *)
(***************************************************************************)
EXTENDS Integers, Sequences

CONSTANTS
  Word,          \* 2^64
  KvMax,         \* key-value pairs a header may have
  TensorMax,     \* tensors it may have
  DimMax,        \* dimensions of one
  Sizes,         \* sizes of a dimension
  Labels,        \* what a size label says, 0 when it says nothing
  Counts         \* values of the numeric keys

ASSUME WordAssumption == Word \in Nat \ {0, 1}
ASSUME NumbersAssumption == Sizes \cup Labels \cup Counts \subseteq 0..Word - 1
ASSUME LimitAssumption == KvMax \in Nat /\ TensorMax \in Nat /\ DimMax \in Nat

VARIABLES
  reader,        \* where ReadMeta is, and how many items of the kind are left
  kv,            \* Meta.KV
  tensors,       \* the table read so far, the last tensor perhaps in part:
                 \* routed, dims, and elems, what they multiply to
  sums           \* total and exps of tensorSums

ggufVars == <<reader, kv, tensors, sums>>

CountKeys == {"parameter_count", "expert_count", "expert_used_count"}
Keys == CountKeys \cup {"architecture", "size_label"}

\* A number of a type GetUint64 does not take, or none.
NoNumber == 0

------------------------------------------------------------------------------
(* Arithmetic.                                                             *)

\* Mutant: a product is not looked at before it is made.
NeverWraps(elems, dim) == FALSE

\* dim != 0 && elems > math.MaxUint64/dim.
Wraps(elems, dim) == dim # 0 /\ elems > (Word - 1) \div dim

\* ParameterCount: the key, the table, the label.
ParameterCount(meta, total) ==
  IF meta["parameter_count"] > 0 THEN meta["parameter_count"]
  ELSE IF total > 0 THEN total
  ELSE meta["size_label"]

\* Whether the routed experts can be told apart.
Usable(meta, total, exps) ==
  /\ total # 0 /\ exps # 0 /\ exps < total
  /\ meta["architecture"] # 0
  /\ meta["expert_used_count"] \in 1..meta["expert_count"] - 1

\* ActiveParameterCount, of a ParameterCount and the routed sum.
ActiveParameterCount(meta, total, exps) ==
  IF Usable(meta, total, exps)
    THEN (total - (exps \div meta["expert_count"])
                    * (meta["expert_count"] - meta["expert_used_count"])) % Word
    ELSE total

------------------------------------------------------------------------------

ReaderInit ==
  /\ reader = [at |-> "magic", left |-> 0]
  /\ kv = [k \in Keys |-> 0]
  /\ tensors = <<>>
  /\ sums = [total |-> 0, exps |-> 0]

Go(at, left) == reader' = [at |-> at, left |-> left]

\* Magic, version 2 or 3, tensor count, KV count.
ReadCounts ==
  /\ reader.at = "magic"
  /\ \E n \in 0..KvMax : Go("kv", n)
  /\ UNCHANGED <<kv, tensors, sums>>

\* Up to the tensors, what cannot be read fails the file: another magic or
\* version, too many pairs, a string or an array too long, an unknown type,
\* the end.
Fails ==
  /\ reader.at \in {"magic", "kv"}
  /\ Go("failed", 0)
  /\ UNCHANGED <<kv, tensors, sums>>

\* A key and its value; a key that comes again has its last value.
ReadPair ==
  /\ reader.at = "kv" /\ reader.left > 0
  /\ Go("kv", reader.left - 1)
  /\ \/ \E k \in CountKeys, v \in Counts \cup {NoNumber} : kv' = [kv EXCEPT ![k] = v]
     \/ \E v \in {0, 1} : kv' = [kv EXCEPT !["architecture"] = v]
     \/ \E v \in Labels : kv' = [kv EXCEPT !["size_label"] = v]
  /\ UNCHANGED <<tensors, sums>>

\* The count of tensors, read before, becomes of use.
StartTensors ==
  /\ reader.at = "kv" /\ reader.left = 0
  /\ \E n \in 0..TensorMax : Go("tensor", n)
  /\ UNCHANGED <<kv, tensors, sums>>

\* return 0, 0.
NoSums == [total |-> 0, exps |-> 0]

\* Too many tensors or dimensions, a string too long, the end of the file.
TableBreaks ==
  /\ reader.at \in {"tensor", "dims"}
  /\ Go("done", 0)
  /\ sums' = NoSums
  /\ UNCHANGED <<kv, tensors>>

\* A name and a number of dimensions.
ReadTensor ==
  /\ reader.at = "tensor" /\ reader.left > 0
  /\ Go("dims", reader.left)
  /\ \E r \in BOOLEAN : tensors' = Append(tensors, [routed |-> r, dims |-> <<>>, elems |-> 1])
  /\ UNCHANGED <<kv, sums>>

ReadDim ==
  LET t == tensors[Len(tensors)] IN
  /\ reader.at = "dims" /\ Len(t.dims) < DimMax
  /\ \E d \in Sizes :
       /\ tensors' = [tensors EXCEPT ![Len(tensors)] =
                        [@ EXCEPT !.dims = Append(t.dims, d), !.elems = (t.elems * d) % Word]]
       /\ IF Wraps(t.elems, d)
            THEN Go("done", 0) /\ sums' = NoSums
            ELSE UNCHANGED <<reader, sums>>
  /\ UNCHANGED kv

\* After type and offset the elements are added, without a look for a wrap.
AddTensor ==
  LET t == tensors[Len(tensors)] IN
  /\ reader.at = "dims"
  /\ Go("tensor", reader.left - 1)
  /\ sums' = [total |-> (sums.total + t.elems) % Word,
              exps |-> IF t.routed THEN (sums.exps + t.elems) % Word ELSE sums.exps]
  /\ UNCHANGED <<kv, tensors>>

ReadDone ==
  /\ reader.at = "tensor" /\ reader.left = 0
  /\ Go("done", 0)
  /\ UNCHANGED <<kv, tensors, sums>>

ReaderNext ==
  \/ ReadCounts \/ Fails \/ ReadPair \/ StartTensors
  \/ TableBreaks \/ ReadTensor \/ ReadDim \/ AddTensor \/ ReadDone

ReaderSpec == ReaderInit /\ [][ReaderNext]_ggufVars

------------------------------------------------------------------------------
(* Properties.                                                             *)

GgufTypeOK ==
  /\ reader.at \in {"magic", "kv", "tensor", "dims", "done", "failed"}
  /\ reader.left \in Nat
  /\ kv \in [Keys -> 0..Word - 1]
  /\ tensors \in Seq([routed: BOOLEAN, dims: Seq(Sizes), elems: 0..Word - 1])
  /\ reader.at = "dims" => tensors # <<>> /\ reader.left > 0
  /\ sums \in [total: 0..Word - 1, exps: 0..Word - 1]

\* What the dimensions multiply to, exactly.
Product(dims) ==
  LET upTo[n \in 0..Len(dims)] == IF n = 0 THEN 1 ELSE upTo[n - 1] * dims[n]
  IN  upTo[Len(dims)]

\* What the tensors of a table add up to, and the routed ones.
Sum(table) ==
  LET upTo[n \in 0..Len(table)] == IF n = 0 THEN 0 ELSE upTo[n - 1] + Product(table[n].dims)
  IN  upTo[Len(table)]

RoutedSum(table) ==
  LET upTo[n \in 0..Len(table)] ==
        IF n = 0 THEN 0
        ELSE upTo[n - 1] + (IF table[n].routed THEN Product(table[n].dims) ELSE 0)
  IN  upTo[Len(table)]

\* "Unknown beats a partial or corrupt number": the sums are those of the
\* whole table or nothing, however the file breaks off, and no product in
\* them has wrapped; the sums themselves may wrap, at 2^64 elements.
SumsExactOrNone ==
  reader.at = "done" /\ sums.total + sums.exps > 0 =>
    /\ \A i \in DOMAIN tensors : Product(tensors[i].dims) < Word
    /\ sums = [total |-> Sum(tensors) % Word, exps |-> RoutedSum(tensors) % Word]

\* The active count is a positive part of the total wherever there is a
\* total, however the keys, the label and the sums contradict each other.
ActiveIsPart ==
  reader.at = "done" =>
    LET total == ParameterCount(kv, sums.total)
        active == ActiveParameterCount(kv, total, sums.exps)
    IN  (total > 0 => active \in 1..total) /\ (total = 0 => active = 0)

\* The counts a model is shown, priced and admitted by: of the whole tensor
\* table modulo the word, or none, and none of them greater than the total
\* (ReadMeta, ActiveParameterCount).
CountsSound == SumsExactOrNone /\ ActiveIsPart
=============================================================================
