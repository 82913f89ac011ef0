----------------------------- MODULE PredictCost -----------------------------
(***************************************************************************)
(* What MASS is told a job costs: jobCost and predictCost, the token       *)
(* estimates under them, and the look-ups of the model's shape in the      *)
(* catalogue, which other requests change meanwhile.                       *)
(*                                                                         *)
(* A job grows part by part before it is priced.  Costs are kept as        *)
(* integers: twelve times the tokens of work (prefillSpeedup is 12), times *)
(* a parameter count in some unit.  Text and tokens have the code's        *)
(* numbers; the vision encoder's are constants, small ones for TLC.        *)
(***************************************************************************)
EXTENDS Integers

CONSTANTS
  MaxPixelTokens, \* visionMaxTokens
  ImageFloor,     \* imageTokensFloor
  ImageDefault,   \* imageTokensDefault
  AudioDefault,   \* audioTokensDefault
  DefaultCap,     \* defaultMaxTokensCap
  FallbackParams, \* fallbackParameterCount
  ActiveParams,   \* what the model's header says its counts are
  TotalParams,
  Patches,        \* patch sizes
  Merges,         \* squared merge sizes
  Side,           \* image sides 0..Side
  Texts,          \* lengths of a text, in bytes
  Caps,           \* max_tokens of a request; 0 when it is absent
  MaxParts        \* parts of a job

ASSUME BudgetAssumption ==
  {MaxPixelTokens, ImageFloor, ImageDefault, AudioDefault, DefaultCap} \subseteq Nat \ {0}
ASSUME ShapeAssumption == Patches \cup Merges \subseteq Nat \ {0}
ASSUME ContentAssumption == Texts \cup Caps \cup {Side, MaxParts} \subseteq Nat

\* A header that gives a total gives an active count (ActiveIsPart of GgufReader).
ASSUME CountsAssumption ==
  ActiveParams \in Nat /\ TotalParams \in Nat /\ (ActiveParams = 0 => TotalParams = 0)

BytesPerToken == 4
PrefillSpeedup == 12

DecodeRatio == 3
MediaDivisor == 2

VARIABLES
  costJob,       \* the job: kind, max_tokens, text bytes, media tokens, parts
  shape,         \* the encoder's patch and merge
  costEntry,     \* the primary's catalogue entry
  header,        \* whether the file's header can be read
  pricing        \* where jobCost is, and what it has looked up

costVars == <<costJob, shape, costEntry, header, pricing>>

Larger(a, b) == IF a >= b THEN a ELSE b
Smaller(a, b) == IF a <= b THEN a ELSE b

------------------------------------------------------------------------------
(* imageTokensFromBytes.                                                   *)

MaxPixels(s) == MaxPixelTokens * s.patch * s.patch * s.merge

\* The largest side whose square, at the image's area, is in budget.
Scaled(side, area, budget) ==
  Larger(1, CHOOSE n \in 0..side :
              n * n * area <= side * side * budget /\ (n + 1) * (n + 1) * area > side * side * budget)

\* clampToMaxPixels; a product that wraps to a negative area is not clamped,
\* but sides a PNG or JPEG may have do not wrap.
Clamp(w, h, budget) ==
  IF w * h <= budget THEN <<w, h>> ELSE <<Scaled(w, w * h, budget), Scaled(h, w * h, budget)>>

\* A side of 0 stands for a header that cannot be read.
ImageTokens(w, h, s) ==
  IF w = 0 \/ h = 0 THEN ImageDefault
  ELSE LET fit == Clamp(w, h, MaxPixels(s))
       IN  Larger(ImageFloor, ((fit[1] \div s.patch) * (fit[2] \div s.patch)) \div s.merge)

------------------------------------------------------------------------------
(* predictCost.                                                            *)

TextTokens(j) == j.bytes \div BytesPerToken

\* jobInputTokens: it knows chat, embed and batch-embed jobs.
InputTokens(j) == IF j.kind \in {"chat", "embed", "batch_embed"} THEN TextTokens(j) + j.media ELSE 0

DecodeBase(j) == TextTokens(j) + j.media \div MediaDivisor

\* Mutant: a reply that would exceed its cap is taken to be as long as the
\* prompt.
PlainDecodePrompt(base, cap) ==
  IF base = 0 THEN cap ELSE IF DecodeRatio * base > cap THEN Smaller(base, cap) ELSE DecodeRatio * base

\* jobExpectedDecodeTokens of a plain model.
PlainDecode(base, cap) == IF base = 0 THEN cap ELSE Smaller(DecodeRatio * base, cap)

Decode(j, thinking) ==
  LET cap == IF j.max > 0 THEN j.max ELSE DefaultCap IN
  IF j.kind # "chat" THEN 0
  ELSE IF thinking THEN cap ELSE PlainDecode(DecodeBase(j), cap)

Work(j, thinking) ==
  IF j.kind = "tokenize" THEN PrefillSpeedup
  ELSE Larger(PrefillSpeedup, InputTokens(j) + PrefillSpeedup * Decode(j, thinking))

Cost(j, count, thinking) == Work(j, thinking) * (IF count = 0 THEN FallbackParams ELSE count)

------------------------------------------------------------------------------
(* The request adds to its job, and the catalogue changes.                 *)

CostInit ==
  /\ costJob = [kind |-> "none", max |-> 0, bytes |-> 0, media |-> 0, parts |-> 0]
  /\ shape = [patch |-> 0, merge |-> 0]
  /\ costEntry = [listed |-> TRUE, total |-> 0, active |-> 0, thinking |-> FALSE]
  /\ header = "readable"
  /\ pricing = [at |-> "composing", count |-> 0, old |-> 0, thinking |-> FALSE, clean |-> TRUE]

\* The entry was parsed before, or by a version that kept the total alone.
Choose ==
  /\ costJob.kind = "none"
  /\ \E k \in {"chat", "batch_chat", "embed", "batch_embed", "tokenize"}, m \in Caps :
       costJob' = [costJob EXCEPT !.kind = k, !.max = m]
  /\ \E p \in Patches, m \in Merges : shape' = [patch |-> p, merge |-> m]
  /\ costEntry' \in {costEntry, [costEntry EXCEPT !.total = TotalParams],
                     [listed |-> TRUE, total |-> TotalParams, active |-> ActiveParams, thinking |-> TRUE]}
  /\ UNCHANGED <<header, pricing>>

More == pricing.at = "composing" /\ costJob.kind # "none" /\ costJob.parts < MaxParts

AddText ==
  /\ More
  /\ \E n \in Texts : costJob' = [costJob EXCEPT !.bytes = @ + n, !.parts = @ + 1]
  /\ UNCHANGED <<shape, costEntry, header, pricing>>

AddImage ==
  /\ More
  /\ costJob.kind = "chat"
  /\ \E w, h \in 0..Side :
       costJob' = [costJob EXCEPT !.media = @ + ImageTokens(w, h, shape), !.parts = @ + 1]
  /\ UNCHANGED <<shape, costEntry, header, pricing>>

AddAudio ==
  /\ More
  /\ costJob.kind = "chat"
  /\ costJob' = [costJob EXCEPT !.media = @ + AudioDefault, !.parts = @ + 1]
  /\ UNCHANGED <<shape, costEntry, header, pricing>>

Underway == pricing.at \notin {"composing", "priced"}

\* A walk prunes the entry; the file is gone or being written.
EntryPruned ==
  /\ Underway /\ costEntry.listed
  /\ costEntry' = [costEntry EXCEPT !.listed = FALSE]
  /\ pricing' = [pricing EXCEPT !.clean = FALSE]
  /\ UNCHANGED <<costJob, shape, header>>

HeaderUnreadable ==
  /\ Underway /\ header = "readable"
  /\ header' = "unreadable"
  /\ pricing' = [pricing EXCEPT !.clean = FALSE]
  /\ UNCHANGED <<costJob, shape, costEntry>>

------------------------------------------------------------------------------
(* jobCost: primaryParameterCount, then primaryThinking.                   *)

Goto(at, count) == pricing' = [pricing EXCEPT !.at = at, !.count = count]

Submit ==
  /\ pricing.at = "composing" /\ costJob.kind # "none"
  /\ Goto("count", 0)
  /\ UNCHANGED <<costJob, shape, costEntry, header>>

\* Mutant: an entry with a total is not parsed again.
KnownCount == costEntry.active + costEntry.total

\* The count that spares the file another look.
CountKept == costEntry.active

\* parameterCount: an entry without an active count is parsed again.
Count ==
  /\ pricing.at = "count"
  /\ IF ~costEntry.listed THEN Goto("thinking", 0)
     ELSE IF CountKept > 0 THEN Goto("thinking", CountKept)
     ELSE pricing' = [pricing EXCEPT !.at = "backfill", !.old = costEntry.total]
  /\ UNCHANGED <<costJob, shape, costEntry, header>>

\* parseModelInfo fills in both counts and the capabilities.
Backfill ==
  /\ pricing.at = "backfill"
  /\ IF header = "readable" /\ costEntry.listed
       THEN /\ costEntry' = [costEntry EXCEPT !.total = TotalParams, !.active = ActiveParams, !.thinking = TRUE]
            /\ Goto("recount", 0)
       ELSE /\ Goto("thinking", pricing.old)
            /\ UNCHANGED costEntry
  /\ UNCHANGED <<costJob, shape, header>>

Recount ==
  /\ pricing.at = "recount"
  /\ Goto("thinking", IF ~costEntry.listed THEN 0
                      ELSE IF costEntry.active > 0 THEN costEntry.active ELSE costEntry.total)
  /\ UNCHANGED <<costJob, shape, costEntry, header>>

Thinking ==
  /\ pricing.at = "thinking"
  /\ pricing' = [pricing EXCEPT !.at = "priced",
                   !.thinking = costEntry.listed /\ costEntry.thinking]
  /\ UNCHANGED <<costJob, shape, costEntry, header>>

CostNext ==
  \/ Choose \/ AddText \/ AddImage \/ AddAudio
  \/ EntryPruned \/ HeaderUnreadable
  \/ Submit \/ Count \/ Backfill \/ Recount \/ Thinking

CostSpec == CostInit /\ [][CostNext]_costVars

------------------------------------------------------------------------------
(* Properties.                                                             *)

CostTypeOK ==
  /\ costJob.bytes \in Nat /\ costJob.media \in Nat /\ costJob.parts \in 0..MaxParts
  /\ costEntry \in [listed: BOOLEAN, total: {0, TotalParams}, active: {0, ActiveParams}, thinking: BOOLEAN]
  /\ pricing.count \in {0, ActiveParams, TotalParams}

\* A job is priced at the active count and with the thinking flag the header
\* gives, also when the catalogue did not have them yet, unless the file or
\* its entry went away under it.
PricedInFull ==
  pricing.at = "priced" /\ pricing.clean => pricing.count = ActiveParams /\ pricing.thinking

\* More content never makes a job cheaper, but for the first content of an
\* empty chat, which the code prices at its cap.
CostGrows ==
  [][costJob'.parts > costJob.parts /\ (costJob.kind = "chat" => DecodeBase(costJob) > 0)
       => \A thinking \in BOOLEAN : Work(costJob, thinking) <= Work(costJob', thinking)]_costVars

\* A thinking model is never priced below a plain one.
ThinkingDearest == Work(costJob, FALSE) <= Work(costJob, TRUE)

\* An image over the budget that the resize would leave no pixel wide or
\* high, and leaves one, at an encoder whose patches are pixels.
Sliver(w, h, s) ==
  LET fit == Clamp(w, h, MaxPixels(s))
  IN  s.patch = 1 /\ w * h > MaxPixels(s) /\ (fit[1] = 1 \/ fit[2] = 1)

\* No image, however large, is priced above what the encoder's resize leaves
\* of it (which depends on the encoder alone, so an empty chat will do),
\* unless it is a sliver, which the code rounds up out of the budget.
ImageInBudget ==
  costJob.kind = "chat" /\ costJob.parts = 0 =>
    \A w, h \in 1..Side :
      Sliver(w, h, shape) \/ ImageTokens(w, h, shape) <= Larger(ImageFloor, MaxPixelTokens)

\* Prices are in order: by content, by kind of model, within the budget.
PricesSound == CostGrows /\ [](ThinkingDearest /\ ImageInBudget)
=============================================================================
