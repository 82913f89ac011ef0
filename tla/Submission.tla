----------------------------- MODULE Submission ------------------------------
(***************************************************************************)
(* How a request becomes a scheduled job, by every front end the gateway   *)
(* has: typed HTTP, typed gRPC, gRPC ChatStream, the OpenAI shim and       *)
(* AuthorBenchPayload.  Model id, payload, load hints, files, priority,    *)
(* headroom and source are what MASS and the workers get to see of it.     *)
(*                                                                         *)
(* Two calls are made, one after the other, over a catalogue that rests    *)
(* (module GroupIds has one that changes).  An encoding keeps presence, so *)
(* a payload is the record that is encoded; a digest is what it digests.   *)
(* "none" is the empty string.                                             *)
(***************************************************************************)
EXTENDS Integers, Sequences, FiniteSets, SequencesExt

CONSTANTS
  Paths,         \* catalogued files: <<directory, name>>
  TypeOf,        \* [Paths -> {"chat", "embedding", "mmproj"}]
  Projector,     \* name of the projector in the group of a file, or "none"
  Published,     \* published ids: [Paths -> <<slug, name>>]
  Configs,       \* load overrides a request may carry
  Contents       \* the rest of it: sampling; a message, by its role and the
                 \* parts beside its text; inputs; x-mass-source

\* The ids of a catalogue at rest name no file but their own (module GroupIds).
ASSUME CatalogueAssumption ==
  /\ TypeOf \in [Paths -> {"chat", "embedding", "mmproj"}]
  /\ \A p \in Paths : p = <<p[1], p[2]>>
  /\ \A p \in Paths : Published[p] \in Paths => Published[p] = p

\* The parts of a request that are told apart.
ASSUME WishAssumption ==
  /\ \A c \in Configs : c = [gpu |-> c.gpu, headroom |-> c.headroom, mmproj |-> c.mmproj, cache |-> c.cache]
  /\ \A c \in Contents :
       /\ c = [sampling |-> c.sampling, role |-> c.role, parts |-> c.parts,
               inputs |-> c.inputs, source |-> c.source]
       /\ c.sampling = [temperature |-> c.sampling.temperature, thinking |-> c.sampling.thinking]
       /\ c.sampling.thinking \in BOOLEAN
       /\ c.inputs \in Seq(ToSet(c.inputs))

NotSet == -1
NoPath == <<>>
Outside == <<"..">>
Stranger == <<"other", "z">>
NoConfig == [gpu |-> NotSet, headroom |-> NotSet, mmproj |-> "none", cache |-> "none"]

Kinds == {"chat", "batch_chat", "embed", "batch_embed", "tokenize"}
Refs == Paths \cup { Published[p] : p \in Paths } \cup {Stranger, NoPath, Outside}

VARIABLES
  call,          \* requests handled: front end, wish, answer
  orders         \* what each has scheduled, or NoOrder

submissionVars == <<call, orders>>

NoOrder == [id |-> <<>>, job |-> <<>>, hints |-> <<>>, files |-> <<>>,
            low |-> FALSE, headroom |-> 0, source |-> "none"]

------------------------------------------------------------------------------
(* Paths and ids.                                                          *)

\* ResolveModelPath and storePathForID: empty, absolute and ".." paths are
\* refused; a published id becomes the physical path, others pass.
Resolve(ref) ==
  IF ref \in {NoPath, Outside} THEN NoPath
  ELSE IF \E p \in Paths : Published[p] = ref THEN CHOOSE p \in Paths : Published[p] = ref
  ELSE ref

\* model.ID: the path and a digest of the hints.
ModelId(path, hints) == <<path, hints>>

\* "gguf" before the path.
StoreKey(path) == <<"gguf", path[1], path[2]>>

------------------------------------------------------------------------------
(* Conversions of the front ends.                                          *)

\* Mutant: zero is taken for absent.
OmitsZero(v) == IF v = 0 THEN NotSet ELSE v

\* optionalPtr.
OptionalPtr(v) == v

\* Mutant: filepath.Base, of the empty name too.
BaseName(name) == IF name = "none" THEN "." ELSE name

\* mmprojBaseFromProto, for bare names.
MmprojBase(name) == IF name = "none" THEN "none" ELSE BaseName(name)

\* The cache types either front end can name; others are dropped.
CacheType(t) == IF t \in {"f16", "q8_0", "q4_0"} THEN t ELSE "none"

ConfigFromOverride(c) ==
  [gpu |-> OptionalPtr(c.gpu), headroom |-> OptionalPtr(c.headroom),
   mmproj |-> MmprojBase(c.mmproj), cache |-> CacheType(c.cache)]

\* samplingFromProto and the bodies of the HTTP requests.
SamplingFromProto(s) == [temperature |-> OptionalPtr(s.temperature), thinking |-> s.thinking]

ConvertSampling(s) == s

\* convertParts: parts of an unknown type are dropped.
ConvertParts(parts) == SelectSeq(parts, LAMBDA p : p \in {"text", "image", "audio"})

\* openAIChatRequest: it has no enable_thinking, and json.Unmarshal skips
\* what it does not know; top_k, min_p and repeat_penalty fare alike.
OpenAISampling(s) == [s EXCEPT !.thinking = FALSE]

\* parseRole after roleFromProto.
Role(r) == IF r \in {"system", "user", "assistant", "tool"} THEN r ELSE "unspecified"

Messages(content) == [role |-> Role(content.role), parts |-> ConvertParts(content.parts)]

\* normaliseEmbedInput.
EmbedInputs(inputs) ==
  LET kept == { i \in DOMAIN inputs : inputs[i] # "none" }
      Nth(n) == CHOOSE i \in kept : Cardinality({ j \in kept : j <= i }) = n
  IN  [n \in 1..Cardinality(kept) |-> inputs[Nth(n)]]

------------------------------------------------------------------------------
(* Jobs and load artifacts.                                                *)

\* The job of a typed request; a batch has an item for every input.
Job(kind, content, sampling) ==
  CASE kind = "chat"        -> [kind |-> kind, body |-> <<Messages(content), sampling>>]
    [] kind = "batch_chat"  -> [kind |-> kind, body |-> [i \in DOMAIN content.inputs |-> <<Messages(content), sampling>>]]
    [] kind = "batch_embed" -> [kind |-> kind, body |-> content.inputs]
    [] OTHER                -> [kind |-> kind, body |-> Head(content.inputs \o <<"none">>)]

LoadKind(kind) == IF kind \in {"embed", "batch_embed"} THEN "embedding" ELSE "chat"

\* companionMmprojPath: a projector has none of its own.
Companion(path) ==
  IF path \in Paths /\ TypeOf[path] # "mmproj" THEN Projector[path] ELSE "none"

\* Which projector is loaded: the request's, or the sibling for a chat.
Mmproj(path, cfg, load) ==
  IF cfg.mmproj # "none" THEN cfg.mmproj ELSE IF load = "chat" THEN Companion(path) ELSE "none"

\* Mutant: the hints are built before the projector is looked for.
LoadHintsEarly(cfg, load, mmproj) ==
  [kind |-> load, gpu |-> cfg.gpu, headroom |-> cfg.headroom, cache |-> CacheType(cfg.cache),
   mmproj |-> cfg.mmproj]

LoadHints(cfg, load, mmproj) ==
  [kind |-> load, gpu |-> cfg.gpu, headroom |-> cfg.headroom, cache |-> CacheType(cfg.cache),
   mmproj |-> mmproj]

LoadFiles(path, mmproj) ==
  <<[role |-> "primary", name |-> StoreKey(path)]>>
    \o IF mmproj = "none" THEN <<>> ELSE <<[role |-> "mmproj", name |-> StoreKey(<<path[1], mmproj>>)]>>

\* The files of a bench: "the primary plus every companion".
BenchFiles(path, load) == LoadFiles(path, Mmproj(path, NoConfig, load))

\* buildLoadArtifacts.
Hints(path, cfg, load) == LoadHints(cfg, load, Mmproj(path, cfg, load))

\* sourceFromContext: a blank value is none.
Source(s) == IF s \in {"none", " "} THEN "direct" ELSE s

HeadroomPct(hints) == IF hints.headroom > 0 THEN hints.headroom ELSE 0

\* buildScheduleParams, for a model at path.
Params(id, job, path, cfg, load, source) ==
  [id |-> id, job |-> job,
   hints |-> Hints(path, cfg, load),
   files |-> LoadFiles(path, Mmproj(path, cfg, load)),
   low |-> job.kind \in {"batch_chat", "batch_embed"},
   headroom |-> HeadroomPct(Hints(path, cfg, load)),
   source |-> Source(source)]

------------------------------------------------------------------------------

SubmissionInit ==
  /\ call = <<>>
  /\ orders = <<>>

Reply(front, w, code, o) ==
  /\ call' = Append(call, [front |-> front, wish |-> w, code |-> code])
  /\ orders' = Append(orders, o)

Refused(front, w, code) == Reply(front, w, code, NoOrder)

\* SubmitOnly or ScheduleWithID: MASS takes the job, or fails.
Scheduled(front, w, o) ==
  \/ Reply(front, w, "ok", o)
  \/ Refused(front, w, "internal")

\* submit with the builders of handlers.go.  A plain chat hashes the hints
\* before buildLoadArtifacts adds the projector.
SubmitHTTP(w) ==
  LET path == Resolve(w.ref)
      load == LoadKind(w.kind)
      hashed == IF w.kind = "chat" THEN LoadHints(w.cfg, load, "none") ELSE Hints(path, w.cfg, load)
      job == Job(w.kind, w.content, ConvertSampling(w.content.sampling))
  IN  /\ IF w.kind = "batch_chat" /\ (w.content.inputs = <<>> \/ path = NoPath)
           THEN Refused("http", w, "internal")
         ELSE IF path = NoPath THEN Refused("http", w, "bad_request")
         ELSE Scheduled("http", w, Params(ModelId(path, hashed), job, path, w.cfg, load, w.content.source))

\* submitJob with the builders of grpc.go.
SubmitGRPC(w) ==
  LET path == Resolve(w.ref)
      load == LoadKind(w.kind)
      cfg == ConfigFromOverride(w.cfg)
      job == Job(w.kind, w.content, ConvertSampling(SamplingFromProto(w.content.sampling)))
  IN  /\ IF path = NoPath \/ (w.kind = "batch_chat" /\ w.content.inputs = <<>>)
           THEN Refused("grpc", w, "bad_request")
           ELSE Scheduled("grpc", w, Params(ModelId(path, Hints(path, cfg, load)), job, path, cfg, load, w.content.source))

\* ChatStream takes the id from the path as it was asked for.
ChatStream(w) ==
  LET path == Resolve(w.ref)
      cfg == ConfigFromOverride(w.cfg)
      job == Job("chat", w.content, ConvertSampling(SamplingFromProto(w.content.sampling)))
  IN  /\ w.kind = "chat"
      /\ IF path = NoPath
           THEN Refused("stream", w, "bad_request")
           ELSE Scheduled("stream", w, Params(ModelId(w.ref, Hints(path, cfg, "chat")), job, path, cfg, "chat", w.content.source))

\* handleOpenAIChat: no overrides; a message is a role and a string, so
\* parts, which the shape has as an array for the string, do not parse.
SubmitOpenAIChat(w) ==
  LET path == Resolve(w.ref)
      job == Job("chat", w.content, OpenAISampling(w.content.sampling))
  IN  /\ w.kind = "chat" /\ w.cfg = NoConfig
      /\ IF w.content.parts # <<>> \/ path = NoPath
           THEN Refused("openai", w, "bad_request")
           ELSE Scheduled("openai", w, Params(ModelId(path, Hints(path, NoConfig, "chat")), job, path, NoConfig, "chat", w.content.source))

\* handleOpenAIEmbed: one input that is not blank is an embedding of its
\* own, more are a batch.
SubmitOpenAIEmbed(w) ==
  LET path == Resolve(w.ref)
      inputs == EmbedInputs(w.content.inputs)
      kind == IF Len(inputs) = 1 THEN "embed" ELSE "batch_embed"
      job == Job(kind, [w.content EXCEPT !.inputs = inputs], w.content.sampling)
  IN  /\ w.kind \in {"embed", "batch_embed"} /\ w.cfg = NoConfig
      /\ IF path = NoPath \/ inputs = <<>>
           THEN Refused("openai", w, "bad_request")
           ELSE Scheduled("openai", w, Params(ModelId(path, Hints(path, NoConfig, "embedding")), job, path, NoConfig, "embedding", w.content.source))

\* AuthorBenchPayload writes a job of its own, which is not scheduled here.
AuthorBench(w) ==
  LET path == Resolve(w.ref)
      load == TypeOf[path]
  IN  /\ w.kind = "chat" /\ w.cfg = NoConfig
      /\ IF path = NoPath THEN Refused("bench", w, "bad_request")
         ELSE IF path \notin Paths THEN Refused("bench", w, "not_found")
         ELSE IF load = "mmproj" THEN Refused("bench", w, "bad_request")
         ELSE Reply("bench", w, "ok",
                [NoOrder EXCEPT !.hints = Hints(path, NoConfig, load),
                                !.files = BenchFiles(path, load)])

Wishes == [kind: Kinds, ref: Refs, cfg: Configs, content: Contents]

\* A bound: two calls, of one content, the second after one that scheduled
\* something.
SubmissionNext ==
  /\ Len(call) < 2
  /\ \E w \in Wishes :
       /\ call # <<>> => call[1].code = "ok" /\ w.content = call[1].wish.content
       /\ \/ SubmitHTTP(w) \/ SubmitGRPC(w) \/ ChatStream(w)
          \/ SubmitOpenAIChat(w) \/ SubmitOpenAIEmbed(w) \/ AuthorBench(w)

SubmissionSpec == SubmissionInit /\ [][SubmissionNext]_submissionVars

------------------------------------------------------------------------------
(* Properties.                                                             *)

SubmissionTypeOK ==
  /\ Len(call) = Len(orders) /\ Len(call) <= 2
  /\ \A n \in DOMAIN call :
       /\ call[n].front \in {"http", "grpc", "stream", "openai", "bench"}
       /\ call[n].code \in {"ok", "bad_request", "not_found", "internal"}

Accepted(n) == n \in DOMAIN call /\ call[n].code = "ok"
Both == Accepted(1) /\ Accepted(2)
Submits(n) == Accepted(n) /\ call[n].front # "bench"

\* An OpenAI call has a typed counterpart when it asks for no thinking, none
\* of its inputs is blank, and their number fits the kind.
Comparable(n) ==
  LET w == call[n].wish IN
  call[n].front = "openai" =>
    IF w.kind = "chat" THEN ~w.content.sampling.thinking
    ELSE /\ \A i \in DOMAIN w.content.inputs : w.content.inputs[i] # "none"
         /\ (w.kind = "embed") = (Len(w.content.inputs) = 1)

\* "The typed gRPC API and the typed HTTP/JSON API serve from one source of
\* truth": one wish is the same job, at the same priority, whichever front
\* end it comes by, OpenAI's shape so far as it can say it.
FrontEndsAgree ==
  Submits(1) /\ Submits(2) /\ call[1].wish = call[2].wish /\ Comparable(1) /\ Comparable(2)
    => [orders[1] EXCEPT !.id = <<>>] = [orders[2] EXCEPT !.id = <<>>]

\* What a client omitted stays absent, and an explicit zero is passed on; no
\* field is lost but the ones OpenAI's shape has not.
PresenceKept ==
  \A n \in DOMAIN call :
    Submits(n) /\ orders[n].job.kind = "chat" =>
      /\ orders[n].job.body[2].temperature = call[n].wish.content.sampling.temperature
      /\ orders[n].job.body[2].thinking =
           (call[n].wish.content.sampling.thinking /\ call[n].front # "openai")
      /\ orders[n].hints.gpu = call[n].wish.cfg.gpu

\* The hints name exactly the projector that is shipped beside the primary:
\* a worker that is told of a file it was not given fails the load.
HintsNameFiles ==
  \A n \in DOMAIN call :
    Accepted(n) =>
      /\ orders[n].files[1].name = StoreKey(Resolve(call[n].wish.ref))
      /\ { orders[n].files[i].name : i \in 2..Len(orders[n].files) } =
           IF orders[n].hints.mmproj = "none" THEN {}
           ELSE { StoreKey(<<Resolve(call[n].wish.ref)[1], orders[n].hints.mmproj>>) }

\* The bench loads the model just as jobs without overrides do.
BenchLoadsAlike ==
  Both /\ call[1].front = "bench" /\ call[2].wish.cfg = NoConfig
       /\ Resolve(call[1].wish.ref) = Resolve(call[2].wish.ref)
       /\ orders[2].hints.kind = orders[1].hints.kind
    => orders[1].hints = orders[2].hints /\ orders[1].files = orders[2].files

\* Calls with one model id are for one instance, at least but for the
\* projector, so no call is served under another's overrides; and where the
\* hints are hashed as they are sent, one instance has one id.  A plain HTTP
\* chat hashes them without the projector, ChatStream the path as asked for.
IdNamesLoad ==
  Submits(1) /\ Submits(2) =>
    LET blind(n) == [orders[n].hints EXCEPT !.mmproj = "none"]
        alike == orders[1].files[1] = orders[2].files[1] /\ blind(1) = blind(2)
        same == alike /\ orders[1].hints = orders[2].hints
        odd(n) == call[n].front = "stream" \/ (call[n].front = "http" /\ call[n].wish.kind = "chat")
    IN  /\ orders[1].id = orders[2].id => alike
        /\ ~odd(1) /\ ~odd(2) => (orders[1].id = orders[2].id) = same

\* A request is refused as the client's fault just when it is; HTTP batch
\* chats, whose errors carry no status, are answered as the gateway's.
RefusedForCause ==
  \A n \in DOMAIN call :
    LET w == call[n].wish
        void == \/ w.ref \in {NoPath, Outside}
                \/ w.kind = "batch_chat" /\ w.content.inputs = <<>>
                \/ call[n].front = "openai" /\ w.kind = "chat" /\ w.content.parts # <<>>
                \/ call[n].front = "openai" /\ w.kind # "chat" /\ EmbedInputs(w.content.inputs) = <<>>
                \/ call[n].front = "bench" /\ Resolve(w.ref) \in { p \in Paths : TypeOf[p] = "mmproj" }
    IN  /\ void => ~Accepted(n)
        /\ call[n].front # "http" \/ w.kind # "batch_chat" => (call[n].code = "bad_request") = void

\* Whichever way it comes, a request is the job its client wished for, or
\* is refused for a cause.
SubmittedAsWished == FrontEndsAgree /\ PresenceKept /\ RefusedForCause

\* A model id, its hints and the files sent with it describe one load, for
\* jobs and for the bench.
LoadsAsNamed == HintsNameFiles /\ BenchLoadsAlike /\ IdNamesLoad
=============================================================================
