--------------------------- MODULE RequestProofs ----------------------------
(***************************************************************************)
(* Proofs about what job a request becomes, whichever front end it comes   *)
(* by (Submission), what it is priced at (PredictCost) and what the        *)
(* readers of its result are told (JobResults).                            *)
(***************************************************************************)
EXTENDS PredictCost, JobResults, Submission, WellFoundedInduction,
        FiniteSetTheorems, SequenceTheorems, TLAPS

(***************************************************************************)
(* Submission, for every catalogue at rest and every request.              *)
(***************************************************************************)

CallsMade == [front: {"http", "grpc", "stream", "openai", "bench"}, wish: Wishes,
              code: {"ok", "bad_request", "not_found", "internal"}]

Called(front, w, code) == [front |-> front, wish |-> w, code |-> code]

\* What a front end offers.
May(c) ==
  /\ c.front \in {"stream", "bench"} => c.wish.kind = "chat"
  /\ c.front = "openai" => c.wish.kind \in {"chat", "embed", "batch_embed"}
  /\ c.front \in {"openai", "bench"} => c.wish.cfg = NoConfig

\* What is the client's fault.
Void(c) ==
  \/ c.wish.ref \in {NoPath, Outside}
  \/ c.wish.kind = "batch_chat" /\ c.wish.content.inputs = <<>>
  \/ c.front = "openai" /\ c.wish.kind = "chat" /\ c.wish.content.parts # <<>>
  \/ c.front = "openai" /\ c.wish.kind # "chat" /\ EmbedInputs(c.wish.content.inputs) = <<>>
  \/ c.front = "bench" /\ Resolve(c.wish.ref) \in { p \in Paths : TypeOf[p] = "mmproj" }

\* The job, the id and the order of a call, told by its front end and wish.
ShimKind(w) == IF Len(EmbedInputs(w.content.inputs)) = 1 THEN "embed" ELSE "batch_embed"

JobOf(c) ==
  IF c.front # "openai" THEN Job(c.wish.kind, c.wish.content, c.wish.content.sampling)
  ELSE IF c.wish.kind = "chat" THEN Job("chat", c.wish.content, OpenAISampling(c.wish.content.sampling))
  ELSE Job(ShimKind(c.wish), [c.wish.content EXCEPT !.inputs = EmbedInputs(c.wish.content.inputs)],
           c.wish.content.sampling)

IdOf(c) ==
  << IF c.front = "stream" THEN c.wish.ref ELSE Resolve(c.wish.ref),
     IF c.front = "http" /\ c.wish.kind = "chat"
       THEN LoadHints(c.wish.cfg, LoadKind(c.wish.kind), "none")
       ELSE Hints(Resolve(c.wish.ref), c.wish.cfg, LoadKind(c.wish.kind)) >>

OrderOf(c) ==
  IF c.front = "bench"
    THEN [NoOrder EXCEPT !.hints = Hints(Resolve(c.wish.ref), NoConfig, TypeOf[Resolve(c.wish.ref)]),
                         !.files = BenchFiles(Resolve(c.wish.ref), TypeOf[Resolve(c.wish.ref)])]
    ELSE Params(IdOf(c), JobOf(c), Resolve(c.wish.ref), c.wish.cfg, LoadKind(c.wish.kind),
                c.wish.content.source)

Orders == {NoOrder} \cup { OrderOf(c) : c \in CallsMade }

\* The order fits the call, and the code its fault.
Fits(c, o) ==
  /\ May(c)
  /\ c.code = "ok" => /\ ~Void(c) /\ o = OrderOf(c)
                      /\ c.front = "bench" => Resolve(c.wish.ref) \in Paths
  /\ c.front # "http" \/ c.wish.kind # "batch_chat" => (c.code = "bad_request" <=> Void(c))

SubmissionInv ==
  /\ call \in Seq(CallsMade) /\ orders \in Seq(Orders)
  /\ Len(call) = Len(orders) /\ Len(call) <= 2
  /\ \A n \in DOMAIN call : Fits(call[n], orders[n])

\* A reference that resolves is a catalogued file, or one of no published id.
LEMMA Resolves ==
  ASSUME NEW ref
  PROVE  /\ Resolve(ref) = NoPath <=> ref \in {NoPath, Outside}
         /\ ref \notin {NoPath, Outside} =>
              \/ Resolve(ref) \in Paths /\ Published[Resolve(ref)] = ref
              \/ Resolve(ref) = ref /\ \A p \in Paths : Published[p] # ref
<1>1. NoPath \notin Paths
  <2> SUFFICES ASSUME NEW p \in Paths
               PROVE  p # NoPath
    OBVIOUS
  <2>1. p = <<p[1], p[2]>> /\ Len(<<p[1], p[2]>>) = 2 /\ Len(NoPath) = 0
    BY CatalogueAssumption DEF NoPath
  <2>2. QED
    BY <2>1
<1>2. CASE ref \in {NoPath, Outside}
  BY <1>2 DEF Resolve
<1>3. CASE ref \notin {NoPath, Outside} /\ \E p \in Paths : Published[p] = ref
  <2>1. Resolve(ref) = CHOOSE p \in Paths : Published[p] = ref
    BY <1>3, Zenon DEF Resolve
  <2>2. Resolve(ref) \in Paths /\ Published[Resolve(ref)] = ref
    BY <1>3, <2>1, Zenon
  <2>3. QED
    BY <1>1, <1>3, <2>2
<1>4. CASE ref \notin {NoPath, Outside} /\ ~\E p \in Paths : Published[p] = ref
  <2>1. Resolve(ref) = ref
    BY <1>4 DEF Resolve
  <2>2. QED
    BY <1>4, <2>1
<1>5. QED
  BY <1>2, <1>3, <1>4

\* What an override says of the load, gRPC says as HTTP does.
LEMMA OverridesAgree ==
  ASSUME NEW cfg \in Configs, NEW path, NEW load
  PROVE  /\ Hints(path, ConfigFromOverride(cfg), load) = Hints(path, cfg, load)
         /\ Mmproj(path, ConfigFromOverride(cfg), load) = Mmproj(path, cfg, load)
         /\ ConfigFromOverride(cfg).mmproj = cfg.mmproj
<1> DEFINE same == ConfigFromOverride(cfg)
<1>1. MmprojBase(cfg.mmproj) = cfg.mmproj
  BY DEF MmprojBase, BaseName
<1>2. CacheType(CacheType(cfg.cache)) = CacheType(cfg.cache)
  BY DEF CacheType
<1>3. /\ same.gpu = cfg.gpu /\ same.headroom = cfg.headroom /\ same.mmproj = cfg.mmproj
      /\ same.cache = CacheType(cfg.cache)
  BY <1>1 DEF ConfigFromOverride, OptionalPtr
<1> HIDE DEF same
<1>4. Mmproj(path, same, load) = Mmproj(path, cfg, load)
  BY <1>3 DEF Mmproj
<1>5. Hints(path, same, load) = Hints(path, cfg, load)
  BY <1>2, <1>3, <1>4 DEF Hints, LoadHints
<1>6. QED
  BY <1>3, <1>4, <1>5 DEF same

\* The orders of both are one.
LEMMA ParamsAgree ==
  ASSUME NEW cfg \in Configs, NEW id, NEW job, NEW path, NEW load, NEW source
  PROVE  Params(id, job, path, ConfigFromOverride(cfg), load, source) = Params(id, job, path, cfg, load, source)
BY OverridesAgree DEF Params

LEMMA SamplingAgrees ==
  ASSUME NEW c \in Contents
  PROVE  /\ ConvertSampling(SamplingFromProto(c.sampling)) = c.sampling
         /\ ConvertSampling(c.sampling) = c.sampling
BY WishAssumption DEF ConvertSampling, SamplingFromProto, OptionalPtr

\* A call is answered.
Landed(c, o) ==
  /\ call' = Append(call, c) /\ orders' = Append(orders, o)
  /\ c \in CallsMade /\ o \in Orders /\ Fits(c, o)

LEMMA RefusalLands ==
  ASSUME NEW front \in {"http", "grpc", "stream", "openai", "bench"}, NEW w \in Wishes,
         NEW code \in {"bad_request", "not_found", "internal"}, Refused(front, w, code),
         May(Called(front, w, code)),
         front # "http" \/ w.kind # "batch_chat" => (code = "bad_request" <=> Void(Called(front, w, code)))
  PROVE  \E c, o : Landed(c, o)
<1> DEFINE c == Called(front, w, code)
<1>1. c \in CallsMade /\ c.front = front /\ c.wish = w /\ c.code = code
  BY DEF CallsMade, Called
<1>2. call' = Append(call, c) /\ orders' = Append(orders, NoOrder)
  BY DEF Refused, Reply, Called
<1> HIDE DEF c
<1>3. May(c) /\ (front # "http" \/ w.kind # "batch_chat" => (code = "bad_request" <=> Void(c)))
  BY DEF c
<1>4. Fits(c, NoOrder)
  BY <1>1, <1>3 DEF Fits
<1>5. NoOrder \in Orders
  BY DEF Orders
<1>6. QED
  BY <1>1, <1>2, <1>4, <1>5 DEF Landed

LEMMA OrderLands ==
  ASSUME NEW front \in {"http", "grpc", "stream", "openai", "bench"}, NEW w \in Wishes, NEW o,
         Reply(front, w, "ok", o), o = OrderOf(Called(front, w, "ok")),
         May(Called(front, w, "ok")), ~Void(Called(front, w, "ok")),
         front = "bench" => Resolve(w.ref) \in Paths
  PROVE  \E c, d : Landed(c, d)
<1> DEFINE c == Called(front, w, "ok")
<1>1. c \in CallsMade /\ c.front = front /\ c.wish = w /\ c.code = "ok"
  BY DEF CallsMade, Called
<1>2. call' = Append(call, c) /\ orders' = Append(orders, o)
  BY DEF Reply, Called
<1> HIDE DEF c
<1>3. May(c) /\ ~Void(c) /\ o = OrderOf(c)
  BY DEF c
<1>4. Fits(c, o)
  BY <1>1, <1>3 DEF Fits
<1>5. o \in Orders
  BY <1>1, <1>3 DEF Orders
<1>6. QED
  BY <1>1, <1>2, <1>4, <1>5 DEF Landed

\* A job is taken, or MASS fails.
LEMMA ScheduledLands ==
  ASSUME NEW front \in {"http", "grpc", "stream", "openai"}, NEW w \in Wishes, NEW o,
         Scheduled(front, w, o), o = OrderOf(Called(front, w, "ok")),
         \A code : May(Called(front, w, code)) /\ ~Void(Called(front, w, code))
  PROVE  \E c, d : Landed(c, d)
<1>1. CASE Reply(front, w, "ok", o)
  <2>1. May(Called(front, w, "ok")) /\ ~Void(Called(front, w, "ok")) /\ front # "bench"
    OBVIOUS
  <2>2. QED
    BY <1>1, <2>1, OrderLands
<1>2. CASE Refused(front, w, "internal")
  BY <1>2, RefusalLands
<1>3. QED
  BY <1>1, <1>2 DEF Scheduled

\* Each front end answers every wish.
LEMMA HTTPLands ==
  ASSUME NEW w \in Wishes, SubmitHTTP(w)
  PROVE  \E c, o : Landed(c, o)
<1> DEFINE path == Resolve(w.ref)
           load == LoadKind(w.kind)
           empty == w.kind = "batch_chat" /\ w.content.inputs = <<>>
           hashed == IF w.kind = "chat" THEN LoadHints(w.cfg, load, "none") ELSE Hints(path, w.cfg, load)
           o == Params(ModelId(path, hashed), Job(w.kind, w.content, ConvertSampling(w.content.sampling)),
                       path, w.cfg, load, w.content.source)
<1>1. /\ \A code : May(Called("http", w, code))
      /\ \A code : Void(Called("http", w, code)) <=> path = NoPath \/ empty
  BY Resolves DEF May, Void, Called
<1>2. o = OrderOf(Called("http", w, "ok"))
  <2>1. w.content \in Contents /\ ConvertSampling(w.content.sampling) = w.content.sampling
    BY SamplingAgrees DEF Wishes
  <2>2. QED
    BY <2>1 DEF OrderOf, IdOf, JobOf, ModelId, Called
<1>3. IF w.kind = "batch_chat" /\ (w.content.inputs = <<>> \/ path = NoPath)
        THEN Refused("http", w, "internal")
      ELSE IF path = NoPath THEN Refused("http", w, "bad_request")
      ELSE Scheduled("http", w, o)
  BY Zenon DEF SubmitHTTP
<1> HIDE DEF path, load, hashed, o
<1>4. CASE w.kind = "batch_chat" /\ (w.content.inputs = <<>> \/ path = NoPath)
  <2>1. Refused("http", w, "internal")
    BY <1>3, <1>4
  <2>2. QED
    BY <1>1, <1>4, <2>1, RefusalLands
<1>5. CASE w.kind # "batch_chat" /\ path = NoPath
  <2>1. Refused("http", w, "bad_request")
    BY <1>3, <1>5
  <2>2. QED
    BY <1>1, <1>5, <2>1, RefusalLands
<1>6. CASE ~empty /\ path # NoPath
  <2>1. Scheduled("http", w, o)
    BY <1>3, <1>6
  <2>2. QED
    BY <1>1, <1>2, <1>6, <2>1, ScheduledLands
<1>7. QED
  BY <1>4, <1>5, <1>6

LEMMA GRPCLands ==
  ASSUME NEW w \in Wishes, SubmitGRPC(w)
  PROVE  \E c, o : Landed(c, o)
<1> DEFINE path == Resolve(w.ref)
           load == LoadKind(w.kind)
           cfg == ConfigFromOverride(w.cfg)
           empty == w.kind = "batch_chat" /\ w.content.inputs = <<>>
           job == Job(w.kind, w.content, ConvertSampling(SamplingFromProto(w.content.sampling)))
           o == Params(ModelId(path, Hints(path, cfg, load)), job, path, cfg, load, w.content.source)
<1>1. /\ \A code : May(Called("grpc", w, code))
      /\ \A code : Void(Called("grpc", w, code)) <=> path = NoPath \/ empty
  BY Resolves DEF May, Void, Called
<1>2. o = OrderOf(Called("grpc", w, "ok"))
  <2>1. /\ w.content \in Contents /\ w.cfg \in Configs
        /\ ConvertSampling(SamplingFromProto(w.content.sampling)) = w.content.sampling
    BY SamplingAgrees DEF Wishes
  <2>2. Hints(path, cfg, load) = Hints(path, w.cfg, load)
    BY <2>1, OverridesAgree
  <2>3. o = Params(ModelId(path, Hints(path, w.cfg, load)), job, path, w.cfg, load, w.content.source)
    BY <2>1, <2>2, ParamsAgree
  <2>4. OrderOf(Called("grpc", w, "ok")) =
          Params(ModelId(path, Hints(path, w.cfg, load)), job, path, w.cfg, load, w.content.source)
    BY <2>1 DEF OrderOf, IdOf, JobOf, ModelId, Called
  <2>5. QED
    BY <2>3, <2>4
<1>3. IF path = NoPath \/ empty THEN Refused("grpc", w, "bad_request") ELSE Scheduled("grpc", w, o)
  BY Zenon DEF SubmitGRPC
<1> HIDE DEF path, empty, o
<1>4. CASE path = NoPath \/ empty
  <2>1. Refused("grpc", w, "bad_request")
    BY <1>3, <1>4
  <2>2. QED
    BY <1>1, <1>4, <2>1, RefusalLands
<1>5. CASE ~(path = NoPath \/ empty)
  <2>1. Scheduled("grpc", w, o)
    BY <1>3, <1>5
  <2>2. QED
    BY <1>1, <1>2, <1>5, <2>1, ScheduledLands
<1>6. QED
  BY <1>4, <1>5

LEMMA StreamLands ==
  ASSUME NEW w \in Wishes, ChatStream(w)
  PROVE  \E c, o : Landed(c, o)
<1> DEFINE path == Resolve(w.ref)
           cfg == ConfigFromOverride(w.cfg)
           job == Job("chat", w.content, ConvertSampling(SamplingFromProto(w.content.sampling)))
           o == Params(ModelId(w.ref, Hints(path, cfg, "chat")), job, path, cfg, "chat", w.content.source)
<1>1. /\ w.kind = "chat" /\ LoadKind(w.kind) = "chat"
      /\ \A code : May(Called("stream", w, code))
      /\ \A code : Void(Called("stream", w, code)) <=> path = NoPath
  <2>1. w.kind = "chat"
    BY DEF ChatStream
  <2>2. QED
    BY <2>1, Resolves DEF May, Void, Called, LoadKind
<1>2. o = OrderOf(Called("stream", w, "ok"))
  <2>1. /\ w.content \in Contents /\ w.cfg \in Configs
        /\ ConvertSampling(SamplingFromProto(w.content.sampling)) = w.content.sampling
    BY SamplingAgrees DEF Wishes
  <2>2. Hints(path, cfg, "chat") = Hints(path, w.cfg, "chat")
    BY <2>1, OverridesAgree
  <2>3. o = Params(ModelId(w.ref, Hints(path, w.cfg, "chat")), job, path, w.cfg, "chat", w.content.source)
    BY <2>1, <2>2, ParamsAgree
  <2>4. OrderOf(Called("stream", w, "ok")) =
          Params(ModelId(w.ref, Hints(path, w.cfg, "chat")), job, path, w.cfg, "chat", w.content.source)
    BY <1>1, <2>1 DEF OrderOf, IdOf, JobOf, ModelId, Called
  <2>5. QED
    BY <2>3, <2>4
<1>3. IF path = NoPath THEN Refused("stream", w, "bad_request") ELSE Scheduled("stream", w, o)
  BY Zenon DEF ChatStream
<1> HIDE DEF path, o
<1>4. CASE path = NoPath
  <2>1. Refused("stream", w, "bad_request")
    BY <1>3, <1>4
  <2>2. QED
    BY <1>1, <1>4, <2>1, RefusalLands
<1>5. CASE path # NoPath
  <2>1. Scheduled("stream", w, o)
    BY <1>3, <1>5
  <2>2. QED
    BY <1>1, <1>2, <1>5, <2>1, ScheduledLands
<1>6. QED
  BY <1>4, <1>5

LEMMA OpenAIChatLands ==
  ASSUME NEW w \in Wishes, SubmitOpenAIChat(w)
  PROVE  \E c, o : Landed(c, o)
<1> DEFINE path == Resolve(w.ref)
           job == Job("chat", w.content, OpenAISampling(w.content.sampling))
           odd == w.content.parts # <<>>
           o == Params(ModelId(path, Hints(path, NoConfig, "chat")), job, path, NoConfig, "chat", w.content.source)
<1>1. /\ w.kind = "chat" /\ w.cfg = NoConfig /\ LoadKind(w.kind) = "chat"
      /\ IF odd \/ path = NoPath THEN Refused("openai", w, "bad_request") ELSE Scheduled("openai", w, o)
  BY Zenon DEF SubmitOpenAIChat, LoadKind
<1>2. /\ \A code : May(Called("openai", w, code))
      /\ \A code : Void(Called("openai", w, code)) <=> odd \/ path = NoPath
  BY <1>1, Resolves DEF May, Void, Called
<1>3. o = OrderOf(Called("openai", w, "ok"))
  BY <1>1 DEF OrderOf, IdOf, JobOf, ModelId, Called
<1> HIDE DEF path, odd, o
<1>4. CASE odd \/ path = NoPath
  <2>1. Refused("openai", w, "bad_request")
    BY <1>1, <1>4
  <2>2. QED
    BY <1>2, <1>4, <2>1, RefusalLands
<1>5. CASE ~(odd \/ path = NoPath)
  <2>1. Scheduled("openai", w, o)
    BY <1>1, <1>5
  <2>2. QED
    BY <1>2, <1>3, <1>5, <2>1, ScheduledLands
<1>6. QED
  BY <1>4, <1>5

LEMMA OpenAIEmbedLands ==
  ASSUME NEW w \in Wishes, SubmitOpenAIEmbed(w)
  PROVE  \E c, o : Landed(c, o)
<1> DEFINE path == Resolve(w.ref)
           inputs == EmbedInputs(w.content.inputs)
           kind == IF Len(inputs) = 1 THEN "embed" ELSE "batch_embed"
           job == Job(kind, [w.content EXCEPT !.inputs = inputs], w.content.sampling)
           blank == inputs = <<>>
           o == Params(ModelId(path, Hints(path, NoConfig, "embedding")), job, path, NoConfig, "embedding",
                       w.content.source)
<1>1. /\ w.kind \in {"embed", "batch_embed"} /\ w.cfg = NoConfig
      /\ w.kind # "chat" /\ w.kind # "batch_chat" /\ LoadKind(w.kind) = "embedding"
      /\ IF path = NoPath \/ blank THEN Refused("openai", w, "bad_request") ELSE Scheduled("openai", w, o)
  BY Zenon DEF SubmitOpenAIEmbed, LoadKind
<1>2. /\ \A code : May(Called("openai", w, code))
      /\ \A code : Void(Called("openai", w, code)) <=> path = NoPath \/ blank
  BY <1>1, Resolves DEF May, Void, Called
<1>3. o = OrderOf(Called("openai", w, "ok"))
  BY <1>1 DEF OrderOf, IdOf, JobOf, ShimKind, ModelId, Called
<1> HIDE DEF path, blank, o
<1>4. CASE path = NoPath \/ blank
  <2>1. Refused("openai", w, "bad_request")
    BY <1>1, <1>4
  <2>2. QED
    BY <1>2, <1>4, <2>1, RefusalLands
<1>5. CASE ~(path = NoPath \/ blank)
  <2>1. Scheduled("openai", w, o)
    BY <1>1, <1>5
  <2>2. QED
    BY <1>2, <1>3, <1>5, <2>1, ScheduledLands
<1>6. QED
  BY <1>4, <1>5

LEMMA BenchLands ==
  ASSUME NEW w \in Wishes, AuthorBench(w)
  PROVE  \E c, o : Landed(c, o)
<1> DEFINE path == Resolve(w.ref)
           load == TypeOf[path]
           o == [NoOrder EXCEPT !.hints = Hints(path, NoConfig, load), !.files = BenchFiles(path, load)]
<1>1. /\ w.kind = "chat" /\ w.cfg = NoConfig
      /\ IF path = NoPath THEN Refused("bench", w, "bad_request")
         ELSE IF path \notin Paths THEN Refused("bench", w, "not_found")
         ELSE IF load = "mmproj" THEN Refused("bench", w, "bad_request")
         ELSE Reply("bench", w, "ok", o)
  BY Zenon DEF AuthorBench
<1>2. /\ \A code : May(Called("bench", w, code))
      /\ \A code : Void(Called("bench", w, code)) <=> path = NoPath \/ (path \in Paths /\ load = "mmproj")
  BY <1>1, Resolves DEF May, Void, Called
<1>3. o = OrderOf(Called("bench", w, "ok"))
  BY DEF OrderOf, Called
<1> HIDE DEF load, o
<1>4. CASE path = NoPath \/ (path \in Paths /\ load = "mmproj")
  <2>1. Refused("bench", w, "bad_request")
    BY <1>1, <1>4
  <2>2. QED
    BY <1>2, <1>4, <2>1, RefusalLands
<1>5. CASE path # NoPath /\ path \notin Paths
  <2>1. Refused("bench", w, "not_found")
    BY <1>1, <1>5
  <2>2. QED
    BY <1>2, <1>5, <2>1, RefusalLands
<1>6. CASE path # NoPath /\ path \in Paths /\ load # "mmproj"
  <2>1. Reply("bench", w, "ok", o)
    BY <1>1, <1>6
  <2>2. QED
    BY <1>2, <1>3, <1>6, <2>1, OrderLands
<1>7. QED
  BY <1>4, <1>5, <1>6

LEMMA SubmissionStarts == SubmissionInit => SubmissionInv
BY DEF SubmissionInit, SubmissionInv

LEMMA SubmissionSteps == SubmissionInv /\ [SubmissionNext]_submissionVars => SubmissionInv'
<1> SUFFICES ASSUME SubmissionInv, [SubmissionNext]_submissionVars
             PROVE  SubmissionInv'
  OBVIOUS
<1>1. /\ call \in Seq(CallsMade) /\ orders \in Seq(Orders)
      /\ Len(call) = Len(orders) /\ Len(call) <= 2
      /\ \A n \in DOMAIN call : Fits(call[n], orders[n])
  BY DEF SubmissionInv
<1>2. CASE SubmissionNext
  <2>1. PICK w \in Wishes : \/ SubmitHTTP(w) \/ SubmitGRPC(w) \/ ChatStream(w)
                            \/ SubmitOpenAIChat(w) \/ SubmitOpenAIEmbed(w) \/ AuthorBench(w)
    BY <1>2 DEF SubmissionNext
  <2>2. Len(call) < 2
    BY <1>2 DEF SubmissionNext
  <2>3. PICK c, o : Landed(c, o)
    BY <2>1, HTTPLands, GRPCLands, StreamLands, OpenAIChatLands, OpenAIEmbedLands, BenchLands
  <2>4. /\ call' = Append(call, c) /\ orders' = Append(orders, o)
        /\ c \in CallsMade /\ o \in Orders /\ Fits(c, o)
    BY <2>3 DEF Landed
  <2>5. /\ call' \in Seq(CallsMade) /\ orders' \in Seq(Orders)
        /\ Len(call') = Len(call) + 1 /\ Len(orders') = Len(orders) + 1
        /\ DOMAIN call' = 1..Len(call) + 1
        /\ \A n \in 1..Len(call) : call'[n] = call[n] /\ orders'[n] = orders[n]
        /\ call'[Len(call) + 1] = c /\ orders'[Len(call) + 1] = o
    BY <1>1, <2>4
  <2>6. \A n \in DOMAIN call' : Fits(call'[n], orders'[n])
    <3> SUFFICES ASSUME NEW n \in DOMAIN call'
                 PROVE  Fits(call'[n], orders'[n])
      OBVIOUS
    <3>1. n \in 1..Len(call) \/ n = Len(call) + 1
      BY <1>1, <2>5
    <3>2. CASE n \in 1..Len(call)
      BY <1>1, <2>5, <3>2
    <3>3. CASE n = Len(call) + 1
      BY <2>4, <2>5, <3>3
    <3>4. QED
      BY <3>1, <3>2, <3>3
  <2>7. Len(call') = Len(orders') /\ Len(call') <= 2
    BY <1>1, <2>2, <2>5
  <2>8. QED
    BY <2>5, <2>6, <2>7 DEF SubmissionInv
<1>3. CASE UNCHANGED submissionVars
  BY <1>1, <1>3 DEF submissionVars, SubmissionInv
<1>4. QED
  BY <1>2, <1>3

LEMMA AlwaysSubmissionInv == SubmissionSpec => []SubmissionInv
BY SubmissionStarts, SubmissionSteps, PTL DEF SubmissionSpec

\* Every call has its order, and one of the front ends' answers.
THEOREM SubmissionTypes == SubmissionSpec => []SubmissionTypeOK
<1>1. ASSUME SubmissionInv
      PROVE  SubmissionTypeOK
  <2>1. \A n \in DOMAIN call : call[n] \in CallsMade
    BY <1>1 DEF SubmissionInv
  <2>2. \A n \in DOMAIN call :
          /\ call[n].front \in {"http", "grpc", "stream", "openai", "bench"}
          /\ call[n].code \in {"ok", "bad_request", "not_found", "internal"}
    BY <2>1 DEF CallsMade
  <2>3. QED
    BY <1>1, <2>2 DEF SubmissionInv, SubmissionTypeOK
<1>2. QED
  BY <1>1, AlwaysSubmissionInv, PTL

\* What an accepted call has ordered.
LEMMA Ordered ==
  ASSUME SubmissionInv, NEW n, Accepted(n)
  PROVE  /\ call[n] \in CallsMade /\ call[n].wish \in Wishes /\ call[n].wish.content \in Contents
         /\ call[n].wish.cfg \in Configs /\ call[n].wish.ref \notin {NoPath, Outside}
         /\ May(call[n]) /\ ~Void(call[n]) /\ orders[n] = OrderOf(call[n])
         /\ call[n].front = "bench" => /\ Resolve(call[n].wish.ref) \in Paths
                                       /\ TypeOf[Resolve(call[n].wish.ref)] \in {"chat", "embedding"}
<1>1. call[n] \in CallsMade /\ Fits(call[n], orders[n]) /\ call[n].code = "ok"
  BY DEF SubmissionInv, Accepted
<1>2. call[n].wish \in Wishes
  BY <1>1 DEF CallsMade
<1>3. call[n].wish.content \in Contents /\ call[n].wish.cfg \in Configs
  BY <1>2 DEF Wishes
<1>4. /\ May(call[n]) /\ ~Void(call[n]) /\ orders[n] = OrderOf(call[n])
      /\ call[n].front = "bench" => Resolve(call[n].wish.ref) \in Paths
  BY <1>1 DEF Fits
<1>5. /\ call[n].wish.ref \notin {NoPath, Outside}
      /\ call[n].front = "bench" => Resolve(call[n].wish.ref) \notin { p \in Paths : TypeOf[p] = "mmproj" }
  BY <1>4 DEF Void
<1>6. QED
  BY <1>1, <1>2, <1>3, <1>4, <1>5, CatalogueAssumption

LEMMA ParamsParts ==
  ASSUME NEW id, NEW job, NEW path, NEW cfg, NEW load, NEW source
  PROVE  /\ Params(id, job, path, cfg, load, source).id = id
         /\ Params(id, job, path, cfg, load, source).job = job
         /\ Params(id, job, path, cfg, load, source).hints = Hints(path, cfg, load)
         /\ Params(id, job, path, cfg, load, source).files = LoadFiles(path, Mmproj(path, cfg, load))
BY DEF Params

LEMMA Submitted ==
  ASSUME SubmissionInv, NEW n, Submits(n)
  PROVE  /\ orders[n] = Params(IdOf(call[n]), JobOf(call[n]), Resolve(call[n].wish.ref), call[n].wish.cfg,
                               LoadKind(call[n].wish.kind), call[n].wish.content.source)
         /\ Accepted(n)
BY Ordered DEF Submits, OrderOf

\* Without blank inputs there is nothing to drop.
LEMMA NothingBlank ==
  ASSUME NEW c \in Contents, \A i \in DOMAIN c.inputs : c.inputs[i] # "none"
  PROVE  EmbedInputs(c.inputs) = c.inputs
<1> DEFINE inputs == c.inputs
           kept == { i \in DOMAIN inputs : inputs[i] # "none" }
<1>1. /\ inputs \in Seq(ToSet(inputs)) /\ Len(inputs) \in Nat /\ DOMAIN inputs = 1..Len(inputs)
      /\ inputs = [n \in 1..Len(inputs) |-> inputs[n]]
  <2> DEFINE T == ToSet(inputs)
  <2>1. inputs \in Seq(T)
    BY WishAssumption
  <2> HIDE DEF T
  <2>2. Len(inputs) \in Nat /\ DOMAIN inputs = 1..Len(inputs)
    BY <2>1
  <2>3. inputs = [n \in DOMAIN inputs |-> inputs[n]]
    BY <2>1
  <2>4. QED
    BY <2>1, <2>2, <2>3 DEF T
<1>2. kept = 1..Len(inputs)
  BY <1>1
<1>3. \A i \in 1..Len(inputs) : Cardinality({ j \in kept : j <= i }) = i
  <2> SUFFICES ASSUME NEW i \in 1..Len(inputs)
               PROVE  Cardinality({ j \in kept : j <= i }) = i
    OBVIOUS
  <2>1. { j \in kept : j <= i } = 1..i
    BY <1>1, <1>2
  <2>2. Cardinality(1..i) = i
    BY FS_Interval
  <2>3. QED
    BY <2>1, <2>2
<1>4. Cardinality(kept) = Len(inputs)
  <2> DEFINE k == Len(inputs)
  <2>1. k \in Nat /\ kept = 1..k
    BY <1>1, <1>2
  <2> HIDE DEF k, kept
  <2>2. Cardinality(1..k) = k
    BY <2>1, FS_Interval
  <2>3. QED
    BY <2>1, <2>2 DEF k, kept
<1>5. \A n \in 1..Len(inputs) : (CHOOSE i \in kept : Cardinality({ j \in kept : j <= i }) = n) = n
  <2> SUFFICES ASSUME NEW n \in 1..Len(inputs)
               PROVE  (CHOOSE i \in kept : Cardinality({ j \in kept : j <= i }) = n) = n
    OBVIOUS
  <2> DEFINE At(i) == Cardinality({ j \in kept : j <= i })
             at == CHOOSE i \in kept : At(i) = n
  <2>1. \E i \in kept : At(i) = n
    BY <1>2, <1>3
  <2>2. at \in kept /\ At(at) = n
    BY <2>1, Zenon
  <2>3. QED
    BY <1>2, <1>3, <2>2
<1>6. EmbedInputs(inputs) =
        [n \in 1..Cardinality(kept) |-> inputs[CHOOSE i \in kept : Cardinality({ j \in kept : j <= i }) = n]]
  BY Zenon DEF EmbedInputs
<1> HIDE DEF kept
<1>7. QED
  BY <1>1, <1>4, <1>5, <1>6

\* The shim's job is the typed front ends' job.
LEMMA ShimAgrees ==
  ASSUME SubmissionInv, NEW n, Submits(n), Comparable(n)
  PROVE  JobOf(call[n]) = Job(call[n].wish.kind, call[n].wish.content, call[n].wish.content.sampling)
<1> DEFINE w == call[n].wish
           content == w.content
           other == [content EXCEPT !.inputs = EmbedInputs(content.inputs)]
<1>1. /\ content \in Contents /\ May(call[n]) /\ Accepted(n)
      /\ content = [sampling |-> content.sampling, role |-> content.role, parts |-> content.parts,
                    inputs |-> content.inputs, source |-> content.source]
      /\ content.sampling = [temperature |-> content.sampling.temperature,
                             thinking |-> content.sampling.thinking]
      /\ content.sampling.thinking \in BOOLEAN
  BY Ordered, WishAssumption DEF Submits
<1>2. CASE call[n].front # "openai"
  BY <1>2 DEF JobOf
<1>3. CASE call[n].front = "openai" /\ w.kind # "chat"
  <2>1. w.kind \in {"embed", "batch_embed"}
    BY <1>1, <1>3 DEF May
  <2>2. /\ \A i \in DOMAIN content.inputs : content.inputs[i] # "none"
        /\ (w.kind = "embed") = (Len(content.inputs) = 1)
    BY <1>3 DEF Comparable
  <2>3. EmbedInputs(content.inputs) = content.inputs
    BY <1>1, <2>2, NothingBlank
  <2>4. other = content
    BY <1>1, <2>3
  <2>5. ShimKind(w) = w.kind
    BY <2>1, <2>2, <2>3 DEF ShimKind
  <2>6. QED
    BY <1>3, <2>4, <2>5 DEF JobOf
<1>4. CASE call[n].front = "openai" /\ w.kind = "chat"
  <2>1. content.sampling.thinking = FALSE
    BY <1>1, <1>4 DEF Comparable
  <2>2. OpenAISampling(content.sampling) = content.sampling
    BY <1>1, <2>1 DEF OpenAISampling
  <2>3. QED
    BY <1>4, <2>2 DEF JobOf
<1>5. QED
  BY <1>2, <1>3, <1>4

LEMMA FrontsOrderAlike == SubmissionInv => FrontEndsAgree
<1> SUFFICES ASSUME SubmissionInv, Submits(1), Submits(2), call[1].wish = call[2].wish,
                    Comparable(1), Comparable(2)
             PROVE  [orders[1] EXCEPT !.id = <<>>] = [orders[2] EXCEPT !.id = <<>>]
  BY DEF FrontEndsAgree
<1> DEFINE w == call[1].wish
           job == Job(w.kind, w.content, w.content.sampling)
           Blind(id) == Params(id, job, Resolve(w.ref), w.cfg, LoadKind(w.kind), w.content.source)
<1>1. orders[1] = Blind(IdOf(call[1])) /\ orders[2] = Blind(IdOf(call[2]))
  BY Submitted, ShimAgrees
<1>2. \A id : [Blind(id) EXCEPT !.id = <<>>] = Blind(<<>>)
  BY DEF Params
<1> HIDE DEF Blind
<1>3. QED
  BY <1>1, <1>2

LEMMA PresenceIsKept == SubmissionInv => PresenceKept
<1> SUFFICES ASSUME SubmissionInv, NEW n \in DOMAIN call, Submits(n), orders[n].job.kind = "chat"
             PROVE  /\ orders[n].job.body[2].temperature = call[n].wish.content.sampling.temperature
                    /\ orders[n].job.body[2].thinking =
                         (call[n].wish.content.sampling.thinking /\ call[n].front # "openai")
                    /\ orders[n].hints.gpu = call[n].wish.cfg.gpu
  BY DEF PresenceKept
<1> DEFINE w == call[n].wish
           sampling == w.content.sampling
<1>1. /\ orders[n].job = JobOf(call[n])
      /\ orders[n].hints = Hints(Resolve(w.ref), w.cfg, LoadKind(w.kind))
  BY Submitted, ParamsParts
<1>2. orders[n].hints.gpu = w.cfg.gpu
  BY <1>1 DEF Hints, LoadHints
<1>3. \A kind, content, s : /\ Job(kind, content, s).kind = kind
                            /\ Job("chat", content, s).body[2] = s
  BY DEF Job
<1>4. /\ sampling = [temperature |-> sampling.temperature, thinking |-> sampling.thinking]
      /\ sampling.thinking \in BOOLEAN
  BY Ordered, WishAssumption DEF Submits
<1>5. CASE call[n].front # "openai"
  <2>1. orders[n].job.body[2] = sampling
    BY <1>1, <1>3, <1>5 DEF JobOf
  <2>2. QED
    BY <1>2, <1>4, <1>5, <2>1
<1>6. CASE call[n].front = "openai"
  <2>1. w.kind = "chat"
    BY <1>1, <1>3, <1>6 DEF JobOf, ShimKind
  <2>2. orders[n].job.body[2] = OpenAISampling(sampling)
    BY <1>1, <1>3, <1>6, <2>1 DEF JobOf
  <2>3. /\ OpenAISampling(sampling).temperature = sampling.temperature
        /\ OpenAISampling(sampling).thinking = FALSE
    BY <1>4 DEF OpenAISampling
  <2>4. QED
    BY <1>2, <1>6, <2>2, <2>3
<1>7. QED
  BY <1>5, <1>6

LEMMA CausesAreTold == SubmissionInv => RefusedForCause
<1> SUFFICES ASSUME SubmissionInv, NEW n \in DOMAIN call
             PROVE  /\ Void(call[n]) => ~Accepted(n)
                    /\ call[n].front # "http" \/ call[n].wish.kind # "batch_chat" =>
                         (call[n].code = "bad_request") = Void(call[n])
  BY Zenon DEF RefusedForCause, Void
<1>1. Fits(call[n], orders[n])
  BY DEF SubmissionInv
<1>2. Void(call[n]) \in BOOLEAN
  BY DEF Void
<1>3. QED
  BY <1>1, <1>2 DEF Fits, Accepted

\* Whichever front end a request comes by, for every catalogue at rest and
\* every two requests, it is the job its client wished for or is refused for
\* a cause: the builders of handlers.go, grpc.go and openai.go agree, but
\* that OpenAI's drops the fields its shape has not.
THEOREM RequestsSubmittedAsWished == SubmissionSpec => []SubmittedAsWished
<1>1. SubmissionInv => SubmittedAsWished
  BY FrontsOrderAlike, PresenceIsKept, CausesAreTold DEF SubmittedAsWished
<1>2. QED
  BY <1>1, AlwaysSubmissionInv, PTL

LEMMA TwoInRow ==
  ASSUME NEW a, NEW b
  PROVE  <<a>> \o <<b>> = <<a, b>>
<1> DEFINE S == {a, b}
<1>1. <<a>> \in Seq(S) /\ <<b>> \in Seq(S) /\ <<a, b>> \in Seq(S)
  OBVIOUS
<1>2. \A s \in Seq(S), t \in Seq(S) :
        /\ s \o t \in Seq(S) /\ Len(s \o t) = Len(s) + Len(t)
        /\ \A i \in 1..Len(s) + Len(t) : (s \o t)[i] = IF i <= Len(s) THEN s[i] ELSE t[i - Len(s)]
  OBVIOUS
<1>3. Len(<<a>> \o <<b>>) = 2 /\ (<<a>> \o <<b>>)[1] = a /\ (<<a>> \o <<b>>)[2] = b
  BY <1>1, <1>2
<1> DEFINE s == <<a>> \o <<b>>
           t == <<a, b>>
<1>4. s \in Seq(S) /\ t \in Seq(S) /\ Len(s) = Len(t) /\ \A i \in 1..Len(s) : s[i] = t[i]
  BY <1>1, <1>2, <1>3
<1> HIDE DEF s, t
<1>5. s = t
  BY <1>4, SeqEqual
<1>6. QED
  BY <1>5 DEF s, t

\* The files of a load, and the one projector among them.
LEMMA FilesOfLoad ==
  ASSUME NEW path, NEW mmproj
  PROVE  /\ LoadFiles(path, mmproj)[1].name = StoreKey(path)
         /\ { LoadFiles(path, mmproj)[i].name : i \in 2..Len(LoadFiles(path, mmproj)) } =
              IF mmproj = "none" THEN {} ELSE { StoreKey(<<path[1], mmproj>>) }
<1> DEFINE main == [role |-> "primary", name |-> StoreKey(path)]
           more == [role |-> "mmproj", name |-> StoreKey(<<path[1], mmproj>>)]
<1>1. /\ main.name = StoreKey(path) /\ more.name = StoreKey(<<path[1], mmproj>>)
      /\ LoadFiles(path, mmproj) = <<main>> \o (IF mmproj = "none" THEN <<>> ELSE <<more>>)
  BY Zenon DEF LoadFiles
<1> HIDE DEF main, more
<1>2. CASE mmproj = "none"
  <2>1. LoadFiles(path, mmproj) = <<main>>
    BY <1>1, <1>2
  <2>2. QED
    BY <1>1, <1>2, <2>1
<1>3. CASE mmproj # "none"
  <2>1. LoadFiles(path, mmproj) = <<main, more>>
    BY <1>1, <1>3, TwoInRow
  <2>2. 2..Len(<<main, more>>) = {2} /\ <<main, more>>[2] = more
    OBVIOUS
  <2>3. QED
    BY <1>1, <1>3, <2>1, <2>2
<1>4. QED
  BY <1>2, <1>3

\* How an accepted call loads its model.
LEMMA Loads ==
  ASSUME SubmissionInv, NEW n, Accepted(n)
  PROVE  \E load :
           /\ orders[n].hints = Hints(Resolve(call[n].wish.ref), call[n].wish.cfg, load)
           /\ orders[n].files =
                LoadFiles(Resolve(call[n].wish.ref), Mmproj(Resolve(call[n].wish.ref), call[n].wish.cfg, load))
           /\ orders[n].hints.kind = load
<1> DEFINE path == Resolve(call[n].wish.ref)
           cfg == call[n].wish.cfg
<1>1. \A load : Hints(path, cfg, load).kind = load
  BY DEF Hints, LoadHints
<1>2. CASE call[n].front # "bench"
  <2>1. Submits(n)
    BY <1>2 DEF Submits
  <2>2. /\ orders[n].hints = Hints(path, cfg, LoadKind(call[n].wish.kind))
        /\ orders[n].files = LoadFiles(path, Mmproj(path, cfg, LoadKind(call[n].wish.kind)))
    BY <2>1, Submitted, ParamsParts
  <2>3. QED
    BY <1>1, <2>2
<1>3. CASE call[n].front = "bench"
  <2>1. May(call[n]) /\ orders[n] = OrderOf(call[n])
    BY Ordered
  <2>2. cfg = NoConfig
    BY <1>3, <2>1 DEF May
  <2>3. orders[n].hints = Hints(path, cfg, TypeOf[path]) /\ orders[n].files = BenchFiles(path, TypeOf[path])
    BY <1>3, <2>1, <2>2 DEF OrderOf, NoOrder
  <2>4. QED
    BY <1>1, <2>2, <2>3 DEF BenchFiles
<1>4. QED
  BY <1>2, <1>3

LEMMA HintsNameTheirFiles == SubmissionInv => HintsNameFiles
<1> SUFFICES ASSUME SubmissionInv, NEW n \in DOMAIN call, Accepted(n)
             PROVE  /\ orders[n].files[1].name = StoreKey(Resolve(call[n].wish.ref))
                    /\ { orders[n].files[i].name : i \in 2..Len(orders[n].files) } =
                         IF orders[n].hints.mmproj = "none" THEN {}
                         ELSE { StoreKey(<<Resolve(call[n].wish.ref)[1], orders[n].hints.mmproj>>) }
  BY Zenon DEF HintsNameFiles
<1> DEFINE path == Resolve(call[n].wish.ref)
<1>1. PICK load :
        /\ orders[n].hints = Hints(path, call[n].wish.cfg, load)
        /\ orders[n].files = LoadFiles(path, Mmproj(path, call[n].wish.cfg, load))
  BY Loads
<1>2. orders[n].hints.mmproj = Mmproj(path, call[n].wish.cfg, load)
  BY <1>1 DEF Hints, LoadHints
<1> DEFINE mmproj == Mmproj(path, call[n].wish.cfg, load)
<1>3. orders[n].hints.mmproj = mmproj /\ orders[n].files = LoadFiles(path, mmproj)
  BY <1>1, <1>2
<1> HIDE DEF mmproj
<1>4. /\ LoadFiles(path, mmproj)[1].name = StoreKey(path)
      /\ { LoadFiles(path, mmproj)[i].name : i \in 2..Len(LoadFiles(path, mmproj)) } =
           IF mmproj = "none" THEN {} ELSE { StoreKey(<<path[1], mmproj>>) }
  BY FilesOfLoad
<1>5. orders[n].files[1].name = StoreKey(path)
  BY <1>3, <1>4
<1>6. { orders[n].files[i].name : i \in 2..Len(orders[n].files) } =
        IF orders[n].hints.mmproj = "none" THEN {} ELSE { StoreKey(<<path[1], orders[n].hints.mmproj>>) }
  <2> HIDE DEF path
  <2>1. QED
    BY <1>3, <1>4, Zenon
<1>7. QED
  BY <1>5, <1>6, Zenon

LEMMA BenchLoadsAsJobs == SubmissionInv => BenchLoadsAlike
<1> SUFFICES ASSUME SubmissionInv, Both, call[1].front = "bench", call[2].wish.cfg = NoConfig,
                    Resolve(call[1].wish.ref) = Resolve(call[2].wish.ref),
                    orders[2].hints.kind = orders[1].hints.kind
             PROVE  orders[1].hints = orders[2].hints /\ orders[1].files = orders[2].files
  BY DEF BenchLoadsAlike
<1>1. Accepted(1) /\ Accepted(2) /\ call[1].wish.cfg = NoConfig
  BY Ordered DEF Both, May
<1>2. QED
  BY <1>1, Loads

LEMMA IdsNameLoads == SubmissionInv => IdNamesLoad
<1> DEFINE Bare(n) == [orders[n].hints EXCEPT !.mmproj = "none"]
           alike == orders[1].files[1] = orders[2].files[1] /\ Bare(1) = Bare(2)
           same == alike /\ orders[1].hints = orders[2].hints
           Odd(n) == call[n].front = "stream" \/ (call[n].front = "http" /\ call[n].wish.kind = "chat")
<1> SUFFICES ASSUME SubmissionInv, Submits(1), Submits(2)
             PROVE  /\ orders[1].id = orders[2].id => alike
                    /\ ~Odd(1) /\ ~Odd(2) => (orders[1].id = orders[2].id) = same
  BY Zenon DEF IdNamesLoad
<1> DEFINE Path(n) == Resolve(call[n].wish.ref)
           Named(n) == IF call[n].front = "stream" THEN call[n].wish.ref ELSE Path(n)
           Hashed(n) == orders[n].id[2]
<1>1. ASSUME NEW n \in {1, 2}
      PROVE  /\ orders[n].id = <<Named(n), Hashed(n)>>
             /\ [Hashed(n) EXCEPT !.mmproj = "none"] = Bare(n)
             /\ ~Odd(n) => Hashed(n) = orders[n].hints
             /\ orders[n].files[1] = [role |-> "primary", name |-> StoreKey(Path(n))]
  <2> DEFINE w == call[n].wish
             load == LoadKind(w.kind)
  <2>1. Submits(n)
    OBVIOUS
  <2>2. /\ orders[n].id = IdOf(call[n])
        /\ orders[n].hints = Hints(Path(n), w.cfg, load)
        /\ orders[n].files = LoadFiles(Path(n), Mmproj(Path(n), w.cfg, load))
    BY <2>1, Submitted, ParamsParts
  <2>3. orders[n].id = <<Named(n), IF call[n].front = "http" /\ w.kind = "chat"
                                     THEN LoadHints(w.cfg, load, "none") ELSE Hints(Path(n), w.cfg, load)>>
    BY <2>2 DEF IdOf
  <2>4. /\ [LoadHints(w.cfg, load, "none") EXCEPT !.mmproj = "none"] = LoadHints(w.cfg, load, "none")
        /\ [Hints(Path(n), w.cfg, load) EXCEPT !.mmproj = "none"] = LoadHints(w.cfg, load, "none")
    BY DEF Hints, LoadHints
  <2>5. orders[n].files[1] = [role |-> "primary", name |-> StoreKey(Path(n))]
    <3> DEFINE m == Mmproj(Path(n), w.cfg, load)
    <3>1. orders[n].files = <<[role |-> "primary", name |-> StoreKey(Path(n))]>> \o
            (IF m = "none" THEN <<>> ELSE <<[role |-> "mmproj", name |-> StoreKey(<<Path(n)[1], m>>)]>>)
      BY <2>2, Zenon DEF LoadFiles
    <3> HIDE DEF m
    <3>2. QED
      BY <3>1
  <2>6. orders[n].id = <<Named(n), Hashed(n)>>
    BY <2>3
  <2>7. /\ [Hashed(n) EXCEPT !.mmproj = "none"] = Bare(n)
        /\ ~Odd(n) => Hashed(n) = orders[n].hints
    <3> DEFINE http == call[n].front = "http" /\ w.kind = "chat"
    <3>1. Hashed(n) = IF http THEN LoadHints(w.cfg, load, "none") ELSE orders[n].hints
      BY <2>2, <2>3
    <3>2. Bare(n) = LoadHints(w.cfg, load, "none")
      BY <2>2, <2>4
    <3>3. QED
      BY <2>4, <3>1, <3>2
  <2>8. QED
    BY <2>5, <2>6, <2>7
<1>2. ASSUME NEW n \in {1, 2}
      PROVE  /\ \/ Path(n) \in Paths /\ Published[Path(n)] = call[n].wish.ref
                \/ Path(n) = call[n].wish.ref /\ \A p \in Paths : Published[p] # call[n].wish.ref
             /\ Path(n) = <<Path(n)[1], Path(n)[2]>>
  <2>1. call[n].wish.ref \notin {NoPath, Outside} /\ call[n].wish \in Wishes
    BY <1>2, Ordered DEF Submits
  <2>2. \/ Path(n) \in Paths /\ Published[Path(n)] = call[n].wish.ref
        \/ Path(n) = call[n].wish.ref /\ \A p \in Paths : Published[p] # call[n].wish.ref
    BY <2>1, Resolves
  <2>3. Path(n) \in Paths \cup {Stranger}
    BY <2>1, <2>2 DEF Wishes, Refs
  <2>4. Stranger = <<Stranger[1], Stranger[2]>>
    BY DEF Stranger
  <2>5. QED
    BY <2>2, <2>3, <2>4, CatalogueAssumption
<1>3. ASSUME orders[1].id = orders[2].id
      PROVE  Path(1) = Path(2) /\ Hashed(1) = Hashed(2)
  <2>1. Named(1) = Named(2) /\ Hashed(1) = Hashed(2)
    BY <1>1, <1>3
  <2>2. Path(1) = Path(2)
    BY <1>2, <2>1, CatalogueAssumption
  <2>3. QED
    BY <2>1, <2>2
<1>4. ASSUME orders[1].files[1] = orders[2].files[1]
      PROVE  Path(1) = Path(2)
  <2>1. StoreKey(Path(1)) = StoreKey(Path(2))
    BY <1>1, <1>4
  <2>2. Path(1)[1] = Path(2)[1] /\ Path(1)[2] = Path(2)[2]
    BY <2>1 DEF StoreKey
  <2>3. QED
    BY <1>2, <2>2
<1>5. orders[1].id = orders[2].id => alike
  BY <1>1, <1>3
<1>6. ASSUME ~Odd(1), ~Odd(2)
      PROVE  (orders[1].id = orders[2].id) = same
  <2>1. Hashed(1) = orders[1].hints /\ Hashed(2) = orders[2].hints /\ Named(1) = Path(1) /\ Named(2) = Path(2)
    BY <1>1, <1>6
  <2>2. orders[1].id = orders[2].id => same
    BY <1>3, <1>5, <2>1
  <2>3. same => orders[1].id = orders[2].id
    BY <1>1, <1>4, <2>1
  <2>4. QED
    BY <2>2, <2>3
<1>7. QED
  BY <1>5, <1>6

\* The model id, the hints and the files of an order describe one load: for
\* every catalogue whose ids name no file but their own, calls of one id
\* are for one instance, and the bench loads it as jobs do.
THEOREM OrdersLoadAsNamed == SubmissionSpec => []LoadsAsNamed
<1>1. SubmissionInv => LoadsAsNamed
  BY HintsNameTheirFiles, BenchLoadsAsJobs, IdsNameLoads DEF LoadsAsNamed
<1>2. QED
  BY <1>1, AlwaysSubmissionInv, PTL

(***************************************************************************)
(* Prices, for every encoder, model size, cap and content.                 *)
(***************************************************************************)

PricedJobs == [kind: {"none", "chat", "batch_chat", "embed", "batch_embed", "tokenize"},
        max: Nat, bytes: Nat, media: Nat, parts: 0..MaxParts]
Pricing == [at: {"composing", "count", "backfill", "recount", "thinking", "priced"},
            count: {0, ActiveParams, TotalParams}, old: {0, TotalParams},
            thinking: BOOLEAN, clean: BOOLEAN]

PriceTypes ==
  /\ costJob \in PricedJobs
  /\ shape \in [patch: Nat, merge: Nat]
  /\ costJob.kind # "none" => shape.patch \in Patches /\ shape.merge \in Merges
  /\ costEntry \in [listed: BOOLEAN, total: {0, TotalParams}, active: {0, ActiveParams},
                    thinking: BOOLEAN]
  /\ pricing \in Pricing
  /\ pricing.at # "composing" => costJob.kind # "none"

\* Until the entry or its file goes away, the look-ups find what the header
\* gave; an entry with an active count has the rest too.
LookedUp ==
  /\ costEntry.active > 0 => costEntry.thinking
  /\ pricing.clean =>
       /\ costEntry.listed /\ header = "readable"
       /\ pricing.at = "recount" =>
            costEntry.total = TotalParams /\ costEntry.active = ActiveParams /\ costEntry.thinking
       /\ pricing.at = "thinking" => pricing.count = ActiveParams /\ costEntry.thinking

PriceInv == PriceTypes /\ LookedUp /\ PricedInFull

USE BudgetAssumption, ShapeAssumption, ContentAssumption, CountsAssumption

------------------------------------------------------------------------------
(* Arithmetic.                                                             *)

\* A set of numbers that is not empty has a least one.
LEMMA LeastNumber ==
  ASSUME NEW T \in SUBSET Nat, T # {}
  PROVE  \E x \in T : \A y \in T : x <= y
<1> DEFINE R == OpToRel(<, Nat)
<1>1. IsWellFoundedOn(R, Nat)
  BY NatLessThanWellFounded
<1>2. PICK x \in T : \A y \in T : <<y, x>> \notin R
  BY <1>1, WFMin
<1>3. ASSUME NEW y \in T
      PROVE  x <= y
  <2>1. <<y, x>> \notin { ss \in Nat \X Nat : ss[1] < ss[2] }
    BY <1>2 DEF OpToRel
  <2>2. QED
    BY <2>1
<1>4. QED
  BY <1>2, <1>3

LEMMA TimesNat ==
  ASSUME NEW a \in Nat, NEW b \in Nat
  PROVE  a * b \in Nat
OBVIOUS

LEMMA TimesMonotone ==
  ASSUME NEW a \in Nat, NEW b \in Nat, NEW c \in Nat, NEW d \in Nat, a <= b, c <= d
  PROVE  a * c <= b * d
OBVIOUS

LEMMA QuotientNat ==
  ASSUME NEW a \in Nat, NEW p \in Nat, p > 0
  PROVE  a \div p \in Nat /\ (a \div p) * p <= a
OBVIOUS

LEMMA QuotientBelow ==
  ASSUME NEW a \in Nat, NEW p \in Nat, NEW n \in Nat, p > 0, a <= n * p
  PROVE  a \div p <= n
OBVIOUS

\* The side an image keeps: one at least, and no longer than its share of the
\* budget, unless it is one.
LEMMA ScaledInBudget ==
  ASSUME NEW side \in Nat, NEW area \in Nat, NEW budget \in Nat, side > 0, area > budget
  PROVE  \E n \in 0..side :
           /\ Scaled(side, area, budget) = Larger(1, n)
           /\ (n * n) * area <= (side * side) * budget
<1> DEFINE X == (side * side) * budget
           T == { n \in Nat : ((n + 1) * (n + 1)) * area > X }
<1>1. X \in Nat
  BY TimesNat
<1>2. side \in T
  <2>1. (side + 1) * (side + 1) > side * side /\ side * side \in Nat /\ side * side > 0
        /\ (side + 1) * (side + 1) \in Nat
    OBVIOUS
  <2>2. (side * side) * area > X
    BY <2>1
  <2>3. (side * side) * area <= ((side + 1) * (side + 1)) * area
    BY <2>1, TimesMonotone
  <2>4. (side * side) * area \in Nat /\ ((side + 1) * (side + 1)) * area \in Nat
    BY <2>1, TimesNat
  <2>5. QED
    BY <1>1, <2>2, <2>3, <2>4
<1> HIDE DEF X
<1>3. PICK m \in T : \A y \in T : m <= y
  <2>1. T \in SUBSET Nat /\ T # {}
    BY <1>2
  <2>2. QED
    BY <2>1, LeastNumber
<1>4. m \in 0..side /\ ((m + 1) * (m + 1)) * area > X
  <2>1. m \in Nat /\ ((m + 1) * (m + 1)) * area > X
    BY <1>3
  <2>2. m <= side
    BY <1>2, <1>3
  <2> HIDE DEF T
  <2>3. QED
    BY <2>1, <2>2
<1>5. (m * m) * area <= X
  <2>1. CASE m = 0
    BY <1>1, <2>1
  <2>2. CASE m # 0
    <3>1. m - 1 \in Nat /\ m - 1 \notin T /\ (m - 1) + 1 = m
      BY <1>3, <1>4, <2>2
    <3>2. ~(((m - 1) + 1) * ((m - 1) + 1)) * area > X
      BY <3>1
    <3>3. (m * m) * area \in Nat
      BY <1>4, TimesNat
    <3>4. QED
      BY <1>1, <3>1, <3>2, <3>3
  <2>3. QED
    BY <2>1, <2>2
<1>6. /\ m * m * area <= side * side * budget
      /\ (m + 1) * (m + 1) * area > side * side * budget
  BY <1>4, <1>5 DEF X
<1> DEFINE fits(n) == n * n * area <= side * side * budget
                        /\ (n + 1) * (n + 1) * area > side * side * budget
           n0 == CHOOSE n \in 0..side : fits(n)
<1>7. n0 \in 0..side /\ fits(n0)
  BY <1>4, <1>6
<1>8. Scaled(side, area, budget) = Larger(1, n0)
  BY DEF Scaled
<1>9. QED
  BY <1>7, <1>8

\* If two numbers' squares lie in proportion below the budget's, so do they.
LEMMA ProductInBudget ==
  ASSUME NEW m \in Nat, NEW n \in Nat, NEW w \in Nat, NEW h \in Nat, NEW budget \in Nat,
         w * h > 0,
         (m * m) * (w * h) <= (w * w) * budget,
         (n * n) * (w * h) <= (h * h) * budget
  PROVE  m * n <= budget
<1> DEFINE a == w * h
<1>1. a \in Nat /\ a > 0
  OBVIOUS
<1>2. ((m * m) * a) * ((n * n) * a) <= ((w * w) * budget) * ((h * h) * budget)
  <2>1. /\ (m * m) * a \in Nat /\ (n * n) * a \in Nat
        /\ (w * w) * budget \in Nat /\ (h * h) * budget \in Nat
    BY <1>1, TimesNat
  <2>2. QED
    BY <2>1, TimesMonotone
<1>3. ((m * m) * a) * ((n * n) * a) = ((m * n) * (m * n)) * (a * a)
  BY <1>1
<1>4. ((w * w) * budget) * ((h * h) * budget) = (budget * budget) * (a * a)
  OBVIOUS
<1>5. a * a \in Nat /\ a * a > 0
  BY <1>1
<1>6. (m * n) * (m * n) \in Nat /\ budget * budget \in Nat /\ m * n \in Nat
  OBVIOUS
<1> HIDE DEF a
<1>7. (m * n) * (m * n) <= budget * budget
  <2>1. ASSUME NEW x \in Nat, NEW y \in Nat, NEW z \in Nat, z > 0, x * z <= y * z
        PROVE  x <= y
    BY <2>1
  <2>2. ((m * n) * (m * n)) * (a * a) <= (budget * budget) * (a * a)
    BY <1>2, <1>3, <1>4
  <2>3. QED
    BY <1>5, <1>6, <2>1, <2>2
<1>8. ASSUME NEW x \in Nat, NEW y \in Nat, x * x <= y * y
      PROVE  x <= y
  BY <1>8
<1>9. QED
  BY <1>6, <1>7, <1>8

\* The sides after the clamp: numbers whose product is in budget, but that a
\* side may have been rounded up to one.
LEMMA ClampInBudget ==
  ASSUME NEW w \in Nat, NEW h \in Nat, NEW budget \in Nat, w > 0, h > 0
  PROVE  /\ Clamp(w, h, budget)[1] \in Nat /\ Clamp(w, h, budget)[2] \in Nat
         /\ \/ Clamp(w, h, budget)[1] * Clamp(w, h, budget)[2] <= budget
            \/ w * h > budget /\ (Clamp(w, h, budget)[1] = 1 \/ Clamp(w, h, budget)[2] = 1)
<1>1. w * h \in Nat /\ w * h > 0
  OBVIOUS
<1>2. CASE w * h <= budget
  BY <1>2 DEF Clamp
<1>3. CASE w * h > budget
  <2> DEFINE a == w * h
  <2>1. a \in Nat /\ a > budget
    BY <1>1, <1>3
  <2> HIDE DEF a
  <2>2. PICK m \in 0..w : Scaled(w, a, budget) = Larger(1, m) /\ (m * m) * a <= (w * w) * budget
    BY <2>1, ScaledInBudget
  <2>3. PICK n \in 0..h : Scaled(h, a, budget) = Larger(1, n) /\ (n * n) * a <= (h * h) * budget
    BY <2>1, ScaledInBudget
  <2>4. m * n <= budget
    BY <1>1, <2>2, <2>3, ProductInBudget DEF a
  <2>5. Clamp(w, h, budget) = <<Larger(1, m), Larger(1, n)>>
    <3>1. ~(w * h <= budget)
      BY <1>1, <1>3
    <3>2. QED
      BY <2>2, <2>3, <3>1, Zenon DEF Clamp, a
  <2>6. /\ Larger(1, m) \in Nat /\ Larger(1, n) \in Nat
        /\ Larger(1, m) = 1 \/ Larger(1, m) = m
        /\ Larger(1, n) = 1 \/ Larger(1, n) = n
    BY DEF Larger
  <2>7. Larger(1, m) * Larger(1, n) <= budget \/ Larger(1, m) = 1 \/ Larger(1, n) = 1
    BY <2>4, <2>6
  <2>8. QED
    BY <1>3, <2>5, <2>6, <2>7
<1>4. QED
  BY <1>1, <1>2, <1>3

\* Sides in the budget of M tokens, or one of them less than a patch, are cut
\* into no more than M.
LEMMA TokensInBudget ==
  ASSUME NEW x \in Nat, NEW y \in Nat, NEW p \in Nat, NEW m \in Nat, NEW M \in Nat,
         p > 0, m > 0, x * y <= ((M * p) * p) * m \/ (p > 1 /\ (x = 1 \/ y = 1))
  PROVE  /\ ((x \div p) * (y \div p)) \div m \in Nat
         /\ ((x \div p) * (y \div p)) \div m <= M
<1> DEFINE a == x \div p
           b == y \div p
<1>1. a \in Nat /\ a * p <= x
  BY QuotientNat
<1>2. b \in Nat /\ b * p <= y
  BY QuotientNat
<1> HIDE DEF a, b
<1>3. a * b <= M * m
  <2>1. CASE x * y <= ((M * p) * p) * m
    <3>1. a * p \in Nat /\ b * p \in Nat
      BY <1>1, <1>2, TimesNat
    <3>2. (a * p) * (b * p) <= x * y
      BY <1>1, <1>2, <3>1, TimesMonotone
    <3>3. (a * p) * (b * p) = (a * b) * (p * p) /\ ((M * p) * p) * m = (M * m) * (p * p)
      BY <1>1, <1>2
    <3>4. x * y \in Nat /\ p * p \in Nat /\ M * m \in Nat /\ a * b \in Nat
      BY <1>1, <1>2, TimesNat
    <3>5. p * p > 0
      OBVIOUS
    <3>6. (a * b) * (p * p) \in Nat /\ (M * m) * (p * p) \in Nat
      BY <3>4, TimesNat
    <3>7. (a * b) * (p * p) <= (M * m) * (p * p)
      BY <2>1, <3>2, <3>3, <3>4, <3>6
    <3>8. ASSUME NEW i \in Nat, NEW j \in Nat, NEW k \in Nat, k > 0, i * k <= j * k
          PROVE  i <= j
      BY <3>8
    <3>9. QED
      BY <3>4, <3>5, <3>7, <3>8
  <2>2. CASE p > 1 /\ (x = 1 \/ y = 1)
    <3>1. ASSUME NEW i \in Nat, i * p <= 1
          PROVE  i = 0
      BY <2>2, <3>1
    <3>2. a = 0 \/ b = 0
      BY <1>1, <1>2, <2>2, <3>1
    <3>3. a * b = 0 /\ M * m \in Nat
      BY <1>1, <1>2, <3>2, TimesNat
    <3>4. QED
      BY <3>3
  <2>3. QED
    BY <2>1, <2>2
<1>4. a * b \in Nat
  BY <1>1, <1>2, TimesNat
<1>5. (a * b) \div m \in Nat /\ (a * b) \div m <= M
  BY <1>3, <1>4, QuotientNat, QuotientBelow
<1>6. QED
  BY <1>5 DEF a, b

\* The tokens of an image: a number, at most the encoder's largest, unless
\* the image is a sliver.
LEMMA ImageTokensBounded ==
  ASSUME NEW w \in Nat, NEW h \in Nat, NEW s \in [patch: Patches, merge: Merges]
  PROVE  /\ ImageTokens(w, h, s) \in Nat
         /\ w > 0 /\ h > 0 /\ ~Sliver(w, h, s) =>
              ImageTokens(w, h, s) <= Larger(ImageFloor, MaxPixelTokens)
<1>1. s.patch \in Nat /\ s.patch > 0 /\ s.merge \in Nat /\ s.merge > 0
  <2>1. s.patch \in Patches /\ s.merge \in Merges
    OBVIOUS
  <2>2. s.patch \in Nat \ {0} /\ s.merge \in Nat \ {0}
    BY <2>1
  <2>3. QED
    BY <2>2
<1>2. CASE w = 0 \/ h = 0
  BY <1>2 DEF ImageTokens
<1>3. CASE w > 0 /\ h > 0
  <2> DEFINE p == s.patch
             m == s.merge
             budget == MaxPixels(s)
             x == Clamp(w, h, budget)[1]
             y == Clamp(w, h, budget)[2]
             n == ((x \div p) * (y \div p)) \div m
  <2>1. budget = ((MaxPixelTokens * p) * p) * m /\ budget \in Nat
    BY <1>1, TimesNat DEF MaxPixels
  <2>2. ImageTokens(w, h, s) = Larger(ImageFloor, n)
    <3>1. ~(w = 0 \/ h = 0)
      BY <1>3
    <3>2. QED
      BY <3>1, Zenon DEF ImageTokens
  <2>3. Sliver(w, h, s) <=> p = 1 /\ w * h > budget /\ (x = 1 \/ y = 1)
    BY DEF Sliver
  <2> HIDE DEF budget
  <2>4. x \in Nat /\ y \in Nat /\ (x * y <= budget \/ (w * h > budget /\ (x = 1 \/ y = 1)))
    BY <1>3, <2>1, ClampInBudget
  <2> HIDE DEF x, y, p, m
  <2>5. p \in Nat /\ p > 0 /\ m \in Nat /\ m > 0
    BY <1>1 DEF p, m
  <2>6. (x \div p) * (y \div p) \in Nat
    <3>1. x \div p \in Nat /\ y \div p \in Nat
      BY <2>4, <2>5, QuotientNat
    <3>2. QED
      BY <3>1, TimesNat
  <2>7. n \in Nat
    BY <2>5, <2>6, QuotientNat
  <2>8. ASSUME ~Sliver(w, h, s) PROVE n <= MaxPixelTokens
    <3>1. x * y <= ((MaxPixelTokens * p) * p) * m \/ (p > 1 /\ (x = 1 \/ y = 1))
      BY <2>1, <2>3, <2>4, <2>5, <2>8
    <3>2. QED
      BY <2>4, <2>5, <3>1, TokensInBudget
  <2>9. QED
    BY <2>2, <2>7, <2>8 DEF Larger
<1>4. QED
  BY <1>2, <1>3

------------------------------------------------------------------------------
(* The look-ups.                                                           *)

LEMMA PriceStarts == CostInit => PriceInv
BY DEF CostInit, PriceInv, PriceTypes, LookedUp, PricedInFull, PricedJobs, Pricing

\* What a step of jobCost does to where it is.
LEMMA GotoMoves ==
  ASSUME pricing \in Pricing,
         NEW at \in {"count", "backfill", "recount", "thinking"},
         NEW count \in {0, ActiveParams, TotalParams}, Goto(at, count)
  PROVE  /\ pricing' \in Pricing
         /\ pricing'.at = at /\ pricing'.count = count /\ pricing'.clean = pricing.clean
BY DEF Pricing, Goto

LEMMA PriceSteps == PriceInv /\ [CostNext]_costVars => PriceInv'
<1> SUFFICES ASSUME PriceInv, [CostNext]_costVars
             PROVE  PriceInv'
  OBVIOUS
<1> USE DEF PriceInv
<1>1. CASE Choose
  <2>1. /\ costJob' \in PricedJobs /\ costJob'.kind # "none"
        /\ shape' \in [patch: Patches, merge: Merges]
        /\ pricing' = pricing /\ header' = header
        /\ pricing.at = "composing"
    <3>1. costJob \in PricedJobs /\ UNCHANGED <<header, pricing>> /\ pricing.at = "composing"
      BY <1>1 DEF Choose, PriceTypes
    <3>2. PICK k \in {"chat", "batch_chat", "embed", "batch_embed", "tokenize"}, m \in Caps :
            costJob' = [costJob EXCEPT !.kind = k, !.max = m]
      BY <1>1 DEF Choose
    <3>3. m \in Nat
      OBVIOUS
    <3>4. costJob' \in PricedJobs /\ costJob'.kind # "none"
      BY <3>1, <3>2, <3>3 DEF PricedJobs
    <3>5. PICK p \in Patches, r \in Merges : shape' = [patch |-> p, merge |-> r]
      BY <1>1 DEF Choose
    <3>6. shape' \in [patch: Patches, merge: Merges]
      BY <3>5
    <3>7. QED
      BY <3>1, <3>4, <3>6
  <2>2. /\ costEntry' \in [listed: BOOLEAN, total: {0, TotalParams}, active: {0, ActiveParams},
                          thinking: BOOLEAN]
        /\ costEntry'.listed = costEntry.listed \/ costEntry'.listed = TRUE
        /\ costEntry'.active > 0 => costEntry'.thinking
    <3>1. CASE costEntry' = costEntry
      BY <3>1 DEF PriceTypes, LookedUp
    <3>2. CASE costEntry' = [costEntry EXCEPT !.total = TotalParams]
      BY <3>2 DEF PriceTypes, LookedUp
    <3>3. CASE costEntry' = [listed |-> TRUE, total |-> TotalParams, active |-> ActiveParams,
                             thinking |-> TRUE]
      BY <3>3
    <3>4. QED
      BY <1>1, <3>1, <3>2, <3>3 DEF Choose
  <2>3. \A n \in Patches \cup Merges : n \in Nat
    OBVIOUS
  <2>4. PriceTypes'
    BY <2>1, <2>2, <2>3 DEF PriceTypes
  <2>5. LookedUp' /\ PricedInFull'
    BY <2>1, <2>2 DEF LookedUp, PricedInFull
  <2>6. QED
    BY <2>4, <2>5
<1>2. CASE AddText \/ AddImage \/ AddAudio
  <2>1. /\ UNCHANGED <<shape, costEntry, header, pricing>>
        /\ pricing.at = "composing" /\ costJob.kind # "none"
    BY <1>2 DEF AddText, AddImage, AddAudio, More
  <2>2. costJob' \in PricedJobs /\ costJob'.kind = costJob.kind
    <3>1. costJob \in PricedJobs /\ costJob.parts + 1 \in 0..MaxParts
      <4>1. costJob \in PricedJobs /\ costJob.parts < MaxParts
        BY <1>2 DEF PriceTypes, AddText, AddImage, AddAudio, More
      <4>2. costJob.parts \in 0..MaxParts /\ MaxParts \in Nat
        BY <4>1 DEF PricedJobs
      <4>3. QED
        BY <4>1, <4>2
    <3>2. CASE AddText
      <4>1. PICK n \in Texts : costJob' = [costJob EXCEPT !.bytes = @ + n, !.parts = @ + 1]
        BY <3>2 DEF AddText
      <4>2. costJob.bytes + n \in Nat
        BY <3>1 DEF PricedJobs
      <4>3. QED
        BY <3>1, <4>1, <4>2 DEF PricedJobs
    <3>3. CASE AddImage
      <4>1. PICK w, h \in 0..Side :
              costJob' = [costJob EXCEPT !.media = @ + ImageTokens(w, h, shape), !.parts = @ + 1]
        BY <3>3 DEF AddImage
      <4>2. shape \in [patch: Patches, merge: Merges]
        BY <2>1 DEF PriceTypes
      <4>3. ImageTokens(w, h, shape) \in Nat
        <5>1. w \in Nat /\ h \in Nat
          OBVIOUS
        <5>2. QED
          BY <4>2, <5>1, ImageTokensBounded
      <4>4. costJob.media + ImageTokens(w, h, shape) \in Nat
        BY <3>1, <4>3 DEF PricedJobs
      <4>5. QED
        BY <3>1, <4>1, <4>4 DEF PricedJobs
    <3>4. CASE AddAudio
      <4>1. costJob' = [costJob EXCEPT !.media = @ + AudioDefault, !.parts = @ + 1]
        BY <3>4 DEF AddAudio
      <4>2. costJob.media + AudioDefault \in Nat
        BY <3>1 DEF PricedJobs
      <4>3. QED
        BY <3>1, <4>1, <4>2 DEF PricedJobs
    <3>5. QED
      BY <1>2, <3>2, <3>3, <3>4
  <2>3. QED
    BY <2>1, <2>2 DEF PriceTypes, LookedUp, PricedInFull
<1>3. CASE EntryPruned
  BY <1>3 DEF EntryPruned, Underway, PriceTypes, LookedUp, PricedInFull, Pricing
<1>4. CASE HeaderUnreadable
  BY <1>4 DEF HeaderUnreadable, Underway, PriceTypes, LookedUp, PricedInFull, Pricing
<1>5. CASE Submit
  <2>1. pricing \in Pricing /\ Goto("count", 0) /\ costJob.kind # "none"
        /\ UNCHANGED <<costJob, shape, costEntry, header>>
    BY <1>5 DEF Submit, PriceTypes
  <2>2. pricing' \in Pricing /\ pricing'.at = "count" /\ pricing'.clean = pricing.clean
    BY <2>1, GotoMoves
  <2>3. QED
    BY <2>1, <2>2 DEF PriceTypes, LookedUp, PricedInFull
<1>6. CASE Count
  <2>1. pricing \in Pricing /\ pricing.at = "count" /\ costJob.kind # "none"
        /\ UNCHANGED <<costJob, shape, costEntry, header>>
    BY <1>6 DEF Count, PriceTypes
  <2>2. CASE ~costEntry.listed
    <3>1. pricing' \in Pricing /\ pricing'.at = "thinking" /\ pricing'.clean = pricing.clean
      BY <1>6, <2>1, <2>2, GotoMoves DEF Count
    <3>2. QED
      BY <2>1, <2>2, <3>1 DEF PriceTypes, LookedUp, PricedInFull
  <2>3. CASE costEntry.listed /\ CountKept > 0
    <3>1. costEntry.active = ActiveParams /\ CountKept = ActiveParams /\ costEntry.thinking
      BY <2>3 DEF CountKept, PriceTypes, LookedUp
    <3>2. /\ pricing' \in Pricing /\ pricing'.at = "thinking" /\ pricing'.clean = pricing.clean
          /\ pricing'.count = ActiveParams
      BY <1>6, <2>1, <2>3, <3>1, GotoMoves DEF Count
    <3>3. QED
      BY <2>1, <2>3, <3>1, <3>2 DEF PriceTypes, LookedUp, PricedInFull
  <2>4. CASE costEntry.listed /\ ~(CountKept > 0)
    <3>1. /\ pricing' = [pricing EXCEPT !.at = "backfill", !.old = costEntry.total]
          /\ costEntry.total \in {0, TotalParams}
      BY <1>6, <2>4 DEF Count, PriceTypes
    <3>2. pricing' \in Pricing /\ pricing'.at = "backfill" /\ pricing'.clean = pricing.clean
      BY <2>1, <3>1 DEF Pricing
    <3>3. QED
      BY <2>1, <3>2 DEF PriceTypes, LookedUp, PricedInFull
  <2>5. QED
    BY <2>2, <2>3, <2>4
<1>7. CASE Backfill
  <2>1. pricing \in Pricing /\ pricing.at = "backfill" /\ costJob.kind # "none"
        /\ UNCHANGED <<costJob, shape, header>>
    BY <1>7 DEF Backfill, PriceTypes
  <2>2. CASE header = "readable" /\ costEntry.listed
    <3>1. /\ costEntry' = [costEntry EXCEPT !.total = TotalParams, !.active = ActiveParams,
                                           !.thinking = TRUE]
          /\ Goto("recount", 0)
      BY <1>7, <2>2 DEF Backfill
    <3>2. pricing' \in Pricing /\ pricing'.at = "recount" /\ pricing'.clean = pricing.clean
      BY <2>1, <3>1, GotoMoves
    <3>3. QED
      BY <2>1, <2>2, <3>1, <3>2 DEF PriceTypes, LookedUp, PricedInFull
  <2>3. CASE ~(header = "readable" /\ costEntry.listed)
    <3>1. Goto("thinking", pricing.old) /\ costEntry' = costEntry /\ pricing.old \in {0, TotalParams}
      BY <1>7, <2>1, <2>3 DEF Backfill, Pricing
    <3>2. pricing' \in Pricing /\ pricing'.at = "thinking" /\ pricing'.clean = pricing.clean
      BY <2>1, <3>1, GotoMoves
    <3>3. QED
      BY <2>1, <2>3, <3>1, <3>2 DEF PriceTypes, LookedUp, PricedInFull
  <2>4. QED
    BY <2>2, <2>3
<1>8. CASE Recount
  <2> DEFINE count == IF ~costEntry.listed THEN 0
                      ELSE IF costEntry.active > 0 THEN costEntry.active ELSE costEntry.total
  <2>1. pricing \in Pricing /\ pricing.at = "recount" /\ costJob.kind # "none"
        /\ UNCHANGED <<costJob, shape, costEntry, header>>
    BY <1>8 DEF Recount, PriceTypes
  <2>2. Goto("thinking", count) /\ count \in {0, ActiveParams, TotalParams}
    BY <1>8 DEF Recount, PriceTypes
  <2>3. pricing.clean => count = ActiveParams /\ costEntry.thinking
    BY <2>1 DEF LookedUp
  <2> HIDE DEF count
  <2>4. /\ pricing' \in Pricing /\ pricing'.at = "thinking" /\ pricing'.clean = pricing.clean
        /\ pricing'.count = count
    BY <2>1, <2>2, GotoMoves
  <2>5. QED
    BY <2>1, <2>3, <2>4 DEF PriceTypes, LookedUp, PricedInFull
<1>9. CASE Thinking
  <2>1. /\ pricing \in Pricing /\ pricing.at = "thinking" /\ costJob.kind # "none"
        /\ UNCHANGED <<costJob, shape, costEntry, header>>
        /\ (costEntry.listed /\ costEntry.thinking) \in BOOLEAN
    BY <1>9 DEF Thinking, PriceTypes
  <2>2. /\ pricing' \in Pricing /\ pricing'.at = "priced" /\ pricing'.clean = pricing.clean
        /\ pricing'.count = pricing.count
        /\ pricing'.thinking = (costEntry.listed /\ costEntry.thinking)
    BY <1>9, <2>1 DEF Thinking, Pricing
  <2>3. QED
    BY <2>1, <2>2 DEF PriceTypes, LookedUp, PricedInFull
<1>10. CASE UNCHANGED costVars
  BY <1>10 DEF costVars, PriceTypes, LookedUp, PricedInFull
<1>11. QED
  BY <1>1, <1>2, <1>3, <1>4, <1>5, <1>6, <1>7, <1>8, <1>9, <1>10 DEF CostNext

LEMMA AlwaysPriceInv == CostSpec => []PriceInv
BY PriceStarts, PriceSteps, PTL DEF CostSpec

\* Every part of a job has a natural number of tokens, whatever image it is.
THEOREM CostTypes == CostSpec => []CostTypeOK
<1>1. PriceInv => CostTypeOK
  BY DEF PriceInv, PriceTypes, CostTypeOK, PricedJobs, Pricing
<1>2. QED
  BY <1>1, AlwaysPriceInv, PTL

\* A job whose model stays in the catalogue is priced at what the header
\* says, whether the entry had it or was parsed again on the way.
THEOREM JobsPricedInFull == CostSpec => []PricedInFull
BY AlwaysPriceInv, PTL DEF PriceInv

------------------------------------------------------------------------------
(* The order of prices.                                                    *)

\* A job of the same kind with no less content costs no less.
LEMMA WorkMonotone ==
  ASSUME NEW j \in PricedJobs, NEW k \in PricedJobs, NEW thinking \in BOOLEAN,
         j.kind = k.kind, j.max = k.max, j.bytes <= k.bytes, j.media <= k.media,
         j.kind = "chat" => DecodeBase(j) > 0
  PROVE  Work(j, thinking) <= Work(k, thinking)
<1>1. /\ TextTokens(j) \in Nat /\ TextTokens(k) \in Nat /\ TextTokens(j) <= TextTokens(k)
      /\ j.media \in Nat /\ k.media \in Nat
      /\ j.media \div MediaDivisor <= k.media \div MediaDivisor
      /\ j.media \div MediaDivisor \in Nat /\ k.media \div MediaDivisor \in Nat
  BY DEF PricedJobs, TextTokens, BytesPerToken, MediaDivisor
<1>2. InputTokens(j) <= InputTokens(k) /\ InputTokens(j) \in Nat /\ InputTokens(k) \in Nat
  BY <1>1 DEF InputTokens
<1>3. DecodeBase(j) <= DecodeBase(k) /\ DecodeBase(j) \in Nat /\ DecodeBase(k) \in Nat
  BY <1>1 DEF DecodeBase
<1>4. /\ Decode(j, thinking) <= Decode(k, thinking)
      /\ Decode(j, thinking) \in Nat /\ Decode(k, thinking) \in Nat
  <2> DEFINE cap == IF j.max > 0 THEN j.max ELSE DefaultCap
  <2>1. cap \in Nat
    BY DEF PricedJobs
  <2>2. /\ Decode(j, thinking) = IF j.kind # "chat" THEN 0
                                 ELSE IF thinking THEN cap ELSE PlainDecode(DecodeBase(j), cap)
        /\ Decode(k, thinking) = IF j.kind # "chat" THEN 0
                                 ELSE IF thinking THEN cap ELSE PlainDecode(DecodeBase(k), cap)
    BY DEF Decode
  <2> HIDE DEF cap
  <2>3. QED
    BY <1>3, <2>1, <2>2 DEF PlainDecode, Smaller, DecodeRatio
<1>5. QED
  BY <1>2, <1>4 DEF Work, Larger, PrefillSpeedup

\* A price grows with its content, a thinking model is the dearest, and no
\* image but a sliver costs more than the encoder can make of it: for every
\* encoder, cap and size of image.
THEOREM PricesInOrder == CostSpec => PricesSound
<1>1. ASSUME PriceInv, PriceInv', [CostNext]_costVars, costJob'.parts > costJob.parts,
             costJob.kind = "chat" => DecodeBase(costJob) > 0, NEW thinking \in BOOLEAN
      PROVE  Work(costJob, thinking) <= Work(costJob', thinking)
  <2>1. costJob \in PricedJobs /\ costJob' \in PricedJobs
    BY <1>1 DEF PriceInv, PriceTypes
  <2>2. AddText \/ AddImage \/ AddAudio
    <3>1. costJob'.parts # costJob.parts
      BY <1>1, <2>1 DEF PricedJobs
    <3>2. ASSUME Choose
          PROVE  FALSE
      <4>1. PICK k \in {"chat", "batch_chat", "embed", "batch_embed", "tokenize"}, m \in Caps :
              costJob' = [costJob EXCEPT !.kind = k, !.max = m]
        BY <3>2 DEF Choose
      <4>2. costJob'.parts = costJob.parts
        BY <2>1, <4>1 DEF PricedJobs
      <4>3. QED
        BY <3>1, <4>2
    <3>3. EntryPruned \/ HeaderUnreadable \/ Submit \/ Count \/ Backfill \/ Recount \/ Thinking
            \/ UNCHANGED costVars => costJob' = costJob
      BY DEF EntryPruned, HeaderUnreadable, Submit, Count, Backfill, Recount, Thinking, costVars
    <3>4. QED
      BY <1>1, <3>1, <3>2, <3>3 DEF CostNext
  <2>3. /\ costJob'.kind = costJob.kind /\ costJob'.max = costJob.max
        /\ costJob'.bytes >= costJob.bytes /\ costJob'.media >= costJob.media
    <3>1. CASE AddText
      BY <2>1, <3>1 DEF AddText, PricedJobs
    <3>2. CASE AddAudio
      BY <2>1, <3>2 DEF AddAudio, PricedJobs
    <3>3. CASE AddImage
      <4>1. PICK w, h \in 0..Side :
              costJob' = [costJob EXCEPT !.media = @ + ImageTokens(w, h, shape), !.parts = @ + 1]
        BY <3>3 DEF AddImage
      <4>2. shape \in [patch: Patches, merge: Merges]
        BY <1>1, <3>3 DEF AddImage, PriceInv, PriceTypes
      <4>3. w \in Nat /\ h \in Nat
        OBVIOUS
      <4>4. ImageTokens(w, h, shape) \in Nat
        BY <4>2, <4>3, ImageTokensBounded
      <4>5. QED
        BY <2>1, <4>1, <4>4 DEF PricedJobs
    <3>4. QED
      BY <2>2, <3>1, <3>2, <3>3
  <2>4. costJob.bytes <= costJob'.bytes /\ costJob.media <= costJob'.media
    BY <2>1, <2>3 DEF PricedJobs
  <2>5. QED
    BY <1>1, <2>1, <2>3, <2>4, WorkMonotone
<1>2. ASSUME PriceInv
      PROVE  ThinkingDearest
  <2>1. costJob \in PricedJobs
    BY <1>2 DEF PriceInv, PriceTypes
  <2>2. /\ TextTokens(costJob) \in Nat /\ costJob.media \div MediaDivisor \in Nat
        /\ InputTokens(costJob) \in Nat /\ DecodeBase(costJob) \in Nat
    BY <2>1 DEF PricedJobs, TextTokens, InputTokens, DecodeBase, BytesPerToken, MediaDivisor
  <2>3. /\ Decode(costJob, FALSE) <= Decode(costJob, TRUE)
        /\ Decode(costJob, FALSE) \in Nat /\ Decode(costJob, TRUE) \in Nat
    BY <2>1, <2>2 DEF Decode, PlainDecode, Smaller, DecodeRatio, PricedJobs
  <2>4. QED
    <3>1. CASE costJob.kind = "tokenize"
      BY <3>1 DEF ThinkingDearest, Work, PrefillSpeedup
    <3>2. CASE costJob.kind # "tokenize"
      <4> DEFINE input == InputTokens(costJob)
                 plain == Decode(costJob, FALSE)
                 full == Decode(costJob, TRUE)
      <4>1. ThinkingDearest <=> Larger(PrefillSpeedup, input + PrefillSpeedup * plain)
                                  <= Larger(PrefillSpeedup, input + PrefillSpeedup * full)
        BY <3>2 DEF ThinkingDearest, Work
      <4>2. input \in Nat /\ plain \in Nat /\ full \in Nat /\ plain <= full
        BY <2>2, <2>3
      <4> HIDE DEF input, plain, full
      <4>3. QED
        BY <4>1, <4>2 DEF Larger, PrefillSpeedup
    <3>3. QED
      BY <3>1, <3>2
<1>3. ASSUME PriceInv
      PROVE  ImageInBudget
  <2>1. SUFFICES ASSUME costJob.kind = "chat", NEW w \in 1..Side, NEW h \in 1..Side
                 PROVE  \/ Sliver(w, h, shape)
                        \/ ImageTokens(w, h, shape) <= Larger(ImageFloor, MaxPixelTokens)
    BY DEF ImageInBudget
  <2>2. shape \in [patch: Patches, merge: Merges]
    BY <1>3, <2>1 DEF PriceInv, PriceTypes
  <2>3. w \in Nat /\ w > 0 /\ h \in Nat /\ h > 0
    OBVIOUS
  <2>4. QED
    BY <2>2, <2>3, ImageTokensBounded
<1>4. PriceInv /\ PriceInv' /\ [CostNext]_costVars =>
        [costJob'.parts > costJob.parts /\ (costJob.kind = "chat" => DecodeBase(costJob) > 0)
           => \A thinking \in BOOLEAN : Work(costJob, thinking) <= Work(costJob', thinking)]_costVars
  BY <1>1
<1>5. QED
  BY <1>2, <1>3, <1>4, AlwaysPriceInv, PTL DEF CostSpec, PricesSound, CostGrows

------------------------------------------------------------------------------
(***************************************************************************)
(* What the readers and cancellers of a job are told.                      *)
(***************************************************************************)

Jobs == [status: {"pending", "processing", "done", "error", "gone"}, body: Bodies]
Told == { DecodeHTTP(b) : b \in Bodies } \cup { DecodeGRPC(b) : b \in Bodies } \cup {NoBody}
Replies == [call: {"read", "cancel"}, front: {"http", "grpc"},
            code: {"ok", "not_found", "internal", "unavailable"}, saw: Jobs,
            status: {"none", "pending", "processing", "done", "error"}, result: Told]

ResultTypes == stored \in Jobs /\ replies \in Seq(Replies)

\* What MASS has of a job decides what a reader at a front end is told.
ReadTold(r) ==
  /\ r.saw.status = "gone" => r.code = "not_found" /\ r.status = "none" /\ r.result = NoBody
  /\ r.saw.status = "done" =>
       IF r.saw.body.kind = "garbage"
         THEN r.code = "internal" /\ r.status = "none" /\ r.result = NoBody
         ELSE /\ r.code = "ok" /\ r.status = "done"
              /\ r.result = IF r.front = "http" THEN DecodeHTTP(r.saw.body) ELSE DecodeGRPC(r.saw.body)
  /\ r.saw.status \notin {"gone", "done"} =>
       r.code = "ok" /\ r.status = r.saw.status /\ r.result = NoBody

\* A cancel is answered OK for a live job alone.
CancelTold(r) == r.status = "none" /\ (r.code = "ok" => r.saw.status \in {"pending", "processing"})

EachTold ==
  \A n \in DOMAIN replies :
    /\ replies[n].call = "read" /\ replies[n].code # "unavailable" => ReadTold(replies[n])
    /\ replies[n].call = "cancel" => CancelTold(replies[n])

\* What a job can be that was a before: a finished one stays as it is until
\* MASS forgets it.
After(a, b) ==
  /\ a.status \in {"done", "error"} => b = a \/ b.status = "gone"
  /\ a.status = "gone" => b.status = "gone"

\* The job has one history, and the calls saw it in order.
SeenInOrder ==
  /\ \A n \in DOMAIN replies : After(replies[n].saw, stored)
  /\ \A m, n \in DOMAIN replies : m < n => After(replies[m].saw, replies[n].saw)

\* A job whose cancel was answered OK runs no more.
CancelHolds ==
  \A m \in DOMAIN replies :
    replies[m].call = "cancel" /\ replies[m].code = "ok" =>
      /\ stored.status \in {"error", "gone"}
      /\ \A n \in DOMAIN replies : m < n => replies[n].saw.status \in {"error", "gone"}

ResultInv == ResultTypes /\ EachTold /\ SeenInOrder /\ CancelHolds

LEMMA ResultStarts == ResultInit => ResultInv
<1>1. <<>> \in Seq(Replies) /\ DOMAIN <<>> = {}
  OBVIOUS
<1>2. NoBody \in Bodies
  BY DEF NoBody, Bodies
<1>3. QED
  BY <1>1, <1>2 DEF ResultInit, ResultInv, ResultTypes, EachTold, SeenInOrder, CancelHolds, Jobs

\* The reply a call leaves.
ReplyOf(asked, front, code, status, result) ==
  [call |-> asked, front |-> front, code |-> code, saw |-> stored, status |-> status, result |-> result]

\* What a call tells, and what it makes of the job.
ToldBy(r) ==
  /\ replies' = Append(replies, r)
  /\ r \in Replies /\ r.saw = stored
  /\ r.call = "read" /\ r.code # "unavailable" => ReadTold(r)
  /\ r.call = "cancel" => CancelTold(r) /\ (r.code = "ok" => stored'.status = "error")

LEMMA ReadAnswers ==
  ASSUME ResultTypes, NEW front \in {"http", "grpc"}, Read(front)
  PROVE  \E r : ToldBy(r)
<1>1. /\ stored \in Jobs /\ stored.body \in Bodies /\ NoBody \in Told
      /\ DecodeHTTP(stored.body) \in Told /\ DecodeGRPC(stored.body) \in Told
  BY DEF ResultTypes, Jobs, Told
<1>2. CASE stored.status = "gone" /\ ResultNotFound(front)
  <2> DEFINE r == ReplyOf("read", front, "not_found", "none", NoBody)
  <2>1. r \in Replies /\ replies' = Append(replies, r) /\ r.saw = stored /\ ReadTold(r) /\ r.call = "read"
    BY <1>1, <1>2 DEF ResultNotFound, TellError, Tell, Replies, ReplyOf, ReadTold
  <2>2. QED
    BY <2>1 DEF ToldBy
<1>3. CASE TellError("read", front, "unavailable")
  <2> DEFINE r == ReplyOf("read", front, "unavailable", "none", NoBody)
  <2>1. r \in Replies /\ replies' = Append(replies, r) /\ r.saw = stored /\ r.call = "read"
        /\ r.code = "unavailable"
    BY <1>1, <1>3 DEF TellError, Tell, Replies, ReplyOf
  <2>2. QED
    BY <2>1 DEF ToldBy
<1>4. CASE stored.status # "gone" /\ Show(front)
  <2>1. StatusFromProto(stored.status) = stored.status /\ StatusShown(stored.status) = stored.status
    BY <1>1, <1>4 DEF StatusFromProto, StatusShown, Jobs
  <2>2. CASE stored.status # "done"
    <3> DEFINE r == ReplyOf("read", front, "ok", stored.status, NoBody)
    <3>1. r \in Replies /\ replies' = Append(replies, r) /\ r.saw = stored /\ ReadTold(r) /\ r.call = "read"
      BY <1>1, <1>4, <2>1, <2>2 DEF Show, Tell, Replies, ReplyOf, ReadTold, Jobs
    <3>2. QED
      BY <3>1 DEF ToldBy
  <2>3. CASE stored.status = "done" /\ stored.body.kind = "garbage"
    <3> DEFINE r == ReplyOf("read", front, "internal", "none", NoBody)
    <3>1. r \in Replies /\ replies' = Append(replies, r) /\ r.saw = stored /\ ReadTold(r) /\ r.call = "read"
      BY <1>1, <1>4, <2>1, <2>3 DEF Show, TellError, Tell, Replies, ReplyOf, ReadTold
    <3>2. QED
      BY <3>1 DEF ToldBy
  <2>4. CASE stored.status = "done" /\ stored.body.kind # "garbage"
    <3> DEFINE decoded == IF front = "http" THEN DecodeHTTP(stored.body) ELSE DecodeGRPC(stored.body)
               r == ReplyOf("read", front, "ok", stored.status, decoded)
    <3>1. decoded \in Told
      BY <1>1
    <3>2. replies' = Append(replies, r)
      BY <1>4, <2>1, <2>4 DEF Show, Tell, ReplyOf
    <3>3. r.front = front /\ r.saw = stored /\ r.call = "read" /\ r.code = "ok" /\ r.status = "done"
          /\ r.result = decoded
      BY <2>4 DEF ReplyOf
    <3>4. r.result = IF r.front = "http" THEN DecodeHTTP(r.saw.body) ELSE DecodeGRPC(r.saw.body)
      BY <3>3
    <3> HIDE DEF decoded
    <3>5. r \in Replies
      BY <1>1, <2>4, <3>1 DEF Replies, ReplyOf
    <3> HIDE DEF r
    <3>6. ReadTold(r)
      BY <2>4, <3>3, <3>4 DEF ReadTold
    <3>7. QED
      BY <3>2, <3>3, <3>5, <3>6 DEF ToldBy
  <2>5. QED
    BY <2>2, <2>3, <2>4
<1>5. QED
  BY <1>2, <1>3, <1>4 DEF Read

\* A job moves on only, and a call is answered for the job it met.
LEMMA ResultMoves ==
  ASSUME ResultTypes, [ResultNext]_resultVars
  PROVE  /\ stored' \in Jobs /\ After(stored, stored')
         /\ replies' = replies \/ \E r : ToldBy(r)
<1>1. stored \in Jobs /\ NoBody \in Bodies /\ NoBody \in Told
  BY DEF ResultTypes, NoBody, Bodies, Told
<1>2. CASE Run \/ Requeue \/ Complete \/ Forget \/ UNCHANGED resultVars
  BY <1>1, <1>2 DEF Run, Requeue, Complete, Forget, resultVars, Jobs, After
<1>3. ASSUME NEW front \in {"http", "grpc"}, Read(front)
      PROVE  stored' = stored /\ \E r : ToldBy(r)
  BY <1>3, ReadAnswers DEF Read
<1>4. ASSUME NEW front \in {"http", "grpc"}, Cancel(front)
      PROVE  /\ stored' \in Jobs /\ After(stored, stored')
             /\ \E r : ToldBy(r)
  <2>1. /\ stored' = stored \/ (Alive /\ stored' = [status |-> "error", body |-> NoBody])
        /\ stored' \in Jobs /\ After(stored, stored')
    <3>1. stored' = stored \/ (Alive /\ stored' = [status |-> "error", body |-> NoBody])
      BY <1>4 DEF Cancel
    <3>2. QED
      BY <1>1, <3>1 DEF Jobs, After, Alive
  <2>2. CASE Alive /\ TellError("cancel", front, "ok") /\ stored' = [status |-> "error", body |-> NoBody]
    <3> DEFINE r == ReplyOf("cancel", front, "ok", "none", NoBody)
    <3>1. /\ r \in Replies /\ replies' = Append(replies, r) /\ r.saw = stored /\ CancelTold(r)
          /\ r.call = "cancel" /\ stored'.status = "error"
      BY <1>1, <2>2 DEF TellError, Tell, Replies, ReplyOf, CancelTold, Alive
    <3>2. QED
      BY <2>1, <3>1 DEF ToldBy
  <2>3. CASE NotCancellable(front)
    <3> DEFINE r == ReplyOf("cancel", front, "not_found", "none", NoBody)
    <3>1. /\ r \in Replies /\ replies' = Append(replies, r) /\ r.saw = stored /\ CancelTold(r)
          /\ r.call = "cancel" /\ r.code # "ok"
      BY <1>1, <2>3 DEF NotCancellable, TellError, Tell, Replies, ReplyOf, CancelTold
    <3>2. QED
      BY <2>1, <3>1 DEF ToldBy
  <2>4. CASE TellError("cancel", front, "unavailable")
    <3> DEFINE r == ReplyOf("cancel", front, "unavailable", "none", NoBody)
    <3>1. /\ r \in Replies /\ replies' = Append(replies, r) /\ r.saw = stored /\ CancelTold(r)
          /\ r.call = "cancel" /\ r.code # "ok"
      BY <1>1, <2>4 DEF TellError, Tell, Replies, ReplyOf, CancelTold
    <3>2. QED
      BY <2>1, <3>1 DEF ToldBy
  <2>5. QED
    BY <1>4, <2>1, <2>2, <2>3, <2>4 DEF Cancel
<1>5. stored' = stored => stored' \in Jobs /\ After(stored, stored')
  BY <1>1 DEF After, Jobs
<1>6. QED
  BY <1>2, <1>3, <1>4, <1>5 DEF ResultNext

LEMMA ResultSteps == ResultInv /\ [ResultNext]_resultVars => ResultInv'
<1> SUFFICES ASSUME ResultInv, [ResultNext]_resultVars
             PROVE  ResultInv'
  OBVIOUS
<1> DEFINE L == Len(replies)
<1>1. /\ stored \in Jobs /\ replies \in Seq(Replies) /\ L \in Nat /\ DOMAIN replies = 1..L
      /\ stored' \in Jobs /\ After(stored, stored')
  BY ResultMoves DEF ResultInv, ResultTypes
<1>2. /\ \A n \in DOMAIN replies : After(replies[n].saw, stored')
      /\ \A n \in DOMAIN replies : replies[n].call = "cancel" /\ replies[n].code = "ok"
           => stored.status \in {"error", "gone"} /\ stored'.status \in {"error", "gone"}
  BY <1>1 DEF ResultInv, SeenInOrder, CancelHolds, After
<1>3. CASE replies' = replies
  BY <1>1, <1>2, <1>3 DEF ResultInv, ResultTypes, EachTold, SeenInOrder, CancelHolds
<1>4. CASE \E r : ToldBy(r)
  <2>1. PICK r : ToldBy(r)
    BY <1>4
  <2>2. /\ replies' \in Seq(Replies) /\ DOMAIN replies' = 1..(L + 1)
        /\ \A n \in DOMAIN replies' : \/ n = L + 1 /\ replies'[n] = r
                                      \/ n \in DOMAIN replies /\ n < L + 1 /\ replies'[n] = replies[n]
    BY <1>1, <2>1 DEF ToldBy
  <2> HIDE DEF L
  <2>3. EachTold'
    <3>1. SUFFICES ASSUME NEW n \in DOMAIN replies'
                   PROVE  /\ replies'[n].call = "read" /\ replies'[n].code # "unavailable"
                               => ReadTold(replies'[n])
                          /\ replies'[n].call = "cancel" => CancelTold(replies'[n])
      BY DEF EachTold, ReadTold, CancelTold
    <3>2. CASE replies'[n] = r
      BY <2>1, <3>2 DEF ToldBy
    <3>3. CASE n \in DOMAIN replies /\ replies'[n] = replies[n]
      BY <3>3 DEF ResultInv, EachTold
    <3>4. QED
      BY <2>2, <3>2, <3>3
  <2>4. SeenInOrder'
    <3>1. \A n \in DOMAIN replies' : After(replies'[n].saw, stored')
      BY <1>1, <1>2, <2>1, <2>2 DEF ToldBy
    <3>2. \A m, n \in DOMAIN replies' :
            m < n => After(replies'[m].saw, replies'[n].saw)
      <4> SUFFICES ASSUME NEW m \in DOMAIN replies', NEW n \in DOMAIN replies', m < n
                   PROVE  After(replies'[m].saw, replies'[n].saw)
        OBVIOUS
      <4>1. m # L + 1
        BY <1>1, <2>2
      <4>2. m \in DOMAIN replies /\ replies'[m] = replies[m]
        BY <2>2, <4>1
      <4>3. CASE n = L + 1 /\ replies'[n] = r
        BY <2>1, <4>2, <4>3 DEF ResultInv, SeenInOrder, ToldBy
      <4>4. CASE n \in DOMAIN replies /\ replies'[n] = replies[n]
        BY <4>2, <4>4 DEF ResultInv, SeenInOrder
      <4>5. QED
        BY <2>2, <4>3, <4>4
    <3>3. QED
      BY <3>1, <3>2 DEF SeenInOrder, After
  <2>5. CancelHolds'
    <3> SUFFICES ASSUME NEW m \in DOMAIN replies', replies'[m].call = "cancel", replies'[m].code = "ok"
                 PROVE  /\ stored'.status \in {"error", "gone"}
                        /\ \A n \in DOMAIN replies' :
                             m < n => replies'[n].saw.status \in {"error", "gone"}
      BY DEF CancelHolds
    <3>1. CASE m = L + 1 /\ replies'[m] = r
      <4>1. \A n \in DOMAIN replies' : ~(m < n)
        BY <1>1, <2>2, <3>1
      <4>2. QED
        BY <2>1, <3>1, <4>1 DEF ToldBy
    <3>2. CASE m \in DOMAIN replies /\ replies'[m] = replies[m]
      <4>1. stored.status \in {"error", "gone"} /\ stored'.status \in {"error", "gone"}
        BY <1>2, <3>2
      <4>2. ASSUME NEW n \in DOMAIN replies', m < n
            PROVE  replies'[n].saw.status \in {"error", "gone"}
        BY <2>1, <2>2, <3>2, <4>1, <4>2 DEF ToldBy, ResultInv, CancelHolds
      <4>3. QED
        BY <4>1, <4>2
    <3>3. QED
      BY <2>2, <3>1, <3>2
  <2>6. QED
    BY <1>1, <2>2, <2>3, <2>4, <2>5 DEF ResultInv, ResultTypes
<1>5. QED
  BY <1>3, <1>4, ResultMoves DEF ResultInv

LEMMA AlwaysResultInv == ResultSpec => []ResultInv
BY ResultStarts, ResultSteps, PTL DEF ResultSpec

\* A job's status and body, and the replies about it, are of the kinds that
\* MASS and the handlers know.
THEOREM ResultTypesHold == ResultSpec => []ResultTypeOK
<1>1. ASSUME ResultInv
      PROVE  ResultTypeOK
  <2>1. stored \in Jobs /\ \A n \in DOMAIN replies : replies[n] \in Replies
    BY <1>1 DEF ResultInv, ResultTypes
  <2>2. \A n \in DOMAIN replies :
          /\ replies[n].code \in {"ok", "not_found", "internal", "unavailable"}
          /\ replies[n].status \in {"none", "pending", "processing", "done", "error"}
    BY <2>1 DEF Replies
  <2>3. stored.status \in {"pending", "processing", "done", "error", "gone"} /\ stored.body \in Bodies
    BY <2>1 DEF Jobs
  <2>4. QED
    BY <2>2, <2>3 DEF ResultTypeOK
<1>2. QED
  BY <1>1, AlwaysResultInv, PTL

\* The decoder and its proto mirror give the same of every finished body.
LEMMA DecodersAgree ==
  ASSUME NEW b \in Bodies
  PROVE  Plain(DecodeHTTP(b)) = Plain(DecodeGRPC(b))
<1>1. CASE b.kind \in {"chat", "batch_chat"}
  <2>1. ASSUME NEW i
        PROVE  PlainItem(ChatHTTP(i)) = PlainItem(ChatGRPC(i))
    <3>1. PlainWord(RoleString(i.role)) = PlainWord(RoleToProto(i.role))
      BY DEF PlainWord, RoleString, RoleToProto, KnownRoles
    <3>2. PlainWord(FinishString(i.finish)) = PlainWord(FinishToProto(i.finish))
      BY DEF PlainWord, FinishString, FinishToProto, KnownFinishes
    <3>3. QED
      BY <3>1, <3>2 DEF PlainItem, ChatHTTP, ChatGRPC
  <2> DEFINE F == [n \in DOMAIN b.of |-> ChatHTTP(b.of[n])]
             P == [n \in DOMAIN b.of |-> ChatGRPC(b.of[n])]
  <2>2. DecodeHTTP(b) = [kind |-> b.kind, of |-> F] /\ DecodeGRPC(b) = [kind |-> b.kind, of |-> P]
    BY <1>1, Zenon DEF DecodeHTTP, DecodeGRPC
  <2>3. [n \in DOMAIN F |-> PlainItem(F[n])] = [n \in DOMAIN P |-> PlainItem(P[n])]
    <3>1. \A n \in DOMAIN b.of : PlainItem(F[n]) = PlainItem(P[n])
      BY <2>1
    <3>2. DOMAIN F = DOMAIN b.of /\ DOMAIN P = DOMAIN b.of
      OBVIOUS
    <3> HIDE DEF F, P
    <3>3. QED
      BY <3>1, <3>2, Zenon
  <2> HIDE DEF F, P
  <2>4. /\ Plain([kind |-> b.kind, of |-> F])
             = [kind |-> b.kind, of |-> [n \in DOMAIN F |-> PlainItem(F[n])]]
        /\ Plain([kind |-> b.kind, of |-> P])
             = [kind |-> b.kind, of |-> [n \in DOMAIN P |-> PlainItem(P[n])]]
    BY DEF Plain
  <2>5. QED
    BY <2>2, <2>3, <2>4
<1>2. CASE b.kind \notin {"chat", "batch_chat"}
  BY <1>2 DEF DecodeHTTP, DecodeGRPC
<1>3. QED
  BY <1>1, <1>2

\* HTTP and gRPC readers of one stored result are told the same, whatever
\* the result and however many read it.
THEOREM FrontsAgree == ResultSpec => []ReadersAgree
<1>1. ASSUME ResultInv
      PROVE  ReadersAgree
  <2> SUFFICES ASSUME NEW i \in DOMAIN replies, NEW j \in DOMAIN replies, IsRead(i), IsRead(j),
                      replies[i].saw = replies[j].saw
               PROVE  /\ replies[i].code = replies[j].code
                      /\ replies[i].status = replies[j].status
                      /\ Plain(replies[i].result) = Plain(replies[j].result)
    BY DEF ReadersAgree
  <2> DEFINE r == replies[i]
             s == replies[j]
  <2>1. ReadTold(r) /\ ReadTold(s) /\ r.saw = s.saw
    BY <1>1 DEF ResultInv, EachTold, IsRead
  <2>2. r.saw.body \in Bodies
    <3>1. r \in Replies
      BY <1>1 DEF ResultInv, ResultTypes
    <3>2. QED
      BY <3>1 DEF Replies, Jobs
  <2> HIDE DEF r, s
  <2>3. r.code = s.code /\ r.status = s.status
    BY <2>1 DEF ReadTold
  <2>4. Plain(DecodeHTTP(r.saw.body)) = Plain(DecodeGRPC(r.saw.body))
    BY <2>2, DecodersAgree
  <2>5. Plain(r.result) = Plain(s.result)
    <3>1. CASE r.saw.status = "done" /\ r.saw.body.kind # "garbage"
      <4>1. /\ r.result \in {DecodeHTTP(r.saw.body), DecodeGRPC(r.saw.body)}
            /\ s.result \in {DecodeHTTP(r.saw.body), DecodeGRPC(r.saw.body)}
        BY <2>1, <3>1 DEF ReadTold
      <4>2. QED
        BY <2>4, <4>1
    <3>2. CASE ~(r.saw.status = "done" /\ r.saw.body.kind # "garbage")
      <4>1. r.result = s.result
        BY <2>1, <3>2 DEF ReadTold
      <4>2. QED
        BY <4>1
    <3>3. QED
      BY <3>1, <3>2
  <2>6. QED
    BY <2>3, <2>5 DEF r, s
<1>2. QED
  BY <1>1, AlwaysResultInv, PTL

\* What readers and cancellers are told is one history of the job, however
\* many they are.
THEOREM OneHistory == ResultSpec => []ReadsHonest
<1>1. ASSUME ResultInv
      PROVE  ReadsHonest
  <2>1. ASSUME NEW n \in DOMAIN replies, IsRead(n)
        PROVE  ReadTold(replies[n]) /\ replies[n].saw \in Jobs
    <3>1. replies[n] \in Replies
      BY <1>1 DEF ResultInv, ResultTypes
    <3>2. replies[n].saw \in Jobs
      BY <3>1 DEF Replies
    <3>3. ReadTold(replies[n])
      BY <1>1, <2>1 DEF ResultInv, EachTold, IsRead
    <3>4. QED
      BY <3>2, <3>3
  <2>2. ASSUME NEW i \in DOMAIN replies, Final(i)
        PROVE  /\ replies[i].saw.status = replies[i].status /\ replies[i].status \in {"done", "error"}
               /\ replies[i].status = "done" => replies[i].saw.body.kind # "garbage"
    BY <2>1, <2>2 DEF ReadTold, Final, Jobs
  <2>3. ASSUME NEW i \in DOMAIN replies, NEW j \in DOMAIN replies, i < j, Final(i), IsRead(j)
        PROVE  replies[j].code = "not_found" \/ replies[j].status = replies[i].status
    <3>1. replies[j].saw = replies[i].saw \/ replies[j].saw.status = "gone"
      BY <1>1, <2>2, <2>3 DEF ResultInv, SeenInOrder, After
    <3>2. CASE replies[j].saw.status = "gone"
      BY <2>1, <2>3, <3>2 DEF ReadTold
    <3>3. CASE replies[j].saw = replies[i].saw
      BY <2>1, <2>2, <2>3, <3>3 DEF ReadTold
    <3>4. QED
      BY <3>1, <3>2, <3>3
  <2>4. ASSUME NEW i \in DOMAIN replies, NEW j \in DOMAIN replies,
               replies[j].call = "cancel", replies[j].code = "ok"
        PROVE  /\ i < j => ~Final(i)
               /\ j < i /\ IsRead(i) => replies[i].status \in {"none", "error"}
    <3>1. replies[j].saw.status \in {"pending", "processing"}
      BY <1>1, <2>4 DEF ResultInv, EachTold, CancelTold
    <3>2. i < j => ~Final(i)
      <4> SUFFICES ASSUME i < j, Final(i)
                   PROVE  FALSE
        OBVIOUS
      <4>1. replies[j].saw = replies[i].saw \/ replies[j].saw.status = "gone"
        BY <1>1, <2>2 DEF ResultInv, SeenInOrder, After
      <4>2. QED
        BY <2>2, <3>1, <4>1
    <3>3. ASSUME j < i, IsRead(i)
          PROVE  replies[i].status \in {"none", "error"}
      <4>1. replies[i].saw.status \in {"error", "gone"}
        BY <1>1, <2>4, <3>3 DEF ResultInv, CancelHolds
      <4>2. QED
        BY <2>1, <3>3, <4>1 DEF ReadTold
    <3>4. QED
      BY <3>2, <3>3
  <2>5. QED
    BY <2>3, <2>4 DEF ReadsHonest, FinalStays, CancelHonest
<1>2. QED
  BY <1>1, AlwaysResultInv, PTL
=============================================================================
