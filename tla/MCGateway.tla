------------------------------ MODULE MCGateway ------------------------------
(***************************************************************************)
(* Instances for TLC of eight parts of the gateway that share no state,    *)
(* checked side by side: a behaviour first chooses a part, and then only   *)
(* that part moves.  So the states are the sum of the parts' states and    *)
(* not their product, and every property is checked on its own part.       *)
(***************************************************************************)
EXTENDS DeletePlan, InstallSearch, GatewayInit, PredictCost, Submission,
        ModelViews, GgufReader, JobResults, TLC

VARIABLE part

\* A group of two files and another one.  One instance was loaded from the
\* group's files; one is reported by its directory, and its name is one the
\* group had before; the last is of the other group.
CONSTANTS own, dir, other

MCFiles ==
  [i \in Instances |->
     CASE i = own -> {<<"gguf", "a", "q">>, <<"gguf", "a", "m">>}
       [] i = dir -> {<<"gguf", "a">>}
       [] OTHER   -> {<<"gguf", "b", "q">>}]
MCNamed ==
  [i \in Instances |->
     CASE i = own -> <<"a", "q">> [] i = dir -> <<"old", "q">> [] OTHER -> <<"b", "q">>]
MCDoomed == {<<"gguf", "a", "q">>, <<"gguf", "a", "m">>}

\* A chat model with its projector, published under another name than that
\* of their directory, and an embedding model.
ChatPath == <<"dir", "a">>
ProjPath == <<"dir", "m">>
EmbedPath == <<"q", "b">>
MCPaths == {ChatPath, ProjPath, EmbedPath}
MCTypeOf == (ChatPath :> "chat") @@ (ProjPath :> "mmproj") @@ (EmbedPath :> "embedding")
MCProjector == (ChatPath :> "m") @@ (ProjPath :> "m") @@ (EmbedPath :> "none")
MCPublished == (ChatPath :> <<"slug", "a">>) @@ (ProjPath :> ProjPath) @@ (EmbedPath :> EmbedPath)
MCConfigs ==
  { NoConfig, [NoConfig EXCEPT !.gpu = 0, !.headroom = 40], [NoConfig EXCEPT !.mmproj = "x"],
    [NoConfig EXCEPT !.cache = "other", !.headroom = 0] }
Content(t, thinking, role, parts, inputs, source) ==
  [sampling |-> [temperature |-> t, thinking |-> thinking], role |-> role,
   parts |-> parts, inputs |-> inputs, source |-> source]
MCContents ==
  { Content(NotSet, FALSE, "user", <<>>, <<>>, "none"),
    Content(0, TRUE, "narrator", <<"text", "video", "image">>, <<"none", "i">>, " "),
    Content(7, TRUE, "tool", <<>>, <<"i", "j">>, "app") }

Header(a, pooling, template) == [arch |-> a, pooling |-> pooling, template |-> template]
MCHeaders ==
  { Header("clip", TRUE, "thinks"), Header("other", FALSE, "thinks"),
    Header("other", TRUE, "thinks"), Header("none", TRUE, "plain") }
Listing(projector, f16, says) == [projector |-> projector, f16 |-> f16, says |-> says]
MCListable ==
  { Listing(FALSE, FALSE, "q4"), Listing(FALSE, TRUE, "f16"), Listing(TRUE, FALSE, "f32"),
    Listing(TRUE, TRUE, "f16"), Listing(TRUE, TRUE, "bf16") }

MCFinals ==
  { [role |-> "assistant", text |-> "hi", finish |-> "tool_calls"],
    [role |-> "critic", text |-> "hi", finish |-> "shutdown"] }

\* Safety alone is checked here, so symmetry is sound.
Symmetry == Permutations(Pages) \cup Permutations(Repos)

Parts == {"delete", "search", "init", "cost", "submission", "views", "gguf", "result"}

MCInit ==
  /\ part \in Parts
  /\ DeleteInit /\ SearchInit /\ GatewayStart /\ CostInit
  /\ SubmissionInit /\ ViewsInit /\ ReaderInit /\ ResultInit

\* The others' variables, by the part that moves.
Rest(p) ==
  /\ IF p = "delete" THEN TRUE ELSE UNCHANGED deleteVars
  /\ IF p = "search" THEN TRUE ELSE UNCHANGED searchVars
  /\ IF p = "init" THEN TRUE ELSE UNCHANGED gatewayVars
  /\ IF p = "cost" THEN TRUE ELSE UNCHANGED costVars
  /\ IF p = "submission" THEN TRUE ELSE UNCHANGED submissionVars
  /\ IF p = "views" THEN TRUE ELSE UNCHANGED viewVars
  /\ IF p = "gguf" THEN TRUE ELSE UNCHANGED ggufVars
  /\ IF p = "result" THEN TRUE ELSE UNCHANGED resultVars
  /\ UNCHANGED part

MCNext ==
  \/ part = "delete" /\ DeleteNext /\ Rest("delete")
  \/ part = "search" /\ SearchNext /\ Rest("search")
  \/ part = "init" /\ GatewayNext /\ Rest("init")
  \/ part = "cost" /\ CostNext /\ Rest("cost")
  \/ part = "submission" /\ SubmissionNext /\ Rest("submission")
  \/ part = "views" /\ ViewsNext /\ Rest("views")
  \/ part = "gguf" /\ ReaderNext /\ Rest("gguf")
  \/ part = "result" /\ ResultNext /\ Rest("result")

MCSpec ==
  MCInit /\ [][MCNext]_<<part, deleteVars, searchVars, gatewayVars, costVars, submissionVars,
                             viewVars, ggufVars, resultVars>>

\* Every part's variables have their types, among them: the write lock is
\* held by an Init that is writing, a count is one the header gave.
AllTypesOK ==
  /\ DeleteTypeOK /\ SearchTypeOK /\ GatewayTypeOK /\ CostTypeOK
  /\ SubmissionTypeOK /\ ViewsTypeOK /\ GgufTypeOK /\ ResultTypeOK
=============================================================================
