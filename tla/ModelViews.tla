----------------------------- MODULE ModelViews ------------------------------
(***************************************************************************)
(* What is shown of the catalogue: parseModelInfo's view of one file, made *)
(* of its header and of its siblings; MASS's groups (groupModels); the     *)
(* models apps are offered, by three front ends alike; the detail panel.   *)
(* Every list is a walk's: it takes the files one by one, in the order of  *)
(* their names, reads the header of each and then views it beside the      *)
(* siblings' entries as they are by then; entries of files that are gone   *)
(* are pruned after the last view.  Files come and go between any two of   *)
(* its steps.  And what is chosen from a repository's listing before any   *)
(* header is there: the projector to fetch beside a primary.               *)
(*                                                                         *)
(* Names are told apart by their slugs (module GroupIds has the slugs'     *)
(* collisions, module GgufReader what a header says); headers parse, and   *)
(* no second walk goes beside (modules Catalogue and HeaderRefresh have    *)
(* both).                                                                  *)
(***************************************************************************)
EXTENDS Naturals, Sequences, FiniteSets, SequencesExt

CONSTANTS
  Stored,        \* files of the store, numbered as their names sort
  Names,         \* group names
  Headers,       \* what headers say: architecture, pooling type, chat template
  Listable       \* files of a repository: [projector, f16, says]

ASSUME StoredAssumption == Stored \subseteq Nat

\* "none" is the empty string, of what a header or a view leaves out.
ASSUME HeadersAssumption ==
  /\ Headers # {}
  /\ Headers \subseteq [arch: {"none", "clip", "other"}, pooling: BOOLEAN,
                       template: {"none", "plain", "thinks"}]

\* A file name that says either of two types has the letters "f16".
ASSUME ListableAssumption ==
  /\ Listable \subseteq [projector: BOOLEAN, f16: BOOLEAN, says: {"f16", "bf16", "f32", "q4"}]
  /\ \A l \in Listable : l.f16 = (l.says \in {"f16", "bf16"})

VARIABLES
  disk,          \* header of each file, or NoHeader when there is none
  names,         \* the operator's name in each file's entry, or NoName
  headers,       \* what the entry has of the header, or NoHeader
  walk,          \* "idle", or the walk is "reading" or "viewing"
  unseen,        \* files it has not been through
  listed,        \* its views, until something changes after its end
  calm,          \* 0 if something has changed since the walk began; else 1
                 \* in it and 2 after, 3 and 4 if the walk before was calm too
  repo           \* files of a repository, in the order of its listing

viewVars == <<disk, names, headers, walk, unseen, listed, calm, repo>>

NoName == "unnamed"
ASSUME NamesAssumption == NoName \notin Names
NoHeader == [arch |-> "absent", pooling |-> FALSE, template |-> "none"]
Entered == { f \in Stored : names[f] # NoName }
Installed == { f \in Entered : disk[f] # NoHeader }

------------------------------------------------------------------------------
(* One file.                                                               *)

\* Meta.Summary: the pooling key has the architecture in its name; the
\* template's text tells whether it has reasoning tokens.
Summary(h) ==
  [clip |-> h.arch = "clip",
   pooling |-> h.arch # "none" /\ h.pooling,
   template |-> h.template # "none",
   thinks |-> h.template = "thinks"]

\* Companion: a clip header is a vision projector's.
CompanionOf(kv) == IF kv.clip THEN "mmproj" ELSE "none"

\* modelTypeFromHeader: pooling wins over a chat template.
ModelType(kv) ==
  IF kv.clip THEN "none"
  ELSE IF kv.pooling THEN "embedding"
  ELSE IF kv.template THEN "chat"
  ELSE "embedding"

\* capabilitiesFromHeader.
Thinks(kv) == kv.thinks /\ ModelType(kv) = "chat"

\* Mutant: any file of the name is taken for a projector.
HasProjectorAny(f) == \E o \in Entered \ {f} : names[o] = names[f]

\* A projector of the same name beside it, so far as the entries know.
HasProjector(f) ==
  \E o \in Entered \ {f} : names[o] = names[f] /\ CompanionOf(Summary(headers[o])) = "mmproj"

\* The view of a file with name n and header h, with a projector beside it
\* or not; a published id is the slug of the name and the file name.
Info(f, n, h, beside) ==
  LET kv == Summary(h)
      projector == CompanionOf(kv) = "mmproj"
  IN  [id |-> <<n, f>>, name |-> n, companion |-> CompanionOf(kv),
       label |-> IF projector THEN "Mmproj" ELSE "quant",
       type |-> ModelType(kv),
       vision |-> ~projector /\ beside,
       thinking |-> ~projector /\ Thinks(kv)]

------------------------------------------------------------------------------
(* The views.                                                              *)

\* Every entry of a name is a child model of its group.
Members(n) == { i \in listed : i.name = n }

\* groupModels: types and capabilities are unions over the members.
Group(n) ==
  [id |-> n, models |-> Members(n),
   types |-> { i.type : i \in { m \in Members(n) : m.companion = "none" /\ m.type # "none" } },
   vision |-> \E i \in Members(n) : i.vision,
   thinking |-> \E i \in Members(n) : i.thinking]

Groups == { Group(i.name) : i \in listed }

\* handleListModels, ListModels and handleOpenAIModels hide companions.
Offered == { i \in listed : i.companion = "none" }

\* renderModelDetail: a projector has no type to show.
Detail(i) ==
  [group |-> i.name, model |-> i.id[2], quant |-> i.label,
   type |-> IF i.type = "chat" THEN "Chat" ELSE IF i.type = "embedding" THEN "Embedding" ELSE "none"]

------------------------------------------------------------------------------
(* The repository's listing.                                               *)

LooksLikeMmproj(l) == l.projector

\* strings.Contains(lower, "f16"), which "bf16" satisfies too.
ClaimsF16(l) == l.f16

\* pickMmprojCompanion: the first that claims f16, or else the first.
Pick(listing) ==
  LET found == { n \in DOMAIN listing : LooksLikeMmproj(listing[n]) }
      best == { n \in found : ClaimsF16(listing[n]) }
      First(at) == listing[CHOOSE n \in at : \A m \in at : n <= m]
  IN  IF found = {} THEN {} ELSE {First(IF best # {} THEN best ELSE found)}

------------------------------------------------------------------------------

ViewsInit ==
  /\ disk = [f \in Stored |-> NoHeader]
  /\ names = [f \in Stored |-> NoName]
  /\ headers = [f \in Stored |-> NoHeader]
  /\ walk = "idle" /\ unseen = {} /\ listed = {} /\ calm = 0
  /\ repo = <<>>

\* A change outside the walk.  A bound: the list of a walk that is over is
\* looked at until then.
Changes ==
  /\ calm' = 0
  /\ listed' = IF walk = "idle" THEN {} ELSE listed
  /\ UNCHANGED <<walk, unseen, repo>>

\* reserveEntry, for a free destination.
Planned(f) ==
  /\ names[f] = NoName /\ disk[f] = NoHeader /\ repo = <<>>
  /\ \E n \in Names : names' = [names EXCEPT ![f] = n]
  /\ Changes /\ UNCHANGED <<disk, headers>>

\* The file is there, or other bytes at its path, or it is gone: its entry
\* is as it was.
FileChanges(f) ==
  /\ names[f] # NoName \/ disk[f] # NoHeader
  /\ \E h \in (Headers \cup {NoHeader}) \ {disk[f]} : disk' = [disk EXCEPT ![f] = h]
  /\ Changes /\ UNCHANGED <<names, headers>>

\* renameGroup, to a name no other group has.
GroupRenamed(old, new) ==
  /\ \E f \in Entered : names[f] = old
  /\ ~\E f \in Entered : names[f] = new
  /\ names' = [f \in Stored |-> IF names[f] = old THEN new ELSE names[f]]
  /\ Changes /\ UNCHANGED <<disk, headers>>

\* ListGroups, or any other caller, has the store walked.
WalkBegins ==
  /\ walk = "idle" /\ repo = <<>>
  /\ walk' = "reading" /\ unseen' = Stored /\ listed' = {}
  /\ calm' = IF calm = 4 THEN 3 ELSE calm + 1
  /\ UNCHANGED <<disk, names, headers, repo>>

Foremost(f) == f \in unseen /\ \A g \in unseen : f <= g

\* A file without an entry, or none at all.
WalkSkips(f) ==
  /\ walk = "reading" /\ Foremost(f) /\ f \notin Installed
  /\ unseen' = unseen \ {f}
  /\ UNCHANGED <<disk, names, headers, walk, listed, calm, repo>>

\* The header of a new file or of other bytes is read into the entry, and
\* the file is hashed; the view is made after that, under the lock.
WalkReads(f) ==
  /\ walk = "reading" /\ Foremost(f) /\ f \in Installed
  /\ headers' = [headers EXCEPT ![f] = disk[f]]
  /\ walk' = "viewing"
  /\ UNCHANGED <<disk, names, unseen, listed, calm, repo>>

WalkViews(f) ==
  /\ walk = "viewing" /\ Foremost(f)
  /\ listed' = listed \cup {Info(f, names[f], headers[f], HasProjector(f))}
  /\ unseen' = unseen \ {f} /\ walk' = "reading"
  /\ UNCHANGED <<disk, names, headers, calm, repo>>

\* pruneAbsent: entries once committed, of no file the walk has observed or
\* finds now.
Pruned ==
  { f \in Entered : headers[f] # NoHeader /\ disk[f] = NoHeader /\ ~\E i \in listed : i.id[2] = f }

WalkEnds ==
  /\ walk = "reading" /\ unseen = {}
  /\ names' = [f \in Stored |-> IF f \in Pruned THEN NoName ELSE names[f]]
  /\ headers' = [f \in Stored |-> IF f \in Pruned THEN NoHeader ELSE headers[f]]
  /\ walk' = "idle"
  /\ calm' = IF calm = 0 THEN 0 ELSE calm + 1
  /\ UNCHANGED <<disk, unseen, listed, repo>>

\* The registry may list the files of a repository in any order.  A bound:
\* repositories are listed while the store is empty, which they do not touch.
Listed(l) ==
  /\ walk = "idle" /\ Entered = {}
  /\ l \notin ToSet(repo)
  /\ repo' = Append(repo, l)
  /\ UNCHANGED <<disk, names, headers, walk, unseen, listed, calm>>

ViewsNext ==
  \/ \E f \in Stored : Planned(f) \/ FileChanges(f) \/ WalkSkips(f) \/ WalkReads(f) \/ WalkViews(f)
  \/ \E old, new \in Names : GroupRenamed(old, new)
  \/ WalkBegins \/ WalkEnds
  \/ \E l \in Listable : Listed(l)

ViewsSpec == ViewsInit /\ [][ViewsNext]_viewVars

------------------------------------------------------------------------------
(* Properties.                                                             *)

\* Views are made of entries whose header has been read.
ViewsTypeOK ==
  /\ disk \in [Stored -> Headers \cup {NoHeader}]
  /\ names \in [Stored -> Names \cup {NoName}]
  /\ headers \in [Stored -> Headers \cup {NoHeader}]
  /\ \A f \in Stored : names[f] = NoName => headers[f] = NoHeader
  /\ walk \in {"idle", "reading", "viewing"}
  /\ unseen \subseteq IF walk = "idle" THEN {} ELSE Stored
  /\ calm \in IF walk = "idle" THEN {0, 2, 4} ELSE {0, 1, 3}
  /\ walk = "viewing" => \A f \in unseen : Foremost(f) => headers[f] # NoHeader
  /\ repo \in Seq(Listable)

\* Nothing has changed since the walk that made the list began.
Rested == calm \in {2, 4}

\* MASS is shown every file that is there, projectors too, in exactly one
\* group, that of its name, and no other: what no group shows can no longer
\* be removed from there.
EveryFileInOneGroup ==
  Rested =>
    \A f \in Stored :
      LET places == { p \in Groups \X listed : p[2] \in p[1].models /\ p[2].id[2] = f }
      IN  IF f \in Installed THEN \E p \in places : places = {p} /\ p[1].id = names[f]
          ELSE places = {}

\* A group has a type, and apps are offered a model of it, just when a file
\* of it can be run: what the operator sees as runnable, apps can run.
RunnableIsOffered ==
  Rested =>
    \A n \in Names :
      LET runs == \E f \in Installed : names[f] = n /\ disk[f].arch # "clip"
      IN  /\ (\E g \in Groups : g.id = n /\ g.types # {}) = runs
          /\ (\E i \in Offered : i.name = n) = runs

\* A model with a projector beside it: what vision should be claimed for.
Sees(n, f, o) ==
  names[f] = n /\ names[o] = n /\ disk[f].arch # "clip" /\ disk[o].arch = "clip"

\* A group claims vision exactly if it has a projector and a model that can
\* use it, by the second walk in which nothing changed.  The first may miss
\* a projector, but one that sorts before the model; and it may still count
\* one that has left.
VisionSettles ==
  \A g \in Groups :
    /\ calm = 4 => g.vision = \E f, o \in Installed : Sees(g.id, f, o)
    /\ calm = 2 /\ (\E f, o \in Installed : o < f /\ Sees(g.id, f, o)) => g.vision

\* An embedding model that ships a think-token chat template neither claims
\* to think nor is offered as a chat model.
PoolingWins ==
  Rested =>
    \A i \in listed :
      disk[i.id[2]].arch # "none" /\ disk[i.id[2]].pooling => ~i.thinking /\ Detail(i).type # "Chat"

\* "The API's listing order isn't a contract - prefer the f16 variant
\* deterministically": wherever it is listed it is chosen, or else a bf16
\* listed before it, which passes for it.
F16Preferred ==
  \A i \in DOMAIN repo :
    repo[i].projector /\ repo[i].says = "f16" =>
      \/ Pick(repo) = {repo[i]}
      \/ \E j \in 1..i - 1 : repo[j].projector /\ repo[j].says = "bf16" /\ Pick(repo) = {repo[j]}

\* After a walk in which nothing changed the operator's view, the apps' view
\* and the files agree, and so does the projector that an install adds.
ViewsSound ==
  /\ EveryFileInOneGroup /\ RunnableIsOffered
  /\ VisionSettles /\ PoolingWins /\ F16Preferred
=============================================================================
