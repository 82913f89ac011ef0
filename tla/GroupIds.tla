------------------------------ MODULE GroupIds -------------------------------
(***************************************************************************)
(* Published ids and what they resolve to: cache.go (groupRelPath,         *)
(* storePathForID, relPathsForModel, nameForSlug, companionMmprojPath),    *)
(* the handlers that resolve a request's model, and the RPCs that take an  *)
(* id.  An id carries the group's slug of the day; files keep the          *)
(* directory they were installed into.                                     *)
(*                                                                         *)
(* Clients keep ids while groups are renamed, deleted and installed.       *)
(* Downloads, walks and prunes, which Catalogue has, take one step here.   *)
(***************************************************************************)
EXTENDS Naturals, FiniteSets

CONSTANTS
  Names,       \* operator-typed group names
  NoName,      \* the Name of an absent entry
  Slugs,       \* group slugs, numbered in the order strings sort
  SlugOf,      \* modelSlug: [Names -> Slugs \cup {0}], 0 the empty slug
  Bases,       \* file names
  Projectors,  \* those of mmproj projectors
  NoBase,      \* the file name of a group's id
  Clients,     \* holders of ids: MASS's pages, programs, requests in progress
  Overlap,     \* what operators may do on top of orderly use
  MaxInstalls, MaxRenames, MaxDeletes    \* bounds of the model

(***************************************************************************)
(* "reuse": a name is given whose slug another group still goes by, in an  *)
(* id somebody holds or as its directory; "merge": a rename takes the name *)
(* of another group.  The code permits both.                               *)
(***************************************************************************)
ASSUME NamesAssumption == NoName \notin Names
ASSUME SlugAssumption ==
  /\ Slugs \subseteq Nat \ {0}
  /\ SlugOf \in [Names -> Slugs \cup {0}]
ASSUME BasesAssumption == NoBase \notin Bases /\ Projectors \subseteq Bases
ASSUME OverlapAssumption == Overlap \subseteq {"reuse", "merge"}
ASSUME BoundsAssumption == MaxInstalls \in Nat /\ MaxRenames \in Nat /\ MaxDeletes \in Nat

Keys == Slugs \X Bases                     \* directory and file name
Ids == Slugs \X (Bases \cup {NoBase})      \* slug and file name, or slug alone
NoKey == <<0, NoBase>>

VARIABLES
  name,      \* [Keys -> Names \cup {NoName}], the catalogue
  doomed,    \* keys of delete plans whose files and entries go next
  client,    \* [Clients -> ClientState]
  budget     \* what is left of the Max* bounds

vars == <<name, doomed, client, budget>>

Has(k) == name[k] # NoName
KeysOf(n) == {k \in Keys : name[k] = n}
GroupOf(k) == KeysOf(name[k])
Grouped == {k \in Keys : Has(k)}

\* A client holds an id it was given for the file `of`, NoKey once that file
\* is gone.  In a request, model is the path in the scheduler's model id,
\* primary and projector are the files to load; in a rename, old and new.
ClientState ==
  [at: {"none", "holds", "chat", "bench", "files", "sent", "rename"},
   id: Ids \cup {NoKey}, of: Keys \cup {NoKey},
   model: Ids \cup {NoKey}, primary: Ids \cup {NoKey}, projector: Keys \cup {NoKey},
   old: Names \cup {NoName}, new: Names \cup {NoName}]
Holder(id, k) ==
  [at |-> "holds", id |-> id, of |-> k, model |-> NoKey, primary |-> NoKey,
   projector |-> NoKey, old |-> NoName, new |-> NoName]
NoClient == [Holder(NoKey, NoKey) EXCEPT !.at = "none"]

Init ==
  /\ name = [k \in Keys |-> NoName]
  /\ doomed = {}
  /\ client = [c \in Clients |-> NoClient]
  /\ budget = [installs |-> MaxInstalls, renames |-> MaxRenames, deletes |-> MaxDeletes]

------------------------------------------------------------------------------
(* Resolution, each operator under the lock.                               *)

Least(K) == CHOOSE k \in K : \A j \in K : k[1] <= j[1]
SlugKeys(s) == {k \in Grouped : SlugOf[name[k]] = s}
Matches(id) == {k \in SlugKeys(id[1]) : k[2] = id[2]}

\* Mutants: the slug is taken for the directory; or is not looked at.
StorePathVerbatim(id) == id
StorePathByBase(id) ==
  LET K == {k \in Grouped : k[2] = id[2]} IN IF K = {} THEN id ELSE Least(K)

\* storePathForID: the file of that name in the group with that slug, or
\* the id itself, as a path.
StorePath(id) == IF Matches(id) = {} \/ id \in Matches(id) THEN id ELSE Least(Matches(id))

\* Mutant: the file name decides.
RelPathsByBase(id) ==
  IF id[2] = NoBase THEN SlugKeys(id[1])
  ELSE {k \in Grouped : \E j \in GroupOf(k) : j[2] = id[2]}

\* relPathsForModel: all files of the group an id names.
RelPaths(id) ==
  IF id[2] = NoBase THEN SlugKeys(id[1])
  ELSE {k \in Grouped : StorePath(id) \in GroupOf(k)}

\* companionMmprojPath: any projector of the primary's group.
Companions(k) ==
  IF k \in Grouped /\ k[2] \notin Projectors
    THEN {j \in GroupOf(k) \ {k} : j[2] \in Projectors}
    ELSE {}

------------------------------------------------------------------------------
(* Installs and renames.                                                   *)

\* assertSlugAvailable.
SlugAvailable(n, exempt) ==
  /\ SlugOf[n] # 0
  /\ \A k \in Grouped : name[k] \notin exempt \cup {n} => SlugOf[name[k]] # SlugOf[n]

\* No rename in progress is to or from slug s.
Unclaimed(s) ==
  \A c \in Clients : client[c].at = "rename" =>
    s \notin {SlugOf[client[c].old], SlugOf[client[c].new]}

\* No directory and no id in use outside group G has slug s.
Unused(s, G) ==
  /\ Unclaimed(s)
  /\ \A k \in Grouped \ G : k[1] # s
  /\ \A c \in Clients : client[c].of \notin G \cup {NoKey} => client[c].id[1] # s

\* Mutant: new files go where the slug says.
GroupDirSlug(n) == SlugOf[n]

\* groupRelPath's directory.
GroupDir(n) == IF KeysOf(n) = {} THEN SlugOf[n] ELSE Least(KeysOf(n))[1]

\* A plan reserves the destination, and the file arrives.
Install(n, b) ==
  LET k == <<GroupDir(n), b>>
  IN /\ budget.installs > 0
     /\ SlugAvailable(n, {})
     /\ ~Has(k)
     /\ "reuse" \in Overlap \/ KeysOf(n) # {} \/ Unused(SlugOf[n], {k})
     /\ name' = [name EXCEPT ![k] = n]
     /\ budget' = [budget EXCEPT !.installs = @ - 1]
     /\ UNCHANGED <<doomed, client>>

\* RenameGroup: nameForSlug ...
RenameLookup(c, new) ==
  /\ client[c].at = "holds" /\ client[c].id[2] = NoBase
  /\ budget.renames > 0
  /\ \E old \in {name[k] : k \in SlugKeys(client[c].id[1])} :
       /\ old # new
       /\ "reuse" \in Overlap
            \/ (Unused(SlugOf[new], KeysOf(old)) /\ Unclaimed(SlugOf[old]))
       /\ "merge" \in Overlap
            \/ (KeysOf(new) = {} /\ \A d \in Clients : client[d].new # new)
       /\ client' = [client EXCEPT ![c] = [client[c] EXCEPT
            !.at = "rename", !.old = old, !.new = new]]
  /\ budget' = [budget EXCEPT !.renames = @ - 1]
  /\ UNCHANGED <<name, doomed>>

\* ... and renameGroup, under the lock again.
RenameApply(c) ==
  /\ client[c].at = "rename"
  /\ name' = IF SlugAvailable(client[c].new, {client[c].old})
       THEN [k \in Keys |-> IF k \in KeysOf(client[c].old) THEN client[c].new ELSE name[k]]
       ELSE name
  /\ client' = [client EXCEPT ![c] =
       Holder(client[c].id, client[c].of)]
  /\ UNCHANGED <<doomed, budget>>

------------------------------------------------------------------------------
(* Clients.                                                                *)

Free(c) == client[c].at \in {"none", "holds"}

\* parseModelInfo's id of a file.
Published(k) == <<SlugOf[name[k]], k[2]>>

\* ListGroups gives out the id of a file, or of its group.
List(c) ==
  /\ Free(c)
  /\ \/ Grouped = {} /\ UNCHANGED client
     \/ \E k \in Grouped : \E id \in {Published(k), <<SlugOf[name[k]], NoBase>>} :
          client' = [client EXCEPT ![c] = Holder(id, k)]
  /\ UNCHANGED <<name, doomed, budget>>

\* A client names a file by its path.
UsePath(c, k) ==
  /\ Free(c)
  /\ Has(k)
  /\ client' = [client EXCEPT ![c] = Holder(k, k)]
  /\ UNCHANGED <<name, doomed, budget>>

\* A chat request, or a benchmark's authoring, which asks for an installed
\* model: resolveStorePath gives the path for the scheduler's model id ...
Resolve(c) ==
  /\ client[c].at = "holds" /\ client[c].id[2] # NoBase
  /\ \E kind \in {"chat", "bench"} :
       /\ kind = "bench" =>
            StorePath(client[c].id) \in {k \in Grouped : k[2] \notin Projectors}
       /\ client' = [client EXCEPT ![c] = [client[c] EXCEPT
         !.at = kind, !.model = StorePath(client[c].id)]]
  /\ UNCHANGED <<name, doomed, budget>>

\* ... and again in buildLoadArtifacts, from the id, or, in
\* AuthorBenchPayload, from what it was resolved to ...
ResolveFiles(c) ==
  /\ client[c].at \in {"chat", "bench"}
  /\ client' = [client EXCEPT ![c] = [client[c] EXCEPT
       !.at = "files",
       !.primary = StorePath(IF client[c].at = "chat" THEN client[c].id
                                                      ELSE client[c].model)]]
  /\ UNCHANGED <<name, doomed, budget>>

\* ... which then looks for the projector, and the job is submitted.
Submit(c) ==
  /\ client[c].at = "files"
  /\ \E p \in Companions(client[c].primary) \cup {NoKey} :
       /\ p = NoKey => Companions(client[c].primary) = {}
       /\ client' = [client EXCEPT ![c] = [client[c] EXCEPT !.at = "sent", !.projector = p]]
  /\ UNCHANGED <<name, doomed, budget>>

Answered(c) ==
  /\ client[c].at = "sent"
  /\ client' = [client EXCEPT ![c] = Holder(client[c].id, client[c].of)]
  /\ UNCHANGED <<name, doomed, budget>>

\* PlanDelete, by a file's or a group's id, of a model that is not serving.
PlanDelete(c) ==
  /\ client[c].at = "holds"
  /\ budget.deletes > 0
  /\ doomed' = doomed \cup RelPaths(client[c].id)
  /\ budget' = [budget EXCEPT !.deletes = @ - 1]
  /\ UNCHANGED <<name, client>>

\* MASS removes the file and a walk prunes its entry.
Removed(k) ==
  /\ k \in doomed
  /\ doomed' = doomed \ {k}
  /\ name' = [name EXCEPT ![k] = NoName]
  /\ client' = [c \in Clients |-> IF client[c].of = k
                                    THEN [client[c] EXCEPT !.of = NoKey]
                                    ELSE client[c]]
  /\ UNCHANGED budget

Next ==
  \/ \E n \in Names, b \in Bases : Install(n, b)
  \/ \E c \in Clients : \/ \E n \in Names : RenameLookup(c, n)
                        \/ RenameApply(c)
                        \/ List(c)
                        \/ \E k \in Keys : UsePath(c, k)
                        \/ Resolve(c) \/ ResolveFiles(c) \/ Submit(c) \/ Answered(c)
                        \/ PlanDelete(c)
  \/ \E k \in Keys : Removed(k)

Spec == Init /\ [][Next]_vars

------------------------------------------------------------------------------
(* Properties.                                                             *)

TypeOK ==
  /\ name \in [Keys -> Names \cup {NoName}]
  /\ doomed \subseteq Keys
  /\ client \in [Clients -> ClientState]
  /\ budget \in [installs: 0..MaxInstalls, renames: 0..MaxRenames, deletes: 0..MaxDeletes]

\* The id a file is listed under resolves to that file, however often its
\* group has been renamed since it was installed (storePathForID undoes
\* parseModelInfo's id).
PublishedResolves == \A k \in Grouped : StorePath(Published(k)) = k

\* An id, listed or a path, that was given for a file that is still there
\* may go stale but never names another one: it resolves to its file or to
\* nothing.
HeldIdNeverWrong ==
  \A c \in Clients : client[c].of # NoKey /\ client[c].id[2] # NoBase =>
    StorePath(client[c].id) \in {client[c].of} \cup (Ids \ Grouped)

\* The model id a job is scheduled under and the files sent with it are of
\* the same model, if both are there, although the two are resolved in
\* separate critical sections, and a benchmark's path twice.
JobOfOneModel ==
  \A c \in Clients : client[c].of # NoKey /\ client[c].at \in {"files", "sent"} =>
    \/ client[c].model = client[c].primary
    \/ {client[c].model, client[c].primary} \cap Grouped # {client[c].model, client[c].primary}

\* The projector is sent under the key of the file it is: the one beside
\* the primary ("lives in the primary's directory by convention").
ProjectorBesidePrimary ==
  \A c \in Clients : client[c].projector # NoKey =>
    client[c].projector[1] = client[c].primary[1]

\* A worker is given one model: the id, the primary and the projector of a
\* job belong together.
FilesOfOneModel == JobOfOneModel /\ ProjectorBesidePrimary

\* A delete dooms no file outside the group of the model its id was given for.
DeleteHitsTarget ==
  [][\A c \in Clients : PlanDelete(c) /\ client[c].of # NoKey =>
       doomed' \ doomed \subseteq GroupOf(client[c].of)]_vars
=============================================================================
