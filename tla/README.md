# A TLA+ model of the llama.cpp runtime gateway

The gateway (`internal/gateway`, `internal/sched`) is the plugin that gives
MASS, a scheduler of AI workers, its llama.cpp models. It owns the names of the
installed models, answers HTTP and gRPC requests by scheduling jobs with MASS,
and decides what is downloaded or deleted. It never moves a byte of a model:
MASS downloads, copies and removes the files, and the gateway finds out by
walking the directory. Most of what is hard in it follows from that split.

## 1. Inventory

| component | code | state | operations |
|---|---|---|---|
| model catalogue | `gateway/cache.go` | `entries`, key (path under the models directory) to Name, header fields, reservation time, file stamp, digest; `dirty`; one mutex | reserve, walk and prune, rename, id and path look-ups, backfills |
| catalogue file | `gateway/cache.go` | `<data>/…json`, its `.tmp`, quarantined copies | save, load, quarantine |
| gateway RPCs | `gateway/gateway.go` | models directory, scheduler client, catalogue, set by `Init` | Init, PlanLocalImport, PlanRemoteImport, PlanDelete, RenameGroup, lists |
| scheduler client | `sched/client.go` | per job: resume position, whether the retry is used, a channel of 16 chunks | Schedule, ScheduleWithID, Reattach, GetResult, CancelJob, EvictModel, DownloadFiles |
| request handlers | `gateway/handlers.go`, `grpc.go`, `openai.go` | none but the request's | chat, batch, embeddings, submit, result with `wait=1`, cancel, SSE |
| install UI | `gateway/install_handlers.go` | search pagination, at most 100 queries | search, show more, submit |
| published views | `gateway/models_view.go`, `model/identity.go` | none | group models, slugs, ids |
| cost prediction | `gateway/weight.go`, `bench.go` | none | load bytes, chat cost, benchmark jobs |
| GGUF reader | `gguf/reader.go` | a file position | metadata, parameter counts |
| payloads, process, routing, packaging, generated code | `payload/`, `cmd/`, `router.go`, `plugin.go`, `hclog.go`, `gen/` | none | encoding, start-up |
| external | MASS scheduler, result store, download manager; workers; Hugging Face; the file system | | |

**How they interact.** Every RPC and HTTP request has a goroutine of its own.
They share the catalogue, under `c.mu`, which every operation gives up for its
file I/O: a plan stats its destination before it takes the lock, a walk stats,
reads headers and hashes between critical sections, a save writes and renames
after the lock is released. MASS acts on what it was told, later, and the
gateway sees only files come and go. A request handler starts one goroutine per
job that reads the job's frames from MASS and feeds a bounded channel, which
the handler ranges over.

**What makes each correct.**

* Catalogue: a group id names one group; a group stays whole (one name, one
  directory, primary with its projector); a download in flight keeps the entry
  that names it; only an absent file costs an entry; an abandoned reservation
  is swept in the end; a file that has landed is listed in the end; digest and
  header are those of the file on disk.
* Catalogue file: it always parses; a clean catalogue is a saved one; an
  acknowledged reservation survives a crash; every change is saved in the end.
* Chunk stream: the job's chunks in order and once, across one reconnect; an
  outcome for every close; no handler waits for ever.
* Ids: an id given out resolves to the model it was given out for, or to
  nothing; a job's model id and its files are of one model; a delete takes the
  group that was meant.
* Delete: nothing that the listing shows to serve is deleted, and the idle instances are
  evicted first.
* Submission: one wish is one job by every front end; the model id, the hints and
  the files describe one load.
* Answers: what a client is told is what became of the job, text is not repeated unless
  the worker repeats it,
  every reader of a result is told the same history.
* Init: a request sees the parts of one Init, and none half done.
* Search: a page lists one query's results once, and the cache keeps its bound.
* Views: operator and apps see the same models; prices are in order.
* GGUF counts: those of the whole tensor table modulo the word, or unknown.

**What is hard.** The hazards are listed with their lines in `PROJECT.json`.
The main ones: check, I/O and act in separate critical sections
(`pruneAbsent`, `reserveEntry`, `RenameGroup`); an entry pointer kept across
the unlock (`parseModelInfo`); one temporary file for all savers; a failure
halfway (companion refused, hash failed, save failed); reservations that expire
during a slow download; streams that break at any frame, and handlers that go
away while the channel is full.

## 2. Modules

| module | models | extends or instantiates |
|---|---|---|
| `Catalogue` | entries, plans, walks with their prune, renames, deletes, at the granularity of `c.mu`; MASS as the environment | |
| `CatalogueProofs` | invariants of `Catalogue` | `Catalogue` |
| `CatalogueStore` | abstract: what saving and loading promise | |
| `CatalogueFile` | `saveToDisk`, `loadFromDisk`, quarantine, crashes | instantiates `CatalogueStore` |
| `CatalogueFileProofs` | the file parses, clean means saved, acknowledged means durable; refinement of `CatalogueStore` | `CatalogueFile` |
| `GroupIds` | ids as published, and all that resolves them, against renames, deletes and installs | |
| `GroupIdsProofs` | ids keep their meaning in orderly use | `GroupIds` |
| `HeaderRefresh` | `parseModelInfo` for one file: stamp, header, digest | |
| `HeaderRefreshProofs` | freshness of the digest, and of header and digest with one call at a time | `HeaderRefresh` |
| `JobStream` | abstract: what a job's channel promises | |
| `StreamResume` | `streamWithResume`, `drainStreamChunks`, the channel and its reader | instantiates `JobStream` |
| `StreamResumeProofs` | invariants and refinement of `StreamResume`, alone and read by the handlers of `JobRequest` | `JobRequest` |
| `JobRequest` | the four handlers that read a job's channel, and what they answer | `StreamResume` |
| `JobResults` | a job's durable result: reads and cancels by HTTP and gRPC | |
| `Submission` | a request becomes a scheduled job, by five front ends | |
| `DeletePlan` | a delete against loaded instances and jobs | |
| `GatewayInit` | `Init` against requests and another `Init` | |
| `InstallSearch` | search, Show More, the pagination cache, the pages | |
| `InstallSearchProofs` | the pages show what was asked for | `InstallSearch` |
| `ModelViews` | views of a file, groups, lists; the projector to install | |
| `PredictCost` | the price of a job, and its look-ups | |
| `GgufReader` | counts, pairs, tensor table, parameter counts | |
| `RequestProofs` | a request becomes the job wished for, is priced in full, and is read as it ended | `Submission`, `PredictCost`, `JobResults` |
| `GatewayProofs` | jobs spared and instances evicted; requests see one Init; counts and sums of a header; views agree; the eight parts side by side | `MCGateway`, `RequestProofs`, `InstallSearchProofs` |
| `MCGateway` | the last eight components side by side | all of them |
| `MC…` | instances for TLC | the module named |

### Catalogue

A key is `<<directory, file name>>`; a directory is the slug it was made from,
a number that orders like the string. `entries[k]` has a name and a phase:
`reserved` and `expired` are the entry without `Capabilities`, within and past
`reservationTTL`; `committed` has its header. `files` is what is on disk,
`flight` what MASS is downloading, `doomed` what it has still to remove.

| action | code |
|---|---|
| `PlanBegin` … `PlanDelivered`, `PlanDropped` | `planHFInstall`, `PlanLocalImport`; `groupRelPath` (`PlanDest`), the stat of `reserveEntry` (`PlanStat`), `reserve` (`PlanReserve`, `PlanRefused`), twice for a primary with companion |
| `WalkBegin`, `WalkReadDir`, `WalkSkipDir` | directory listing of `walkAndParseModels` |
| `WalkStat`, `WalkLookup`, `WalkRead`, `WalkCommit`, `WalkFresh`, `WalkUnreadable`, `WalkOrphan` | `parseModelInfo`: the header is read without the lock (`WalkRead`) and stored under it (`WalkCommit`), whether or not the file is still there; `WalkOrphan` is the write through the pointer of an entry that a prune has removed from the map |
| `PruneCollect`, `PruneAbsent`, `PruneKeep`, `PruneDelete` | the three phases of `pruneAbsent` |
| `RenameLookup`, `RenameApply` | `nameForSlug` and `renameGroup` |
| `PlanDelete`, `Remove` | the decision, and MASS acting on it |
| `Land`, `DownloadFails`, `Expire` | MASS's transfers, and the clock |

The constant `Overlap` says what the environment may do beyond orderly use.
Empty, the operator waits: he installs, renames and deletes one after another,
though two installs may be planned at once, and does not name a group as another.
`"delete"`, `"rename"`, `"merge"` lift these. `"held"` lets him install while a walk
that has read the header of a file, since deleted, has still to store it: he cannot see
that, but a list that has returned is no such walk. `"slow"` lets a download outlive
its reservation; `"io"` lets listing, reading and stat fail. Only guards of
environment steps mention it: the code knows no such distinction.

`ApartSpec` is `Spec` without the plans that reserve a file which a prune has just given
up for gone, or is about to (`ReservesApart`). It says what `PruneDelete` takes for granted,
and is how the theorems of section 5 reach what `Overlap` alone would break.

### CatalogueFile

Files are inodes, because a saver that has opened the temporary file goes on
writing to the same inode after another saver has renamed it over the catalogue
file. `content` tells an empty file (just truncated), a JSON document with its
entries, and remains of two writes. `acked` are the reservations whose
`reserveEntry` has returned. A crash loses memory and keeps the files; the file
may then load, be quarantined, or be unreadable.

`crossed` is a history variable, true once one save has begun before another
was over. `FileParsesAlone`, `AckedDurable`, `CleanMeansSaved` and `EventuallySaved`
are claimed only while it is false; section 4 says what happens otherwise.

`CatalogueStore` is what is left when the files are hidden: a catalogue on disk that goes
in one step from a whole snapshot to the next, a save in progress with its snapshot, and
a mark. `Change`, `Take`, `Land`, `GiveUp` and `Restart` are all that happens to them, until
`Overlap` ends the promise. `ImplementsStore` maps `taken` to the snapshots of the savers
that are under way and `stored` to what a restart would load.

### GroupIds

`name` is the catalogue reduced to the Name of each key, its directory included;
an id is `<<slug, file name>>`, or a slug alone for a group. Each client holds
one id and `of`, the file it was given for, which the code does not know: the
properties compare what an id resolves to with it.

| definition | code |
|---|---|
| `StorePath`, `RelPaths`, `Companions`, `GroupDir`, `SlugAvailable`, `Published` | `storePathForID`, `relPathsForModel`, `companionMmprojPath`, `groupRelPath`, `assertSlugAvailable`, the id of `parseModelInfo` |
| `Install` | a plan and the arrival of its file, one step |
| `RenameLookup`, `RenameApply` | `nameForSlug` and `renameGroup`, two critical sections |
| `List`, `UsePath` | an id handed out; a path used as id, which the code accepts |
| `Resolve`, `ResolveFiles`, `Submit` | `resolveStorePath` for the model id, `buildLoadArtifacts` for the files, the projector, each under the lock by itself; for a benchmark the second resolves what the first returned |
| `PlanDelete`, `Removed` | the decision; MASS acting on it, and the walk that prunes the entry |

`Catalogue` has the downloads, walks and prunes in full, so that here each is one
step. A delete refused because the model serves changes nothing and has no
action; the check that a benchmark's model is installed is merged into `Resolve`.

The constant `Overlap` again says what operators may do. Empty, an install or a
rename gives no slug that is a directory, an id in use or part of a rename in
progress elsewhere, and takes no other group's name. `"reuse"` and `"merge"` lift
this; the code does not look for either, beyond `SlugAvailable`.

### HeaderRefresh

One catalogued file, and any number of `parseModelInfo` calls on it, by walks or
by the backfills of `sha256For` and `parameterCount`. Contents are numbered by
the changes of the file, and the modification time and size are taken to tell
every change. The racy reads of the entry's fields without the lock are two
steps, `ReadStale` and `ReadNeeds`, so that a store may fall between them. `NoCount` are
the contents whose header lacks the parameter count, or a projector's patch size, and is
read again by every call. `overlapped` is a history variable, set once a call has begun
while another was under way: no guard reads it, and it lets one run and one theorem say
what holds of any calls and what only of calls one after the other (`Alone`).

### StreamResume and JobStream

`JobStream` says what `Schedule`'s comment does: frames in order, each once,
nothing after a terminal one, closed on the terminal frame, on an error the
client makes up, or on cancellation. `StreamResume` is the goroutine (`at`,
`resume`, `next`, `retried`), the channel (`out` and how much of it is `taken`),
the handler and its context. MASS has the job's frames durably; a reconnect to a
finished job may be answered by its terminal frame alone. `ImplementsJobStream`
is the refinement, checked and proved.

### JobRequest

The reader at the far end of `StreamResume`'s channel: `TakeChunk` and `SeeEnd` are
that module's `Take` and `SeeClose` with what the handler does with the chunk.
`front` is the handler: gRPC `ChatStream`, the OpenAI chat with and without `stream`
(its embeddings read the channel like the latter), and a result read with
`wait=1`, which drains the channel and only then reads. `outcome` is the job's
kind: it streams its text, has it on the terminal frame only, does both, has a terminal
frame without a final chunk, or fails. Each chunk may turn out undecodable. What is
sent is kept as numbers of the frames, with `WholeText` for a text sent again from
the final message, and `DoneMark` for OpenAI's `[DONE]`.

### JobResults

`stored` is MASS's status and body of one job, which it completes, requeues, forgets
or cancels; `replies` are all answers given, each with what was stored then. A body is
none, bytes that are no chunk, a chunk that is no final one, or finals of each kind.
`DecodeHTTP` and `DecodeGRPC` are `decodeJobResult` and its mirror in `grpc.go`; a
result of two items stands for any batch.

### Submission

Two calls, one after the other, over a catalogue that rests (`GroupIds` has one that
changes). A wish is what a client wants; each front end's actions take it through
its own conversions, `OptionalPtr` … `Role`, to the hints, the files, the model id
and the schedule request, kept in `orders`. A digest of hints is the hints. An
encoding keeps what it is given, as all of the code's do that distinguish absent and
zero; where a conversion loses something (unknown part types, blank inputs, what OpenAI's
chat request has no field for: `OpenAISampling`) the operator does, and OpenAI's chat
refuses a message made of parts. `FrontEndsAgree` compares a typed call with an OpenAI call
whose wish that request can say (`Comparable`).

### DeletePlan

`running` has the jobs of each instance on each worker, or that it is not loaded
there. `Refuse`, `Admit`, `ListFails` are `evictLoadedInstances` up to the
active check, by what `ListWorkers` answered; `Evict` and `EvictFails` one call of
`EvictModel` each; `RemoveFiles` is MASS. Jobs are scheduled, finish and
instances are unloaded at any time between. `Matches` has `anyPathMatches` for
workers that report files and the path in the id for those that do not. An instance on
two workers is counted on the first that is listed (`FirstHit`). `late`, `kept` and `passed`
are history: the doomed slots that got a job after the listing, the instances whose eviction
failed, and what the listing could not show, on a worker behind another (`Shadowed`) or
without files and under an id of no doomed path (not `GivesAway`). `Spread` names the
instances that TLC puts on two workers; the proofs put no limit to it.

### GatewayInit

Each of the six fields is the number of the Init that wrote it. `Assign` writes one
field, under the lock; `Arrive` is a request with all the fields it reads under one
read lock, `ReadScheduler` the second read lock of a delete. `MkdirFails` is the
failure after the dial.

### InstallSearch

The pages in the browsers are part of it, because what a wrong state costs is seen
there: rows twice, or a button that leads nowhere. A Show More is four steps,
`MoreLooks`, `MoreReads`, `MoreAnswers`, `MoreWrites`, between which the lock is
not held, and `MoreStores`. `alone` is history: no other call about the page's query
ran beside its own.

### ModelViews

`Info` is `parseModelInfo`'s view of one file, `Group` is `groupModels`, `Offered`
the list that HTTP, gRPC and OpenAI clients get, `Detail` the panel. A list is made by a
walk: `WalkBegins`, then for each file in the order of names `WalkSkips`, or `WalkReads`
(its header into the entry) and `WalkViews` (its view, beside the siblings' entries of that
moment), then `WalkEnds`, which prunes. Between any two of these steps files are planned,
come, change and go, and groups are renamed. `calm` counts the walks since the last
change: 2 after one, 4 after two. There is one walk at a time and headers parse;
`Catalogue` and `HeaderRefresh` have the rest. `Pick` is `pickMmprojCompanion` over a listing in any
order.

### PredictCost

A job grows by texts, images and audio, then is priced: `Count`, `Backfill`,
`Recount`, `Thinking` are the look-ups of `jobCost`, each under the lock by itself,
with prunes and unreadable headers between. Costs are integers: `prefillSpeedup`
(12) times tokens of work times a parameter count. A side is scaled to the largest whole
number whose square fits, which is what the code's floating point comes to up to rounding.

### GgufReader

The file is read field by field and what a field holds, or that the file ends there,
is chosen when it is read. `uint64` is arithmetic modulo `Word`. `Fails` and
`TableBreaks` keep apart what fails the file and what only costs the tensor sums.

### MCGateway

The eight modules just listed, `JobRequest` apart, share no state. `MCGateway`
chooses one in the initial state and lets only it move, so that one run checks all of
them with the sum of their states and not the product. Each module's `…Init` and
`…Next` are used as they are.

## 3. Runs

All passing runs keep TLC's deadlock check on, except `resume` and `gateway`: a
goroutine and its handler do end, and so do a delete, two Inits or a price.

| run | instance | shows |
|---|---|---|
| `orderly` | 3 names (two with one slug), primary and projector, 2 plans at once, a walk, a rename, a delete; I/O fails | `FlightCatalogued`, `BundleCatalogued`, `GroupInOneDir`, `PresentFileKeepsEntry` |
| `disorderly` | 4 names (one without a slug), every overlap, 2 plans, 2 renames, a delete, an expiry | `TypeOK`, `SlugIdentifiesGroup`, `WholeGroupRenamed` |
| `live` | one file, 2 walks at once, reinstall, slow download | `ExpiredReservationResolved`, `LandedFileCommitted` |
| `saving` | 2 savers, 2 entries, 3 changes, a crash, a failed write, an unreadable file | `FileSound`, `CleanMeansSaved`, `AckedDurable`, `SavesComplete`, `ImplementsStore` |
| `ids` | 2 clients, 4 names (two with one slug), 3 installs, 2 renames, a delete | `PublishedResolves`, `HeldIdNeverWrong`, `FilesOfOneModel`, `DeleteHitsTarget` |
| `refresh` | 2 calls, 3 contents, the last one without a count, one failed read, one failed hash | `FieldsFresh`, `FieldsCatchUp` |
| `resume` | four front ends, five kinds of job, 4 frames, a channel of 2, a handler that may quit | `StreamSound`, `ImplementsJobStream`, `TextOnce`, `AnswersHonest`, `CancelClosesRead`, `FinishedJobAnswered` |
| `gateway` | eight parts, below | `JobsSpared`, `AnsweredMeansEvicted`; `SeesOneInit`, `StaysInitialised`; `PagingSound`; `PricedInFull`, `PricesSound`; `SubmittedAsWished`, `LoadsAsNamed`; `ViewsSound`; `CountsSound`; `ReadersAgree`, `ReadsHonest`; `AllTypesOK` |

A property whose name says that something is sound, honest or as wished is a
conjunction of named parts, each with its own comment in the module: `ListSound`,
`FrontEndsAgree`, `ImageInBudget` and so on.

**Bounds.** Two actors are enough for every race found here: each is a step of
one between two of another. Two slugs with two spellings of one let a collision, a
merge and a rename away from the directory's slug happen; two base names make a
bundle. Two plans, renames and one delete make install, rename, delete and
reinstall possible in any order. Four frames and a channel of two let the
stream break before, between and after frames, with the channel empty and full;
the code's 16 is reached by the proofs, which hold for every capacity and length.
For ids, three slugs let a group have a directory, a former slug and a present
one that all differ, two renames make the id of the middle one, and a delete and
a third install put another file where one was; two clients let a rename fall
between the two resolutions of a request. The clients are symmetric, and so are
the two spellings of one slug.
Three contents let a slow call, a fast call and the file be at three stages; the first two
have a count, so that calls may overlap on one that replaces another, and the third is what
replaces them when headers lack one.

In `gateway`: two workers, one of which reports no files, three instances (matched by
file and by name, by directory but under a former name, and not at all), the first two on
both workers if need be, and one job each: that a job is there is all that the code looks
at. Two pages, two queries, a cache
of one and three calls: a second query evicts the first one's state while a Show More
holds it. Two Inits and two requests. Two files of a group and one of another, and two
calls, for submission, with every front end, kind and way to name a model. Two files,
two names, and four headers that differ in all that the views look at: each clause speaks
of one file, or of a model and its projector, which may sort before it or after. A word of 16 with
tensors of two dimensions up to 5 wraps in a product and in a sum. A read and a cancel in
either order, or two reads, see every status of a job and all bodies. Images of sides
up to 14 at a budget of 4 patches are clamped at every aspect, and patches of one pixel
let the clamp round up. The pages are alike, and
so are the models of the registry; the run checks safety only, so symmetry is sound.

**Fairness.** An RPC once begun runs on (a Go scheduler that is fair to
goroutines), MASS keeps listing the groups, which is what walks, and finishes
its transfers and removals one way or the other. Nothing is asked of the
operator, and of a copy not that it ends. For streams: the goroutines run, and gRPC
fails a receive whose context has ended. That the worker makes progress, or that
a connection lasts or breaks, is not assumed. A handler takes what is in the channel
and reads the result it waited for. `gateway` assumes no fairness: its parts have
no liveness to speak of beyond that their calls return.

## 4. Where the code and its comments part

Four runs expect a violation, each of a property that a comment of the code states.

* `reinstall`: `reserve` re-uses a committed entry without stamping a
  reservation. Delete a model and install it again before MASS next lists the
  groups: the walk finds a model whose file is gone, drops the entry, and the
  finished download is "present without catalogue entry, ignoring".
* `torn`: savers share `<catalogue>.tmp`. One renames it over the catalogue
  just after the other has opened it with `O_TRUNC`; a crash now loses the names.
* `stale_digest`: the header of a changed file is stored with its new stamp,
  then hashing fails; the old digest stays and is not computed again.
* `quit`: `ChatStream` returns early (its client is gone, a chunk does not
  decode) with the channel full; the producer's send does not look at the
  context, and the goroutine stays.

The same constants show more of the kind, for which no run is kept. In
`CatalogueFile` with two savers, `saveToDisk` finds `dirty` cleared by a saver that
has not written yet, and `reserveEntry` acknowledges a reservation that is only in
memory: `AckedDurable` without its condition on `crossed` fails. In `GroupIds`,
an id listed between two renames of a group has a slug that is neither the group's
present one nor its directory, and resolves to nothing, where `gateway.go:468-470`
says that ids handed out before a rename keep resolving: only those whose slug is the
directory's do. `Overlap = {"reuse"}` breaks all properties of `ids`: a group that takes the
slug another group was listed under, or has as its directory, takes over its ids,
so that a request, or a delete, reaches the wrong model. `{"merge"}` breaks all but
`DeleteHitsTarget`: a group in two directories may hold one file name twice, and
a projector's key is not beside its primary. A rename that races an install of its
new name has the same effect. With
`Overlap = {}` and an expiry, or with two walks and a delete, `FlightCatalogued`
fails: `PruneDelete` trusts what `PruneCollect` and `PruneAbsent` saw, and
deletes a reservation made or stamped anew since. With `Overlap = {"held"}` it fails too,
and so does `BundleCatalogued`: a walk reads the header of a file that has just landed, the
file is deleted and planned again, and the walk then stores the header (`cache.go:932`) in
the entry of a file that is on its way, which ends its reservation; the next walk takes the
entry for that of a model whose file is gone. With both excluded, by `ApartSpec` and
`HeldPresent`, it holds (section 5). `GroupInOneDir` needs more than `ApartSpec`: with three plans, a prune
that takes the last, expired reservation of a renamed group, while the destination of
a plan for that group is already chosen, sends the next plan to another directory. With `Overlap = {"slow"}`
`PresentFileKeepsEntry` fails: the file lands between the stat and the deletion.
With `Overlap = {"merge"}` `GroupInOneDir` fails: a group renamed to the name of
another is one group in two directories. In `HeaderRefresh`, `HeaderFresh` fails
without `Alone`: a call that has read the header of the old file stores it after another
call has stored the new one, and before that one stores the digest (`cache.go:942`), for
which it stamps the entry; the old header then counts as fresh for as long as the file
stays, where the comment on the entry's fields says that they are refreshed
(`cache.go:85-87`). `DigestFresh` fails without `Alone \/ Counted`: a call that stores only
a header puts the present stamp over a digest that a slow call has just stored.

Where the newer modules except something, or follow the code where its comments
part from it:

* `RefusedWhenServing` and `RemovalSparesJobs` name two jobs that a delete does not see,
  where the comment (`gateway.go:322-324`) knows none. An instance on two workers is
  reduced to the first one listed, and if that one is idle the delete goes ahead
  (`gateway.go:436`). A worker that reports no files is matched by the path in the model id;
  `ChatStream` puts the path there that it was asked for (`grpc.go:87,95`), which after a
  rename is not the file's, so its instance is not matched, refused for or evicted.
* A group's vision is right after the second walk without a change, not after the first
  (`VisionSettles`). A view is made before the files behind it in the walk are read, so a
  new projector counts only for models that sort after it, and entries are pruned after the
  last view, so one that has left still counts (`cache.go:846,989-997`), where
  `cache.go:979-981` says that it is re-evaluated every call.
* A model id is to be a digest of the hints (`identity.go:9-12`). A typed HTTP chat
  hashes them before the projector is added (`handlers.go:710`), and `ChatStream`
  hashes the path as the client gave it, so that one load may have two ids.
* A validation error of an HTTP batch chat is a 500; of gRPC, InvalidArgument.
* The OpenAI chat request has no `enable_thinking`, `top_k`, `min_p` or `repeat_penalty`:
  they are dropped without a word. A message of parts is a 400.
* A batch of chats is priced at the floor of one token, whatever is in it.
* With patches of one pixel, which `weight.go:63-68` accepts from a header, an image so
  thin that the resize leaves a side of no pixel has that side rounded up to one and is priced
  above the budget (`Sliver`). With larger patches it tiles to none.
* The f16 projector is preferred, and a bf16 one passes for f16 if it is listed first.
* The OpenAI stream drops the text of a job that delivers it on the final message
  alone. `ChatStream` sends it from there, whether or not it has sent the deltas already
  (`grpc.go:141`): a worker that does both has its text sent twice.
* A final chunk that does not decode is a 200 without a text, or a `[DONE]` without a finish
  reason, from the OpenAI handlers (`openai.go:169,203`); `ChatStream` answers with an error.
* `wait=1` answers with an unfinished job after a second break of its stream
  (`handlers.go:256` says never).
* A gRPC read of a chat's result makes a new id at every read.
* A second Init that fails leaves the connection it dialled open.

## 5. Proofs

tlapm checks these for all values of the constants that satisfy the named
assumptions of the modules; what is assumed beyond them is a hypothesis of the
theorem and said here. Every safety invariant, every safety action property and both
refinements that the passing runs check are theorems. The inductive invariants were run
through TLC before they were proved.

### The catalogue in memory: `CatalogueProofs`

* `CatalogueTypeOK`, `SlugsIdentifyGroups`, `GroupsRenameWhole`: for any numbers of
  names, plans, walks and renames, and every overlap. The point of
  `SlugIdentifiesGroup` is that the destination was chosen and stat'ed long before:
  what `reserve` and `renameGroup` check under the lock is enough, because no other
  step writes a name. `TypeOK` needs that a walk at `header` or `store` points at an entry that is
  there (`HeaderEntryLive`): a prune that deletes it moves the walk to `orphan`, or to
  `lost` if the header has been read already.
* `FlightKeptApart`, `PresentKeptApart`, of `ApartSpec`, under `Orderly`: deletes wait for
  installs, nothing is planned while a walk holds a header of a file that is gone, and no
  download outlives its reservation. Walks may overlap, left reservations
  expire, I/O fail and listings be stale. `WInv`: while something is being planned or
  downloaded every committed entry has its file, and every header that a walk is about to
  store (`BusySettled`); what is planned or
  downloaded has an entry that is no expired reservation (`OwedHeld`); and what a prune has
  given up for gone, or will, is neither there nor on its way (`GoneAbsent`).
* `OrderlyIsApart`: if no reservation expires, and there is one walk at a time or no delete
  (`OrderlyInstalls`), every behaviour of `Spec` is one of `ApartSpec`, since then what a
  prune collects is committed (`PrunesCommitted`), and all of that is there when something is
  planned. Hence `FlightKeepsEntry` and `PresentFilesKept` of `Spec`. Each hypothesis is
  needed: between `PruneCollect` and `PruneDelete` a file may be planned anew, and an
  expired reservation, or an entry that a second walk gave up for gone before a delete,
  then loses its entry. The run `reinstall` shows what that costs.
* `BundlesKeptApart`, of `ApartSpec`, under `OrderlyPlans`: renames wait for plans too.
  `BundlesStayTogether` is the same of `Spec`, under `OrderlyNames`.
* `GroupsStayTogether`, under `OrderlyGroups`: and no group is named as another. The
  destination of a plan is chosen under one lock and used under a later one;
  `DestWithGroup` says that it stays with its group in between, `RenamesApart` that two
  renames in progress do not end in one name.

### The catalogue on disk: `CatalogueFileProofs`

* `FileReadable`, `CleanIsSaved`, `AcknowledgedIsDurable`, for any numbers of savers,
  crashes and failures. All three say what holds while no two saves have overlapped.
  `AloneInv`: then one saver is under way at most, the temporary file is not the
  catalogue file but the inode that the saver has open, and before the rename it holds the
  whole snapshot. `ReadInv` adds that a clean catalogue is on disk or in the snapshot on
  its way there, `AckInv` that what has been acknowledged is in memory, on disk and in the
  snapshot that is to replace what is on disk. That a new file gets an inode nobody uses
  (`NewInodeFree`) is a counting argument from `InodeAssumption`.
* `FileImplementsStore`: `saveToDisk` and `loadFromDisk` implement `CatalogueStore`. Each
  step of a saver that is alone maps to a step of the store or is not seen there: the
  snapshot to `Take`, the rename to `Land`, the mark after a failure to `GiveUp`, every
  restart to `Restart`, and opening, writing, failing and cleaning up to nothing, because
  the temporary file is not the catalogue file.

### Ids: `GroupIdsProofs`, `HeaderRefreshProofs`

* `IdsTypeOK`, `PublishedIdsResolve`, `HeldIdsNeverWrong`, `DeletesHitTheirTarget`,
  under `Overlap = {}`, from the invariant `IInv`. A group goes
  by its directory and its slug, `Tags`. `Apart` and `OneDir` say that no tag is
  shared and that a group has one directory, so an id matches one file at most
  (`MatchesOne`); `Held` says that an id in use is tagged by no group but that of its
  file. What a rename checks is checked again in part only when it is applied, so
  `Pending` keeps `Ready` for every rename in progress: the new slug is in nobody
  else's id or directory, unless that group has it as its slug, and then
  `SlugAvailable` will refuse. `RenamesApart` keeps two renames in progress from
  undoing each other's.
* `JobsLoadOneModel`, under `Overlap = {}`. A request looks up its primary and its
  projector one after the other. `RequestInv`: what either look-up found is the file the
  id was given for, or the id itself taken for a path, and no other file can come to be
  at that path while the id is in use.
* `FieldsAreFresh`, for any number of calls, changes and failing reads, and any `NoCount`.
  It takes two invariants, one for each thing that can be given up. While every header has
  had a count (`Counted`), calls may overlap: `Fits` says of each call in progress that it
  has stat'ed no later file than there is, that reading the header commits it to hashing,
  and that the digest it is about to store is of no older contents than its stat. So a digest
  stored under the present stamp is right, and a header stored under it has a call behind it
  that will store the digest. While calls have not overlapped (`Alone`), headers may lack
  anything: `OneAtATime`; `Knows`, that what the call reads is no older than what it
  stat'ed, that it reads the header alone only of an entry under its own stamp, and that when
  it hashes the entry's header is no older than its stat; and `Ordered`, that a header is
  never older than the stamp over it. Both conditions can only be lost (`Before`), so each
  invariant need only be kept by steps that keep its condition.

### A job's stream and its answer: `StreamResumeProofs`

* `StreamTypeOK`, `ChunksInOrder`, `CloseHasCause`, `ReconnectsOnce`, and `StreamIsSound`
  which puts them together, from the invariant `IInv`. `InOrder` is not inductive:
  `Position` adds that between frames `next` is the frame after the last one
  sent, that the open stream serves that one or the terminal one, and that a
  frame held is one of the two; `Calls` ties the number of `StreamChunks` calls
  to whether the retry is used.
* `ResumeImplementsJobStream`: the initial state and every step map to
  `JobStream`'s or to a stutter, from the same invariant.
* `JobStreamSound`, `JobImplementsJobStream`: the same with any of the four handlers of
  `JobRequest` at the far end of the channel, whose steps are steps of the reader.
* `TextSentOnce`, `AnswersAreHonest`, from `JobInv`. What was written
  stems from the chunks taken (`Written`), the `[DONE]` mark comes with the last frame of
  a job that has not failed (`Marked`), a terminal frame that was sent on is with MASS
  (`Durable`), and a handler that has seen the close has everything (`Answered`).

### A request's job, price and result: `RequestProofs`

* `RequestsSubmittedAsWished`, `OrdersLoadAsNamed`, for every catalogue at rest, every
  request and conversion. `SubmissionInv` gives the order of each call in closed form,
  from its front end and its wish alone (`OrderOf`); the five front ends are shown to
  arrive at it (`HTTPLands` … `BenchLands`), and the properties compare two such orders.
  `CatalogueAssumption` asks that an id which is some file's path is that file's own id:
  else `ChatStream`, whose model id has the path as it was asked for, could share an id
  with a job of another file. That ids mean one file is what `PublishedIdsResolve` shows of
  orderly use.
* `CostTypes`, `JobsPricedInFull`, `PricesInOrder`, for any encoder (patches and merges of
  at least one), text and cap. `PriceInv`
  adds to the types that while the entry and its file stay, each look-up has what the header
  gives (`LookedUp`). `ImageInBudget` is arithmetic: `ImageTokensBounded` bounds the sides an
  image is scaled to, or finds it a `Sliver`. `Scaled` picks such a side by its square; that there is one is a
  least-number argument (`NatLessThanWellFounded`), not an induction over an operator.
* `FrontsAgree`, `OneHistory`, for any number of replies. `ResultInv` keeps with each reply
  what was stored when it was given: `EachTold` makes the reply a function of that,
  `SeenInOrder` says that what the replies saw is one way through the job's life, and
  `CancelHolds` that an acknowledged cancel ends it.

### The install page: `InstallSearchProofs`

* `SearchPagesRight`, for any numbers of pages, queries, cached states and calls.
  `PagingSound` speaks of pages that only show what other calls left in the cache, so
  `PagesInv` says for each call of an undisturbed page where it is and that what it read
  or wrote covers the rows the page shows (`Placed`); hence what it brings is new.
  `Remembered` ties rows and button to the state of the query, unless that was evicted.

### Deletes, Init, headers and views: `GatewayProofs`

* `DeleteLeavesJobs`, `DeleteEvictsFirst`, for any workers, instances, files, reports and
  spread. `Cleared` says that from the listing on a job on a doomed instance is late or
  passed over, and a loaded doomed instance is late, passed over, not evictable or still to be
  evicted. `IdleWhenAdmitted` is why the listing passes over no other job: the first worker
  listed with an instance that gives itself away is the one whose jobs are counted.
* `InitSeen`, `InitStays`, for any numbers of Inits and requests.
  `Whole`: while nobody writes, all fields are of one Init that has returned, or
  nothing. It is not inductive, since a write is six steps: `Halfway` says that the
  fields before the next one are the writer's and the others as they were.
  `ServedWhole` keeps what requests have read.
* `GgufTypes`, `GgufCountsSound`, for any word size, table, label and keys.
  `ActiveIsPart`: `Usable` lets through only what the subtraction can take, so that this
  needs no more of the sums than that they are in range. `SumsExactOrNone`: when the file is
  read, the sums are nothing or the whole table's modulo
  the word, and no product has wrapped. `Multiplies` and `Adds` say it by partial products
  and partial sums, whose existence `ExactInv` carries from field to field. That these are the
  recursive functions of `SumsExactOrNone` needs no induction over data: two sequences that
  start alike and go on by the same steps are one (`SameSteps`), or there would be a least
  place where they part.
* `ViewsAreSound`, for any files, names, headers, changes and listing. `ViewsInv`
  follows the walk as long as nothing changes: what it has been through is listed, once, by
  the header on disk and with the projectors it had come to (`TrueViews`), so that after it
  entries and files agree (`CaughtUp`), and the next walk knows every projector from its
  first view. What a view has of a header is `InfoParts`, what a group has of its members
  `GroupParts`. `PickPrefers` finds
  the first f16 by a least-number argument. `ListableAssumption` is what a file name is:
  saying "f16" or "bf16" means containing "f16".
* `PartsAsAlone`: each of the eight parts of `MCGateway` goes through behaviours of its own
  specification only, so that a run with the parts side by side is a run of each.
  `PartsHaveTypes` is `AllTypesOK`, from that and the types of each part alone
  (`DeleteTypes`, `InitTypes`, `SearchTypesHold`, …).

### Only model-checked

* All liveness (`ExpiredReservationResolved`, `LandedFileCommitted`, `SavesComplete`,
  `FieldsCatchUp`, `CancelClosesRead`, `FinishedJobAnswered`): fairness
  and `ENABLED` are out of tlapm's reach.
* The properties of the runs that expect a violation.

## 6. Not modelled

* The order in which file writes reach the disk: a crash is the process's, not
  the machine's (the code does not sync).
* The one-time migration of absolute keys and the stamping of old reservations,
  which a load does; JSON, GGUF and protobuf encodings; HTML; logging; metrics.
* The bytes of a GGUF file's values, and the parsing of its size label: `GgufReader`
  takes any value and any label for what was read.
* The characters of paths, ids, URLs and names; which file names look like a
  projector's. Floating point in prices.
* The list of distinct names (`cache.go`), which is not sorted as its comment says and
  keeps no state, and calls without state: `DownloadFiles`, health.
* Generated code, packaging, process start-up.

## 7. What is left

1. `Submission` over the changing catalogue of `GroupIds`.
2. `ModelViews` with a second walk beside the first.
3. `CatalogueStore` below `Catalogue`, whose entries are in memory only.
