# A verification of ridal

TLA+ models of [ridal](https://github.com/erikmannerfelt/ridal), a processor
and web viewer of ground-penetrating radar data, the configurations that
model-check them with TLC, and theorems about them that TLAPS checks. Paths
are relative to the repository; `src/src/server/processing.rs` is the server's
processing queue.

Ridal's hard parts are not its numerics but its server: many people work on one
project at once, over a directory of plain files that must survive a crash, a
second program, and every order in which requests interleave. What people draw
(their *picks*) must never be lost or end up on the wrong data. That is what
the models are about.

Contents: [inventory](#inventory), [modules](#modules-and-the-code-they-model),
[runs](#what-each-run-checks), [bounds](#bounds), [fairness](#fairness),
[proofs](#proofs), [disagreements](#where-code-and-documentation-disagree),
[not modelled](#what-is-not-modelled), [plan](#plan).

To check everything, in this directory: `tlc -config MCDrafts.cfg MCDrafts` and
so on for each row of the table of runs, and `tlapm` on each of
`ProcessingQueueProofs.tla`, `JobRunProofs.tla`, `CatalogSnapshotProofs.tla`,
`RadargramLifecycleProofs.tla`, `RawStoreProofs.tla`, `DocumentsProofs.tla`,
`SiteAccountsProofs.tla` and `RenderServiceProofs.tla`.

## Inventory

The server (`src/src/server/`) serves *projects* (`src/src/project/`), each a
directory of radargram files and documents under `ridal_data/`; a *site*
(`src/src/site/`) serves several with shared accounts. Processing proper
(`gpr/`, `processing/`, `recipe.rs`) runs in child processes. `PROJECT.json`
lists the same components with what of each is modelled; the last column here
is its status.

| Component | State it keeps | Operations | Interacts with | |
|---|---|---|---|---|
| **Processing queue** `server/processing.rs` | job records under one mutex: key, owner, project, estimate, state, cancelled | submit (or join), dispatch, cancel, finish, counts for telemetry | every job's run; drafts and batches submit and poll | modelled |
| **Job run** `server/processing.rs` `run`, `job.rs` | a child process, two pipes, a spec file, the output and its temporary | spawn, read events, time out, cancel, kill, collect | the queue (its return), the child (events, exit status) | modelled |
| **Drafts** `server/draft_routes.rs` | a map from job to draft: owner, output, work directory | prepare, submit, register, look, commit, delete, tidy, `in_use` | queue; raw files; commit goes to staging or adding | partly |
| **Batches** `server/batch_routes.rs` | items and outcomes in memory; a ledger on disk | start, drive (poll loop), cancel, supersede, commit | as drafts | partly |
| **Catalog snapshot** `server/app.rs`, `catalog.rs` | an immutable snapshot (entries, services, overrides) behind a lock | discover, rediscover, refresh, close one radargram | everything that reads the catalog; the lifecycle lock | partly |
| **Catalog overrides** `project/overrides.rs`, `server/overrides_routes.rs` | `overrides.json` | edit a radargram's or group's properties, ignore, unignore | refreshes the catalog | partly |
| **Radargram lifecycle** `server/lifecycle_routes.rs`, `server/replace_routes.rs` | radargram files, staged files and their notes | add, stage, commit, discard, remove | ledger, axes, interpretations, catalog, raw store | modelled |
| **Interpretations, archive** `project/interpretations.rs`, `server/interp_routes.rs`, `server/pick_routes.rs` | a document per person and radargram, and archived ones | save, adopt, delete, archive, restore, purge | the lifecycle lock; axes to place them | partly |
| **Revision ledger, axis snapshots** `project/revisions.rs` | `revisions.json`; axes kept per revision | note, supersede, put, sweep | lifecycle, discovery | modelled |
| **Chunked uploads** `project/uploads.rs`, `server/upload_routes.rs` | a document and a `.part` per upload, a set of claimed ids | declare, send a chunk, cancel, take, sweep | raw store, adding, staging | modelled |
| **Raw files, sources, DEMs** `project/raw.rs`, `server/raw_routes.rs`, `server/dem_routes.rs` | content-addressed files, a source per radargram, DEM documents | store, set, link, delete, sweep | drafts and batches read them; ingest keeps them young | partly |
| **Document store** `project/store.rs`, `jsonl.rs`, `audit.rs` | JSON documents and append-only ledgers | compare-and-swap write, remove, append, read leniently | everything in a project | partly |
| **Processing profiles, assignments** `project/processing.rs` | versioned profiles, assignments | add a version, assign, delete | batches; staleness | partly |
| **Derived items, layer table** `project/derived.rs`, `project/layers.rs` | a document each | save with a version, order, evaluate | the expression language; picks | partly |
| **Project settings** `project/mod.rs`, `server/interp_routes.rs` | `ridal.toml` and the same in memory | `edit_marker`, `put_settings` | every page | partly |
| **Carrying picks, interpretation algebra** `interp/` | none: pure | infer, evaluate, reduce tie points, carry | derived items, interpretations | partly |
| **Render service and caches** `server/render_service.rs`, `overview_cache.rs` | pools of file handles, permits, caches keyed by revision | render, build an overview once, draw a figure | catalog snapshot | modelled |
| **Sites, project runtimes** `server/site.rs`, `site/mod.rs` | `site.toml`, project directories, runtimes built on demand | create, archive, unarchive, rename, delete, open | accounts' grants; every request | partly |
| **Accounts, memberships, tokens, invites** `site/accounts.rs`, `site/tokens.rs`, `project/members.rs` | a document each, of the site or of a project | add, invite, redeem, set roles, remove, grant, revoke | every request | partly |
| **Changing an id** `server/rename_routes.rs`, `project/transfer.rs` | none of its own | copy a file and its settings, transfer picks, remove | lifecycle, interpretations, sources | partly |
| **Ingest planner** `server/ingest_routes.rs`, `id_pattern.rs` | a cache of what was read from headers | plan: read, group, name | raw store | not modelled |
| **Preferences, render profiles, overlays, basemaps, summaries** | a document each | edit with a version | document store | not modelled |
| **Tracks** `server/track_cache.rs`; **Rendering** `render/`; **Sessions, throttle** `server/login_throttle.rs`; **Guard, telemetry** `server/telemetry.rs`; **Readers, exporters**; **GPR processing** `gpr/`; **Command line, library**; **Python client, browser pages** | caches and counters, or none | numeric, sequential or presentation | | not modelled |

Behaviour that is hard here, and what makes each component correct:

* *Queue.* There is no scheduler loop: `dispatch` runs after a submission or an
  end, so a lost wakeup would be for ever. Correct when limits hold, keys are
  unique among unfinished jobs, nothing that fits is left waiting, an end is
  final and is counted once, and a cancelled job ends cancelled.
* *Run.* End of output, time limit and cancellation race. Correct when "done"
  means the output is in place, the slot always comes back, and not before the
  child is dead.
* *Drafts and batches.* A job is known to the queue before it is known to its
  draft. Correct when what a job reads is there until it ends, what it wrote is
  owned by somebody until it is removed, and every item ends.
* *Catalog.* Writers read both halves of a snapshot and put both back; not all
  hold the lifecycle lock. Correct when a snapshot is never torn and shows the
  disk once all is quiet.
* *Lifecycle.* Several writes to several documents, and a crash between any two.
  Correct when every pick can be placed on whatever is served, none is lost or
  orphaned, and the ledger agrees with the catalog.
* *Changing an id.* A copy, a transfer and a removal, in separate requests, while
  others save on either radargram. Correct when no save is missed or written
  over, and every document finds the axes it was drawn on under the id it is on.
* *Uploads and raw store.* No reference counts; a sweep recomputes what is
  needed while requests store and name files. Correct when what a document names
  is there.
* *Documents.* Nothing but a content hash says that a document is the one a
  client saw, and nothing holds from one call of the store to the next. Correct
  when each document is an atomic register under errors and crashes, and what
  was acknowledged stays until somebody takes it back.
* *Algebra.* One engine with two tables, one for saving and one for reading.
  Correct when they accept the same expressions, when one item's failure is its
  own dependants', and when the axis picks are carried through is monotone and
  close to every trace.
* *Rendering for many.* Blocking tasks outlive the requests that wanted them;
  services outlive their radargram's file. Correct when no limit is passed, one
  image is built once, nothing old is shown as new, and everybody is answered.
* *Site.* Each request looks in one place and writes in another: accounts,
  members of each project, tokens, invites, the list of projects, directories.
  Correct when somebody administers the site always, what is removed leaves
  nothing behind for whoever takes its name, and a link works once.

## Modules and the code they model

The names of actions follow the functions of the code. `PROJECT.json` maps each
definition to its lines, and lists under `hazards` the places in the code where
the things above bite, each with the properties that watch it. Definitions
commented *Seeded fault* (or *A fault*) are plausible bugs: each stands for the
definition after it and breaks the property it is paired with, which shows that
the property depends on that code. No specification uses them.

**ProcessingQueue** (`server/processing.rs`). Every operation of the queue holds
its mutex throughout, so each is one action: `Submit` (joining included),
`Dispatch`, `CancelQueued`, `CancelRunning`, `RunReturns` (the run's result, not
yet recorded), `Finish`, `TakeFinished` (telemetry). `owed` counts the dispatches
that submissions and ends have yet to make; between an end and its dispatch
anything may happen. A job's estimate is its memory; the share of a project is
the smaller of its own and the site's limit.

**JobRun** (`ProcessingQueue::run`, `job.rs`) is one run. The task, the two
blocking readers, the child and a tool the child started are the processes; the
pipe is a sequence of events. The `select!` is three actions: `SeesEnd`,
`TimesOut`, `SeesCancel`; `Stops` and `Collects` are the two ways out. The child
may step, write its temporary, rename it, say it is done, fail, exit or crash at
any point. **RunPromise** is the abstract specification: a run returns once,
when nothing can write any more, done only with the output in place, cancelled
only when asked. `JobRun!RunKeepsItsPromise` is the refinement.

**Drafts** (`server/draft_routes.rs`, `server/batch_routes.rs`) EXTENDS the
queue with those who submit: a call lays its raw files out (`LayOut`), submits
(`SubmitNew`, `SubmitJoins`, `SubmitRefused`), and in a step of its own is
registered (`Register`, `RegisterItem`). `ItemFinishes` is the polling loop
finding a finished job, `Tidy` removes drafts long finished, `DeleteCancels` and
`DeleteRemoves` are the two locks that `delete_draft` takes.

**CatalogSnapshot** (`server/app.rs`, `server/overrides_routes.rs`). A snapshot
is a record of what was found, which services are open and what the overrides
said. `Edit*` is an override edit, which does not take the lifecycle lock:
write, read, look, replace. The others hold the lock: `TakeLock`, `Close*`
(`close_radargram`), `ReplaceOrRemove`, `Install`, `Ignore`, `Unignore`,
`Refuse`, and `Rediscover*`, which end each.

**RadargramLifecycle** (`server/lifecycle_routes.rs`, `server/replace_routes.rs`,
`server/interp_routes.rs`, `server/pick_routes.rs`, `project/revisions.rs`,
`project/interpretations.rs`) is one radargram id. `op` says who holds the
lifecycle lock and which write comes next; a crash (`Restarts`) may come between
any two. A document is what one person saved; what matters of it is the revision
it was drawn on, and it is *placeable* when that revision's axes are in the file
on disk or kept. `OpensViewer` and `ClosesViewer` model a browser that saves
what it loaded earlier. A revision that ended is first "ended", a month later
"long ended" (`MonthPasses`), when the sweep may take its axes.

**ChunkedUpload** (`project/uploads.rs`, `server/upload_routes.rs`). A byte is
its place in the file, so a `.part` is right when it is `1 .. n`. A request has
a slot and a place it has got to: measuring, writing, claimed, taken. A request
may end anywhere; a client may start the same chunk again at any time, and
cancel. `sending` is `Sending`, the claim that `put_chunk` and `claim` take.

**RawStore** EXTENDS it (`project/raw.rs`, `server/raw_routes.rs`,
`server/dem_routes.rs`). A stored file is a content with an age: younger than an
hour or not. `pledged` is what clients stored this hour and may yet name; time
passes only once they have. `lingered` is what was stored as old as the finished
upload it came from, which may have waited for a day. A sweep is three steps: sources read, DEMs read,
files deleted. `SetsSource` and `LinksDem` read, `WritesSource` writes under
`dem_links`. `SpecCopying` adds `copy_settings` (`server/rename_routes.rs`),
and `SpecUnlinking` a sweep that is overtaken between looking and unlinking.

**DocumentStore** (`project/store.rs`) is the store in its steps: lock, compare,
make the directory, fill the temporary, rename, unlock, and on removal unlink and
tidy the directory if it is empty. A call may fail anywhere (`CallFails`,
`WriteFails`, `UnlinkFails`, and `ReadBack`, where the document is written by
then), a crash may come anywhere (`Crash`), and a `Tidy` may take the directory
from under another write. **DocumentRegister** is what it promises: a read, a write
and a removal each take effect at one instant or not at all (`Do`, `Fail`), and
answer by what was there then; a write that is installed has yet to be answered
(`Tell`), with its version or with an error, so an error of a write may have had
its effect. `DocumentStore!StoreIsRegister` is the refinement: a call's effect
is its rename or unlink.

**ProjectDocuments** (`project/processing.rs`, `project/layers.rs`) rests on that
register: each of its steps is one call of the store, which may fail (`StoreFails`);
a write that took effect is one stage whether it is answered so or with an error,
and what is said of acknowledged writes is checked of these too. A request saves a version
of a profile, deletes a profile, assigns or unassigns a radargram, or puts the
layer table. `assign` reads up to `Attempts` times; the layer table's ids come
from what was read. A save of a profile says what it `expects` to find: the
version its page read (`If-Match`), none (`If-None-Match`, a new profile), or
anything.

**ProjectSettings** (`project/mod.rs` `edit_marker`, `server/interp_routes.rs`
`put_settings`): a form names some keys, the handler works out each section, what
was not sent from memory and a key at a time, as it takes memory's lock for each
(`PlanKey`, in the order of `Earlier`), and each section is an edit of its own:
`ReadMarker`, `WriteMarker` and then memory (`Publish`). `Allowed` is the check of
a default against what is hidden or offered, where no default is set of the
fallback; `MarkerMoved` is a write that finds another version than it read,
`MarkerFails` an error before it is written and `WriteUnconfirmed` one after, which
leaves memory behind the file.

**DerivedExpressions** (`interp/derive.rs`) is the expression language as a stack
machine: each action pushes an operand or applies a function, and an operand is
a pair of what saving infers (`inferred`) and what reading gets (`read`). A
`loose` operand has passed through a form only one table has, or through a
`clamp` whose bounds are not numbers in order where it is read: `f64::clamp`
panics on them (`ordered`). **DerivedItems**
(`project/derived.rs`) takes a set of items that name each other, in any graph,
and goes through its passes: `find_cycle`, `evaluation_order`, and `evaluate`
along the order. The two recursive searches are taken a call (`Visit`,
`VisitInOrder`) and a return (`Leave`, `PutInOrder`) at a time, `path` being the
calls that have not returned; `RefuseLoop` is the item that is met while it is in
progress. Whatever the passes find is compared with `Reaches`, the transitive
closure of the graph, which no pass computes. **Tiepoints** (`interp/anchors.rs`)
makes the axis picks are carried through: `trace_time_axis` refuses the times or
starts (`Begin`); `reduce_tiepoints` takes a stretch from its stack (`TakeSpan`),
looks for its worst trace (`Examine`) and splits it there (`Split`); `thin` picks
at most `MAX_TIEPOINTS` (`Thin`); `strictly_increasing` places them and resolves
ties (`Place`). Times are integers and the comparisons of quotients are
cross-multiplied, so they are exact.

**RenderService** (`server/render_service.rs`, `server/overview_cache.rs`,
`server/routes.rs`, `server/figure_routes.rs`). A request takes the service from
the catalog, its permits in the code's order, spawns its blocking task, which
takes the service's lock, looks in memory and on disk, opens a reader, renders
and stores (`Ask`, `TakeQuota`, `TakePermit`, `Look`, `Open`, `Finish`, `Touch`).
`Inserted` is the image cache, least recently used first, which trims itself.
The request may be dropped (`GoesAway`), fail, or give up waiting; its task goes
on. A replacement is `LetGo`, `Rename` and `Rediscover`; the old service lives as
long as a request holds it.

**SiteAccounts** (`site/accounts.rs`, `site/tokens.rs`, `project/members.rs`,
`server/site.rs`, `cli.rs`). A clerk is a request: it begins, looks, and writes
in steps of its own in the accounts, in each project's members and in the tokens.
Removal is `RemoveFromRoom` for each project, `RemoveTokens`, then `WriteRemoved`,
where `MayStillRemove` is checked again in what is changed; a request may give up
between any two (`GivesUp`). `met` remembers the names that were given something
while they were being removed, which `RemovedLeavesNothing` excepts. A link is
looked for (`LookForLink`), the password hashed, and the link looked for again
(`Redeem`). A site starts with the account its operator made.

**SiteProjects** (`site/mod.rs`, `server/site.rs`). A manager creates, archives,
unarchives, renames or deletes a project: `site.toml`, the directory, the tokens'
grants and the kept runtime are changed one after the other. A visitor opens a
project, builds its runtime from what it read, and keeps it for others. `ridal.toml`,
`ridal-site.toml` and the tokens go through the document store, so a write may be
answered with an error when it is done (`ChangeFails`, `RenameUnconfirmed`). The doc
of `evict` promises that after an archive change, a rename or a delete "the next
request rebuilds it"; the code keeps that for what is built after the change and let
go by its own eviction, and not in four cases. `overtaken`, a history in each kept
runtime, is set in exactly these, and `KeptIsCurrent` excepts them: a visitor keeps
what it read before a change (`raced`); a deletion evicts before it removes, so what
is kept in between is found by a project made again under the key
(`RemoveDirectory`); a list copied before another request's change takes its flag
back, or a deletion takes it from a project made again (`Adopt`); and a rename that
was answered with an error evicts nothing (`RenameUnconfirmed`).

**IdChange** (`server/rename_routes.rs`, `project/transfer.rs`, and what they use of
the lifecycle, discovery and `project/revisions.rs`) has several radargram ids. A
revision is an id and contents, since the id is written in the file, so a copy is
another revision with the same axes. `hold` is the handler that has the lifecycle
lock and how far it is: a transfer is `TransferBegins` (both axes kept, all
documents read and rewritten), `CopiesRevision` for each revision the copies will
name, `WritesDocument` for each document, `TransferEnds`; the removal in the same
hold is `RemovalArchives` for each document, then `RemovalUnlinks`. It may fail or
the process stop between any two, and be asked for again. Saves and restores take
the lock; `DeletesPicks` and `ArchivesPicks` do not and may come in between.
`Rediscovers` is what ends a change: the ledger, the axes of what is new, and the
sweep, each of which may fail. A work is a save, and `drawn` remembers its axes.
RadargramLifecycle has what is left out here: staging, carrying, the steps of one
replacement.

**MC\*** modules give the constants; each says what its inputs are. MCDocuments
and MCSite check several modules each: a behaviour chooses one *subject* at its
start and the others rest, so their states add up and do not multiply.

**\*Proofs** modules have the [theorems](#proofs).

## What each run checks

| Run | Configuration | Distinct states | Shows |
|---|---|---|---|
| `queue` | MCProcessingQueue.cfg | 3.1 M | limits of slots, memory, people and projects (`LimitsHeld`), `OneJobPerKey`, `NoLostWakeup`, `NoOvertaking`, ends final and counted once (`EndsAreFinal`, `EveryEndCountedOnce`) |
| `job_run` | MCJobRun.cfg | 3.7 k | what a run returns is true of the output (`ResultIsTrue`), `EveryRunReturns` (liveness), the refinement of RunPromise (`RunKeepsItsPromise`) |
| `drafts` | MCDrafts.cfg | 461 k | what a job reads is there while it may read it and no longer (`LaidOutWhileNeeded`), a finished draft's output is there and a deleted draft's job stops (`DraftAgreesWithJob`), and every item ends although drafts keep it out of the queue (`EveryItemEnds`, liveness) |
| `catalog` | MCCatalogSnapshot.cfg | 6.2 M | a snapshot is of one disk and its services are its entries' (`OneGeneration`); without an edit the catalog shows the disk and the overrides (`UneditedIsShown`) |
| `lifecycle` | MCRadargramLifecycle.cfg | 1.6 M | with crashes anywhere: `PicksPlaceable`, `NothingAuthoredLost` (with no orphans), `InstallSparesPicks` |
| `lifecycle_external` | MCLifecycleExternal.cfg | 1.4 M | with two staged files and another program replacing the file: `HistoryIsTrue` (kept axes and ledger), `CommitsWhatWasShown` |
| `raw_store` | MCRawStore.cfg | 2.4 M | what arrives of an upload is the file's beginning, and is used whole (`ArrivedIsTheFile`), what a document names is stored unless it came from an upload that had waited (`NamedIsStored`), `LinksAgree` |
| `documents` | MCDocuments.cfg | 1.6 M | seven subjects: the store is a register under errors and a crash (`StoreIsRegister`); `AcknowledgedStays` of profiles, assignments and layers; `DefaultIsOffered` and `SectionsApart` of the settings; `SavedIsReadable` of expressions; `OnlyItsOwnChainBreaksIt` of derived items; `AxisPlacesEveryTrace` of tie points; `PlacedOnTheirGrid` and `SavesAreMovedOrRefused` of a change of id |
| `site` | MCSite.cfg | 2.7 M | two subjects: `SiteKeepsAdmin`, `RemovedLeavesNothing` and `LinkWorksOnce` of accounts; `KeptIsCurrent` and `DeletedLeavesNoGrant` of projects |
| `render` | MCRenderService.cfg | 552 k | `LimitsHold`, `OneBuildPerImage`, `CurrentImagesAreCurrent`, and `EveryAskAnswered` (liveness) |
| `lifecycle_rollback` | MCLifecycleRollback.cfg | violated | [below](#where-code-and-documentation-disagree) (`LedgerAgrees`) |
| `saved_unreadable` | MCSavedUnreadable.cfg | violated | [below](#where-code-and-documentation-disagree) (`EverySavedIsReadable`) |

Type invariants are definitions of the modules and are proved where there is a
proof module of the component; no run spends itself on them. Deadlock is checked
in `render`, which may stop only when every request is answered (`AllAnswered`);
the other systems may come to rest, when all jobs have ended or a bound is
reached.

## Bounds

* **Queue**: three submissions of six possible requests, two slots, two units of
  memory, shares of two. Three are enough for two to run while one waits, and
  for one to overtake; requests cover one key in two projects and two
  priorities, estimates at and above the budget, a project limit above the
  site's, of zero and unset.
* **Job run**: two steps, one tool. More steps repeat the same events.
* **Drafts**: three calls, two of which are for one thing and one an item of the
  same person, two submissions, and one slot with shares of one, so that
  refusals and joins happen, and what joined may register before the call the job
  was made of. Two properties except what goes wrong then, and it alone (`Taken`:
  the draft has another call's paths than its job); `JobsFindTheirFiles` of
  `MCDraftsTwice.cfg` does not, and is violated. An item that finds the bound on submissions used up cannot
  go on; `EveryItemEnds` excepts just that.
* **Catalog**: two radargrams with two revisions and settings, one edit and two
  changes, each once, and three states of the disk: enough for a change before,
  during and after the edit's reading.
* **Lifecycle**: three revisions, so that a report can be of one, the file of
  another and the picks of a third; two people or two tokens; two documents or
  one. In `lifecycle` the first revision has no axes, keeping may fail and the
  process may crash; `lifecycle_external` has files replaced outside Ridal and
  revisions that return by being added.
* **Raw store**: one radargram id, one DEM, two contents, an upload of two bytes
  and two requests at once. Two contents are enough to replace a DEM's file; two
  requests for every pair to race. `HashOf` gives the upload one of the contents
  that a plain body may also bring. A finished upload may wait for as long as uploads
  are kept; `NamedIsStored` excepts what was stored from it as old as it is
  (`lingered`), until it is made young or an hour has passed without a sweep, and
  while it is gone. Requests other than chunks are answered within the hour.
* **Documents**: the store with two threads, one document of two texts and one
  crash (two threads are every pair of calls; documents share only the lock and
  the directory); three requests on one profile, which a request may create,
  save, delete or assign, two radargrams, one layer with two ids, and two attempts of `assign` (three in the code: enough to try again);
  two savers with every form the page sends; expressions with at most three
  operands waiting, which is every function's arity and one more; every graph of
  four items, in every order of visiting them, any of them broken; every series of
  up to six trace times from 0 to 6, with at most four tie points, of
  which some are thinned away (of five traces more than four are never needed); and
  for a change of id two ids, one
  person, three contents (of different axes, and one that declares none), two saves and
  four changes (`MaxChanges`), which are enough to copy, transfer, remove and let a
  month pass, or to fail and ask again. Five changes were checked once, with 3.6 M
  states. A second person would only repeat the first: documents of two people meet
  in nothing but the revisions they name; the theorems are for any number.
* **Site**: two people, one project (`Rooms`), two clerks, two links, a token and
  a removal; two projects, a visitor, two managers, three changes, a restart. Two
  managers are what it takes for two changes of one list to cross; that more visitors
  change nothing is what the theorem shows.
* **Render**: two requests on two radargrams, of which one is replaced, by two
  revisions of which the first may come back; two workers, one file handle,
  images of two sizes in a budget of two, at most four services. The limits of
  builds and of figures are the code's constants of the workers.

Symmetry is used where a configuration says so, over users, contents or slots that
no definition tells apart, and never with a liveness property.

## Fairness

* `Drafts!FairSpecDrafts`: tokio polls a task that is ready, so each step of a
  batch's driving task, each owed dispatch, and the recording of each end is
  weakly fair; that a job returns at all is weakly fair too, which is what
  `JobRun!EveryRunReturns` shows of a run. Nobody has to ask, cancel or
  delete.
* `JobRun!FairSpec`: the task and the readers make progress; a killed child dies
  (the kernel), and the timeout fires (`TaskNext`). The child and its tools
  need not make any progress, and may hang for ever; but for the time limit a
  run would not return.
* `RenderService!RenderSpec`: each request's task, once there is something it
  can do, does it (the scheduler, and a permit or lock given back goes to
  somebody who waits). No client need ask or go away, and nothing need be
  replaced.

The other runs have no fairness. Timeouts are actions that may fire at any time
they are armed, so nothing rests on a duration, except for the hour and the
month that the code itself compares with.

## Proofs

Each module of proofs states at every theorem what it is about. A theorem has a
hypothesis where its property needs one; what each hypothesis rules out is said
here, and the configurations of the runs satisfy them all.

### Processing queue and drafts

`ProcessingQueueProofs` proves every property of the run `queue` for every set of
requests and all limits, from the assumptions in ProcessingQueue (limits are
naturals, the number of submissions is bounded by any natural, requests are well
formed), and then the invariants of the run `drafts`, from those in Drafts:

| Theorem | Argument |
|---|---|
| `TypeCorrect` | `Typed`, which is `TypeOK` and `Fresh`: no job has an id not given out yet. Without it a submission could overwrite a job. |
| `OneJobPerKeyHolds` | Each step either only ends jobs (`StepsOnlyEnd`) or is a submission, which adds one job with a key no unfinished job has (`SubmitAdds`). |
| `SharesHeldAlways` | Inductive in a stronger form that speaks of every project and owner of any request, `AllSharesHeld`; a submission adds one element to a finite set whose cardinality was below the cap. |
| `NoLostWakeupEver` | With nothing owed, the last dispatch started the front of the queue if nothing ran (`IdleDispatchStarts`), because the waiting jobs have a first one in order (`FirstInOrder`, `LastInOrder`, by well-foundedness of the naturals), and each alone is started whatever its estimate. |
| `WithinBudgetAlways`, `LimitsHeldAlways` | A dispatch starts a set of jobs that is closed under going before, and the last of them fitted with all before it (`StartedFit`). Sums of estimates are cardinalities of sets of pairs (`BytesAdd`), so that no recursion is needed. |
| `EndsAreAlwaysFinal` | `StepKeepsEnds`: each step changes the state of a job that ended only by forgetting it, and `Finish` gives a cancelled job no other end. |
| `NobodyIsOvertaken` | `StepOvertakesNobody`: only `Dispatch` starts jobs, and what it starts is closed under going before. |
| `EveryEndIsCountedOnce` | `EndIsCounted`: the set of ended jobs grows by one job in the step that adds one to a count; telemetry moves counts to what is reported. |
| `DraftsTyped` | `CallsInv`: who submits or is joined has a job, and its job has its key (`Asked`); an entry of the map of drafts is of a job with the draft's key, and a batch item has none (`Entries`); a call that submitted has laid its files out (`Laid`). A step of `Next` either leaves the queue alone (`Aside`) or the calls (`Within`), or is a submission. |
| `RawFilesStayWhileNeeded` | However often and by however many calls one thing is asked for. A job keeps its raw files until it is over or cancelled; a call's registration takes them only when another call has the job's entry, and that call is then `registered` (`Entries`), so nobody takes them from a job whose entry is its own call's. `MCDraftsTwice.cfg` shows that the exception is needed. |
| `DraftsAgreeWithJobs` | `Written`: what a job wrote is at its call's path from the moment the run returned, until the draft that names it goes or the item ends; the entry of the draft is that call's, or `Taken`. That a draft which is gone took its job with it has no exception. |

### Radargram lifecycle

`RadargramLifecycleProofs` proves the properties of the runs `lifecycle` and
`lifecycle_external` for any revisions, people, staged files and documents, with
crashes, failures and programs outside Ridal as the constants allow them. All
rest on `Sound`: the types, and what whoever holds the lifecycle lock has left
(`Held`: between a commit's steps something is served, after an unlink the file
is gone, and without other programs the file is the one listed when no handler is
between file and catalog).

| Theorem | Hypotheses | Argument |
|---|---|---|
| `LifecycleIsTyped` | none | `Sound`. |
| `DrawnIsNeverLost` | none | `Authored`: what was drawn is live, archived or parted with, and while nothing is served, and from the unlink of a removal on, none is live. Every write of a document moves one between the three places. |
| `CommitsAreWhatWasShown` | none | `Shown`: from the look of a commit to its rename, what is served is what its report compared with, because the catalog changes only under the lock the commit holds. |
| `HistoryIsWhatHappened` | `ReturnsSafely`; files come only from Ridal, or discovery never fails to keep axes and all files declare them | `LedgerInv`: what the ledger calls current is served (`CurrentIsServed`), it has heard of nothing that was not here (`Heard`), and a file that is not the one listed is new to it (`Arrivals`). `KeptInv`: what is kept under a revision is its own (`Theirs`), and a handler that is to take the file away has kept its axes (`ServedKept`). |
| `PicksCanBePlaced` | `ReturnsSafely`, `KeepsOrOwns` | Picks are placed on what their revision declared, so `Watches` speaks of every revision a document, a page or the catalog names: its axes are kept or in the file. `Known` keeps the sweep from taking them: the ledger has heard of each, and of what a page shows none ended long ago, since a page is not open for a month. |
| `CommitsSparePicks` | `ReturnsSafely` | `Spared`: once a commit has looked, there are no picks of the file that goes unless its axes are kept. Saves wait for the lock, and a file put there from outside has a revision of its own. |

`ReturnsSafely` says which revisions may be here a second time: none by a
replacement, and by adding only if the process does not stop between the file's
arrival and the note of it. Otherwise discovery takes a revision that the ledger
calls superseded for what it is told, and `LedgerAgrees` and what rests on it are
false: the run `lifecycle_rollback`. `KeepsOrOwns` says that files come from
outside or axes may fail to be kept, not both: a file that is written over from
outside takes its axes with it. With files from outside, a revision that declares
none may be kept under another's axes, which `HistoryIsWhatHappened` excludes.

### Raw store

`RawStoreProofs` proves every property of the run `raw_store` for any number of
uploads, of requests in flight, of radargrams, DEMs and contents, and for files of
any size, from the assumptions in ChunkedUpload and RawStore (a file has at least
one byte; the values that stand for no file are no file; each upload brings one
content):

| Theorem | Argument |
|---|---|
| `ArrivedIsAlwaysTheFile` | `UploadInv`: no two requests use one upload, each that does has claimed it, and the next byte of each that writes is the next of the `.part`, unless that was cancelled under it. A cancellation or a sweep may take the `.part` at any moment, and an id never comes back, so a claimed upload is complete or gone. |
| `LinksAlwaysAgree` | `TypedInv` and `LinksAgree`: only four handlers write a source or a DEM, and each looks at the other side in the same step under `dem_links`. |
| `NamedIsAlwaysStored` | However long uploads wait. `RawInv` adds `SweepInv`: whatever a request is about to name is young, or `lingered`, or is named by the version it will replace (`Kept`); and what a sweep has read so far contains every name of any other file (`ReadEnough`), which holds for links although the sources are read before the DEMs, because a linked file is its DEM's (`NamedTwice`). A step that writes makes names only of files that are spared (`WriteKept`), and time passes only when nothing is pledged: what was not swept by then is as old as any other, so the exception ends. |

The exception of `NamedIsAlwaysStored` is needed: `MCRawSwept.cfg` shows what happens
to a file of an upload that waited. The theorem is about `SpecRaw`:
`MCRawUnlinked.cfg` shows that a sweep that is not atomic per file breaks it, and
`MCRawCopied.cfg` that copied settings break `LinksAgree`.

### Documents

`DocumentsProofs` has a part for each of seven modules.

*The store* implements its register for any threads, documents, texts and number
of crashes, from `StoreAssumption` (no text stands for no document, no thread for
a free lock). `WriterHolds` is that whoever is between comparing and installing
has the lock; `StoreKeepsPromise` is `StoreSpec => StoreIsRegister`. The invariant
`Placed` says of each thread what is known from where it is: between comparison
and rename or unlink the document is what the caller expected, because everybody
who may change it needs the lock. So the rename and the unlink are the register's
steps, answers given before them are the register's refusals and errors, reading
back is its `Tell`, and all else but the crash is a stutter.

*Profiles, assignments and layers*: `AcknowledgedIsKept` is `AcknowledgedStays` for
any number of requests, profiles, radargrams and layers, if every save of a profile
names the version it saw, or that it saw none, as the pages do
(`PutsAreConditional`): one without either writes over what it did not read. A
handler reads the versions first and the store compares last, so the invariant is
`PutsAddToWhatIsThere`: if what is there is what the comparison expects, the
handler read the same. That fails for a creation that read the versions of a
profile deleted since: it expects none, finds none, and writes the old ones back.
They are then again what a save expects that read nothing in between, and that
save's write loses versions acknowledged to others. So the property excepts
profiles that were `Revived` in this way. It takes four requests, which the run
does not have; the attempt to prove the property without the exception is what
found it.

*Settings*: `DefaultIsAlwaysOffered` and `SectionsStayApart`, for any numbers of
savers, from `SettingsAssumption` (the fallback is a profile). `PlannedIsAllowed`:
what a saver is about to write is a whole section and is allowed, whenever each of
its keys was read; it is written over a file that is what was read, so the other
sections in it are allowed still.

*Expressions*: `SavedIsReadableHolds` is `SavedIsReadable` for expressions of any
length and nesting, `MaxPending` being any natural. `OperandsAreSound` is the
induction: every operand that is neither loose nor refused has one shape to both
tables (`Alike`), and each function keeps that (`UnarySound`, `BinarySound`,
`TernarySound`, a case for each form of each argument). Loose operands, which have
passed through a form only one table has, or a clamp with bounds out of order,
are excepted; the run `saved_unreadable` shows that they must be.

*Derived items*: `ChainsOnly` is `OnlyItsOwnChainBreaksIt` for any set of items, no
assumption made. While the first search is on, what is in progress is the path,
each item of it reaches those further in, and what is finished names only what is
finished, none of which reaches itself (`Searching`). So an item met in progress
does reach itself, over the path from there (`RefuseKeeps`), and if none was met no
item does (`NoCycleKeeps`). With no loop the second search never comes back to an
item it is within, and what an item names stands before it (`Ordering`); so every
item that failed is broken or reaches one that is, and what evaluated reaches only
what evaluated (`Evaluating`). The closure is a statement about all sets that
contain it, so no induction over paths is needed.

*The axis*: `AxisPlaces` is `AxisPlacesEveryTrace` for any number of traces, any
times, and any `MAX_TIEPOINTS` from two on, from `TiepointsAssumption`, which says no
more. `Reducing`: between two kept traces that are next to each other every trace is
within its tolerance, or the stretch is on the stack or in hand, and it is there only
once, so that taking it leaves no other copy to vouch for. `Examining`: the worst trace
so far is the worst of all looked at, which needs "further past its own tolerance"
to be an order, although two traces are compared by cross-multiplying with each
other's (`NoWorseThan`), and that tolerances are positive, because the gap in the
middle exists (`MiddleExists`). Then, if the worst one is within its tolerance, all
are (`WorstDecides`). `ChosenAre`: evenly picked points include both ends, by what the
rounded division comes to there (`EndsArePicked`), and are no more than there may be.
`Placing`: what is placed rises, from the first trace on, and ends with the last; only
if all times are one does the last trace stand alone, and then there is no axis.

*Changing an id*: the two properties of a change of id, for any ids, people,
files, axes and numbers of saves and changes, from `MissingAssumption` (what stands
for nothing is no contents) and `BoundsAssumption`:

| Theorem | Argument |
|---|---|
| `PicksStayOnTheirAxes` | `PlacedOnTheirGrid` says of documents only. The sweep takes the axes of what ended long ago and no document names, so `PagesHaveAxes` adds that a page's revision is served or has not ended for long, and a save from it finds its axes. A transfer writes what it read earlier, so `TransferIsReady` adds that what each pending document will name is under the new id or among what is still to copy, which the old id has; `RemovalIsReady` that the axes of the file to be unlinked are kept. `KeptAreIts`: what is kept under a revision is that revision's. `WhatDiscoveryDoes` states once what a discovery leaves, whichever of its writes fail. |
| `ChangesMissNoSave` | `NothingMissed`: while the lock is held documents only leave the old radargram, so each that is there was read and is pending, or was moved, or is its owner's who had picks on the copy; when the removal begins none is pending. |

### Site

`SiteAccountsProofs` proves the three properties of accounts for any people,
projects, clerks, links, tokens and removals, from `AccountsAssumption` (the name
for nobody is nobody's), and the two of projects for any projects, managers,
visitors, changes and restarts:

| Theorem | Argument |
|---|---|
| `SiteAlwaysKeepsAdmin` | Only `UpdateAccount` and `WriteRemoved` take an administrator, and both look for another in the document they write. |
| `RemovedAlwaysLeavesNothing` | Five parts. `NotBoth`: of a name that was never met no two requests are in progress of which one gives and one removes. `GivesToSomebody`: a request that is about to give has an account to give to. `Clearing`: a removal that has got past the projects, or past the tokens, has left none. `NothingLeft`: the property itself. `Typed` for the shapes. An account therefore goes only when everything else of it has gone. |
| `LinkAlwaysWorksOnce` | `LinksApart`: a pending link was minted and is not void, of two accounts no two have one link, so a redeemed, replaced or removed link is never pending again. |
| `ProjectsTypedAlways` | `ProjectsTyped`, which says of each request the shape it has at its step. |
| `DeletedNeverLeavesGrant` | `Cleared`: when the directory is about to go no token has a grant for its key. `Granted`: a visitor about to grant one has looked at a project that is there and whose deletion has not got past its check, or is among the excepted (`crossed`). |
| `KeptIsAlwaysCurrent` | For any number of projects, visitors and managers, with no assumption on how changes cross. `OpenedIsCurrent`: a visitor whose project did not change meanwhile has it as it is; `CachedIsCurrent`: what is kept is as it is, is overtaken, or one of the managers is about to let it go (`Leaving`). Every manager's step changes a set of projects and evicts or marks what is kept of those (`ManagerKeepsKept`); that the code needs each mark is shown by TLC, which finds a counterexample when any of the four is left out. |

### Rendering

`RenderServiceProofs` proves the three invariants of the run `render` for any
radargrams, revisions, clients, workers, permits, budgets and numbers of
replacements, from `RenderAssumption` alone:

| Theorem | Argument |
|---|---|
| `LimitsHoldAlways` | `PermitsHold`: a task that renders has the permits its kind needs, also when nobody waits for it any more, and of each there are out at most as many as there are. `WithinBudget`: an insertion trims until what is left fits or is a single image (`TrimmedHolds`, `InsertedHolds`); bytes are the cardinality of a set, so that no sum is recursive. |
| `OneBuildAlways` | `Renders`: a task that renders is the only one of its service, its reader is open and what it draws is not in memory. It looked when it had the lock, only who has the lock inserts, and other services' images have other keys. |
| `CurrentImagesAlways` | `Newest`: a service, image or overview whose stamp is the file's was made of the file that is there; all others have an older stamp and are never found by the service that is listed. Between the closing and the rediscovery of a replacement no service is listed. |

### Job run and catalog

`JobRunProofs` proves `ResultIsTrue` and the refinement of RunPromise for jobs of
any number of steps (JobRun assumes nothing else). `RunInv` says of each place of
the task what it knows: `OutputAgrees`, that the output is there from the child's
rename on and not before; `HeardAgrees`, that what the reader has, or will read
from the pipe, is what the child said last, so that a child that ended well is
heard as done before the task collects; `TaskAgrees`, that a run returns only
with no child alive. `ResultIsTrue` follows from these at the one place where an
outcome is chosen. For the refinement each action is a step of the promise or
changes nothing it speaks of.

`CatalogSnapshotProofs` proves `OneGeneration` and `UneditedIsShown` for any ids,
revisions, settings, numbers of edits and changes, from `HandlersAssumption` (a
handler is an edit or a change, and nobody is neither). `Generations` adds that no
handler has a catalog of two generations in hand, to swap in later, which an edit
keeps because it takes both halves in one look. `LockHeld` makes the change that
is under way the only one (`OneHolds`), and `Shown` says how far it has come:
before it changes anything the catalog shows the disk, and from its walk on it
has such a catalog in hand.

### Checked by TLC only

What needs fairness (`EveryRunReturns`, `EveryItemEnds`, `EveryAskAnswered`), for
which the prover has no rules. Every other property of a passing run is the
statement of a theorem. That the passes over derived items and over trace times end
is not stated of them; TLC explores all of each within the bounds.

## Where code and documentation disagree

Two are among the runs and reported with their lines under `findings` of
`PROJECT.json`:

* `MCLifecycleRollback.cfg` (`LedgerAgrees`): a radargram replaced by a revision
  it had before is served while the ledger says it was superseded.
* `MCSavedUnreadable.cfg` (`EverySavedIsReadable`): a reduction of a single value,
  `median(thickness)`, is saved because inference takes it, and fails at every
  position when it is read. Nor does it hold of a clamp: `clamp(bed, 0, median(surface))`
  is saved, and where nobody picked the surface the bound is NaN and `f64::clamp`
  panics (`derive.rs:703`, `754`); bounds that are not in order do the same.

The others are configurations with one property that TLC finds violated, each of
what a comment says, or of what a reader might expect:

* `MCDraftsTwice.cfg` (`JobsFindTheirFiles`): one draft is asked for twice. The
  second call joins the first's job and, when it registers before the first,
  the draft has the second's directories; the first call then removes the
  directory the job is reading from.
* `MCCatalogStale.cfg` (`EntriesAreOnDisk`): an override edit puts back the
  snapshot it read before a removal or commit, so that the catalog lists a file
  that is gone until something rediscovers.
* `MCCatalogClosed.cfg` (`EntriesAreServed`): after a rename that failed, a
  radargram is listed with no service.
* `MCRawSwept.cfg` (`WhatIsNamedIsStored`): a chunked upload finished more than an hour
  before it is used is old the moment it is stored, and is swept before its
  source is written.
* `MCRawCopied.cfg` (`LinksAgree`): a copied source links to a DEM that was given
  another file meanwhile.
* `MCRawUnlinked.cfg` (`NamedIsStored`): a file stored again between a sweep's look
  at its age and the unlinking is lost, though the client was told it is stored.
* `MCArchiveLost.cfg` (`ArchiveStays`): of two changes of the list of projects each
  writes the list it read, so an archived project may be listed as open again.
* `MCStaleRuntime.cfg` (`NextRequestRebuilds`): the doc of `evict`
  (`server/site.rs:396`) without the exceptions of `KeptIsCurrent`. A visitor who was
  opening a project while it was archived or renamed keeps the older runtime for
  everybody after; so does one who opens it between the eviction with which its
  deletion begins (`site.rs:2521`) and the removal, for a project made again.
* `MCReadersOverCap.cfg` (`ReadersWithinCap`): of two requests for one closed
  reader the second drops the first's record, and the pool has a handle it does
  not count.
* `MCRendersReplaced.cfg` (`RendersItsRevision`): a request that holds a replaced
  service opens what is at the path by then, and answers it as the old revision.

Seen while modelling, and not a property of any run:

* of two forms of one settings section saved at once, each sends its own keys and
  takes the others from memory, so the later undoes what the earlier saved
  (`interp_routes.rs:1658`); `ProjectSettings!WithKey` takes them so, and
  `SectionsApart` says only that no other section's keys change. A save whose write
  could not be read back leaves memory behind the file, and the next save of the
  section takes the file back to memory (`WriteUnconfirmed`);
* cancelling a job that waits starts no dispatch, so the next one may fit and
  wait until another job ends (`processing.rs`); `NoLostWakeup` is of an idle queue;
* `Tiepoints!OnlyTheTiedMiss` is false: a trace next to two that share a time may
  also be further off than the tolerance (`anchors.rs:194`);
* the tables of `derive.rs` differ elsewhere too: for booleans (1286), and in that
  inference visits one branch of an `if` (1164), while `concatenate` keeps the
  shorter of two (514, 652); names in quotes count as dependencies (`derived.rs:611`);
* adding a member who is one, or redeeming an invite, sets their role without the
  check that `update_member` makes, and may leave a project without an
  administrator (`site.rs:1925`, `2713`); an invite issued again brings no
  membership of the project the first one named (`site.rs:3406`);
* a draft that joins a batch item's job waits in the item's place, though drafts
  go before batch items (`processing.rs:21`, `320`);
* a radargram without axes may be replaced while somebody has it open who saves
  afterwards, of a revision nothing can place (`replace_routes.rs:945`);
* a transfer that is asked for again after it stopped before its removal finds the
  owners' picks on the copy, so what they saved on the old id since is left there
  and then archived (`rename_routes.rs:404`); picks their owner deletes during a
  transfer come back on the new id (`transfer.rs:196`); and what the audit says
  picks were moved to is the last transfer's target, which may be gone itself;
* a profile deleted between an assignment's look and its write leaves a radargram
  assigned to none (`processing.rs:333`);
* a profile deleted while somebody creates it comes back with the versions it had,
  which a save from a page that read them then takes for unchanged
  (`processing.rs:262`);
* a crash while a project is deleted leaves its key in the archived list
  (`site/mod.rs:455`);
* `layers.rs:492` gives an id that was taken away to another name, so that a
  client that saw neither change may find its version unchanged;
* two rotations of one `.jsonl` ledger at once may rename over one another
  (`jsonl.rs:24`).

## What is not modelled

* Numbers: processing steps, rendering, projections, the interpolation that
  places picks. Of placing picks there remain that a pick needs its revision's
  axes, and the reduction of tie points, which is exact over integers. They
  are floating-point arithmetic over arrays, which TLC cannot enumerate and for
  which a property of a few integers would say nothing of the code.
* File formats, exports and parsing; the command line and the Python module:
  sequential code over data, without state that two callers share.
* Sizes and quotas, but for the refusals they cause. Two uploads each measure
  their room and together may exceed the limit by the chunks in flight.
* Two server processes over one project or site: `project/store.rs` says nothing
  here prevents it. `ridal site` on the command line is such a process.
* The browser, but for a viewer that saves what it loaded, and a client that
  uploads.
* The content of documents whose only rule is the version compared when they are
  written (preferences, overlays, basemaps, render profiles): each is
  DocumentRegister's case of one document.
* Sessions and the throttle of logins: one map each, changed and looked at under
  one lock in the same call.

## Plan

Done: the modules above, in the order queue, run, drafts, catalog, lifecycle,
uploads and raw store; then the document store with its register and refinement,
project documents and settings, expressions, derived items and tie points, the
site's accounts and projects, the render service, and changing an id.

1. **Batch ledger**: what supersedes an item, what a restart makes of a batch.
2. **Discovery**: how duplicate ids are settled and fall back to names, against a
   reference definition.
3. **Ingest planner**: the grouping and naming of recordings.
4. **Ledgers** (`jsonl.rs`): rotation by renaming, a torn last line.

Proofs still to write: abstract specifications of the lifecycle and of the catalog,
and their refinement.
