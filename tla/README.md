# DATA777 in TLA+

TLA+ specifications of DATA777, a server for curating image datasets: Go server on one SQLite
database, React dashboard, Python SDK. The modules follow the code under `src/`; the documents
(`docs/api.md` mostly) are used only to say what the code is expected to keep.

## 1. The system

| Component | Where | State | Operations | What makes it correct |
|---|---|---|---|---|
| Commit log | `internal/catalog/commits.go`, `tags.go` | tables `tag_bitmaps`, `labels`, `commits`, `commit_patches`, `head` | `ApplySet`, `ApplyPatch`, `Undo`, `ListCommits` | the data is always that of the commit at HEAD; every commit stays invertible; commits are never rewritten |
| Pinned reads | `internal/catalog/samples.go`, `overlayAtCommit` | none; reads the log's tables query by query | `baseSamples(at_commit)` | a read pinned to a commit returns that commit's data |
| Query pipeline | `internal/catalog/query.go`, `predicate.go`, `filter.go` | none | match, sort, sample, rollup; count; tag counts | stages compose; order total; sampling deterministic for a seed |
| Pagination | `query.go` `paginate`, SDK `samples()` | the client's cursor | offset page, cursor page | a walk misses nothing that matches throughout, and ends |
| Job manager | `internal/jobs` | map of live jobs, map of cancel functions, table `jobs` | `Enqueue`, `run`, `finish`, `Cancel`, `Get`, `List`, `MarkInterruptedOnStartup` | statuses are true, never go back, and are reached; nothing happens twice or late |
| HTTP handlers | `internal/server` | none | decode, check, enqueue or answer | a check made before a job is queued is repeated where it counts |
| Image cache | `internal/thumbnail` | files in the cache directories | `GetOrGenerate`, serve | an image is served whole; nothing is left behind |
| Indexer | `internal/indexer`, `store/samples.go` | table `samples` | `Run` | each file once, however often it runs or is cancelled |
| Vector index | `internal/vectorindex` | table `embeddings` | `Upsert`, `Delete`, `Get`, `Search` | nearest first, within the candidates |
| Schema registry | `internal/catalog/sqlite.go` | table `fields` | declare, list | append-only |
| Plugins | `internal/plugins` | configured entries, fetched manifests | `Reload`, `RunOperator`, panel proxy | the newest manifests win; an operator's effects belong to its job |
| Tokens | `internal/auth` | table `tokens` | `Create`, `List`, `Revoke`, `Verify` | revoked and expired tokens do not verify |
| Store | `internal/store/db.go` | the database file, a pool of one connection | `Open`, `migrate` | the schema is complete or absent; nobody waits for a connection he holds |
| Storage | `internal/storage` | none | `Walk`, `Open` | pure I/O |
| Python SDK | `sdk/data777` | schema cache, a view's stages | reads, commits, `JobHandle.wait`, export | waits end; walks are complete |
| Dashboard: state, export | `web/src/App.tsx`, `useSelection.ts`, `components/*` | filter, selection and its anchor, preview, flags of running jobs | filter, select, preview, tag, undo, index, export | what is acted on was loaded for it; a disabled button is waited for; formats agree |
| Dashboard: sample windows | `useSamples.ts`, `PixiGrid.tsx` | the cache of counts and chunks, window, columns | scroll, resize, filter, fetch, invalidate | what is visible is asked for; a commit's outdated data go |
| Dashboard: grid | `PixiGrid.tsx`, `Grid/textureCache.ts` | sprites by position, texture order | draw, load, evict | a sprite shows its cell's sample; the cap holds |

### How they interact

Every mutation (commit, undo, index, operator) is an HTTP request that queues a job and answers
with its id; a goroutine of the job manager does the work, for a commit or an undo one transaction
whose commit is the only step with an effect on the data, for an index job an insert per file; the client polls the job and then reads again.
Reads go straight to the catalog and are several queries without a transaction. Everything shares
one SQLite connection (`SetMaxOpenConns(1)`, `store/db.go:23`), so transactions never overlap, and a
query of one request runs between two transactions or two queries of others. A restart fails the
jobs that the table has as active, before the server listens.

In the dashboard everything happens in the event loop of a page. `App` holds filter, selection and
flags; the grid asks react-query for the count and for the chunks its window needs and reports the
chunks it got back to `App` (`onChunksUpdate`), which gives them to the modals; a handler that started
a job polls it, resets its flag and invalidates the cached queries. The draw effect keeps a sprite per
visible cell and loads thumbnails for the empty ones.

### What is hard

* The data of an older commit is never stored. Undo and pinned reads recover it from deltas and
  prior values, and have to be right after any history of commits, undos and new branches.
* Reads and jobs interleave with writers at every query; checks are made before a job is queued and
  the world changes until it runs.
* A job's status is kept in memory and in a table, written one after the other, with cancels, polls
  and crashes between any two steps.
* Concurrent requests for one image share the name of a temporary file.
* Pages are evaluated anew while the matching set changes.
* The dashboard's chunks are fetched one by one, by position, around commits of its own and of
  others; thumbnails arrive after their cell moved on; handlers that wait for seconds overlap.

`PROJECT.json` lists these hazards at their lines, with the properties that watch each of them, or
why none does yet.

## 2. Modules and how they correspond to the code

### `CommitLog` (with `MC_CommitLog`)

State: `tags` (tag to set of bits), `labels` (sample, field, idx to value or `NoLabel`), `commits`
(a sequence: SQLite gives ids in order and the code never deletes a row), `head` (0 for NULL), and
the open transaction: `tx`, its private `work` copy of the label rows, the `patches` it recorded, and
`pos`, where an undo stands in the patches it inverts. `snaps` is a history variable: the data each
commit produced, which the code does not have.

* `ApplySet` is one action: the selection, the delta, the commit row, the bitmap and HEAD are written
  in one transaction on the only connection, and no error in it leaves a trace. `ResolveSelection`
  truncates ids to the width of a bitmap entry, as `uint32(id)` does.
* A patch commit is `BeginPatch`, `AppendLabel` and `EditLabel` per entry, `CommitPatch`. Its
  undo is `BeginUndoPatch`, `UndoPatchRow` per stored patch in stored order, `CommitUndo`. `Rollback`
  stands for an error, a cancellation or a crash in the middle. The loop is spelled out because the
  order in which it writes decides what an undo restores.
* An undo's `UPDATE` matches no row when the label is gone; `RestorePrior` models that.
* A filter selection is an arbitrary set of ids here.

`DistinctEdits` restricts requests to those that do not edit a label they already touched. It is an
assumption on requests, not something the code checks: the run `undo_repeated_edit` shows what
happens without it.

### `VersionedDataset`

What the log promises: a tree of versions, a commit that adds one, an undo that goes back to the
parent and shows the parent's data again. `CommitLog` implements it (`ImplementsVersionedDataset`)
under the refinement mapping data = tags and labels, versions = `snaps`, parents = the parents in
`commits`, current = `head`.

### `PinnedRead` (with `MC_PinnedRead`)

Extends `CommitLog` with one read with `at_commit`: `ReadTags`, `ReadLabels`, `ReadHead`, one `Walk`
per commit row, one `Unwind` per collected commit. Each query needs the connection free, that is no
open transaction, and the writers of `CommitLog` step between any two. `undone` records whether an
undo committed between the read of the tags and that of HEAD; `reachable`, whether the commit was on
HEAD's chain at the start.

### `Pipeline` (with `MC_Pipeline`)

`evaluate`: the rows that are left (`working`), the flag `sorted`, and one action per kind of stage and
predicate, applied in any order. The load of all samples is as many steps as it is queries: `ReadTags`,
`ReadLabels`, and for a pinned query `ReadChain` (HEAD and its chain, which `PinnedRead` has commit by
commit); `RollupParents` and `JoinParents` load again from live HEAD. Between any two, and between stages,
`HeadMoves`: commits and undos of others give the samples another of `Datasets`, tags and labels at once.
What a pinned load makes of a history that an undo changed under it is left open within `Overlay`: of each
tag or label the pinned commit's state or the one that was read. The samples are those of the first query.
Three more choices are left open because the code leaves them open: which samples a draw takes (the seed
repeats a choice, it does not make it), the order of equal distances (`sort.Slice`), and the stages
themselves. `order`, `rolled`, `draw`, `version`, `torn` and `undone` are history variables. Stages that
reorder or drop rows are written with sets of row indexes: `Orderings(rows, kept)` has every arrangement of
the rows at the indexes `kept`, and `InPlace`, `ById`, `ByValue` and `Search` are those among them that a
stage may leave.

### `Curation`

Clients, handlers, queued jobs and the dataset together. The dataset is an instance of
`VersionedDataset`, which `CommitLog` is shown to implement, so the log's own steps need not be
repeated; the queue is a set of jobs that have had no effect yet, each of which has it once or never,
which is what `Jobs` shows (`NoLateEffect`).

* A commit list is two steps, `ReadHead` and `ReadChain`, as `ListCommits` is two queries. A
  dashboard asks for fifty rows (more than there are), a script's `client.head()` for one.
* `RequestUndo` is `handleUndo` with its checks; `RunUndo` is `Undo` with `expected_head` compared
  again. A dashboard sends none while it knows no HEAD (`App.tsx`); a script whose `head()` was
  `None` sends one without `expected_head`.
* `Drop` ends a job without an effect, for whatever reason. Clients are free to send a request again,
  whether the first one is queued, done or dropped: that is what time-outs and lost answers come to.
* `shown` and `erased` are history variables: what was marked as HEAD for whom, and which job undid
  which commit on account of which look.

### `Jobs`

`live`, `cancels` and `canceled` are the manager's maps and contexts, `db` is table `jobs`, `pc` is
where each goroutine stands, `applied` counts its committed transactions and inserts. Every statement on
the table, every critical section and every look at the context is a step. The work of a commit or an undo
(`Mutations`) is `Apply`, its transaction, and `WorkReturns`, the query after it, which may fail for any
reason; that of an index job is `OpenFile` and `InsertSample` per file and `WorkEnds`; an operator job ends
without an effect of its own. A poll looks in the map (`Get`) and, after the lock is given back, in the
table (`GetRow`). `Crash` loses the memory half; `Restart` is `MarkInterruptedOnStartup`. `told` and
`refused` record what clients were told, `unread` the mutations whose last query failed.

### `CursorWalk`

The SDK's `samples()` against `ListSamples`: `Fetch` is one page (`resumeIndex`, then `Limit` samples),
`Mutate` changes whether a sample matches. `restarts` counts pages whose cursor no longer matched.

### `Thumbnails`

`GetOrGenerate` and `serveGenerated` for one image. Names, files and open handles are told apart:
`os.Create` empties the file a name refers to, a writer keeps its file when the name moves. Sources,
writes, renames and removals fail at any time; a request that the file system refused to rename or remove
the temporary file for ends as `refused`, and leaves the file.

### `SampleWindows` (with `MC_SampleWindows`)

`cache` is the react-query cache by query key (`["count", filter]`, `["samples", filter, offset]`):
data, the invalid mark and the request under way; `view` is filter, first row and columns; data are
versions of the dataset. Every change of view or data is a render (`RenderWith`): rows, offsets
(`neededOffsets`), the keys that are used now and which of them are fetched. `Serve` and `Deliver` split
a request into the server's reading and the answer's arrival, `Fail` and `Evict` are the cache's other
ways out, `OwnCommit`, `ForeignCommit`, `Settle` and `Invalidate` what commits do. `lapsed` records
keys whose last request failed, or was under way when a job settled and not restarted. That a key
comes into use older than its stale time is a choice of each render.

### `Grid` (with `MC_Grid`)

`cells` is what `getSample` gives for the visible positions, `pool` whose thumbnail the sprite of a
position carries, `loads` the `getTexture` calls that wait (`mine`: the sprite they close over is still
the pooled one), `lruOrder` and `resident` the texture cache. `Draw` is the effect, `Arrive` a thumbnail
with all that waited for it (`touch`, then the callbacks), `LoadFails` its failure. `occupants`, `arrived`
and `failed` are history variables.

### `Dashboard` (with `MC_Dashboard`) and `Export`

`Dashboard` has `App`'s state: the cards in view (`shown`), the chunks `App` was told of (`held`),
selection and anchor, preview, and the flags `busy`, `undoing`, `indexJob` beside the handlers that
wait (`tasks`). An action is a handler up to its `await`, or what comes after it (`Settle`,
`RequestFails`). The server's lists are any of `Lists`. A render (`Renders`) has a view, the chunks of
`ChunkSize` samples that the view needs, and answers for those that are loaded, each on its own; the cards
are what these give within the view, but `App` is given the chunks whole, also what lies beyond the view,
and nothing while there is none. `given`, `crossed` and `pollLost` are history variables. A filter is one value,
whether made of tags, rules or a similarity search. `Export` is `ExportModal.tsx`: which boxes and classes
each format names for the samples it is given, with JavaScript's order of keys (`ObjectKeys`). Its loops
are recursive functions of the number of rounds: `Pushed` pushes the values with a box, `CocoLoop`
carries annotations and categories along. `Number` gives the names that JavaScript takes for array
indexes their order, `Inherited` has those that every object has.

## 3. Runs

| Run | What it checks | Bounds, and why they are enough |
|---|---|---|
| `commit_log` | `TypeOK`, `TagsAreHeads`, `LabelsAreHeads`, `EveryCommitInverts`, `PlaceIsIndex`, `LogOnlyGrows`, refinement of `VersionedDataset` | 3 commits (a commit, an undo, a commit on another branch, its undo), 2 patches (an append and an edit of it), 2 samples, lists of 2 labels, ids with one beyond the width 4 |
| `undo_repeated_edit` | finding | 2 patches on one label |
| `pinned_read` | `PinnedReadIsExact`, `PinnedReadSucceeds` | 3 commits, so the walk unwinds up to two and a branch can form while it runs; label values are interchangeable |
| `jobs` | `ResultIsTrue`, `TableFollowsMemory`, `NoOrphans`, `NoLateEffect`, `OnlyRestartRewrites`, `RefusedIsOver`, `EveryJobEnds` | 2 jobs, which only meet in a crash, one a commit and one an index of up to 2 files (one before and one after a cancel), and 1 crash |
| `pipeline` | `NoSampleTwice`, `ResultIsOrdered`, `RowsOfOneVersion`, `BalancedDraws` | all pipelines of 3 stages (one that orders, one that breaks the order, one more) over 4 samples with tied values, tied distances, a missing vector, a missing parent; 3 datasets, which differ in tags, in labels and in both; HEAD moves twice, to another one and on or back |
| `curation` | `UndoErasesOnlyShown`, `OneUndoPerLook`, `OnlyUndoneLeavesHistory` | a dashboard and a script, 3 commits, 2 looks each, 5 jobs: a commit each, an undo each and a repeated one |
| `cursor_walk` | `NeverSkips`, `RepeatsNeedMutations`, `WalkEnds` | 5 samples in pages of 2 (a first, a middle and a short last page), 3 changes |
| `thumbnails` | `PartialOnlyUnderOverlap`, `NoLeftovers`, `CacheBecomesWhole` | 3 requests (one truncates, one renames, one serves), 2 blocks (so that a file can be partial) |
| `dashboard` | `SelectionIsLoaded`, `SpinnersAreTrue`, `CocoFilesMatch`, `YoloFilesMatch`, `SpinnersStop` | 2 samples in a chunk of 2, so a range has two ends and may reach beyond a view of one card; several chunks are left to the proof; 2 filters, one of which matches either sample; 3 handlers waiting (two that clash and a third); labels with and without boxes, with a name like an index, without a name |
| `sample_windows` | `NeededIsVisible`, `SettledIsShown`, `OutdatedIsReplaced` | chunks of 2, windows of 1 row of 1 or 3 columns (within a chunk and across two), 2 or 3 samples or none, 1 commit, anyone's |
| `grid` | `ResidentAreLatest`, `ImagesWereHere`, `BlankCellsFill` | 3 samples over 2 positions, at most 2 textures, 4 arrivals: the third thumbnail evicts one, the fourth may be one loaded before |
| `grid_images` | finding | the same |

Every property has a variant of a definition with a plausible bug in it under which the run fails;
the variants stand in the modules just before the definitions they vary. Deadlock is checked except
where a query ends (`pipeline`) and where the log or the clients are bounded: with
`MaxCommits` commits used up and everything undone, or all looks and requests made, nothing can be
done, which is the bound's doing.

### Fairness

`Jobs!FairSpec`: weak fairness of each goroutine, which the Go scheduler gives as long as statements
and transactions end, and of `Restart` (a stopped server is started again). Nothing is assumed of
requests, cancels, polls or crashes. `CursorWalk!FairSpec`: the script consumes its iterator.
`Thumbnails!FairSpec`: each request's goroutine goes on. `SampleWindows!FairSpec`: the server answers
each request of a key that stays asked for and the answer arrives (or it fails); the formulas spell out
weak fairness per key, since the keys are data. `Grid!FairSpec`: the browser answers or fails each
thumbnail. `Dashboard!FairSpec`: every handler that waits goes on, as `pollJob` ends because every job
does (`EveryJobEnds`). Nothing is assumed of users, other clients or failures.

### What the failing runs show

* `undo_repeated_edit`: a patch commit that edits one label twice stores two prior values; `Undo`
  restores them in stored order, so the label ends with the first edit's value.
* `grid_images`: the draw effect asks for a thumbnail only while a sprite's texture is empty, and
  sprites are pooled by position. When a commit or a cached filter puts another sample at a position in
  view, the cell has the new sample's name and tags over the old one's image until it leaves the view.

Other things the models showed, which hold only with the reservation stated in the property or in the
action: a pinned read includes the data of a commit that was undone between its read of the tags and
its read of HEAD, since the live tags are read first (`PinnedReadIsExact` excepts it); a job cancelled
after its transaction committed ends as canceled with its commit in the log, and one whose query for
the new row fails after the commit (`commits.go:207`, `jobs.go:136`) ends as failed with it, where
`docs/api.md:328` has it that none was applied (`ResultIsTrue` excepts both); an index job keeps the
inserts it made, however it ends, where the same lines say that a job writes once, at its very end; rows
of one query have the tags of one version and the labels of the next if HEAD moves between the two
queries, where `docs/api.md:331` has reads show the state before a job or the one after it
(`RowsOfOneVersion` excepts them, `torn`); parents that a rollup loads come
from live HEAD even under `at_commit` (`RowsOfOneVersion` speaks of HEAD for them), which shows once rows have a `parent_id`;
a restart turns a job into failed that polls saw succeed, if the server stopped between memory and
table (`OnlyRestartRewrites`); a job in the list of jobs can be refused a cancel as not queued before
it is entered in the map (`RefusedIsOver`); a walk starts over, and repeats, when the cursor's own
sample stops matching, where `docs/api.md:357` says a cursor never repeats rows
(`RepeatsNeedMutations` bounds it); a balanced draw of two from three groups has a quota of none, and
the fill may take both from one group, where `docs/api.md:257` has it as close to an equal quota as
possible (`BalancedDraws` speaks of groups against their quota); a commit that lands between the two
queries of the commit list is the one row `client.head()` asks for and is not marked, so `head()` is
`None`, the view is not pinned and the undo not guarded (`docs/sdk.md:42`; the properties of `curation`
speak of undos that carry an `expected_head`); a second request for an image empties the shared
temporary file, so that the first renames it and serves it partial, marked immutable
(`PartialOnlyUnderOverlap` says no more than that it takes an overlap); a rename that the file system
refuses leaves the temporary file, which is not removed as it is after a failed write
(`thumbnail.go:88`, `NoLeftovers` excepts it).

And of the dashboard:

* A toolbar job that ends clears the selection, also one made while it ran, and also when it failed.
  The modal's job resets `busy` while the toolbar's still runs, and may start beside it
  (`SpinnersAreTrue` has `crossed` for it). Enter in the path field starts a second index job; an index
  job whose poll is lost leaves the button disabled (`pollLost`).
* `App` keeps the chunks of the last report until the next one: under a filter without any chunk yet, the
  sample modal and the export show the old filter's samples (ranges do not reach them, `SelectionIsLoaded`).
  A range, and a step in the modal, reaches samples of a loaded chunk that were never displayed; one that
  starts at an anchor from another list starts at another sample. "All Matching" in the export modal
  shows the count of all matches and exports the chunks that are loaded. A range skips positions whose
  chunk is not loaded; selection and anchor outlive a change of the filter.
* A request that is under way when the dashboard's job settles may have been read before the
  commit; invalidation restarts it only if its key is in use and has data, and otherwise its answer
  clears the mark (`SettledIsShown` and `OutdatedIsReplaced` except these keys, `lapsed`).
* YOLO class names come in JavaScript's key order, so a label that looks like an index takes
  the first names while its boxes carry the number of its turn (`ExportModal.tsx:304`;
  `YoloFilesMatch` speaks of labels that do not).
* The objects that number categories and classes are plain ones, so a label named like a member that
  every object inherits (`constructor`, `toString`) counts as numbered already and gets no number of its
  own (`ExportModal.tsx:248`, `ExportModal.tsx:293`; `CocoFilesMatch` and `YoloFilesMatch` speak of
  exports without one, `OwnNames`).
* On a display with more than the cap's number of cells the cache evicts textures that are in view.

## 4. Proofs

For every value of the constants that satisfies the modules' named assumptions, with nothing bounded
but what the constants bound (which may be any number):

| Theorem | Statement | Assumes |
|---|---|---|
| `CommitLogProofs!TypeCorrect` | `Spec => []TypeOK` | |
| `ChainsEnd` | `Spec => []ParentsAreOlder` | |
| `TagsExact` | `Spec => []TagsAreHeads` | |
| `LabelsExact` | `Spec => []LabelsAreHeads` | `DistinctEdits` |
| `AllCommitsInvert` | `Spec => []EveryCommitInverts` | `DistinctEdits` |
| `RowsExact` | `Spec => []LabelRowsAreHeads` | |
| `PlacesAreIndexes` | `Spec => []PlaceIsIndex` | |
| `NothingIsRewritten` | `Spec => LogOnlyGrows` | |
| `LogImplementsVersionedDataset` | `Spec => ImplementsVersionedDataset` | `DistinctEdits` |
| `PinnedReadsAreExact` | `PinnedSpec => []PinnedReadIsExact` | `DistinctEdits` |
| `PinnedReadsSucceed` | `PinnedSpec => []PinnedReadSucceeds` | `DistinctEdits` |
| `PinnedReadTypes` | `PinnedSpec => []ReadTypeOK` | `DistinctEdits` |
| `JobsProofs!ResultsAreTrue` | `Spec => []ResultIsTrue` | |
| `TableIsBehind` | `Spec => []TableFollowsMemory` | |
| `ActiveJobsRun` | `Spec => []NoOrphans` | |
| `EffectsAreOnTime`, `RefusalsHold`, `AnswersAreFinal` | `Spec => NoLateEffect`, `RefusedIsOver`, `OnlyRestartRewrites` | |
| `CurationProofs!ErasedWasShown` | `Spec => []UndoErasesOnlyShown` | |
| `ErasedOncePerLook` | `Spec => []OneUndoPerLook` | |
| `OnlyUndoneCommitsLeave` | `Spec => []OnlyUndoneLeavesHistory` | |
| `QueryProofs!SamplesComeOnce` | `QuerySpec => []NoSampleTwice` | |
| `ResultsAreOrdered` | `QuerySpec => []ResultIsOrdered` | |
| `RowsAreOfOneVersion` | `QuerySpec => []RowsOfOneVersion` | |
| `DrawsAreBalanced` | `QuerySpec => []BalancedDraws` | |
| `WalksSkipNothing` | `Spec => []NeverSkips` | |
| `RepeatsCostMutations` | `Spec => []RepeatsNeedMutations` | |
| `ThumbnailsProofs!PartialNeedsOverlap` | `Spec => []PartialOnlyUnderOverlap` | |
| `NothingIsLeft` | `Spec => []NoLeftovers` | |
| `DashboardProofs!SelectionIsOfLoaded` | `Spec => []SelectionIsLoaded` | |
| `SpinnersAreWaitedFor` | `Spec => []SpinnersAreTrue` | |
| `CocoFilesAgree` | `Spec => []CocoFilesMatch` | |
| `YoloFilesAgree` | `Spec => []YoloFilesMatch` | |
| `SampleWindowsProofs!SettledDataAreShown` | `Spec => []SettledIsShown` | |
| `VisibleIsNeeded` | `Spec => []NeededIsVisible` | |
| `GridProofs!CacheIsLatest` | `Spec => []ResidentAreLatest` | |
| `ImagesBelong` | `Spec => []ImagesWereHere` | |

Each of these modules also proves `Spec => []TypeOK` (`JobsTypeCorrect`, `CurationTypeCorrect`,
`QueryTypeCorrect`, `CursorWalkTypeCorrect`, `ThumbnailsTypeCorrect`, `DashboardTypeCorrect`, `WindowsTypeCorrect`,
`GridTypeCorrect`); of the type invariants only `CommitLog`'s is a run's as well.

Hardly any of the properties is inductive. What is added to them:

* `CommitLogProofs`. That tags are those of HEAD survives an undo only if the commit at HEAD inverts to
  its *parent's* data, and that must hold of every commit, not just of the one at HEAD, since undo makes
  others current. The argument is layered: `TypeInv` (types, parents older, the transaction's
  bookkeeping), `TagInv` (adds: tags are HEAD's and every commit's delta inverts it), `LabelInv` (adds: the
  same for labels, with a description of what an open patch or undo transaction has done so far: its
  `work` differs from the committed rows exactly at the labels touched, each stored prior being the
  committed value). `DistinctEdits` is used in one place: a label touched again would store as prior a
  value the transaction wrote itself. `RowsInv` stands beside `LabelInv` and needs no `DistinctEdits`:
  it forgets values and keeps which rows exist and that lists have no gaps, which repeated edits do
  not disturb.
* `CommitLogProofs`, pinned reads. `ReadInv` says of each bit of a tag and each label: either one of the
  collected commits that are still to be unwound touches it, and will set it to what it was before that
  commit whatever it is now (`UnwindsTags`, `UnwindsLabels`, from `EveryCommitInverts`), or it has the
  pinned commit's value already (`TagsMeet`, `LabelsMeet`). While the walk is above the commit that the
  tags, or the labels, were read at, that commit's data are on their way (`TagsComing`,
  `LabelsComing`): only commits landed since (`OnTop`), which is where an undo between the two reads
  would break the argument. That the read succeeds (`WithinReach`): as long as no
  undo commits between the read of the tags and that of HEAD, a commit that was reachable when the read
  began is an ancestor of HEAD and then of the commit the walk is at. Ancestors are computed by a recursive
  function; that it obeys its equation (`UpFrom`) follows from parents being older than their children.
* `JobsProofs`. `ManagerInv` says for each job, by the step its goroutine is at (`pc`), what memory,
  table, context and effect can be (`JobInv`). Crash and restart are then two of the steps.
* `CurationProofs`. `CurationInv`: the commits that were not undone form one line that ends at HEAD
  (`LineInv`), so an undone commit never is HEAD again; what a client can name it was shown (`NamedInv`);
  each look named one commit (`LooksInv`). `OnlyUndoneCommitsLeave` adds that what `Chain` computes is
  exactly the commits that were not undone.
* `QueryProofs`, `Pipeline`. `QueryInv`: the rows are in the order of the last stage that gave one, at any
  time and not only at the end, since later stages drop rows and keep the order; each sample comes once;
  what a load has read so far is of the version at its start, unless HEAD moved meanwhile (`LoadInv`). A stage takes some of the rows it is given, each at most once (`Takes`): distinctness and the origin
  of tags and labels pass through any stage that does. Of balanced draws the counting is proved: the groups'
  shares, with the fill, come to the size asked for or to all there is.
* `QueryProofs`, `CursorWalk`. `WalkInv`: of the samples that matched throughout, those up to the cursor were
  yielded; only those were yielded since the last start; a cursor that does not match any more has cost
  a change that no restart was counted for yet. That a page has a first sample is the least number
  principle.
* `ThumbnailsProofs`. `CacheInv`: who may hold which file by the step it is at, and that the blocks of
  the last request that opened a file are there as far as it has written them.
* `DashboardProofs`. `DashboardInv`: `held` holds only samples that were
  given, which is all of what loaded chunks hold (`ChunksHoldSamples`, with a bound on how far chunks reach
  beyond the count), cards show what is held, and what is held matched the filter as soon as there is a
  card; flags and counts of waiting handlers
  by kind, with the history of crossings. The export theorems are about all lists of samples that
  `targetSamples` can be, with any labels. A loop written as a recursive function goes through a
  sequence of states (`Loop`); what holds of the first and passes along holds of the last (`Rounds`). So the nested loops
  over samples, fields and boxes and the single loop over all values name the same boxes; annotations run
  parallel to boxes (`Parallel`); each name's id is the turn at which it came first and no two names
  share one (`Categories`, `Adds`). For YOLO the file lists keys in JavaScript's order, which is that
  of the turns if only the first key looks like an index (`KeysInOrder`).
* `SampleWindowsProofs`. `WindowInv`: a key in use is current, or on its way from a server that has the
  commit already, or lapsed (`CurrentEntry`). Renders, which change many keys, keep it. `WindowFits`:
  the window never starts beyond the last row it can be scrolled to. With lemmas on rows, columns and
  chunks (quotients by `Columns` and by the chunk size) the chunks requested are those of the cells
  shown.
* `GridProofs`. `LruInv`: `lruOrder` has no repetitions and its entries are what is resident; what
  comes after a thumbnail in it is what arrived after the thumbnail; one that is not in it had
  `MAX_TEXTURES` others arrive after it. `SpriteInv` for the sprites and the loads they wait for.

## 5. What is model-checked only, and what is not modelled

Model-checked only: all liveness (`EveryJobEnds`, `WalkEnds`, `CacheBecomesWhole`, `SpinnersStop`,
`OutdatedIsReplaced`, `BlankCellsFill`), as liveness under fairness is out of the prover's reach. The
other properties of the passing runs are proved as well, those about labels for edits that name each label
once (`DistinctEdits`; the run `undo_repeated_edit` shows why).
`ParentsAreOlder` and `LabelRowsAreHeads` are proved only. The library's induction theorems take an
operator, which the installed provers cannot instantiate; where a proof needs induction (over chains of
commits, or the rounds of a loop) it argues from the least number at which the claim would fail.

Left out of the modules that exist: I/O errors of single statements on table `jobs` (the code ignores
them), progress counters, the JSON shape of values and messages, image scaling and encoding; of the
dashboard, how the sidebar builds a filter, YAML and URIs of exports, sizes, coordinates and layout, a
lost Pixi application, `ErrorBoundary.tsx` (it replaces the page) and `Lightbox.tsx` (nothing uses it).
`PROJECT.json` lists, component by component, what is modelled in part or not at all.

Not modelled yet, in the order of the plan:

1. `Indexer` with concurrent runs over one root (`Jobs` has one job's inserts); `Migration` with crashes inside the script.
2. `Operators`: manifest reloads, operator calls with timeout and token expiry.
3. `Pipeline`, the rest: predicates that fail on ill-typed values, and the filter selections of commits, which are evaluated before the transaction.
4. Label values that are JSON null, which a pinned read and an undo treat differently.
5. `Embeddings`: bulk upserts that stop half-way. The pool of one connection with the queries each
   operation makes.

Not planned: `internal/storage` (stateless I/O), distances in floating point.
