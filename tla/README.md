# csaf-trove in TLA+

csaf-trove mirrors the security advisories (CSAF documents) of many providers
into one bare git repository per provider, validates every advisory, keeps the
results in one SQLite database per provider, and serves both through a REST API,
an MCP server and a dashboard. This directory holds TLA+ models of it, the TLC
runs that check them, and theorems checked by TLAPS.

Source references are relative to the repository's root; `storage/`,
`pipeline/`, `scheduler/` and `api/` are directories of `server/src`.

## The system

| component | code | state it keeps | operations |
|---|---|---|---|
| Incremental retrieval | `pipeline/sync.rs`, `membership.rs`, `store.rs` | since token in `sync.json`, recorded failures (rows), a run's worktree | walk the distributions, download, skip, record failures, advance the token |
| Git snapshot store | `storage/git_repo.rs`, `git_changes.rs`, `git_maintenance.rs` | a bare repository per provider | prepare an index, stage, commit a snapshot, scan the history, pack |
| Snapshot processing | `scheduler/runner.rs` (`process_snapshot`), `storage/git_processing.rs`, `processing.rs`, `path_set.rs` | checkpoint, rows, versions, `summary.json`, files to validate | select changed inputs, write them out, validate, record, publish |
| Validation | `pipeline/validate.rs`, `source.rs` | none | read one advisory with its sidecars, judge it |
| Document store and queries | `storage/documents.rs`, `versions.rs`, `membership.rs`, `db.rs` | tables of `documents.db`, connection pools | save results, failures, versions; pages, filters, diffs |
| Provider jobs and API | `scheduler/runner.rs` (`run_job`), `api/sync.rs`, `api/providers.rs`, `startup.rs` | pipeline lock, job status, `sync.json` | run, revalidate, trigger, delete, restore, list |
| Scheduler and sources | `scheduler/mod.rs`, `main.rs`, `config_sync.rs` | clone and copy of the published sources, sources in memory | sync all, poll, reload, wake up |
| Caches | `storage/cache.rs`, `mod.rs`, `overview.rs` | index of summaries, CVE searches, overview snapshot | load, update, invalidate, measure |
| Hooks | `hooks.rs` | a bounded broadcast channel of finished jobs | publish, receive, lag, invalidate |
| Job progress | `main.rs`, `pipeline/*` | entry of a running job, its phases | enter phases, notify, follow by WebSocket |
| Aggregation, reports, metrics | `pipeline/aggregator.rs`, `report.rs`, `models/metrics.rs` | metrics file, aggregator file | append, compare, regenerate |
| Rate limit, authorization | `rate_limit.rs`, `api/auth.rs` | budget per network | wait, admit, reject |
| Dashboard | `dashboard/src` | URL, resources, expanded sections | navigate, load, show |
| MCP server, deployment | `server/src/mcp`, `deploy/` | none | |

**How they interact.** The scheduler (and the API, and the webhook through a reload
of the sources) starts *jobs*. A job takes the provider's lock or is skipped. A sync
job downloads into a worktree what changed since the *since token*, commits the
worktree as one snapshot, and processes the snapshot: it compares the *checkpoint*
of the last completed pass with HEAD, writes what changed in between to a
directory, validates it, updates rows, versions, failures and the summary, and
publishes a new checkpoint. Last of all it advances the since token. A revalidation
only processes, and processes everything. Requests read the database, the
repository and the derived files at any time, without the lock. A finished job is
an event on a channel; the hooks behind it drop what caches hold.

There is no transaction around a job: each of its writes is durable on its own, so
every pair of neighbouring writes is a place to crash, and the next job has to
continue from what is there.

**What is hard.** Crashes between durable writes, followed by commits that undo what
the dead pass had seen; results computed under different keys or policies; a
failure list that lives in the rows a full pass deletes; a walk of minutes during
which the provider publishes; others who push to the repository, and a git gc, while
a snapshot is built; API handlers that write `sync.json` or delete directories
without the lock; requests of several statements under a pass that replaces their
rows; caches filled from state that has been invalidated meanwhile; a channel that
loses events. `PROJECT.json` lists these hazards, each at its line, with the
properties that cover it.

**What makes each component correct.**

- *Processing*: a published checkpoint speaks the truth about rows, versions,
  fingerprint, failures and summary; interrupted work is never forgotten; results
  catch up with HEAD; exactly the selected files of the commit are validated.
- *Retrieval*: every listed advisory is mirrored in its current version or will be
  asked for again; the mirror becomes current.
- *Snapshot store*: a snapshot is committed whole, on the commit it was built from,
  or not at all; what branches reach can be read; scans miss no change.
- *Document store*: one row per advisory, its parts complete; the same result is
  classified alike wherever it is read; count, list and content of versions agree;
  one database per provider.
- *Jobs*: one at a time per provider; the status tells whether one runs; it ends.
- *Scheduler*: every source is synced again and again; the sources become those
  that are published.
- *Caches and hooks*: a reader sees the state after the last job that was handled;
  nothing stale stays for ever, although events are lost.
- *Progress*: the phases shown are those of the job, complete and in order.
- *Trends*: today is compared with the last job that is old enough.
- *Rate limit*: the rate is kept; who waits is rejected for others' sake only.
- *Dashboard*: what is shown is what the URL says.

## Modules

| module | what it is | checked in |
|---|---|---|
| `Processing` (`ProcessingProofs`) | processing of snapshots, with the git history it reads | `MCProcessing`, `MCPasses` |
| `PreparedFiles` (`PassesProofs`) | the files a pass writes out, and the walk that reads them | `MCPasses` |
| `Retrieval` (`RetrievalProofs`) | since token, walk, downloads, recorded failures | `MCRetrieval` |
| `Repository` | what the snapshot store promises (abstract) | refined by the next |
| `SnapshotCommit` (`SnapshotCommitProofs`) | index, staging, packs, commit, pushes, git gc | `MCSnapshots` |
| `HistoryScan` (`SnapshotCommitProofs`) | change scan, version scan and their cache, over histories of the former | `MCSnapshots` |
| `CheckOutcomes`, `Validation` | outcome of a document, and its readings by schema, filters, summary, health | `MCDocuments` |
| `DocumentStore` (`DocumentStoreProofs`) | tables of a provider, and the writes of passes | `MCDocuments` |
| `DocumentReaders` (`DocumentStoreProofs`) | pages and diffs, read in several statements | `MCDocuments` |
| `VersionHistory` (`DocumentStoreProofs`) | versions, their counts and contents over several commits and passes | `MCDocuments` |
| `Databases` (`DatabasesProofs`) | registry of pools, and the file below it | `MCProviders`, itself |
| `ProviderJobs` (`ProviderJobsProofs`) | lock, status, requests, deletion, scheduler, `sync.json` of a provider | `MCProviders`, `MCFullSync` |
| `ConfigSync` | from the configuration repository to the sources in memory | `MCProviders` |
| `ProviderPages` (`PassesProofs`) | list of providers, health of distributions | `MCPasses` |
| `Hooks` | the channel of finished jobs, as one hook sees it | `MCServing` |
| `SummaryCaches` (`ServingProofs`) | index of summaries, CVE searches; extends `Hooks` | `MCServing` |
| `OverviewCache` (`ServingProofs`) | snapshot of the overview | `MCServing` |
| `JobProgress` (`ServingProofs`) | entry of a job, notifications, a page that follows | `MCServing` |
| `Trends` (`PassesProofs`) | metrics file and baselines | `MCPasses` |
| `RateLimit` (`PassesProofs`) | waiting for a budget | `MCPasses` |
| `DocumentPage`, `DiffView`, `Pagination` (`PassesProofs`) | three parts of the dashboard | `MCPasses` |

Modules that act on each other are composed: `HistoryScan` scans the histories
that `SnapshotCommit` makes; `DocumentStore` stores what `Validation` judges and
`CheckOutcomes` classifies, under the readers of `DocumentReaders`; `SummaryCaches`
runs behind `Hooks`; `ProviderJobs` contains the scheduler. Where modules only hand
over a value that the receiver takes in any form ("the sources changed", "the
database or an error", "the summary was written"), an MC module puts them side by
side and a behaviour follows one of them (`part` or `view`): their interleavings
would multiply states and show nothing.

`PROJECT.json` maps every definition to the lines it models.

### Processing

State: `commits` is every snapshot ever committed and `root` the first one of the
present repository (`delete_provider` may remove the repository and fail on the
rest: the history then starts anew and old commits are unreachable). A snapshot
is the content of each advisory (`text`, and `sides` for the three sidecars
together) and the set of signing keys. `checkpoint`, `rows`, `versions` and
`summary` are the durable results; `summary` is the rows it was built from, since
it is a function of them. `pc` and `pass` are the memory of the running job, lost
by `Interrupt` at any moment.

Actions follow the calls of `process_snapshot`: `LoadCheckpoint` (and its removal
by a forced pass), `SelectInputs`, `DeleteAllRows` or `DeleteRow` per removed
advisory, `ValidateOne` in any order, `RecordVersions`, `SaveRetrievalErrors`,
`SaveSummary`, `Publish`. `Sync` is the commit a sync job makes before, with any
outcome of its downloads; `Revalidate` the forced pass. `Reconfigure` is a new
policy or binary, taken up by jobs that start later (`NewPass`).

What the selection computes is kept as the code has it: `Touched` is the set of
paths with a delta in *some* commit since the checkpoint (`scan_changes`), not the
difference between two trees; the fingerprint is compared with the checkpoint's
only; a download with a recorded failure is selected even without a change.

Abstractions: a URL and its path are one thing; advisories have distinct tracking
ids (collisions are in `DocumentStore` and `VersionHistory`); the four DELETE
statements of `delete_all_documents` are one step (they are four in
`DocumentStore`); key sets and policies are numbered, and without `Reverts` the
numbers only grow. `ExternalRemoval` stands for commits that others make in the
repository: the code handles removed advisories, but nothing under `src/` removes
one.

### PreparedFiles

What lies between the selection and the validation: the directory may hold files of
a job that died; the selected paths are read from the path set page by page and
written out in any order; a thread walks the directory and sends what it finds
through a bounded queue; each advisory is read with the sidecars beside it. Bounds:
pages of one path, a queue of one, two paths, two blobs, one kind of sidecar. The
counting pass of the code only decides whether a selected input is missing.

### Retrieval

State: `clock` and `remote` are the world; a publication has a version and the
time its index entry gives. `token` is the since token, `mirror` the versions at
HEAD. Of processing there is what touches the recorded failures: `checkpoint` (is
there a reachable one: without it the pass is a *baseline* that deletes all rows),
`touched` (committed differently since the checkpoint: selected by the next pass),
`rows` (an empty database makes the next sync a full one) and `failed`.

The walk takes one distribution after the other (`LoadIndex`), filters by token and
retries, and downloads in any order; the version downloaded is the one current at
that moment, not the listed one. A distribution that cannot be read is skipped
unless it is a TLP:CLEAR feed, whose error ends the job (`Interrupt`).
`TriggerFull` clears the token at any time. `Select` makes a pass full if there is
no checkpoint or it is forced, and may do so at any time for new keys or policies.

Assumptions and limits: the provider's times and ours are one clock, and an index
entry's time is the time of its publication; advisories are not withdrawn;
configured `skip_directories` are distributions that do not exist here; a partly
failed deletion of the provider is left out (see the hazards: with it,
`ClearNeverMissed` fails, because the token survives the repository).

### Repository, SnapshotCommit, HistoryScan

`Repository` has branches with trees and one action of ours: publish, at one moment,
the collected files on top of what the branch holds. What a fetch collects is left
loose there. `SnapshotCommit` has the steps: `git init`, the branch HEAD names, a
private index of its tip, one file after the other with the sidecars it owns
removed before, blobs written to packs in batches, the flush of the last batch, the
tree, the check that the branch has not moved, the commit, the reference. Meanwhile
others push, merge, reset, delete and switch branches, git gc removes what nothing
refers to, and the sync dies anywhere; the scratch directory may disappear. The
refinement mapping (`Repo == INSTANCE Repository WITH ...`) gives each branch the
tree of its tip, and the files collected so far; the step that moves the reference
is `Publish`, everything else stutters or is a step of the environment.

The history is a set of commits with parents. `HistoryScan` computes over it, as
functions, what the two scans report: comparing trees directory by directory, native
diffs where files lie beside directories, a cache that evicts and refuses. They are
compared with their definitions over every history the run reaches.

Abstractions: git gc removes any closed set of unreferenced objects at any time (the
two-week grace is not used); the commit id that `commit_snapshot` returns is only
logged; a path that is there both plain and compressed is an error the pipeline
never produces; deleting the repository during a run belongs to `ProviderJobs`.

### CheckOutcomes, Validation, DocumentStore, DocumentReaders

`Validation` makes of a file the outcome of four stages (retrieval, parsing,
signature, digest) and of each profile; `CheckOutcomes` classifies such a result in
the four ways the code does: virtual columns, filters, summary, health.
`DocumentStore` has the tables: `rows`, `failures` and `vulns` by row id, `versions`,
`members`, `checkpoint`; every action is one transaction. Rows are found by URL and
by tracking id, and a validated document takes the place of all it finds, so that
advisories with one id delete each other. `DocumentReaders` adds a request of several
statements: a page of documents with the failing tests of each, or a diff of two
versions.

Abstractions: one request and one failed advisory at a time; `revision_history` is
written wherever `check_failures` is, and left out; commits happen while no pass
runs; versions are recorded from the commit the recorded ones reach, which, with
INSERT OR IGNORE, is the same as from the checkpoint.

### VersionHistory

The same store over several commits, by the URL alone: what each snapshot holds, the
row with its `version_count`, the recorded versions, the checkpoint, and passes that
break off anywhere. Databases of a release that recorded no versions are among the
initial ones. The count of a row is refreshed only where the scan found versions
since the checkpoint; `uncounted` follows the rows that were inserted since, which is
where the code leaves a count of one: an advisory that lost its row to another one
with its tracking id, or a stub, inserted again without a change of its own.

### Databases

A pool is registered by name; connections know the file the path led to when they
were made. Opening happens under the registry's lock, creates and migrates; asking
for an existing database looks at the path first. Deletion unlinks the file and
leaves the pool.

### ProviderJobs

State: `task` has one entry per job task: the scheduler's for this provider and one
per request of the API that may be served at the same time. `lock` is the
pipeline lock, `job` the entry in `AppState.jobs`, `saved` is `sync.json` (is there a
token, has a sync ever succeeded), which may also be absent or `Torn`. `source` is
the entry in `AppState.sources`; the sources directory itself is an input, so that
`Reload` and `Restart` may find anything. `loop`, `known` and `wake` are the
scheduler's loop, what its last round knew, and the permit of `sources_changed`.

Every load and save of `sync.json` is a step of its own, and a save is two: the file
is emptied (`Truncate`), then written (`Write`). The handler of a full sync
(`ClearLoad` and so on) and the steps of a deletion run without the lock, as in the
code; the summary refresh after start-up waits for the lock while jobs only try
it. `Restart` drops all memory at any step and may leave a torn file.

Abstractions: one provider (others appear as a longer wait for the semaphore and as
notifications); the counts in `sync.json` and what a deletion removes besides the
state are left out; a torn file that two writers produce is one of the outcomes of
`Write`.

### ConfigSync

The repository that is published, the clone, the copy in the sources directory, the
sources in memory, and three who bring one to the next without a lock: start-up, the
poll of the scheduler and the webhook. Copying is listing, removing and writing file
by file. Three things the model shows of the code without a property of their own: a
clone that a restart cuts off is never completed (`CutOff`); withdrawing the last
source has no effect; sources of the server's own configuration file (README.md:51)
are dropped by the first reload, and when the directory cannot be read at start-up
they are all there is.

### ProviderPages

The list of providers (sources, states and summaries read one after the other) and
`distributions.json`, computed by a job or by the first request that finds none. Rows
and members are one number, the version written last. A request that found no file
may write an older health over that of a job (`late`, excluded from the property, see
the hazards), and a file may be written again after a deletion.

### Hooks, SummaryCaches, OverviewCache, JobProgress

`Hooks` is a channel of bounded capacity with one receiver that may lag; the hook
subscribes before a job can end. `SummaryCaches` has the files, the index with its
load in progress, searches that read one provider after the other and put the result
into the cache, and the hook that reloads a summary and drops all searches. `files`
may be torn (`write_json` truncates, then writes), and a load may fail. Ghosts name
the two gaps of the code: `beside`, a deletion beside a job or refresh, after which the
index may differ from the disk until the hook reloads; and `misled`, a search begun
while the index was wrong. A search an invalidation ran into is cached after it and
lives until its time is up.

`OverviewCache` is a snapshot measured under a mutex and filed under the generation
read before. A deletion does not invalidate it. `JobProgress` has the entry of a
job, the phases entered by the pipeline and by spawned tasks, a notification after
each write, and a page that follows; deletion removes the entry without one.
Counters, rates and estimates are left out.

### Trends

Entries by day and count, appended by each job's report; baselines picked once a
day; days pass, jobs fail, files tear, the provider is deleted. The file keeps a number
of *entries* (365, `Window` here) and several jobs may run a day, so that a trend may
have nothing left to compare with; the property says exactly when. A torn file is
never repaired.

### RateLimit

governor is external: a budget that is paid back with time. What is modelled is who
waits, wakes, tries again, times out, leaves and is cleaned up. Exempt requests change
nothing and are left out.

### DocumentPage, DiffView, Pagination

A page is its URL, the resources loaded for it, and answers on their way; leptos is
modelled loosely (an answer that is superseded may be dropped or applied), one
resource per behaviour. `DiffView` numbers lines and collapses what is far from a
change (`CONTEXT_LINES` is a constant); `Pagination` is the window of page numbers.
Overflow of typed offsets is left out.

## Runs

| run | question | bounds |
|---|---|---|
| `history` | Does a published checkpoint ever miss an addition, change, revert or removal? Are versions those of git? And the parts beside a pass: inputs, trends, provider pages, rate limit, dashboard | 2 advisories, 3 commits, 2 key sets, 2 policies, removals by others, upgraded databases; parts: see below |
| `outcome` | Are the failures shown those of the last job, and the summary that of the rows? Do results catch up? | 2 advisories, 1 content, 2 commits, 2 policies, failures |
| `reverted_policy` | *violation*: the fingerprint's promise when a policy is changed back | 1 commit, 2 policies |
| `retrieval` | Is an advisory ever forgotten? Does the mirror become current? | 2 advisories, a feed with both, a directory with one, 2 times, 2 versions |
| `retrieval_skipped` | *violation*: a skipped distribution | as above, one advisory only in the directory, 3 times |
| `retrieval_interrupted` | *violation*: an interrupted full pass | as above |
| `provider_jobs` | Is the status true, and does it end? Is the provider synced for ever? Is there one database? Do the sources converge? | the scheduler's task, one request, one deletion, one refresh; 2 sources, 2 disturbances; 2 users, 2 files, 2 rows |
| `full_sync` | *violation*: a promised full sync is forgotten | as `provider_jobs`, from a provider that has been synced |
| `snapshots` | Does a sync publish atomically, whatever intervenes? Are the scans of the result exact? | 4 paths, 2 contents, 2 branches, 3 new commits on histories of up to 5, 2 interventions |
| `documents` | One coherent row per document? Coherent pages? One classification? Do row, count, list and content agree? | 2 URLs, 2 ids, 3 kinds of file, 3 events, an index of one URL; `VersionHistory`: 3 commits |
| `serving` | Are caches, hooks and progress true to the jobs? Is what is stale dropped? | 2 providers, 2 jobs, channel of 1, 1 deletion or refresh, 1 reader; 1 change of day; 2 runs |
| `databases` | *violation*: a pool without a file | 2 users, 2 files, 2 rows |

The bounds suffice for the cases at stake. Two advisories let one be finished and the
other not when a pass dies; three commits hold a change, its revert and a commit
that landed in between (or a removed repository and its successor); one change of
each of policy and keys is enough for rows under two fingerprints, and changing back
is what `Reverts` adds. In `Retrieval` only "before the token or not" matters of
times. In `ProviderJobs` two tasks are what it takes for one to be skipped or to write
between another's load and save. In `SnapshotCommit` two interventions can move a
branch away and back. With two URLs and two ids every collision of two documents
occurs. A channel of one event lags at the second. Parts of `history`: pages of one
path and a queue of one are always at their limit; with `Window` 2, three reports push
an entry out; two requests of one network compete for a budget of two; four entries
of browser history allow back and forth; a context of one line in seven has
sections at both ends and in the middle; 22 records in pages of two put dots on
both sides of the window. Where proofs exist they remove the bounds.

Symmetry is used in the safety runs of `Processing` only, where advisories and
contents are interchangeable. Deadlock is checked in all runs but `serving`: there all
events are bounded (`MaxJobs`, `MaxMoves`, `MaxDays`, `MaxRuns`), and after the last one,
with the caches filled, nothing is left to do.

`history` combines `Removals` and `Upgrade`. `versions_missing` asks for a backfill when
there are documents and no versions; if a commit leaves no advisory before a pass
of the upgraded program looks, there are no documents, and the older versions are
never recorded. `VersionsMatchHistory` says exactly this: the versions are those after
some commit, which is the first one unless a later commit was empty of advisories
(`Unrecoverable`).

Each property of a passing run has a mutant in its module (`...Never`,
`...Without...`, `Net...`, `...Anew`): a plausible slip in one definition under which
TLC finds the property violated.

### Fairness

`FairSpec` of `Processing` and `Retrieval`: a started job goes on (`WF` of its steps; tokio
runs it and no step waits for another actor), and syncs are started again and again
(`SF`, because a revalidation may hold the lock when the scheduler comes by; the
scheduler comes by for ever). Nothing is assumed of the environment: the liveness
properties say what holds *if* interruptions (or failing downloads) end. Their
premise speaks of steps that are not also regular steps: a pass that publishes
what is there already ends just like an interrupted one.

`MCProviders`: every task, the loop, a deletion and the refresh go on (tokio runs
them; HTTP requests time out; the refresh's turn comes because a tokio mutex hands
over to waiters); the scheduler polls the configuration repository, and a config
sync that has begun goes on. Requests, reloads and restarts have no fairness.
`SyncedForEver` asks for an enabled source and an end of restarts, and that requested
revalidations stop: a job that finds the lock taken is skipped, so that an endless
row of them could shut the scheduler out. In `SourcesConverge` the disturbances
(pushes, failures, restarts, webhooks) are bounded by `MaxEvents`; the bound says
"they stop".

`MCServing`: the hook's task receives and handles, and a load of the index goes on.
Nothing is assumed of jobs, requests or timers: `StaleDropped` holds by the hook alone.

## Findings

1. **Fingerprint that goes back** (`reverted_policy`,
   `storage/git_processing.rs:130`). A full pass under a new policy stores some
   results and dies; the old checkpoint stays. If the policy goes back, the next
   pass finds checkpoint and fingerprint unchanged, selects nothing, and publishes
   rows of the other policy. For changed *bytes* the history scan handles exactly
   this case; for fingerprints nothing records that a pass was begun.
   `PublishedUnderFingerprint` holds when fingerprints do not come back (`history`; proved).
2. **Skipped distribution** (`retrieval_skipped`, `pipeline/sync.rs:265`). The token
   advances past a distribution that could not be read; what it listed before is
   not asked for again until it changes or somebody triggers a full sync.
3. **Failures lost with an interrupted full pass** (`retrieval_interrupted`,
   `scheduler/runner.rs:432`). Failures live in rows that a full pass deletes or
   clears first and restores later.
4. **Forgotten full sync** (`full_sync`, `api/sync.rs:269`). The handler clears the token
   without the provider's lock. A job under way sets it again when it ends (or
   writes back the one it has loaded), the request's own run is skipped, and the
   full sync that was accepted never happens.
5. **Pool of a deleted database** (`databases`, `storage/db.rs:57`). The registry returns
   a registered pool without looking at the path. After a deletion the provider's
   new jobs write to the unlinked file, or to a new one without tables, until the
   server restarts. `OneDatabase` holds as long as the provider is not deleted.

More things the models show without a run of their own: a crash between emptying and
writing `sync.json` leaves a file on which every later sync fails (`Torn`), and a torn
metrics file stops reports; enabling a disabled source, unlike adding one, does not
wake the scheduler (`Reload`); `version_count` falls back to one where `uncounted` says;
a search begun before an invalidation is cached after it; the three of `ConfigSync`
above. The hazards name the line of each.

## Proofs

Every theorem holds for all values of the constants allowed by the assumptions
named, which TLC evaluates for the values of the runs. Eight modules hold them.

`ProcessingProofs` (from `ProcessingAssumption` and `NoneAssumption`):

- `TypeCorrect`: `TypeOK`. Besides types it says what the job relies on after the
  selection: its commit is in the present history and a non-baseline pass has a
  reachable checkpoint.
- `Invariance`, `NeverForgotten`, `CompleteWhenPublished`: `NothingForgotten` says
  that a row differs from the checkpointed commit only if history was touched
  since. It is not inductive: in the middle of a pass rows are newer than the
  checkpoint. `IInv` adds `Untouched` (what is untouched since a commit still has
  that commit's content), `CheckpointOK` (a reachable checkpoint is not ahead of
  HEAD) and `PassOK` (during a pass every advisory has the result of the selected
  commit, or is still to be deleted or validated). `CompleteWhenPublished` is
  `PassOK` at the last step, when nothing is left to do.
- `SummaryNeverStale`: `SummaryFresh`, with an invariant that also covers passes
  under way: rows newer than the summary imply a dirty checkpoint, an unreachable
  one, or a pass that will rebuild the summary.

- `PublishedFingerprintTrue`: `PublishedUnderFingerprint` if `~Reverts`. `UnderOK` follows
  the passes that died: their results lie between the checkpoint's fingerprint and
  the one a pass would have now (`Band`), in both the policy and the keys, since
  neither goes back (`KeysGrow`). A pass that is not full has the checkpoint's
  fingerprint, so that everything in between equals it; a full one stores every
  result anew (`PassUnder`).
- `VersionsAlwaysMatch`: `VersionsMatchHistory`. `VersionsOK` says that every recorded
  version is a change of the present repository, or of one whose checkpoint is no
  longer reachable, and that from some commit on none is missing up to the
  checkpoint and, once a pass has recorded, up to its commit.
- `OutcomeAlwaysShown`: `RetrievalOutcomeShown`, with `OutcomeOK`, which says of every
  step of a pass what the end promises: an advisory that shows a failure though it
  was downloaded again is still to be validated, and once the failures are saved
  each of them is shown.

`RetrievalProofs` (from `RetrievalAssumption` and `NoneAssumption`):

- `TypeCorrect`: unconditional, with `PendingPublished` (what a run still has to
  download was published).
- `Invariance`, for runs in which full passes are not interrupted (finding 3 is why):
  it follows a *stale* advisory. Between jobs the token or a recorded failure covers
  it (`CoverageOK`), therefore a run selects it (`SelectionOK`); the walk has it
  open, pending or done (`WalkOK`), where done means downloaded in the current
  version, failed, or released after the start of the run; committed but
  unprocessed advisories were fetched after the token (`TouchedOK`), so that
  clearing their failure forgets nothing; full passes carry the failures in the job
  (`Remembered`).
- `ClearCovered` is `ClearNeverMissed` for every set of advisories and
  distributions; `AllCovered` is `NothingMissed` if nothing is skipped.

`ProviderJobsProofs` (from `HoldersAssumption` and `FilesAssumption`, any number of
concurrent requests):

- `Invariance`: types (`TypeCorrect`); the lock is held by exactly the task at a step
  that needs it (`LockOK`); a round does not begin while the last one's task is under
  way (`RoundOK`); what is written was loaded (`CopyOK`); and `StatusTrue`. Two
  lemmas, `Unlocked` and `Holding`, say once what a step outside or inside the lock
  keeps. `StatusAlwaysTrue` and `AtMostOneJob` follow.
- `NothingEverSleptOn`: `NothingSleptOn` speaks of a sleeping loop; inductive is
  `SourceNoticed`, the same for every state after a round began.

`SnapshotCommitProofs` (from `RepositoryAssumption`, `PathsAssumption`,
`HistoriesAssumption`, and for the scans `CacheAssumption` and `TreesAssumption`; any
paths, branches and interventions):

- `Invariance` and `TypeCorrect`; `AlwaysReadable`, `UndisturbedNeverRefused` and
  `PacksBounded` follow. What makes them inductive: every blob an index names is on
  disk, in the batch or still to come; what a tip reaches is among what git gc may
  not remove; the tip a sync started from is the branch's until somebody moves it.
- `Implements`: `Spec => Atomic`, the refinement of `Repository`. Initial states map
  to initial states; each action maps to one of `Repository` or a stutter, the
  step on the reference to `Publish` because the check and the step are one with
  regard to the branch.
- `HistoryAlwaysFound`: `HistoryFound`, for any histories, trees of any depth and a cache
  of any size. `TreesAssumption` says that a path is a non-empty sequence of names, that
  a file and a path below it collide, and that histories and pushes begin with trees
  in which no file is a directory too, as git's are. The invariant is `Sound`: parents
  are older than their commits and every tree is of that kind, which staging keeps
  because it removes what collides. The argument has four steps. The recursion over
  directories has one solution, the comparison of all files (`CompareFinds`): equal
  objects differ nowhere below, and a level without files is the union of its
  directories. A cache that holds only right comparisons is asked and filled with right
  ones (`VisitFinds`), so that a scan compares each commit rightly (`DiffsFind`). The
  chain of first parents ends at the checkpoint exactly if all of it is linear
  (`ChainLinear`). What the scans collect from that is what the properties say
  (`ScanFinds`, `VersionsFind`). The recursive functions are reasoned about by two lemmas
  proved without the library's induction theorems: course-of-values induction over a set
  (`UpTo`), and the existence of a function defined by recursion (`Recursion`).

`DocumentStoreProofs` (from `StoreAssumption`):

- `Invariance`, `TypeCorrect`, and from it `RowsUnique`, `TablesAgree`,
  `PagesCoherent`, `VerdictsTrue`, `DiffsCompareNeighbours`. The tables agree because
  ids are never used twice (everything below `nextId`), and children are written
  with their row; during the deletion of all results they are empty in turn. A
  page is coherent because the row id it holds is either still the row it read or
  no row's any more. A diff compares neighbours because versions are only added at
  the end, unless they were recorded anew.

- `FiltersAlwaysAgree`: `FiltersAgree`. A row has no verdict only if some stage was not
  evaluated (`OverallOf`), which rests on the outcomes that any code stores at the first
  three stages (`RowsInv`): passing, warning, failing and unevaluated rows add up. The
  summary groups rows by four outcomes; the groups of one outcome are the rows its
  filter selects (`GroupsOf`).
- `VersionsAlwaysTrue`: `VersionsTrue`, from `VersionsAssumption`. The invariant measures
  everything from a *basis*, the checkpoint or what it was when the pass began. A row
  is of the newest commit, or its advisory was rewritten since the basis and so is
  going to be looked at (`TipInv`); the versions of an address are changes in their
  order, without gaps from the basis on (`RecordedInv`): below it a gap may stay for
  ever; a count is the number of versions unless the pass has yet to refresh it
  (`CountInv`).

`ServingProofs`:

- `CachesTypeCorrect` and `IndexCorrect` (from `TornAssumption`, `HooksAssumption`) with an
  invariant of three parts: what the file says (`FileInv`), what the index says
  (`IndexInv`), and what a load under way has read (`ReadInv`): it is what the file says
  or is going to be corrected by the update that has yet to come.
- `SearchAlwaysFresh`: a result differs from what the databases hold only while an
  event waits in the channel or in the hook, a job is under way, or a deletion has yet
  to drop the results (`ResultInv`); a deletion beside a job is remembered, and a
  refresh has its file or lost it to such a deletion (`WorldInv`).
- `OverviewTypeCorrect` and `OverviewServedFresh` (from `OverviewAssumption`). A snapshot
  is filed under the generation read before measuring, so that it is at least as
  new; the mutex plays no part in it.
- `PhasesAlwaysTrue` and `PageAlwaysCurrent` (from `ProgressAssumption` and
  `NothingAssumption`, any number of jobs). Phases come in order though they reach the
  entry on two ways, from the task and over the bridge of blocking work: what waits in
  the bridge is in order itself and between the entry and the job (`BridgeInv`,
  `ChainInv`); the one exception is the task of a distribution that has moved the entry
  from `discover` to `sync` before the job did.
- `ServingAlwaysTrue`: all of these of the composition, where each view's actions
  leave the variables of the others alone.

`PassesProofs`:

- `InputsAlwaysExact` (from `PathsAssumption`): while files are extracted the directory
  holds the files of the pages so far but for those left, as they are in the
  commit, and nothing else (`ExtractInv`); every advisory is in one place, not sent yet,
  in the queue or visited (`OnceInv`). That pages leave nothing out is the lemma
  `NextCursor`.
- `TrendsAlwaysTrue` (from `TrendsAssumption` and `SeriesAssumption`): the file keeps the
  latest of the entries ever written (`MetricsInv`), so that a baseline read from it is
  the latest entry that is old enough, or the file has no longer any (`BaselinesInv`),
  also if a report was written since the baselines were measured.
- `PagesAlwaysTrue` (from `PagesAssumption`): what a job has computed of the health is of
  what there still is (`HealthInv`), and a request's promise is kept by what it has read
  so far (`RequestInv`).
- `BudgetAlwaysKept` (from `RateLimitAssumption`; any burst, interval and times): the
  invariant does without division. The last *c* requests let through are paid for by
  what is used of the budget and the time since (`Paid`); any others in between were
  (`Spaced`); and who was not overtaken fits when its next try comes (`InTime`).
- `ShownAlwaysTrue` (from `PageAssumption`): what is held is the answer to the last
  request (`AnswerInv`), and what the document was last asked for is still held and of
  this document (`AskedInv`). `WindowAlwaysTrue` (from `PaginationAssumption`): the window
  holds what it should at each of its places (`WindowParts`), for every page and every
  number of pages, also a page beyond the last.
- `DiffAlwaysTrue` (from `DiffAssumption`): inductive is only that the sections which are
  expanded exist (`DiffInv`); that this implies `DiffTrue` is what three loops over the
  lines compute. Each is a recursive function, which exists (`Looping`) and of which a
  statement is proved pass by pass (`UpTo`): after *n* lines the counters of
  `assign_line_numbers` are the numbers of lines of each version up to *n*
  (`LinesNumbered`); the sections cut the first *n* lines at ascending places and are
  as visible as each of their lines (`IsCut`, kept by `CutOnce`); what is read of the
  first *s* sections is the lines of the open ones, each at the place its rank gives it
  (`InOrder`, kept by `OneBlock`). A line near a change is in a visible section
  (`SectionsCover`), and a collapsed one has a number below `Collapsed` (`CollapsedTypes`),
  so that expanding all of those leaves nothing hidden.
- `PassesAlwaysTrue`: all of these, with `TypeCorrect`, `NeverForgotten` and
  `VersionsAlwaysMatch` of `ProcessingProofs`, of the composition: its behaviours are
  behaviours of each part (`PassesFollow`). `DashboardAlwaysTrue` is what it says of the
  dashboard.

`DatabasesProofs` (from `DatabasesAssumption`, any number of users, files and rows):
`DatabasesInvariance` and `DatabaseShared`. While somebody holds the registry's lock
nothing else is registered; what the holder opens is the file at the path; every
connection of the registered pool leads to it (`PoolOK`) until a deletion.

Every invariant, every action property and the refinement that a passing run checks
are proved. Only model-checked are the liveness properties `CatchesUp`,
`EventuallyMirrored`, `RunningEnds`, `SyncedForEver`, `SourcesConverge` and `StaleDropped`:
liveness under fairness is out of the prover's reach.

## Plan

What is left, by importance:

1. The aggregator's file: regenerated after jobs and deletions from all databases,
   without a lock; an empty result keeps the old one.
2. Sync runs and counts in `sync.json` as the pages of a provider show them.

## Not modelled

- *MCP server*: read-only tools over the queries modelled here, one call each, no state.
- *Aggregator's file, provider metadata*: derived as a whole from rows written once
  per job.
- *Sync runs, sizes, sparklines, counters, estimates*: numbers that are appended and
  shown.
- *Checks of CSAF contents and cryptography*: libraries; a file's outcome is an input.
- *Other pages of the dashboard*: show answers of the server as they are.
- *Authorization*: a comparison per request, no state.
- *Configuration structures, deployment*: no behaviour.
