# Formal models of xlflow

xlflow is a Go command line tool and language server for Excel VBA projects. It
keeps VBA source files beside a workbook, checks them, and drives Excel through
a separate C# bridge. This directory holds TLA+ models of the parts of xlflow in
which several processes, goroutines or failures meet, the TLC configurations
that check them, and TLAPS proofs of the safety properties of all nine modelled
components.
Everything is translated from the Go source; `PROJECT.json` gives for every
definition the lines it stands for, and lists runs, mutants, hazards, findings
and theorems.

    tlc -config WorkbookLock.cfg WorkbookLock.tla     # one run
    tlapm WorkbookLockProofs.tla                      # one proof module

## 1. The system and its parts

| Part | State | Operations | Hard behaviour | Model |
| --- | --- | --- | --- | --- |
| Resource lock (`internal/coordination/lock*.go`) | two byte-range locks of a lock file, one owner file | Acquire, acquireShared, Probe, Observe, Release | interleaved processes, crash, timeout of a release, failed metadata write | `WorkbookLock`, abstractly `ResourceLease` |
| Command start (`internal/cli/coordination.go`) | leases of the workbooks of a command, wait budget | acquire all in order, wait, check the marker per lease, release in reverse | waiting while holding, deadline after success | `CommandLease` |
| Recovery markers (`coordination/recovery.go`, `cli/recovery.go`, `excel/recovery.go`) | one marker file per workbook, with a random generation | publish, inspect, clear, clear --force, discard, process cleanup | stale examination, lockless listing, partial cleanup | `CommandLease` |
| Excel bridge runner (`internal/excel/bridge.go`) | the operation in flight in Excel | run, classify the outcome, publish a marker | timeouts, provider death, kill of xlflow | `CommandLease` (its protocol only) |
| Source edit batch (`internal/sourceedit/batch.go`) | source files, backups, staged replacements, the result | verify, stage, publish, roll back, clean up | partial failure, external editors, cancellation | `SourceEditBatch` |
| File push and file pull (`internal/filepush`, `internal/filepull`, `coordination/publish.go`) | source tree, saved workbook, push state file, originals in memory | capture, decide, replace, record; plan, publish, remove, restore | captures that take time, programs without leases, rollback | `FileTransfer`, `FilePush`, `FilePull`, `FilePushPull` |
| Analysis permits (`lspserver/analysis_scheduler.go`) | permits and waiters by class, a broadcast channel | acquire, cancel, release | lost wake-ups, priorities, one overcommit | `AnalysisScheduler` |
| Document diagnostics (`lspserver/server.go`) | generation, timers, worker, pending refreshes of a document | open, change, close, refresh, run, publish | old results after new ones, close and reopen, refreshes that race with edits | `DocumentAnalysis` |
| Workspace index (`lspserver/workspace_analysis_index.go`, `workspace_declaration_index.go`) | disk entry, overlay, generation, incompleteness of each path, in two layers | reserve, publish, abandon, clear, update, remove, initial build | disk parses that end late, two mutexes, cancellation | `WorkspaceIndex` |
| Semantic query store (`analyze/semanticquery`) | entries, epochs, edges, builds in flight | Evaluate, Invalidate, RecordDependencies | invalidation during a build, shared builds, eviction | `SemanticQueryStore` |
| Effect summaries (`vba/effects`, `server.go:608`) | last summary, content cache, builder | build, build incrementally, reuse, share, cancel | what may be reused after an edit, canceled builders | `EffectSummary`, `ProjectEffects` |
| Backups (`internal/backup`), single-file snapshot (`sourceedit/snapshot.go`) | backup directories; one file | create, restore, prune; apply | interruption between copy and metadata | planned |
| VS Code extension, C# bridge | drafts; COM objects and workers | own programs | | external to the models |
| Lint and analysis rules, VBA front end, file formats, formatting, output | none shared | pure functions of text and bytes | size, not interaction | not modelled |

How they interact. A command resolves its workbooks to lock IDs, acquires the
operation byte of each (resource lock), refuses to start where a recovery marker
stands, and runs. Whatever it asks of Excel runs under a borrowed lease; if the
outcome is indeterminate, the bridge runner publishes a marker before the lease
goes. `recovery clear`, `session stop --discard` and `process cleanup` are the
ways to remove a marker, under the same lease. `file push` and `file pull` work
without Excel: they take the lease of the source roots, a push later that of the
workbook too. `xlflow fix` (`internal/cli/fix.go`) reaches the disk through the
source edit batch, which shares the source files with every editor on the machine.

The language server is one process with many goroutines; it takes no workbook
leases. Notifications arrive on one read loop. Each open document has a
diagnostic state whose worker asks the analysis permits for capacity, publishes
diagnostics, and fills the overlay it reserved in the workspace index. The index
answers for the files on disk as well, and refreshes them after closes and
watcher events. Analyses of a project ask for its effect summary, and keep the
results of their semantic queries in the query store.

What makes each part correct:

* resource lock: one exclusive lease or several shared ones; the owner record
  never pairs a holder with the record of another; neither byte is ever lost;
* command start: no command runs without all of its leases; no ring of waiters;
  the marker checks still hold when the body begins;
* recovery: work that may still be going on in Excel is under a lease or behind a
  marker, and a marker goes only if it is the one that was examined;
* batch: what the report says is what happened, no external edit goes under
  except in the last window between check and rename, recovery material offered
  is usable, nothing is left behind unlisted;
* push and pull: a push delivers one settled state of the tree and destroys no
  other command's work; a skip is justified; a pull delivers a workbook or
  restores the tree;
* permits: bounded, with room for interactive work, by priority, and nobody
  sleeps while a permit is there to be had;
* diagnostics: one worker per document, its result is for the newest text, and in
  the end the full result of the last text is shown;
* index: an open text masks the file; an index that says it is complete is;
  nothing half-done stands when all is quiet;
* query store: nobody gets a result of other dependencies than his own, or than
  those recorded for it from outside, or from before an invalidation he could know
  of; builds are shared, never waited for in vain; metadata stays bounded;
* effect summaries: incremental and full computation agree on every procedure.

## 2. Modules

| Module | Code | What it is |
| --- | --- | --- |
| `ResourceLease` | the promise of `internal/coordination` | abstract lease: holder, sharers, record |
| `WorkbookLock`, `WorkbookLockProofs` | `lock.go`, `lock_unix.go`, `lock_windows.go` | byte-level protocol, implements `ResourceLease` |
| `CommandLease`, `MCCommandLease`, `CommandLeaseProofs` | `cli/coordination.go`, `cli/recovery.go`, `coordination/recovery.go`, `excel/coordination.go`, `excel/recovery.go`, parts of `excel/bridge.go` | commands over the leases and markers |
| `SourceEditBatch`, `SourceEditBatchProofs` | `sourceedit/batch.go`, `Snapshot.verifyCurrent` | the batch |
| `FileTransfer` | `coordination/publish.go`, leases and programs around | what push and pull share |
| `FilePush`, `FilePull` | `filepush/*.go`, `filepull/*.go` | one side each |
| `FilePushPull`, `FilePushPullProofs` | | both composed, with the properties |
| `AnalysisScheduler`, `LanguageServerProofs` | `lspserver/analysis_scheduler.go` | permits |
| `DocumentAnalysis`, `LanguageServerProofs` | `lspserver/server.go` | one document's diagnostics and overlay |
| `WorkspaceIndex`, `WorkspaceIndexProofs` | `workspace_analysis_index.go`, `workspace_declaration_index.go` | one path in the two layers of the index |
| `SemanticQueryStore`, `MCSemanticQueryStore`, `SemanticQueryStoreProofs` | `analyze/semanticquery/query.go` | the store |
| `EffectSummary` | `vba/effects/build.go`, `provenance.go`, parts of `errors.go` | the algorithm, and what it promises |
| `ProjectEffects`, `MCProjectEffects`, `ProjectEffectsProofs` | `server.go:608-716`, `dependency_cache.go` | concurrent requests for a summary |

Every component module states its properties at its end. Each also contains
faulty variants: definitions no specification uses, each a plausible bug that
the property named above it must catch. They are listed as mutants in
`PROJECT.json`, and substituted one at a time to show that a property is able to
fail under the run that checks it. `MC...` modules define constants that a
`.cfg` cannot express, and symmetry.

### WorkbookLock

One resource. `opEx`, `opSh` and `guard` are the byte locks of the operating
system, `owner` is the generation in the owner metadata file (a file that is
absent and one that does not parse are both `NoGeneration`), and per process
`pc`, the `Wait` flag, the token it drew and the owner it read. Each try-lock,
unlock, metadata write, read and removal is one action. Steps that are easy to
miss and are here: the transient observation that really takes the byte
(`Observe`, lock.go:164), the answer "busy" from the guard alone (`GuardBusy`,
:182), the abort that gives back guard and byte in this order (:197), the release
that times out on the guard and leaves its metadata (:343), removals and reads
that fail silently. A crash drops the byte locks and nothing else. `Observe` of
the Go API takes the same steps as `Probe`.

Abstractions: an error of the operating system from *unlocking* is not modelled
(it is reported for locks that are not held or files that are closed, which
`ByteOwnership` excludes, and otherwise the system unlocks when the file is
closed). Random 128-bit tokens are fresh by construction. On Unix each byte is a
file of its own locked by `flock`, on Windows a byte range; both are "a try-lock
that fails changes nothing".

### ResourceLease and the refinement

`LeaseRefinement` is `Lease!Spec` with the exclusive lease taken to begin when
the owner is published and to end when the operation byte is let go. Between the
bytes and the promise lies everything the protocol does that is *not* a lease:
the transient observation, the probe's sweep, the acquirer that fails to
publish. All of these map to stutters or to `Sweep`. The abstract record may
change only at the grant, by the holder, or while nobody has a lease, so the
refinement also says that nobody ever cleans up a living holder's metadata.

### CommandLease

Many workbooks, numbered by their lock IDs; a lease is one step here, because
`WorkbookLock` shows that its byte protocol implements that. `marker[w]` is the
recovery file; `excel[w]` is the truth the program cannot see, whether Excel may
still be working for an operation that is over; `excused` is a history variable
naming the workbooks for which no marker was promised: the publication failed
and the user was told (`PublishFails`), the user forced the marker away, or
xlflow was killed with Excel at work. The excuses are given up as soon as Excel
is known to be quiet, so they do not spread.

Six commands: `normal` (every command that a marker blocks; `session stop` without
`--discard` is one), `clear`, `forceClear`, `discard`, `cleanup` (with a PID) and
`cleanupAll`. A first attempt on each workbook never waits; with `--wait` the
budget starts once and is shared by the workbooks that follow; a lease that
arrives after the deadline is given back. `AcquireBusy` may happen although the
lease is free, which is the false busy answer of section 4.

Process cleanup lists the markers without a lock: the names at once
(`CleanupStart`), then file by file what they hold (`CleanupRead`), so the list may
be one that never stood; one file that is gone or unreadable ends the cleanup. It
selects (`CleanupListed`), takes the leases without waiting, reads each marker
again, runs, and clears. A removal may fail, in `Clear` as in `CleanupClear`, and
the marker stays. What the bridge reports as terminated is a subset of what it did terminate. Abstractions:
a valid marker with a PID is taken to name the Excel process that works on the
workbook, so "the recorded process is gone" is `excel[w] = "quiet"`; the
publication guard around a marker write is not repeated here; which flags lead
to which set of workbooks is data. A push or a form write may make two bridge calls
under one borrowed lease and checks the marker before the first only
(bridge.go:1813); the second follows a success, so `BridgeStarts` begins, and the
stay at "bridge" covers, both.

The code checks a marker as soon as it has the lease of that workbook
(coordination.go:380), whereas `docs/specs/workbook-coordination.md` describes
acquiring all leases first. `BodyStartsClean` shows that for the commands that do
start there is no difference: a marker is only ever published under the lease.

### SourceEditBatch

One call of `ApplyBatch` against an environment that edits source files, spoils
or removes temporary files (at most `MeddleLimit` times) and cancels the context.
A path is what `verifyCurrent` would see there: the captured bytes, the
published ones, or something else. Every check, write and rename may fail. `raced`
is a history variable: the paths others changed since the batch last looked at
them, the window that no program without file locks can close.

Abstractions: parsing edits, finding duplicates and inspecting parents happen
before the first step; a check and the removal that follows it in the cleanup are
one step; a rename that fails has no effect on its target (it may on the backup);
the temporary file of the batch is not altered between its close and its capture;
the snapshots' mutexes are held throughout, so one batch at a time per snapshot.
A restored backup that others spoiled in the last window counts as `foreign`.

### FileTransfer, FilePush, FilePull

A file's bytes are the number of the write that made them. A push captures the
sources file by file three times, before the leases, under the source lease, and
just before it replaces the workbook, and gives up if two captures differ; it
skips if the state file covers the sources and the workbook's stamp; it reads the
workbook as template, makes the backup, replaces, reads the stamp and records it.
`CommandBegins` and `CommandEnds` are another command that changes the workbook
under its lease; `Edit` and `Save` are programs that ask nobody. A pull plans from
the saved workbook, keeps the affected originals in memory, publishes each file
on its own (`PublishFile`: whether the target exists is decided before the
temporary file is written, and a create never overwrites), removes files without
a module and, if a step fails, puts the originals back. `tree` and `later` and the
fields called history keep what the properties compare with.

Abstractions: one push and one pull at a time; the leases of all source roots are
one; editors write and create files but do not delete them, so that a file which
is deleted and created again between two looks is excluded; stamps grow; what an
OVBA project contains beside the modules is a counter of other commands' changes.
A pull's rollback is that of contents: it restores the mode of a file too
(publish.go:132) and removes directories it created. The conflict check that keeps a
pull from overwriting a changed asset (publish.go:46) and the sidecar assets of
forms are left out.

### AnalysisScheduler

One action per critical section of the mutex. A waiter is `asleep` on the
current channel or `awake` because that channel was closed; since the channel is
read and replaced under the mutex, no more is needed. `Cancel` ends the context
at any time, and `GiveUp` is what the caller then does on entry, at the head of
the loop, or in the `select`. A caller that is awake *and* canceled takes the
cancellation, as the code looks at the context first. `totalLimit` is a variable
that `Init` picks from `TotalLimits`, so that one run covers hosts of several
sizes; no action changes it.

### DocumentAnalysis

One document. `handler` is the read loop between two notifications, `d` the
`diagnosticState`, `worker` the analysis goroutine between two critical sections,
`fired` and `launches` the callbacks under way, `index` the overlay reserved in
the workspace index, `captured` the refreshes that have taken a snapshot and have
yet to schedule it, `shown` what the client was told last. Waiting for a permit
is one step (`AwaitPermit`), which `AnalysisScheduler` justifies. Timers fire whenever they like;
a timer that has fired cannot be stopped. `stray` is a history variable for the
divergence of section 4: it excuses the case in which a refresh has put an old
snapshot back, and nothing else.

Abstractions: the text is its number; what diagnostics say is left out; the
analysis of other documents is present in the refreshes it asks for. A timer leaves
its field when it fires, where the code leaves it there until the callback runs
(server.go:2276): the field serves only to stop a timer, which has no effect on one
that has fired.

### WorkspaceIndex

One source path in the semantic layer and in the declaration layer, which have a
mutex each; five kinds of actors write it: the read loop (didOpen, didChange,
didClose, `updatePath`), the worker of the open document, the refresh after each
didClose (several may be under way), the initial build, and, from outside, the
program that changes the file. Canceled parses end early or run on to their end. `CompleteIsCurrent` and
`SettledIsHonest` state what an answer that claims completeness and an index at
rest must satisfy.

Abstractions: the path stays a configured source (excluded paths and sidecar
forms are left out); queue priorities and the shutdown are left out; whether a parse
for declarations had to recover (`declarationIncomplete`, server.go:3113) is left
open, for the open text and for the saved file alike; the declaration layer's content after a reopen may be that of the saved file
(finding 2 and its neighbours), which is why `OpenMasksDisk` asks of that layer
only that it does not show an *older text*.

### SemanticQueryStore

`store` has the maps of the Go `Store`; the reverse map is the inverse of `deps`.
Callers evaluate a key with the dependencies of their revision, wait for a build
in flight or build, and publish unless an invalidation has moved the epoch on. A
build may fail or panic. `Invalidate` takes a set of keys and follows the reverse
edges; `RecordDependencies` replaces the edges of a key from outside, and may do so
while the key has a value, which stays green: the next caller with those
dependencies gets it. `recorded`, a history variable, says for which dependencies a
result was so declared, and `AnswersAreRight` asks that a result be for the caller's
own dependencies or for such ones. A build that published reads the epoch again
after pruning, which may have dropped it with all else known of its key, and then
tries again (`Retry`). The instance of section 3 does not get there, an instance
with a few more evaluations does, and the proofs cover it. Eviction is by order of
entry; `Compact` lists the queued keys in the order of their first places without
going through the queue, and `Affected` is a least closed set, so that both can be
reasoned about. `ordered`, `floor` and `birth` are history: the last invalidation that
reached a key, the last one a caller could know of, and the one after which a
result was begun.

Abstractions: two outputs stand for `DeepEqual`; revisions of entries are not kept,
since eviction and validation do not look at them.

### EffectSummary and ProjectEffects

`EffectSummary` has no variables. A procedure is its position in the order of the
keys, one per file; its statements are abstracted to the facts they establish, the
calls, where the calls stand, and whether its declaration is sure (`Body`): a call of
a procedure whose declaration is conditional or was recovered is resolved as
incomplete, which makes the caller uncertain and passes effects on (`Callees`), but
does not count for wrappers and handlers (`Matched`). `Build` and `BuildIncremental` return a
build under way, the summary and the worklist, and `Propagate` is one turn of the
worklist; the red set and the rethrowing wrappers are least fixed points, written
as such (`Least`), and `Sorted` is the one list of a set of keys in their order. The promise is stated without a worklist: `ReachableFacts` is the union
of the direct facts along the call graph, `WitnessesLead` says that following
witnesses ends at a procedure that raises.

`ProjectEffects` is the function every request calls: the content cache with its
first-in-first-out bound, the state with the last summary, the one builder, those
who wait for its channel, cancellation wherever the context is asked. Since keys
are hashes of contents, a key *is* the content here. Finding the changed files is
part of `Begin`.

Abstractions: logger wrappers and terminal wrappers enter the contract fingerprint
like rethrowing wrappers, and are represented by them; replay of evidence chains,
path spelling and counters are left out; each request asks once. A panic inside
`BuildIncremental` (server.go:688) is not modelled: no deferred call takes the mark
back or closes the channel, so a server that outlived it would not build again.

## 3. Runs

| Run | Module and configuration | Bounds | Distinct states | What it shows |
| --- | --- | --- | --- | --- |
| `lock` | `WorkbookLock`, `WorkbookLock.cfg` | 3 processes, 2 tokens | 94 thousand | owner record, refinement of `ResourceLease`, calls end |
| `command_leases` | `MCCommandLease`, `CommandLease.cfg` | 2 processes, 2 workbooks, 2 marker generations, normal and cleanup commands | 1.5 million | all leases held and no ring of waiters; checks still hold; only examined markers go |
| `command_recovery` | `MCCommandLease`, `CommandRecovery.cfg` | 3 processes, 1 workbook, every command | 2.3 million | quarantine; Excel is quiet where an operation starts |
| `batch` | `SourceEditBatch`, `SourceEditBatch.cfg` | 3 files, 2 interventions | 1 million | report, recovery material, leftovers, external edits |
| `file_transfer` | `FilePushPull`, `FilePushPull.cfg` | 2 files, 2 pushes, 1 pull, 1 edit, 1 save, 1 command | 1.3 million | settled tree, justified skip, commands survive, pull delivers or restores |
| `sched` | `AnalysisScheduler`, `AnalysisScheduler.cfg` | 3 callers, 1 and 2 permits | 22 thousand | wake-ups, bounds, priority; a waiter is served |
| `documents` | `DocumentAnalysis`, `DocumentAnalysis.cfg` | 2 snapshots, 1 refresh | 630 thousand | one worker, newest result; at rest nothing is owed; the full result of the last text is shown |
| `documents_newest` | `DocumentAnalysis`, `DocumentAnalysisNewest.cfg` | as above | violation | finding 1 |
| `workspace_index` | `WorkspaceIndex`, `WorkspaceIndex.cfg` | 2 contents, 2 refreshes at once, 2 texts, 1 change of the file | 3.9 million | masking, completeness, rest |
| `workspace_index_saved` | `WorkspaceIndex`, `WorkspaceIndexSaved.cfg` | see the file | violation | finding 2 |
| `query_store` | `MCSemanticQueryStore`, `SemanticQueryStore.cfg` | 2 callers, 4 keys, limits 1 and 2, 3 evaluations, 2 invalidations, 1 record | 2.5 million | answers, bounded metadata, shared builds |
| `project_effects` | `MCProjectEffects`, `ProjectEffects.cfg` | 3 requests, 16 projects of 3 procedures, cache of 1, 1 edit | 540 thousand | summaries are right; requests end |

Why the bounds are enough. Three processes let a holder, an acquirer in its
transient observation and a reader meet, which is what all hazards of the lock
need; two tokens, as a token is fresh if nobody has it, keep a stale record apart
from a new one. Two workbooks make a ring of waiters possible. Two marker
generations let an examined marker be replaced by another. One workbook is enough
for quarantine under all six commands, as a marker and Excel's state concern one
workbook at a time; the cleanup of several has the other run. Three files let the
third fail with two to roll back, and two interventions hit a source and a
backup. Two files are enough for a capture that is torn, and for a pull that stops
between them; the second push is the one that may skip. Three callers put one of
each class against one another. Two snapshots give open and change, or close and
reopen, which is the race every generation check is for; one refresh may carry a
snapshot across it. Two refreshes let that of an earlier close outlive a second
close. The keys of the query store form the smallest chain that has an inner node
(an input of two versions, a query, a projection), and an entry limit of one
evicts at every publication. The sixteen projects contain leaves that raise and leaves that
do not, call chains, a diamond, a cycle, wrappers of wrappers, a handler, and calls
of a deleted procedure and of one whose declaration is not sure; three requests let one build on what another left, and a third wait.
The proofs below hold without the bounds.

The limits called `bound` in the constants sections stand in guards of the
environment (editors, programs, calls) and are named; the rest are sizes of sets.
`CHECK_DEADLOCK FALSE` stands where the modelled activity may really end: the batch
and the requests are calls that return, the editor may fall silent, and pushes,
pulls, queries and changes of files need not go on. Symmetry (of processes, of
tokens, of callers) is used in `command_leases`, `command_recovery` and
`query_store`, which check no liveness.

### Fairness

* `WorkbookLock`: weak fairness on what a live process does inside a call it has
  begun (`Progress`). Commands need not start, release, or be spared: starting,
  giving up, timing out and crashing have none. Weak fairness is what the Go
  scheduler and polling every 25 ms give: a step is taken if it *stays* possible,
  and a waiting caller may miss the byte each time it looks. Hence `CallsEnd`
  promises a waiter the lease only once the others have gone quiet, by return or
  by crash; a call that does not wait always ends.
* `AnalysisScheduler`: weak fairness on the next step of each caller that can go
  on, and on `Release`: analysis work ends, since it is bounded and cancelable.
  `Served` is again conditional: a waiter is served or gives up once its own class
  and those before it make no new requests, whatever the classes behind it do. The
  code does not promise more; interactive requests may starve background work.
* `DocumentAnalysis`: weak fairness on `System`, all that goes on inside the
  server: handlers and callbacks run to their end, timers fire, analyses end. It
  is one condition for all of them, weaker than one for each, and enough: between
  two notifications the server has only finitely many steps to take. Editor, other
  documents, failure of the project index and shutdown have none. `FullIsShown`
  says that every text is followed by its full result, by another text or by the
  end of the document.
* `ProjectEffects`: weak fairness of each request, that its goroutine goes on, and
  of its build, that the worklist is worked off. Cancellation has none, and the
  editor need not stop: edits change no request that has begun.

`CommandLease`, `SourceEditBatch`, `FilePushPull`, `WorkspaceIndex` and
`SemanticQueryStore` are checked for safety only. In the store, "nobody waits in
vain" is the state property `BuildsAreShared`.

## 4. Findings

Two runs find what a document or comment excludes:

1. `OnlyNewestPublishes` (`server.go:1195`). A refresh of dependent documents
   captures the open documents and schedules them later, without the lifecycle
   lock. If the document changes or closes in between, the refresh puts the old
   snapshot back, reopens the state, and publishes diagnostics for it. The
   contract (`cli-contract.md:172`) has only the newest open document published.
2. `SavedIsShown` (`workspace_analysis_index.go:1502`). The declaration entry is
   removed after the mutex of the index was given up; a watcher notification in
   between loses its refresh, and a closed, faultless file is in neither layer
   until it is next touched. A comment (:1134) says that notifications are safe in
   any order.

Others were met while modelling, and are part of what the models do or leave out,
without a run of their own:

* `lock.go:274-275` says that metadata of a crashed process is not reported. It
  is, if a third process is in its transient observation of the free byte when
  the reader confirms that the byte is taken. Diagnostic only.
* `workbook_busy` is documented as "another process owns the operation byte
  range"; a command without `--wait` also gets it when a probe or another acquirer
  merely has the publication guard.
* `process cleanup --all` is documented to clear markers without a PID only when
  the cleanup completes and no Excel remains (`workbook-coordination.md:535-536`);
  the code (`excel/recovery.go:134`) asks only whether Excel remains.
  `UncertainIsQuarantined` still holds.
* Of several temporary files that could neither be finished nor removed,
  `ApplyBatch` lists the first only (`batch.go:158`, `errors.AsType` finds one
  error); `diagnostic-quick-fixes.md:320` says the list names the retained paths.
* A pull that rolls back removes a file that another program created after the
  originals were read (`publish.go`, `removeArtifact`), and rewrites affected files
  it had not published yet. `PullDelivers` allows both: the file is as it was.
* A program that saves the workbook between a push's replacement and its reading
  of the stamp makes the state file cover what it did not push
  (`fingerprint.go:279`); `SkipIsTrue` excuses this case by `own`.
* A second invalidation clears the reason for which a query was red
  (`query.go:356`), against `vba-semantic-query-dag.md:139`; keys with the content
  in them hide it. An invalidation does not reach a build in flight through
  dependencies whose edges are not recorded yet, and evicting an inner node cuts
  the edges behind it; `OvertakenIsHidden` says what remains true.
* In the index, `finishClearOverlay` removes the declarations (1526, 1533) without
  asking whether the document was opened again, which deletes the new reservation;
  `recordInitialFailure` has no generation check.
* An incremental effect summary has the same *facts* as a full one but may name
  another *witness*. Take p, q, r, x in key order; x calls p and q, p calls r, and
  q and r raise. A full build learns first from q that x may raise; if only the
  body of x changes, the incremental build learns it from p, which was not reset.
  `vba-error-propagation-analysis.md:161-172` asks for the same representative
  chain for equal input, and `TestBuildIncrementalMatchesFreshRecomputation`
  (`effects_test.go:89-106`) compares everything. `SummariesAreRight` therefore
  asks that facts agree and that witnesses lead to a procedure that raises.

## 5. What is proved

TLAPS checks the following for every value of the constants that satisfies the
named assumptions of the modules. Most say that bounds are natural numbers and
that "none" is none of the values it stands beside. Those that say more:
`AnalysisScheduler`, finitely many callers, and `TotalLimits` contains positive
numbers only; `SemanticQueryStore`, finitely many keys and at least one;
`WorkspaceIndex`, the two ways for a file to have no content are no contents;
`SourceEditBatch`, `FileTransfer` and `EffectSummary`, at least one file, one
procedure;
`ProjectEffects`, a project gives every procedure a body or its absence. The
`Keys` are finite as a process makes finitely many. TLC evaluates every assumption
in the runs.

In every proof module the invariant is a conjunction of named parts. Most parts
are not inductive alone; the text below says which needs which. A theorem named
`...Invariant` puts them together, and each property is then a consequence of the
invariant in one state or over one step.

* `WorkbookLockProofs`. `LockInv == TypeOK /\ ByteOwnership /\
  HolderRecordStands` is inductive. `HolderRecordStands` alone is not: it needs
  to know that whoever writes or removes the metadata has the operation byte,
  which is `ByteOwnership`, and `ByteOwnership` needs the labels of `TypeOK`.
  `LeaseExclusion` and `NoStalePairing` follow in each state, and with them
  `RecordIsTrue`. `LeaseRefinementHolds` maps each action to a step of
  `ResourceLease` or a stutter (`StepSimulates`).
* `CommandLeaseProofs`. `CommandInv` has eight parts. `LeasesHeld` ties labels to
  leases and everything rests on it; `LeasedInOrder` gives `NoWaitCycle` (take, in
  a ring, the largest workbook somebody waits for: its holder waits for a larger
  one; a well-foundedness argument on the natural numbers), and `BodyHoldsAll` and
  `NoWaitCycle` together are `LeasesAreOrderly`; `CleanWhereChecked`
  says that what was checked under a lease stays so and gives `BodyStartsClean`;
  `QuietWhereCleared` says that Excel is quiet where a marker is about to be
  cleared without force and makes `UncertainIsQuarantined` inductive;
  `MarkersExamined` and `GenerationsIdentify` (equal generation, equal marker)
  give `ClearsOnlyExamined`. Action properties follow from the invariant and the
  lemmas that name the only actions that can enter the body, start Excel or
  remove a marker.
* `LanguageServerProofs`, permits. `SchedulerInv == SchedulerTypeOK /\ CountsAreReal /\
  NoLostWakeup /\ ActiveBounded`. The counting lemmas use the library's facts
  about cardinalities. `NoLostWakeup` needs the counters to be real: a waiter that
  leaves wakes the others only if it finds itself counted. `InteractiveReserved`
  follows from the counters and `NoLostWakeup`.
* `LanguageServerProofs`, documents. It begins with one lemma for each action that
  says, field by field, what the action leaves. `DocumentInv` has nine parts; one
  lemma for each part goes through the actions that can disturb it. `Flags` (the worker
  runs exactly while the state says so, and a pass that is ready has somebody to
  launch it) gives `OneWorker`. `Generations` (a generation belongs to one
  snapshot, and a worker is canceled exactly when its generation has passed) with
  `Told` (what the handlers have told the state, as long as no refresh has put an
  old snapshot back) and `Answered` (what is shown as full is recorded as
  published, and a result whose dependencies have changed since has a follow-up
  pass behind it) gives `PublishesNewest`. `Owed` is the heart of `Settled`: the
  full result of the latest snapshot is shown, or a full pass of the current
  generation is still to come, from the handler, a timer, a callback, a ready pass
  or the worker. It needs `Answered`, as a pass that ends may only be forgotten
  if what it showed is still the last word. `Overlays` (what the index holds is
  of the snapshot that reserved it, and of no other) gives `NoStaleOverlay` and,
  for a closed document, `SettledClosed`; `Built` (somebody still builds a pending
  overlay) gives `SettledOverlay`. `Snapshots`, that every snapshot comes from the
  editor, is what makes a change differ from what was latest.
* `SourceEditBatchProofs`. `BatchInv` adds to the types where the loop stands
  (`Position`), what the earlier phases have left (`Progress`), what each state of a
  file means at each phase (`Truth`), and the check that lies behind a rename
  (`Window`); `Offered`, `Kept` and `Listed` are the properties for the phases
  before the end.
* `FilePushPullProofs`. `Inv` has seven parts. `Held` ties the places of push and
  pull to the two leases. `Settling` is the reason for three captures: from the
  second on the source lease is held, so a file that still has what was captured
  has it since the second capture ended, and one that was changed differs for
  good (`Below`: what is written later is new), which the third capture sees.
  With `Kept` (no command between the reading and the replacement of the
  workbook) they give `PublishesSettledTree` and `CommandsSurvive`. `Stamped`, that
  a stamp names the workbook it was taken from until somebody writes, gives
  `SkipIsTrue`. `Delivering` says at each place of a pull which files already are
  as planned, or as they were, and gives `PullDelivers`.
* `SemanticQueryStoreProofs`. The first half is about the operators on the store:
  what each leaves of entries, edges, reasons and epochs; that an invalidation
  reddens all it reaches; that eviction and compaction keep the limits and a place
  in the queue for each entry. `Inv` has eight parts. `Reddened` (an entry older
  than an invalidation that reached it is red, and for a reason that no
  publication of another query removes) and `Standing` (a build whose epoch still
  stands was begun after whatever reached its key) need each other: a publication
  is sound as its epoch stands, and an epoch stands as metadata is not dropped
  under a pending build. With `Edged` and `Answered` they give `AnswersAreRight`;
  `Limited` gives `MetadataBounded`, `Shared` gives `BuildsAreShared`.
* `WorkspaceIndexProofs`. `Inv` has eight parts. `Opened` says what a reservation
  leaves of older texts and that nobody unmasks an open path, and gives
  `OpenMasksDisk`. `Numbered` says that every actor that works on the saved file
  has a generation of its own, so that while a layer still has that generation
  nobody else has put anything there; `Known` says that what such an actor has
  read is true while there are no news; on both rests `Honest`, that a layer not
  marked incomplete shows the truth, which is `CompleteIsCurrent`. `Closed` and
  `Worked` say who will still settle a mask or a reservation, and with `Honest`
  they give `SettledIsHonest`.
* `ProjectEffectsProofs`. `Building` is the invariant of the worklist: a procedure
  knows no less than its own statements say and no more than what it reaches
  (`Between`), a caller knows what its callee knows or the callee is queued
  (`Heard`), and witnesses lead to a procedure that raises. With an empty queue
  this is exactly the promise (`CompleteIsExact`, from the least sets alone, so
  no induction over paths). The heart is `IncrementalFacts`: the procedures that
  are not red form a set that is closed under calls in the old project and the new
  one, has the same calls and direct facts in both, and so reaches the same; what
  the old summary says of them holds of the new project. The remaining three
  parts of `Inv` say that the state, the cache and the requests have such
  summaries or none, and give `SummariesAreRight`.

`ByteOwnership`, `LeaseExclusion`, `HolderRecordStands`, `NoStalePairing`,
`BodyHoldsAll`, `NoWaitCycle`, `CountsAreReal`, `InteractiveReserved` and
`BackupOutlivesPublication` are proved and appear in no run by themselves. TLC
finds the four invariants called `Inv` true as well, those of push and pull, query
store and index on the instances of section 3, that of the effect summaries with
two requests in place of three, and `DocumentInv` on the instance of section 3.

Every invariant and every action property of the passing runs is a theorem.
Only model-checked: everything under fairness (`CallsEnd`, `Served`,
`FullIsShown`, `RequestsEnd`), which is outside the reach of the prover, and the
violations. Termination of a build is part of `RequestsEnd`: that
the worklist runs empty is a liveness property too.

## 6. Plan

As models: `code_action_requests.go`; the single-flight `getOrBuildContext`
of the dependency cache; `Snapshot.Apply` of one file; backups; the draft
lifecycle of the UserForm editor in the VS Code extension; `CommandLease` over one
`ResourceLease` instance per workbook as a refinement.

## 7. Not modelled

Most of the code of xlflow by size, the lint and analysis rules, the VBA front end
and formatter, the codecs of the workbook formats, command line parsing and
rendering, is sequential and keeps no shared state: functions from text or bytes
to diagnostics, trees or bytes, whose detail is data to every model here. They
have no interleavings, failures or orders for a model checker to explore, and a
translation of them would be as long as they are; golden tests are the better
tool. The models cover the part of the code, small by size, in which actors meet.

Left out within modelled parts: argument building, debug streams and envelopes of
the bridge runner; statement extraction, evidence replay and error handler
analysis of the effect summaries; excluded paths and form sidecars of the index;
telemetry everywhere. `revisionCache` has one user, `projectEffectSummary`, which
only tests call; semantic tokens are computed on the read loop, so their cache has
one caller at a time. The C# bridge and the VS Code extension are programs of their
own; of the bridge the models know what its caller can observe.
