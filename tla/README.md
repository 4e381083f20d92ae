# A verification project for tcrs-derive

`tcrs-derive` logs 54 KoL accounts in, has KoLmafia introspect each one, collects
three files per account into a run directory, and publishes the union of the new and
the old files behind a `current` link. A website triggers, cancels and shows runs; a
CLI does the same from a terminal. The modules here model that program from its
source (`src/src` is the program's `src`, `src/app` the web application), TLC checks
them on small instances, and TLAPS proves the central facts for every value of the
constants.

Line numbers are those of the files under `src/`. `PROJECT.json` maps every definition
to its lines, lists the hazards each property is for, the runs, the mutants that show
each property can fail, and the findings.

## The system

| Component | State | Operations | Who it talks to |
|---|---|---|---|
| Worker, `src/core/runOne.server.ts` with `parser.ts`, `permutations.ts` | attempt, reason, copied; an `IntrospectTracker` per attempt; timers | one permutation: seed, spawn, parse, watch, kill, collect, classify, retry | the JVM by pipe and signals; the batch by events and a result |
| Batch, `runBatch.server.ts` | `todo`, the pool's `i`, results, RunState | `startBatch`, `execute`, `pool`, `resumableUsers` | workers, warm-up, staging, bus |
| Warm-up and reaper, `warmup.server.ts`, `reaper.server.ts` | template directory; the set of live process groups | one JVM that fills the template; track, untrack, reapAll, exit handlers | process signals |
| Run manager, `src/server/run-manager.server.ts` | `#active`, listeners, free bytes | `init`, `trigger`, `cancel`, `#finish`, `#publish`, `status`, `shutdown` | batch, store, volume, SSE hub |
| Store, `store.server.ts` | `#state` and `state.json` | `init` (boot recovery), `beginAttempt`, `endAttempt`, `setCurrent`, `clearAttempts`, `cooldownInfo` | run manager |
| Volume, `staging.server.ts`, `zip.server.ts`, `download.server.ts` | `runs/<id>`, manifests, `current` | createStaging, writeManifest, carryForward, promote, pruneRuns, publishRun, downloads | run manager, CLI |
| Lock, `lock.server.ts` | `.lock` file, a heartbeat | acquireLock, release | server and CLI, across processes |
| Live stream, `bus.ts`, `sse-hub.server.ts`, `app/hooks/useRunStream.ts`, `cli/StateSource.ts` | listeners, per-connection subscription, the page's and the terminal's state | emit, broadcast, snapshot and subscribe, fold, reconnect, poll | run manager, browser, terminal |
| Reducer, `state.ts` | a RunState | `reduceRunState` | the batch, the page and the terminal, all three |
| CLI, `src/cli` | none of its own | `run`, `attach`, `list` | lock, batch, publishRun, the stream |
| Server process, `server.ts`, `express-routes.server.ts`, `singleton.server.ts` | the manager singleton | boot, routes, shutdown | everything above |
| Jar, `jar.server.ts` | jars on disk with a `.tag` beside each; the path a process uses | `ensureJar` at boot, `updateJar` as a run starts, `detectTcrsCommand` | GitHub; batch, server, CLI |
| Presenter, `present.ts` | none | percentage and bar of a row | the page and the terminal |
| Configuration, environment, logs, zip | see below | sequential I/O and pure functions | |

What makes it hard: up to `concurrency` JVMs and their pipes under one event loop;
timers that race each other, the JVM's own end and the operator; a cancel that can land
in any `await`; a publication of six steps on a disk that may fill up and in a process
that may be killed or told to stop; a server and a CLI that share a volume and its jars; a dataset whose entries outlive
the runs they came from; clients that join, drop and come back at any moment.

What makes each part correct, in a sentence: a worker reports done only what is
complete, leaves nothing half-done and always returns; a batch accounts for every
permutation and starts nothing after it was told to stop; at most one run exists, it
ends, and what is recorded agrees with what is on offer; a consumer only ever sees
whole publications that only gain files; one process owns the volume; a run drives the jar it
thinks it drives; and everybody who watches sees the same run, and no better one than it is.

## The modules

Read them in this order. The size of each is well below the code it stands for: wording,
logging, paths, sizes, checksums and dates are left out, and a file is known by the run
that produced it.

| Module | Models | State |
|---|---|---|
| `WorkerContract` | what `runOne` promises, with nothing said of how | verdict, attempts, aborted, live, output |
| `RunOne` | `runOne` and `runAttempt`, the JVM as its environment | pc of the loop, tracker, outcome, reason, copied, the row, timers, JVM leader and child, pipe, the work directory, the staged files |
| `RunOneProofs` | theorems about `RunOne` | |
| `View` (extends `RunOne`) | the phase and progress the reducer keeps of the worker's row, and the presenter's percentages | `shown` |
| `ViewProofs` | theorems about `View` | |
| `Storage` | the volume and what publishing computes from it | `dirs`, `current` |
| `Dataset` | what a consumer may rely on | the run behind each published file |
| `Server` (extends `Storage`) | run manager, store, publication, crash, shutdown and boot, and `tcrs run`; the batch reduced to its verdicts | `state.json`, memory, the step of `#finish`, the batch, the shutdown, the clock |
| `Jar` | the jar found, fetched, tagged and probed | jars, sidecars, the `.part` file, one process |
| `ServerProofs`, `DatasetProofs` | theorems about `Server`, and that it implements `Dataset` | |
| `MCServer` | two permutations, three files, symmetry of one permutation's files | |
| `JarProofs` | theorems about `Jar` | |
| `Lock`, `MCLock` | `acquireLock` one system call a step, for several processes on several hosts | pc, pid, what was read, the file with its age |
| `LockProofs` | theorems about `Lock` | |
| `Batch` | `execute`, the pool, the warm-up, the reaper, the process | pc, the AbortSignal, pool slots, results, rows, template, process groups |
| `BatchProofs` | theorems about `Batch` | |
| `Stream` | broadcasts, the SSE hub, the web page | active run, connections with their frames, the page's buffer and what it shows |
| `StreamProofs` | theorems about `Stream` | |
| `Attach` (extends `Stream`) | the terminal on the same stream | the terminal's state |

How they fit together: `RunOne` implements `WorkerContract` (a property of run
`RunOne`), and `Server.WorkerDone` and `Batch`'s worker actions assume exactly that
contract (a JVM only while not aborted, a whole set of files when ok, none left alive
on return). `Server` implements `Dataset` for its consumer. `Lock` is what lets
`Server` assume one process at a time on the volume. `Stream` takes the run manager
from `Server` down to what it broadcasts. `Batch.FindJar` is `Jar` in one step, for a batch goes on
whatever comes of it.

### RunOne

One action per continuation between two awaits (`BeginAttempt`, `Seed`, `Spawn`,
`Collect`, `Judge`, `BackoffOver` ...), one per callback (`Consume` for a line,
`HardTimeout`, `LoginTimeout`, `StallTimeout`, `Escalate`, `Abort`, `Close`,
`ChildError`). The JVM announces the first and every `Step`-th item, may be slow,
refuse, complain, bail, die in the middle of writing a file, and leave a child that
holds its pipe (`Descendants`). The tracker is the parser's, with completeness as count
against total and tolerance. `row` is the reducer's fold of what the worker emits.
`Faults` are the calls that may reject: seeding, spawning, copying, unlinking, removing
the work directory. The code swallows a refused copy (runOne.server.ts:566: the file is not
counted) and a refused unlink (594: the file stays); only a work directory that cannot be
removed ends in the batch's catch (`Threw`). A refused copy of the template is left out of
`Seed`: it leaves the template's `data/` in the work directory, in which the warm-up, which
never logs in, has derived nothing. Time is reduced to which timer fires: a watchdog may
fire whenever it is armed.

### Storage, Server, Dataset

`#finish` and `execute` are two activities of one process that interleave at their
awaits. `Persist` is every write of `state.json`: memory first, then the disk, which may
refuse. `Crash` (a kill) may happen between any two steps; `Boot`, `Reconcile`, `BootPrune`,
`BootSave` are `Store.init`. Not in the model: `trigger`'s refusals for a missing
configuration or low disk, which change nothing; `clearWork`, whose failure is
swallowed and whose directory is private to the workers; the zip, whose failure is
swallowed too. A failure of the checksums, the manifest or the link is the fault `publish`,
a refused first manifest, or one that comes before its directory, is `open`. Removing a run
(`rm -rf`, in `Discard`, `Fail`, `Prune` and `BootPrune`) unlinks one thing a step
(`RemoveStep`), so it can be seen half done or be cut off by a kill, and may reject at any of them
(`RmRejects`, with the fault `rm`, or while a batch still writes there); `Fail` gives a refusal
up, elsewhere it is a failure of `#finish`. `Published` is what the listing of downloads leads
to; the file handler itself serves any known name in the linked directory, which differs only
for the unlisted files of a cancelled run that `--promote always` linked. `Dataset` says that a publication changes files
only to its own run's, all at once, and only ever adds.

A run may be narrowed (`Subsets`): ONLY and EXCLUDE select, RESUME skips what `Resumable`
finds complete on offer, possibly everything. `Signal` is the server's SIGTERM: it cancels
what is active; `ReleaseLock` waits for that run's `#finish`, or, with the fault `grace`,
not even for that; `Exit` ends the process, after which another may boot. Between two
servers `CliStart` runs `tcrs run` on the same volume: it writes neither `state.json` nor
an open manifest, publishes by `ShouldPromote` for any `--promote` of `Modes`, and leaves
the directory of a run it does not publish for the next boot to prune. `Earlier` numbers a
dataset that such a run may have left before the first boot modelled.

### View

`View` adds to `RunOne` the one thing of a row it leaves out, the phase and progress of the
status `introspecting`, folded from the same lines (`Folded`), and the presenter's
functions of them. The pipe still holds lines when a watchdog fires, so late lines reach
the fold here as they do in the code. The run has 4 items announced as 1 and 3, for
12070 items announced as 1, 101, .. 12001: the last announcement is never the last item,
which is why the items phase ends below 100 (present.ts:46-49).

### Jar

Each await of `ensureJar`, `updateJar`, `downloadJar` and `init` ends an action. Jars lie
at the configured path and at one path per release; a jar is its release and whether all
of it is there. A process is killed between any two steps and another starts, with
another pin perhaps; GitHub refuses any request; a release may come out at any time. Release
`Renamed` is the first whose full pass is `tcrs introspect`. A truncated jar may show any of its markers,
so `Probe` would choose wrongly, were one ever run. The server and `tcrs run` take turns; that a
`tcrs run` resolves its jar before it takes the lock, and so may share a `.part` file with
another, is left out and listed as a hazard.

### Lock

Every system call of `acquireLock` is a step, so two starts interleave everywhere: the
exclusive create, the write of the contents, the read, the decision, the removal, the
second create. `HostOf` stands for `hostname()`: on another host a pid says nothing and
the age of the file decides. `Tick` ages the file and cannot pass `Beat` while its
holder lives, which is the 15 s heartbeat against the 60 s staleness of the source.

### Batch

`execute` from top to bottom. The AbortSignal is read where the source reads it: before
the warm-up, after its wipe, at each admission, in each worker before and after its
seeding, at the index, at `batch:end` and in the result. The warm-up's JVM is process
group 0 and, as in the source, is not among the reaper's `live`. `Signal` is SIGTERM or
SIGINT in the server or a plain CLI run: the run is cancelled and every tracked group
asked to end; `Reap` is the timer that kills the rest; `ProcessExit` runs the exit
handlers. What rejects `execute` is in `Faults`: staging, the template's wipe (the
comment of `warmUp` calls it best effort, and an error there rejects the batch), the
index. Rows follow the reducer (`Apply`), the summary is counted from them (`Recount`), and
`batch:end` counts from the results; an attempt's phases, which `RunOne` has, count as
running and stay one status here.

### Stream and Attach

A RunState is the sequence of events folded into it, so an event lost, doubled or out
of place is another state. `Trigger`, `Emit` and `Release` are the manager; a
`Broadcast` is `#broadcastAsync` after its `await status()`, so it carries the state of
the moment it is sent. `status()` runs to its `#emit` or to `subscribe` in one drain of
microtasks, which is why no event falls between them. `Accept`, `Snapshot`,
`LateSnapshot` and `Cleanup` are `sseHandler`, with the connection possibly lost inside
the await. The page counts failures, reconnects, buffers frames for an animation frame
(a hidden tab waits), gives up for polling after `Patience` failures, and an EventSource
that got an answer of another type closes for good. A half-open connection that nobody
notices is not modelled, nor a poll that fails (the next one is 5 s later).

## The runs

All constants are small; the reasons they suffice are with each run. Bounds: `MaxRuns`,
`MaxTime`, `MaxTag`, `MaxCrashes`, `MaxEvents`, `MaxFaults`, `MaxQueue`, `PipeBound`, and the
numbers of users, files, permutations and processes.

| Run | Instance | Shows |
|---|---|---|
| `RunOne` (module `View`) | 2 attempts, 4 items announced every second one, tolerance 1, pipe of 2, every fault but a refused unlink | the worker: what it calls done is complete, a whole run is never thrown away, nothing truncated stays staged, row, result and reason agree, the bar is what the result will be judged by and moves forward only, a refused account is not retried, a stalled row stays stalled, it returns unless a descendant holds the pipe, it implements the contract |
| `Server` | an earlier dataset or none, then 2 runs of the server or the CLI, users with 2 files and 1 file, partial selections and RESUME, kills everywhere, shutdowns, failing publication, no cooldown and no clock | one batch at a time, honest manifest entries, ok means whole, memory and `state.json` and volume agree at rest, a recorded success is on offer, a shutdown leaves nothing running or open, refinement of `Dataset` |
| `ServerFaults` | 2 users of 1 file, an earlier dataset and a run, every fault, an expired grace, `--promote` always and never, cooldowns and a clock of one tick | every run ends and lets its lock go; no entry on offer describes another file than the one behind it |
| `Batch` | 3 permutations, 2 workers, 2 attempts, every fault | no launch once aborted, no torn template, every permutation accounted for, an uncancelled result is indexed, no JVM outlives the process, a batch ends |
| `Lock` | 2 processes on one host, 1 on another, 3 crashes, serialised starts | one holder, it owns the file, and the volume never wedges |
| `Stream` | 2 runs of 2 events, 2 faults, queues of 2, patience 2 | no leaked subscription, snapshot plus patches is the server's state, no mixing of runs, the page converges |
| `Jar` | 4 releases, the third renames the command; servers and CLIs one after the other, pinned or not | every run drives a whole jar with its own command, the release its check found if it found one |
| `DatasetLost`, `TwoBatches`, `LockRace`, `LockWedged`, `Attach` | the smallest instance that shows it | the findings, below |

Why these bounds: two attempts give every "carried into the next attempt" mistake its
chance and the last attempt its own; four items with a tolerance of one make "within the
tolerance", "short of it" and "zero" all occur, and announcing every second one leaves
the last line missing. Three runs are one published earlier, one that carries from it,
and one that carries what was carried. One attempt kept is already one trimmed. Without
a cooldown `Server` triggers whenever a cooldown would let it and more often, and a
clock that stands still leaves the order of its steps free; the cooldown and the clock
run in `ServerFaults`, `DatasetLost` and `TwoBatches`. Four releases are one baked in
and one fetched before the command is renamed, and the same after it. Three permutations
over two workers make the pool admit a third while the first two are in any state. Two
runs of two events let frames of both be on their way at once. One crash more than there
are processes of a host lets a reclaimer crash too.

`CHECK_DEADLOCK FALSE` is set for `Server` and `Stream`, whose runs and faults are bounded, and
for `Batch`, which ends. `RunOne`, `Lock` and `Jar` are checked for deadlock. Symmetry is used
only in `MCServer` for the two files of one permutation, with safety properties.

Every property of a passing run has a mutant, a changed definition that a plausible bug
would produce, kept next to the one it changes and named after it (`CloseOnExit`,
`SpawnUnchecked`, `HolderAliveAnyHost`, `RetireOneShort`, `ReduceAnyRun`, `ReleaseLockAtOnce` ...).

### Fairness

- `RunOne`: continuations, lines in the pipe, the hard timeout and its escalation, and
  close. Nothing is assumed of the JVM, the login and stall watchdogs or the operator:
  the hard timeout alone is why a worker returns.
- `ServerFaults`: the steps of `#finish` and of the batch. Workers return because of
  `ReturnsUnlessHeld`. Nothing is assumed of requests, crashes or the clock.
- `Batch`: `execute`, each worker, the warm-up's timeout; a worker's JVM ends at the
  latest by the hard timeout. Nothing is assumed of the operator or the process.
- `Lock`: a supervisor starts processes again, a running one goes on, the clock ticks.
- `Stream`: the server answers and broadcasts, the browser reconnects, reads, renders
  and polls. No run has to start, go on or end, and nothing has to be lost.

### What the violations show

1. `DatasetLost` (`CoverageNeverRegresses`). A failure after `promote` (pruning, or the
   write of `state.json`) removes the directory `current` points at, after the older
   ones were pruned: nothing is on offer. The trace ends at the first file unlinked; a kill or
   a refusal there leaves a finished manifest without its files, which `Store.init` keeps, as
   it asks for the manifest only, and `carryForward` copies what is left with its results.
2. `TwoBatches` (`AtMostOneBatch`). A failure of `#finish` before it awaits the batch
   (`state.json` cannot be written, or the open manifest comes before `createStaging`
   has made the directory) releases the single-flight lock while the batch runs on.
3. `LockRace` (`OneHolder`). Two starts that judge the same file stale each remove and
   create it, so both acquire.
4. `LockWedged` (`Recovers`). On one host only the pid is asked; when it is in use
   again the heartbeat's age is never looked at and every start is refused.
5. `Attach` (`NoDrift`). A terminal attached to an idle server ignores `run-started`
   and drops every patch, so it shows nothing of the run the page shows.

More that the passing properties are worded around. A descendant of the JVM
that outlives the group leader and keeps its pipe open is never signalled, since
`kill()` and its escalation ask the leader only: the worker does not return
(`ReturnsUnlessHeld` states what is left of "returns"). An EventSource closed by one
answer of the wrong type stops counting failures, so the page neither streams nor polls
(`Converges` excepts it). A warm-up's JVM survives a process that ends by an exception
(`NothingOrphaned` excepts it). A permutation whose work directory could not be made is
failed in the result and running for ever in every view, since that return emits no event
(`Accounted` and `RowMatchesResult` except it). Besides these, met while modelling and not a property's
business: a run killed between `promote` and `endAttempt` is on offer but recorded as
aborted; `tcrs run --promote always` publishes a cancelled batch with an empty index, whose
ok results then vouch for files carried from other runs (`OkIsWhole` holds for the other modes, which run `Server` has);
a run cancelled in its first minutes costs the whole success cooldown, for only an abort
found at boot is weighed by its age, while `cancel`'s comment (run-manager.server.ts:247-249) says it counts as
never having happened; jars fetched by earlier runs are not found again at boot, as a comment says they will
be (run-manager.server.ts:119-121), but by the next run's check; `statusFrom` claims `trigger`'s order of refusals and has another
(431, 170-204);
`writeAtomic` uses one temporary name for all writers; a cancelled worker's row never
settles; shutdown releases the lock after 45 s even if the batch goes on, and a download in
`refreshJar` has neither timeout nor abort, so it can (the fault `grace`, in run `ServerFaults` only).

## The proofs

Every type invariant, safety invariant, action property and refinement of the passing
runs is a theorem, for every value of the constants its hypotheses allow. A hypothesis
excludes only what the code breaks the property under (a fault, a mode, overlapping starts, an
announced last item), and TLC finds the counterexample for each of them when the instance
of the run is given that fault or mode, with two attempts kept for `SuccessIsPublished`.
Under `open` that one and `OkIsWhole` take three runs, so the instance starts from an empty
volume (`Earlier = 0`), with three attempts kept and the search held to traces on which the
batch that was left behind goes on.

`LockProofs` proves, for any processes, hosts, pids and bounds with `Beat < Stale`:

- `TypeCorrect`, with no further assumption;
- `MutualExclusion` and `HolderOwnership`, assuming `Serial`, that is, starts do not
  overlap. This is what a stop-then-start deployment gives (the repository's README,
  "Deploy stop-then-start"), and without it the run `LockRace` refutes it.

`OneHolder` is not inductive. `IInv` adds: at most one process is acquiring; whoever
writes or holds the lock is named by a fresh file with its pid (`KeepersKeep`); a
process about to judge a live holder has read that holder's contents
(`JudgesTheHolder`), so it finds it alive by its pid on the same host and by the file's
age on another; hence nobody holds the lock while somebody reclaims it
(`ReclaimsTheDead`).

`RunOneProofs` proves, for any numbers of attempts and items, any announce step,
tolerance and pipe, and any set of faults:

- `TypeCorrect`, which needs `AttemptLeft`, the bound on the attempt counter where the
  loop is entered again;
- `DoneMeansComplete`: done is reported only with three files of an introspect that got
  within the tolerance;
- `NothingOutlivesAttempt`: no JVM, no child and nothing in the pipe outside an attempt;
- `NothingTruncatedRests`: nothing truncated stays staged, assuming `unlink` is not
  among the faults (if it is refused, `discard` swallows that and the file stays: the code has
  no second line of defence);
- `WholeRunsAreKept`: an introspect that walked every item is not judged incomplete, however
  late its last lines are read;
- `RowTellsTheResult`: a returned worker's row agrees with its result;
- `ReasonsAreTheLastAttempts`: a failure's reason is the last attempt's own;
- `NotInTcrsEndsIt` and `StalledStays`: what a step may not do to an account that is not in
  the season, and to a row that stalled;
- `WorkerImplementsContract`: every step is one of `WorkerContract` or a stutter, under the
  same assumption on `unlink`.

The argument runs along the data: the tracker never knows more than the JVM did
(`Behind`), files come after the introspect and are short exactly when it was
(`SavedAfter`), nothing of one attempt reaches the next (`Quiet`), so a short file is
always seen to be incomplete at the judgement (`StagedClean`), and a complete one stays
so until it is reported (`Finishing`, `Kept`).

`WholeRunKept` is a fact about lines on their way, so its invariant reads the pipe as a
conversation: each line has a place in the JVM's script (`Mark`), the pipe is sorted by it,
after what the tracker has heard and not beyond what the JVM has told (`InOrder`), and
each item announced is counted or still in the pipe (`NothingLost`). When `close` comes the
pipe is empty, so the tracker has heard the last announcement, which the tolerance
covers. The row needs that the worker reports no end until it returns (`Reporting`) and that
a file on disk means that the header of the items was read or will be (`Begun`), so that a worker that
collects has left the row at `introspecting`.

`ViewProofs` proves, where the last item is none that is announced:

- `BarsAreHonest`: the row's phase and count are the tracker's, and a bar is full only at the end;
- `BarsNeverFallBack`: it never moves back while its introspect is shown.

The reducer and the tracker fold the same lines by different rules; `Shows` says they tell
the same story, and it rests on `InOrder`, for a row cannot tell a late line from a new one. The
condition holds of 12070 items announced every 100th. Were the last item announced, the items
phase would end at a full bar and the cafe phases would move it back.

`BatchProofs` proves, for any permutations, limit, attempts and faults:

- `TypeCorrect`;
- `ReapsAll`: a process that ends by its exit handlers leaves no JVM but a warm-up's, and
  none if it was told to end;
- `StopsLaunching`: no JVM is launched once the run is told to stop;
- `ResultsAreIndexed`: a result that is not cancelled has its index;
- `NeverSeedsTorn`: no permutation is seeded from a template that is not whole;
- `BatchAccounts`: a batch that was not cancelled accounts for every permutation once, in
  its results, its rows and its summary.

For the three about signals and processes: every JVM is tracked or the warm-up's (`Tracked`),
a process told to end has aborted its run and an aborted run has no warm-up (`StopsWarmUp`), and
what is known between the reads of the signal (`IndexedSoFar`): the abort never goes back, so an
index left empty is followed by a result that says cancelled. For the template, `Warm` says
which step may find it torn. The accounting is the pool's: the list holds each permutation
that is not skipped once (`Ordered`); what a worker has in hand was admitted, has no result
and is nobody else's (`Holding`); what was admitted and has no result is in hand, what was
not is untouched (`Waiting`); and results and rows agree, but for a work directory that could
not be made (`Booked`). The pool drains because its first worker stays until the list is out or the
run is aborted (`Slots`).

`StreamProofs` proves, for any clients, runs, events, faults and queues:

- `TypesKept`;
- `NothingLeaks`: a connection that is gone holds no subscription;
- `PageIsInStep`: what a connection was sent, folded from its snapshot on, is the server's
  own state;
- `RunsAreUnmixed`: the page never shows events of two runs as one state.

The invariant asks of every frame, queued, buffered, polled or shown, that its state is of
one run (`Sent`), and ties the page's polling to its failures and connection (`Connected`). What
folding does is stated in lemmas: of no frames (`FoldEmpty`), of one more at the end, where
the server appends (`FoldAppend`), and of the first, which the browser reads (`FoldHead`).

Two recursive functions are reasoned about by induction over their length: `SelectedBut`, the
permutations left of a selection, and `Folded`, the state after some frames. The induction
is the least counterexample (`LeastElement` and `UpToBound` in `BatchProofs`,
`LeastNumber` and `ToTheBound` in `StreamProofs`), from the well-foundedness of `<`.

`ServerProofs` proves, for any permutations, files, runs, cooldowns, history and clock:

- `TypeCorrect`, whatever fails;
- `EntriesNeverMislabel`: no entry on offer describes another file than the one behind it,
  whatever fails and wherever the process is killed, even when `#finish` ends before its
  batch. That file may be gone: see finding 1;
- `SingleRun`: at most one batch is at work, assuming neither `persist` nor `open` is
  among the faults. Either lets `#finish` end first; the run `TwoBatches` shows it with
  `persist` (finding 2);
- `StopsAreClean`: a lock let go within its grace means that the run it interrupted has
  ended and is recorded so, with neither of these two nor an expired grace;
- `AgreesAtRest`: between runs memory, `state.json` and the volume agree, with neither of
  these two nor a failed `rm`, which leaves a directory beside the linked one.

`NeverMislabelled` says nothing of directories that are not linked, so it is not inductive.
The invariant asks the same of every directory (`HonestDirs`: an entry's file is the one it
describes, or gone with a removal that has begun) and keeps it through the
publication: a run still at work is described by no entry (`Undescribed`), so its writes
cannot make one false; it holds only its own files until something is carried into it
(`OwnFiles`); and what was carried is, until the manifest is written, the very file and the
very entry of the dataset it came from (`CarriedOver`), which is another run's, for a run
is linked last (`Unlinked`). `SingleFlight` strengthens `AtMostOneBatch` with where
`#finish` is.

Of the two later ones, the first rests on what is recorded: no attempt is open but the
active run's (`Recorded`), memory and `state.json` are equal while the server is up, and the
lock waits for the run the signal found (`Stopped`). The second follows the volume through
`#finish` and through a boot: the record names the linked dataset except between the link and
its record, and no directory is there but that one's and the active run's (`Tidied`, `Tidy`).

`DatasetProofs` is about the linked directory, and assumes that nothing makes `#finish` remove
it (`Harmless`: neither `persist` nor `open` nor `rm`; the second by way of a batch left
behind, whose directory the next run's pruning cannot remove). It proves:

- `ServerImplementsDataset`: `Server` implements `Dataset`, with no failed `copy`, which drops a
  file from the dataset;
- `SuccessesArePublished`: what the history calls a success or a partial is on offer, or a
  newer run is;
- `EntriesAreHonest`: every entry on offer has the very file it describes, wherever the process
  is killed;
- `OkMeansWhole`: a permutation whose result says ok has all its files on offer, of one run,
  with no failed `copy`, which drops a file an inherited ok still vouches for, and no
  `--promote always`, which publishes a cancelled batch's empty index.

With `IInv` above it shows that the link always leads to a finished dataset that is all there
(`Linked`), that nobody works on it any more (`SingleFlight`) and nothing but the link's own run
touches it (`Promoted`, `KeepsLinked`), that a file is no newer than its directory (`Aged`), and
that between `readPrevious` and the link the new manifest replaces the old one entry by entry
(`Replaces`). So every step but `Promote` leaves what is on offer alone, and `Promote` is
`Dataset!Publish`. For the second, `Earned` says that an attempt about to be recorded as a
success has been linked, and that the link moves forward only. The last is the longest: a
permutation leaves no file before it settles and all of them when it is ok, which is kept for
the active run until it is linked or given up (`ActiveTried`); every manifest is whole, linked or
not (`AllWhole`); and what is carried is exactly what there is to carry, never into a cancelled
run (`Carries`).

`JarProofs` proves, for any number of releases and wherever the command is renamed,
`TypeCorrect`, `EveryRunFits` and `PinIsHonoured` (a process with MAFIA_TAG set never leaves
the configured jar, which no run repeats). The invariant is in two parts: what the
volume holds, whoever was killed while writing to it (`VolumeOK`: a jar is whole or
not there, a jar under a release's name is that release, a sidecar agrees with the jar
beside it), and what the process has seen of it (`ProcessOK`: it has located a file, what
its check found is the jar it uses, the command is that jar's).

The named assumptions on the constants are evaluated by TLC in the runs of the same
modules. They say no more than the configuration does: positive counts, a tolerance
below the total, a heartbeat shorter than the staleness.

Only model-checked is liveness (`ReturnsUnlessHeld`, `RunEnds`, `BatchEnds`, `Recovers`,
`Converges`), which TLAPS as installed cannot prove (no `ENABLED`, no fairness).

## Not modelled

- Configuration, environment and secrets, logs, the zip: sequential I/O and pure functions
  on which no decision above depends; what they decide are constants of the modules.
- A JVM that announces a total of zero items: the model's JVM announces the real one.
- Labels, tones and layout of rows, `tcrs list`, the plain reporter, request parsing.
- The search of a directory for any `KoLmafia*.jar`: a path is always configured.
- Bytes: contents, checksums, ETags and ranges. A download that spans a publication can
  pair one manifest's ETag with the other's file for the length of one request.
- The parser's regular expressions; lines are taken as classified.
- The order of the 54 permutations for display.
- Development mode: hot reload and its singleton.
- A second Ctrl-C and Node's default signal handling, zombies and PID 1; an interactive
  CLI run that gets SIGTERM.
- The patches a batch left over by finding 2 goes on sending: a page that tracks
  another run ignores them by their run id.

## Plan

Built so far: everything in the table of modules, and the proofs of all that is not
liveness. What is left, in this order:

1. The store's overlapping writers (`clearAttempts` during `#finish`) and the single
   temporary name of `writeAtomic`.
2. Two processes resolving a jar at once.
