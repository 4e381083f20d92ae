------------------------------- MODULE Server -------------------------------
(***************************************************************************)
(* The server's run lifecycle: RunManager (src/src/server/                 *)
(* run-manager.server.ts) over Store (store.server.ts), publishRun         *)
(* (staging.server.ts) and the batch it starts (runBatch.server.ts).       *)
(*                                                                         *)
(* One process at a time holds the data volume (see Lock); it may be       *)
(* told to stop or killed between any two steps, and boots again from what *)
(* the disk holds; between two servers `tcrs run` may hold the volume      *)
(* (cli/commands/run.ts), with a batch and a publication of its own.       *)
(* A run is two concurrent activities, the batch itself (execute) and      *)
(* #finish, which records the attempt, awaits the batch and publishes.     *)
(***************************************************************************)
EXTENDS Storage

CONSTANTS
    SuccessHours, FailedHours,  \* CooldownConfig, in ticks of the clock
    EarlyAbort,                 \* EARLY_ABORT_MS
    Earlier,                    \* runs before the first one modelled
    AttemptsKept,               \* MAX_ATTEMPTS_KEPT
    MaxTime,                    \* bound on the clock
    Dev,                        \* the dev-only cooldown route exists
    Subsets,                    \* ONLY, EXCLUDE or RESUME may narrow a run
    Modes,                      \* --promote of a `tcrs run`; {}: nobody uses it
    Stops,                      \* the server may be told to stop
    Faults                      \* what may go wrong

FaultKinds == {"persist",    \* writing state.json fails
               "open",       \* the first manifest is refused, or finds no directory yet
               "copy",       \* carrying a file forward fails
               "publish",    \* writing the checksums, the manifest or the link fails
               "rm",         \* removing a run's directory fails, half done or not
               "grace"}      \* a batch outlives the wait of a shutdown

ASSUME ClockAssumption ==
    /\ {SuccessHours, FailedHours, EarlyAbort, MaxTime} \subseteq Nat
    /\ AttemptsKept \in Nat \ {0}
    /\ Earlier \in Source
ASSUME SwitchAssumption ==
    /\ {Dev, Subsets, Stops} \subseteq BOOLEAN
    /\ Modes \subseteq {"success", "always", "never"}
    /\ Faults \subseteq FaultKinds

VARIABLES
    saved,    \* state.json
    proc,     \* the process: down, at a step of Store.init, up, or `tcrs run`
    state,    \* Store.#state
    active,   \* #active.runId, 0 for null
    fin,      \* where #finish, or runCommand, is
    outcome,  \* #finish's outcome
    pub,      \* publishRun's locals
    batch,    \* what execute is doing, per run
    started,  \* #active.startedAt
    stop,     \* a shutdown, and the run it found active
    runs,     \* the last run id given out
    now

memory == <<proc, state, active, fin, outcome, pub, batch, started, stop>>
vars   == <<disk, saved, memory, runs, now>>

-----------------------------------------------------------------------------

Outcomes == {"success", "partial", "failed", "aborted", "aborted-early"}
Attempts == [id: Runs, started: 0 .. MaxTime, finished: 0 .. MaxTime,
             outcome: Outcomes \cup {"none"}]
Persisted == [active: Source, current: Source, attempts: Seq(Attempts)]

Fresh   == [active |-> 0, current |-> 0, attempts |-> <<>>]
NoPub   == [prev |-> 0, carried |-> {}]
NoStop  == [pc |-> "no", run |-> 0]
NoBatch == [pc |-> "none", aborted |-> FALSE, cancelled |-> FALSE, todo |-> {}, entries |-> {},
            results |-> [u \in Users |-> "none"]]

TypeOK ==
    /\ StorageTypeOK
    /\ saved \in Persisted /\ state \in Persisted
    /\ Len(state.attempts) <= AttemptsKept
    /\ proc \in {"down", "reconcile", "prune", "save", "up", "cli"}
    /\ active \in Source
    /\ fin \in {"idle", "begin", "open", "await", "previous", "carry", "manifest",
                "promote", "prune", "setCurrent", "discard", "failed", "end", "release", "done"}
    /\ outcome \in Outcomes
    /\ pub \in [prev: Source, carried: SUBSET Names]
    /\ batch \in [Runs -> [pc: {"none", "starting", "running", "indexed", "over"},
                           aborted: BOOLEAN, cancelled: BOOLEAN,
                           todo: SUBSET Users, entries: SUBSET Names,
                           results: [Users -> {"none", "ok", "failed"}]]]
    /\ started \in 0 .. MaxTime
    /\ stop \in [pc: {"no", "waiting", "released"}, run: Source]
    /\ runs \in Source
    /\ now \in 0 .. MaxTime

Init ==
    /\ StorageInit(Earlier)
    /\ saved = Fresh
    /\ proc = "down" /\ state = Fresh /\ active = 0 /\ fin = "idle" /\ outcome = "failed"
    /\ pub = NoPub /\ batch = [r \in Runs |-> NoBatch] /\ started = 0
    /\ stop = NoStop
    /\ runs = Earlier /\ now = 0

-----------------------------------------------------------------------------
(* Store *)

Close(attempts, r, how) ==
    [i \in DOMAIN attempts |->
        IF attempts[i].id = r /\ attempts[i].outcome = "none"
        THEN [attempts[i] EXCEPT !.outcome = how, !.finished = now]
        ELSE attempts[i]]

\* Mutant of Begun: the history is never trimmed.
BegunUntrimmed(s, r) ==
    LET new == [id |-> r, started |-> started, finished |-> 0, outcome |-> "none"]
    IN [s EXCEPT !.active = r, !.attempts = <<new>> \o @]

Begun(s, r) ==
    LET new  == [id |-> r, started |-> started, finished |-> 0, outcome |-> "none"]
        kept == AttemptsKept - 1
    IN [s EXCEPT !.active = r,
                 !.attempts = <<new>> \o (IF Len(@) > kept THEN SubSeq(@, 1, kept) ELSE @)]

\* #persist: state.json by temp file and rename.  Memory runs ahead of the disk
\* when the write fails; #finish goes on at next or at otherwise.
Persist(s, next, otherwise) ==
    /\ state' = s
    /\ \/ saved' = s /\ fin' = next
       \/ "persist" \in Faults /\ UNCHANGED saved /\ fin' = otherwise

HoursFor(how) ==
    CASE how \in {"success", "partial", "aborted", "none"} -> SuccessHours
      [] how = "failed" -> FailedHours
      [] how = "aborted-early" -> 0

\* cooldownInfo().canGenerate: measured from the last attempt's start.
CanGenerate ==
    state.attempts # <<>> =>
        LET last == Head(state.attempts) IN now >= last.started + HoursFor(last.outcome)

-----------------------------------------------------------------------------
(* Boot: Store.init *)

\* Read state.json; an active run recorded there died with its process.
Boot ==
    /\ proc = "down"
    /\ LET orphan == saved.active
           early  == \A i \in DOMAIN saved.attempts :
                        saved.attempts[i].id = orphan => now - saved.attempts[i].started < EarlyAbort
           how    == IF early THEN "aborted-early" ELSE "aborted"
       IN state' = [saved EXCEPT !.active = 0, !.attempts = Close(@, orphan, how)]
    /\ proc' = "reconcile"
    /\ UNCHANGED <<disk, saved, active, fin, outcome, pub, batch, started, stop, runs, now>>

\* Mutant of Reconcile: keeps what state.json says rather than what is linked.
ReconcileFromState ==
    /\ proc = "reconcile"
    /\ proc' = "prune"
    /\ UNCHANGED <<disk, saved, state, active, fin, outcome, pub, batch, started, stop, runs, now>>

\* Unlink a `current` that dangles or whose manifest never finished.
Reconcile ==
    /\ proc = "reconcile"
    /\ current' = IF Readable THEN Resolved ELSE 0
    /\ state' = [state EXCEPT !.current = current']
    /\ proc' = "prune"
    /\ UNCHANGED <<dirs, saved, active, fin, outcome, pub, batch, started, stop, runs, now>>

\* pruneRuns, in any order.
BootPrune ==
    /\ proc = "prune"
    /\ \/ \E r \in Existing \ {state.current} : RemoveStep(r) /\ UNCHANGED proc
       \/ Existing \subseteq {state.current} /\ proc' = "save" /\ UNCHANGED dirs
    /\ UNCHANGED <<current, saved, state, active, fin, outcome, pub, batch, started, stop, runs, now>>

BootSave ==
    /\ proc = "save"
    /\ saved' = state
    /\ proc' = "up"
    /\ UNCHANGED <<disk, state, active, fin, outcome, pub, batch, started, stop, runs, now>>

-----------------------------------------------------------------------------
(* RunManager: trigger, cancel, and the dev-only cooldown route *)

Start ==
    /\ runs' = runs + 1
    /\ active' = runs'
    /\ started' = now
    /\ batch' = [batch EXCEPT ![runs'].pc = "starting"]
    /\ fin' = "begin"
    /\ outcome' = "failed"
    /\ pub' = NoPub
    /\ UNCHANGED <<disk, saved, proc, state, stop, now>>

\* Mutant of Trigger: something is awaited between the check and the
\* assignment, so a second request gets in before the first has begun.
TriggerRacing ==
    /\ proc = "up" /\ runs < MaxRuns
    /\ active = 0 \/ fin = "begin"
    /\ CanGenerate
    /\ Start

\* Synchronous from the check to the assignment.
Trigger ==
    /\ proc = "up" /\ runs < MaxRuns
    /\ active = 0
    /\ CanGenerate
    /\ Start

Cancel ==
    /\ proc = "up" /\ active # 0
    /\ batch' = [batch EXCEPT ![active].aborted = TRUE]
    /\ UNCHANGED <<disk, saved, proc, state, active, fin, outcome, pub, started, stop, runs, now>>

ClearAttempts ==
    /\ Dev /\ proc = "up"
    /\ state' = [state EXCEPT !.attempts = <<>>, !.active = 0]
    /\ saved' = state'
    /\ UNCHANGED <<disk, proc, active, fin, outcome, pub, batch, started, stop, runs, now>>

-----------------------------------------------------------------------------
(* The batch: execute *)

Running == {r \in Runs : batch[r].pc \in {"starting", "running", "indexed"}}

\* The permutations a run may be left with: a selection, minus what a RESUME
\* need not do again.
Selections ==
    IF Subsets
    THEN {sel \ skipped : sel \in SUBSET Users \ {{}}, skipped \in {{}, Resumable}}
    ELSE {Users}

CreateStaging(r) ==
    /\ batch[r].pc = "starting"
    /\ CreateDir(r)
    /\ \E todo \in Selections :
          batch' = [batch EXCEPT ![r].pc = "running", ![r].todo = todo]
    /\ UNCHANGED <<current, saved, proc, state, active, fin, outcome, pub, started, stop, runs, now>>

\* runOne returns: see WorkerContract for the files it may leave.
WorkerDone(r, u) ==
    LET mine == {n \in Names : UserOf[n] = u} IN
    /\ batch[r].pc = "running" /\ u \in batch[r].todo /\ batch[r].results[u] = "none"
    /\ \E ok \in BOOLEAN, left \in SUBSET mine :
          /\ ok => left = mine
          /\ left # {} => dirs[r].exists
          /\ dirs' = [dirs EXCEPT ![r].data = [n \in Names |-> IF n \in left THEN r ELSE @[n]]]
          /\ batch' = [batch EXCEPT ![r].results[u] = IF ok THEN "ok" ELSE "failed"]
    /\ UNCHANGED <<current, saved, proc, state, active, fin, outcome, pub, started, stop, runs, now>>

\* Once every permutation has settled, or the pool has stopped admitting them.
Index(r) ==
    /\ batch[r].pc = "running"
    /\ batch[r].aborted \/ \A u \in batch[r].todo : batch[r].results[u] # "none"
    /\ batch' = [batch EXCEPT ![r].pc = "indexed",
                              ![r].entries = IF batch[r].aborted THEN {} ELSE Indexed(r)]
    /\ UNCHANGED <<disk, saved, proc, state, active, fin, outcome, pub, started, stop, runs, now>>

BatchOver(r) ==
    /\ batch[r].pc = "indexed"
    /\ batch' = [batch EXCEPT ![r].pc = "over", ![r].cancelled = batch[r].aborted]
    /\ UNCHANGED <<disk, saved, proc, state, active, fin, outcome, pub, started, stop, runs, now>>

-----------------------------------------------------------------------------
(* RunManager.#finish *)

At(step) == active # 0 /\ fin = step

BeginAttempt ==
    /\ At("begin")
    /\ Persist(Begun(state, active), "open", "failed")
    /\ UNCHANGED <<disk, proc, active, outcome, pub, batch, started, stop, runs, now>>

\* The first manifest, into a directory the batch makes on its own time.
WriteOpenManifest ==
    /\ At("open")
    /\ \/ dirs[active].exists /\ WriteManifest(active, OpenManifest) /\ fin' = "await"
       \/ "open" \in Faults /\ fin' = "failed" /\ UNCHANGED dirs
    /\ UNCHANGED <<current, saved, proc, state, active, outcome, pub, batch, started, stop, runs, now>>

Ok(b)     == {u \in Users : b.results[u] = "ok"}
Failed(b) == {u \in Users : b.results[u] = "failed"}

Classify(b) ==
    CASE b.cancelled -> "aborted"
      [] ~b.cancelled /\ Ok(b) = {} -> "failed"
      [] ~b.cancelled /\ Ok(b) # {} -> IF Failed(b) = {} THEN "success" ELSE "partial"

ShouldPublish(b) == ~b.cancelled /\ Ok(b) # {}

AwaitResult ==
    /\ proc = "up" /\ At("await") /\ batch[active].pc = "over"
    /\ outcome' = Classify(batch[active])
    /\ fin' = IF ShouldPublish(batch[active]) THEN "previous" ELSE "discard"
    /\ UNCHANGED <<disk, saved, proc, state, active, pub, batch, started, stop, runs, now>>

\* rm -rf rejects, with what it has not unlinked left behind: an unlink is refused, or
\* a batch still writes into the directory.
RmRejects(r) == "rm" \in Faults \/ batch[r].pc \in {"starting", "running"}

Discard ==
    /\ At("discard")
    /\ \/ active \in Existing /\ RemoveStep(active) /\ UNCHANGED fin
       \/ active \notin Existing /\ fin' = "end" /\ UNCHANGED dirs
       \/ RmRejects(active) /\ fin' = "failed" /\ UNCHANGED dirs
    /\ UNCHANGED <<current, saved, proc, state, active, outcome, pub, batch, started, stop, runs, now>>

\* Mutant of Fail: the outcome stays what the batch earned.
FailKeepingOutcome ==
    /\ proc = "up" /\ At("failed")
    /\ \/ active \in Existing /\ RemoveStep(active) /\ UNCHANGED fin
       \/ (active \notin Existing \/ RmRejects(active)) /\ fin' = "end" /\ UNCHANGED dirs
    /\ UNCHANGED <<current, saved, proc, state, active, outcome, pub, batch, started, stop, runs, now>>

\* The handler of #finish: the removal may fail too, and is then given up.
Fail ==
    /\ proc = "up" /\ At("failed")
    /\ outcome' = "failed"
    /\ \/ active \in Existing /\ RemoveStep(active) /\ UNCHANGED fin
       \/ (active \notin Existing \/ RmRejects(active)) /\ fin' = "end" /\ UNCHANGED dirs
    /\ UNCHANGED <<current, saved, proc, state, active, pub, batch, started, stop, runs, now>>

\* Mutant of EndAttempt: the error of the last write is not swallowed.
EndAttemptThrowing ==
    /\ At("end")
    /\ Persist([state EXCEPT !.active = 0, !.attempts = Close(@, active, outcome)],
               "release", "idle")
    /\ UNCHANGED <<disk, proc, active, outcome, pub, batch, started, stop, runs, now>>

EndAttempt ==
    /\ At("end")
    /\ Persist([state EXCEPT !.active = 0, !.attempts = Close(@, active, outcome)],
               "release", "release")
    /\ UNCHANGED <<disk, proc, active, outcome, pub, batch, started, stop, runs, now>>

\* #finish's locals, and a result nobody will read, are let go with the run.
Release ==
    /\ At("release")
    /\ active' = 0 /\ fin' = "idle" /\ outcome' = "failed" /\ pub' = NoPub /\ started' = 0
    /\ batch' = [batch EXCEPT ![active] = IF @.pc = "over" THEN NoBatch ELSE @]
    /\ UNCHANGED <<disk, saved, proc, state, stop, runs, now>>

-----------------------------------------------------------------------------
(* publishRun and setCurrent *)

ReadPrevious ==
    /\ At("previous")
    /\ pub' = [pub EXCEPT !.prev =
                  IF Resolved # 0 /\ dirs[Resolved].manifest.state # "none" THEN Resolved ELSE 0]
    /\ fin' = "carry"
    /\ UNCHANGED <<disk, saved, proc, state, active, outcome, batch, started, stop, runs, now>>

CarryForward ==
    /\ At("carry")
    /\ \E carried \in SUBSET Carried(pub.prev, batch[active].entries) :
          /\ "copy" \notin Faults => carried = Carried(pub.prev, batch[active].entries)
          /\ pub' = [pub EXCEPT !.carried = carried]
          /\ CopyInto(active, pub.prev, carried)
    /\ fin' = "manifest"
    /\ UNCHANGED <<current, saved, proc, state, active, outcome, batch, started, stop, runs, now>>

\* A step of publishRun that may fail leaves the rest to the handler in #finish.
Refused(kind) == kind \in Faults /\ fin' = "failed"

WriteFinalManifest ==
    /\ At("manifest")
    /\ \/ /\ LET b == batch[active] IN
             WriteManifest(active,
                [state   |-> "finished",
                 entries |-> MergedEntries(pub.prev, active, b.entries, pub.carried),
                 results |-> MergedResults(pub.prev, b.results, pub.carried)])
          /\ fin' = "promote"
       \/ Refused("publish") /\ UNCHANGED dirs
    /\ UNCHANGED <<current, saved, proc, state, active, outcome, pub, batch, started, stop, runs, now>>

\* Mutant of Promote: the old runs are removed before the link is replaced.
PromoteAfterPruning ==
    /\ At("promote")
    /\ \/ \E r \in Existing \ {active} : RemoveStep(r) /\ UNCHANGED <<current, fin>>
       \/ Existing \subseteq {active} /\ current' = active /\ fin' = "prune" /\ UNCHANGED dirs
    /\ UNCHANGED <<saved, proc, state, active, outcome, pub, batch, started, stop, runs, now>>

\* The link is replaced by a rename.
Promote ==
    /\ At("promote")
    /\ \/ current' = active /\ fin' = "prune"
       \/ Refused("publish") /\ UNCHANGED current
    /\ UNCHANGED <<dirs, saved, proc, state, active, outcome, pub, batch, started, stop, runs, now>>

\* pruneRuns, in any order.
Prune ==
    /\ At("prune")
    /\ \/ \E r \in Existing \ {active} : RemoveStep(r) /\ UNCHANGED fin
       \/ /\ Existing \subseteq {active} /\ UNCHANGED dirs
          /\ fin' = IF proc = "cli" THEN "done" ELSE "setCurrent"
       \/ (\E r \in Existing \ {active} : RmRejects(r)) /\ fin' = "failed" /\ UNCHANGED dirs
    /\ UNCHANGED <<current, saved, proc, state, active, outcome, pub, batch, started, stop, runs, now>>

SetCurrent ==
    /\ At("setCurrent")
    /\ Persist([state EXCEPT !.current = active], "end", "failed")
    /\ UNCHANGED <<disk, proc, active, outcome, pub, batch, started, stop, runs, now>>

-----------------------------------------------------------------------------
(* The process: killed, told to stop, or a `tcrs run` *)

\* Memory goes, the volume stays.
Die ==
    /\ proc' = "down" /\ state' = Fresh /\ active' = 0 /\ fin' = "idle"
    /\ outcome' = "failed" /\ pub' = NoPub /\ batch' = [r \in Runs |-> NoBatch]
    /\ started' = 0 /\ stop' = NoStop
    /\ UNCHANGED <<disk, saved, runs, now>>

\* SIGKILL, or a rejected init.
Crash == proc # "down" /\ Die

\* SIGTERM or SIGINT: the server stops listening (requests on the connections it
\* has are still served) and shutdown() cancels what is active.
Signal ==
    /\ Stops /\ proc = "up" /\ stop = NoStop
    /\ stop' = [pc |-> "waiting", run |-> active]
    /\ batch' = [r \in Runs |-> IF r = active THEN [batch[r] EXCEPT !.aborted = TRUE] ELSE batch[r]]
    /\ UNCHANGED <<disk, saved, proc, state, active, fin, outcome, pub, started, runs, now>>

\* Mutant of ReleaseLock: cancel() is not awaited.
ReleaseLockAtOnce ==
    /\ stop.pc = "waiting"
    /\ stop' = [stop EXCEPT !.pc = "released"]
    /\ UNCHANGED <<disk, saved, proc, state, active, fin, outcome, pub, batch, started, runs, now>>

\* cancel() resolves with the run's #finish, or after its grace.
ReleaseLock ==
    /\ stop.pc = "waiting"
    /\ stop.run = 0 \/ active # stop.run \/ "grace" \in Faults
    /\ stop' = [stop EXCEPT !.pc = "released"]
    /\ UNCHANGED <<disk, saved, proc, state, active, fin, outcome, pub, batch, started, runs, now>>

Exit == stop.pc = "released" /\ Die

\* runCommand, once it has the lock: nothing is recorded of its run.
CliStart ==
    /\ Modes # {} /\ proc = "down" /\ runs < MaxRuns
    /\ proc' = "cli"
    /\ runs' = runs + 1 /\ active' = runs'
    /\ batch' = [batch EXCEPT ![runs'].pc = "starting"]
    /\ fin' = "await"
    /\ UNCHANGED <<disk, saved, state, outcome, pub, started, stop, now>>

\* Ctrl-C, while the handlers that cancel are installed.
CliCancel ==
    /\ proc = "cli" /\ fin = "await"
    /\ batch' = [batch EXCEPT ![active].aborted = TRUE]
    /\ UNCHANGED <<disk, saved, proc, state, active, fin, outcome, pub, started, stop, runs, now>>

ShouldPromote(mode, b) ==
    \/ mode = "always"
    \/ mode # "never" /\ ~b.cancelled /\ Ok(b) # {}

\* A run that is not promoted leaves its directory behind.
CliResult ==
    /\ proc = "cli" /\ At("await") /\ batch[active].pc = "over"
    /\ \E mode \in Modes :
          fin' = IF ShouldPromote(mode, batch[active]) THEN "previous" ELSE "done"
    /\ UNCHANGED <<disk, saved, proc, state, active, outcome, pub, batch, started, stop, runs, now>>

\* The lock is released in a finally, whatever was thrown.
CliExit == proc = "cli" /\ fin \in {"done", "failed"} /\ Die

-----------------------------------------------------------------------------
(* The clock *)

Tick ==
    /\ now < MaxTime
    /\ now' = now + 1
    /\ UNCHANGED <<disk, saved, memory, runs>>

Finish == \/ BeginAttempt \/ WriteOpenManifest \/ AwaitResult \/ Discard \/ Fail
          \/ EndAttempt \/ Release
          \/ CliResult \/ CliExit
          \/ ReadPrevious \/ CarryForward \/ WriteFinalManifest \/ Promote \/ Prune \/ SetCurrent

Execute(r) == \/ CreateStaging(r) \/ Index(r) \/ BatchOver(r)
              \/ \E u \in Users : WorkerDone(r, u)

Next == \/ Boot \/ Reconcile \/ BootPrune \/ BootSave
        \/ Trigger \/ Cancel \/ ClearAttempts
        \/ \E r \in Runs : Execute(r)
        \/ Finish
        \/ Signal \/ ReleaseLock \/ Exit \/ CliStart \/ CliCancel
        \/ Crash \/ Tick

Spec == Init /\ [][Next]_vars

\* Timers and callbacks run; runOne returns (ReturnsUnlessHeld in RunOne).
FairSpec == Spec /\ WF_vars(Finish) /\ \A r \in Runs : WF_vars(Execute(r))
-----------------------------------------------------------------------------
(* Properties *)

\* A batch that is still doing anything is the one the single-flight lock
\* names (run-manager.server.ts:2, "at most one run, ever"): #finish lets the
\* lock go only when the batch it stands for is over.
AtMostOneBatch == Running \subseteq {active}

\* A manifest entry on offer never describes another file than the one behind it: that
\* file is there or none is, even in a directory that was removed by half
\* (writeManifest last, carried entries keeping their sourceRunId).
NeverMislabelled ==
    Readable => \A n \in Names : LET d == dirs[Resolved] IN
                    d.manifest.entries[n] # 0 => d.data[n] \in {0, d.manifest.entries[n]}

\* Every manifest entry on offer is backed by the very file it describes, with
\* the id of the run that introspected it, whatever was carried forward and
\* wherever the process was killed.
HonestEntries ==
    Readable => \A n \in Names : LET d == dirs[Resolved] IN
                    d.manifest.entries[n] # 0 => d.manifest.entries[n] = d.data[n]

\* A permutation whose result says ok has all its files on offer and all of
\* them from one run, so --resume may skip it (resumableUsers).
OkIsWhole ==
    Readable => \A u \in Users :
        LET d == dirs[Resolved] IN
        d.manifest.results[u] = "ok" =>
            \E r \in Runs : \A n \in Names : UserOf[n] = u => d.manifest.entries[n] = r

\* Between runs memory, state.json and the volume agree: no run is recorded as
\* active, the recorded dataset is the linked one, and nothing else is left of
\* any run (#finish's finally, and Store.init after a kill).
AtRestAgree ==
    proc = "up" /\ active = 0 =>
        /\ saved = state
        /\ state.active = 0
        /\ state.current = current
        /\ Existing \subseteq {current}
        /\ \A i \in DOMAIN state.attempts : state.attempts[i].outcome # "none"

\* An attempt the history calls a success or a partial is on offer, unless a
\* newer run has replaced it.
SuccessIsPublished ==
    \A i \in DOMAIN saved.attempts :
        saved.attempts[i].outcome \in {"success", "partial"} =>
            Readable /\ Resolved >= saved.attempts[i].id

\* When a shutdown lets the data-dir lock go, the run it interrupted is over and
\* recorded as ended: the next process finds neither a batch beside its own nor
\* an attempt to write off (server.ts:65-70, "A run needs up to ~45s to abort
\* cleanly and record itself").
StopIsClean ==
    stop.pc = "released" /\ stop.run # 0 =>
        /\ stop.run \notin Running
        /\ saved.active # stop.run
        /\ \A i \in DOMAIN saved.attempts :
              saved.attempts[i].id = stop.run => saved.attempts[i].outcome # "none"

\* A file once on offer stays on offer: "Coverage therefore cannot regress"
\* (run-manager.server.ts:368).
CoverageNeverRegresses ==
    [][\A n \in Names : Published[n] # 0 => Published'[n] # 0]_<<dirs, current>>

\* Every run that starts ends, and lets the lock go: no cancel, failure to
\* publish or early end of the batch leaves the site unable to generate.
RunEnds == \A r \in Runs : active = r ~> active # r

\* A consumer never sees a mixture: the dataset changes only by publication.
Public == INSTANCE Dataset WITH published <- Published
ImplementsDataset == Public!Spec
=============================================================================
