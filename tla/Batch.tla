------------------------------- MODULE Batch -------------------------------
(***************************************************************************)
(* execute(), runBatch.server.ts: what is skipped on --resume, the warm-up *)
(* (warmup.server.ts), the pool of workers, the index and the result, with *)
(* the process they run in and the reaper of its JVMs (reaper.server.ts).  *)
(*                                                                         *)
(* A worker is what WorkerContract promises of runOne.  The process groups *)
(* of the JVMs are external.                                               *)
(***************************************************************************)
EXTENDS Naturals, Sequences, FiniteSets

CONSTANTS
    Size,         \* permutations selected, 1 .. Size in list order
    Limit,        \* cfg.concurrency
    MaxAttempts,  \* cfg.maxAttempts
    SkipWarmup,   \* cfg.skipWarmup
    Faults        \* what may fail, of FaultKinds

FaultKinds == {"staging",   \* createStaging rejects
               "template",  \* wiping or making the template directory rejects
               "seed",      \* a work directory cannot be made
               "spawn",     \* no process for a JVM
               "index",     \* indexFiles rejects
               "uncaught"}  \* an exception nobody catches

ASSUME BatchAssumption ==
    /\ {Size, Limit} \subseteq Nat /\ MaxAttempts \in Nat \ {0}
    /\ SkipWarmup \in BOOLEAN /\ Faults \subseteq FaultKinds

VARIABLES
    pc,         \* where execute() is
    aborted,    \* the run's AbortSignal
    todo,       \* what is left of the selection, in its order
    next,       \* the pool's i: how many of todo were admitted
    slot,       \* worker of the pool -> what it is at
    results,    \* permutation -> its result
    row,        \* permutation -> PermStatus.kind; an attempt's phases stay "login"
    indexed,    \* entries is the index of the staging directory, not []
    said,       \* the last batch:end
    cancelled,  \* BatchResult.cancelled
    template,   \* the template directory's contents
    seeding,    \* templateDir # null
    warm,       \* the warm-up's exit code is 0, its timeout has not fired
    jvms,       \* process groups alive: permutations, and WarmUp (external)
    live,       \* the reaper's process groups
    reaping,    \* reapAll's timer is armed
    signalled,  \* the process was told to end
    proc        \* "up", or "gone" after its exit handlers

execution == <<pc, todo, indexed, said, cancelled>>
pool      == <<next, slot, results, row>>
warmup    == <<template, seeding, warm>>
reaper    == <<live, reaping>>
process   == <<signalled, proc>>
vars      == <<execution, aborted, pool, warmup, jvms, reaper, process>>

Perms   == 1 .. Size
WarmUp  == 0
Workers == Perms
Free    == [at |-> "free", perm |-> 0, tries |-> 0]
Over    == [at |-> "over", perm |-> 0, tries |-> 0]
Unsaid  == [ok |-> 0, failed |-> 0, skipped |-> 0, cancelled |-> FALSE]

\* The reducer: the status an event gives its row, whatever it was before.
Apply == [queued  |-> "queued", skipped   |-> "skipped",  attempt |-> "login",
          done    |-> "done",   retryWait |-> "retrying", failed  |-> "failed"]

InitialRunState == [p \in Perms |-> "queued"]

\* The summary every view shows, counted from the rows.
Recount ==
    LET count(kinds) == Cardinality({p \in Perms : row[p] \in kinds}) IN
    [done   |-> count({"done"}),   running |-> count({"login", "retrying"}),
     failed |-> count({"failed"}), queued  |-> count({"queued"}), skipped |-> count({"skipped"})]

TypeOK ==
    /\ pc \in {"staging", "resume", "jar", "warmup", "wiping", "warming", "fan", "pool",
               "index", "end", "closing", "over", "rejected"}
    /\ {aborted, indexed, cancelled, seeding, warm, reaping, signalled} \subseteq BOOLEAN
    /\ said \in [ok: 0 .. Size, failed: 0 .. Size, skipped: 0 .. Size, cancelled: BOOLEAN]
    /\ todo \in Seq(Perms) /\ next \in 0 .. Len(todo)
    /\ slot \in [Workers -> [at: {"free", "loop", "seeding", "running", "closed", "over"},
                             perm: 0 .. Size, tries: 0 .. MaxAttempts]]
    /\ results \in [Perms -> {"none", "ok", "failed"}]
    /\ row \in [Perms -> {"queued", "skipped", "login", "retrying", "done", "failed"}]
    /\ template \in {"empty", "torn", "whole"}
    /\ jvms \subseteq Perms \cup {WarmUp} /\ live \subseteq Perms
    /\ proc \in {"up", "gone"}

Init ==
    /\ pc = "staging" /\ aborted = FALSE /\ todo = <<>> /\ indexed = FALSE
    /\ said = Unsaid /\ cancelled = FALSE
    /\ next = 0 /\ slot = [w \in Workers |-> Over]
    /\ results = [p \in Perms |-> "none"] /\ row = InitialRunState
    /\ template \in {"empty", "torn", "whole"} /\ seeding = FALSE /\ warm = FALSE
    /\ jvms = {} /\ live = {} /\ reaping = FALSE /\ signalled = FALSE /\ proc = "up"

At(step) == proc = "up" /\ pc = step

-----------------------------------------------------------------------------
(* Before the pool *)

Rejects(step, kind) ==
    /\ At(step) /\ kind \in Faults
    /\ pc' = "rejected"
    /\ UNCHANGED <<todo, indexed, said, cancelled, aborted, pool, warmup, jvms, reaper, process>>

CreateStaging ==
    /\ At("staging")
    /\ pc' = "resume"
    /\ UNCHANGED <<todo, indexed, said, cancelled, aborted, pool, warmup, jvms, reaper, process>>

\* The published manifest: how many of its files it lists, and its result.
Manifests == [Perms -> [files: {0, 2, 3}, ok: BOOLEAN]]

\* resumableUsers: all three files listed, and a result that says ok.
Resumable(manifest) == {p \in Perms : manifest[p].files = 3 /\ manifest[p].ok}

\* The selection in its order, without those skipped.
SelectedBut(skipped) ==
    LET upTo[n \in 0 .. Size] ==
            IF n = 0 THEN <<>>
            ELSE IF n \in skipped THEN upTo[n - 1] ELSE Append(upTo[n - 1], n)
    IN  upTo[Size]

\* Without --resume, or without a manifest, nothing is skipped.
Resume ==
    /\ At("resume")
    /\ \E manifest \in Manifests :
          /\ todo' = SelectedBut(Resumable(manifest))
          /\ row' = [p \in Perms |-> IF p \in Resumable(manifest) THEN Apply.skipped ELSE Apply.queued]
    /\ pc' = "jar"
    /\ UNCHANGED <<indexed, said, cancelled, aborted, next, slot, results, warmup, jvms, reaper, process>>

\* refreshJar and the probe for the command: best effort, nothing depends on them.
FindJar ==
    /\ At("jar")
    /\ pc' = "warmup"
    /\ UNCHANGED <<todo, indexed, said, cancelled, aborted, pool, warmup, jvms, reaper, process>>

SkipWarmUp ==
    /\ At("warmup") /\ (SkipWarmup \/ todo = <<>> \/ aborted)
    /\ pc' = "fan"
    /\ UNCHANGED <<todo, indexed, said, cancelled, aborted, pool, warmup, jvms, reaper, process>>

WarmUpBegin ==
    /\ At("warmup") /\ ~SkipWarmup /\ todo # <<>> /\ ~aborted
    /\ pc' = "wiping"
    /\ template' = "empty"
    /\ UNCHANGED <<todo, indexed, said, cancelled, aborted, pool, seeding, warm, jvms, reaper, process>>

\* Mutant of WarmUpSpawn: the signal is not looked at again.
WarmUpSpawnUnchecked ==
    /\ At("wiping")
    /\ jvms' = jvms \cup {WarmUp}
    /\ warm' = TRUE
    /\ pc' = "warming"
    /\ UNCHANGED <<todo, indexed, said, cancelled, aborted, pool, template, seeding, reaper, process>>

\* The second look at the signal, after the wipe; a spawn that fails is a
\* close with another code than 0.
WarmUpSpawn ==
    /\ At("wiping")
    /\ \/ aborted  /\ pc' = "fan" /\ UNCHANGED <<jvms, warm>>
       \/ ~aborted /\ pc' = "warming" /\ warm' = TRUE /\ jvms' = jvms \cup {WarmUp}
       \/ ~aborted /\ pc' = "warming" /\ "spawn" \in Faults /\ UNCHANGED <<jvms, warm>>
    /\ UNCHANGED <<todo, indexed, said, cancelled, aborted, pool, template, seeding, reaper, process>>

WarmUpTimeout ==
    /\ At("warming") /\ warm
    /\ warm' = FALSE
    /\ jvms' = jvms \ {WarmUp}
    /\ template' = IF WarmUp \in jvms THEN "torn" ELSE template
    /\ UNCHANGED <<execution, aborted, pool, seeding, reaper, process>>

\* Mutant of WarmUpClose: whatever the JVM left behind is a template.
WarmUpCloseTrusting ==
    /\ At("warming") /\ WarmUp \notin jvms
    /\ seeding' = TRUE
    /\ pc' = "fan"
    /\ UNCHANGED <<todo, indexed, said, cancelled, aborted, pool, template, warm, jvms, reaper, process>>

WarmUpClose ==
    /\ At("warming") /\ WarmUp \notin jvms
    /\ seeding' = (warm /\ ~aborted)
    /\ pc' = "fan"
    /\ UNCHANGED <<todo, indexed, said, cancelled, aborted, pool, template, warm, jvms, reaper, process>>

-----------------------------------------------------------------------------
(* The pool *)

AtLeast(a, b) == IF a > b THEN a ELSE b
AtMost(a, b)  == IF a < b THEN a ELSE b

Width == AtLeast(1, AtMost(Limit, Len(todo)))

Fan ==
    /\ At("fan")
    /\ pc' = "pool"
    /\ slot' = [w \in Workers |-> IF w <= Width THEN Free ELSE Over]
    /\ UNCHANGED <<todo, indexed, said, cancelled, aborted, next, results, row, warmup, jvms, reaper, process>>

Admit(w) ==
    /\ At("pool") /\ slot[w].at = "free" /\ ~aborted /\ next < Len(todo)
    /\ next' = next + 1
    /\ slot' = [slot EXCEPT ![w] = [at |-> "loop", perm |-> todo[next'], tries |-> 0]]
    /\ UNCHANGED <<execution, aborted, results, row, warmup, jvms, reaper, process>>

\* Mutant of Retire: the loop ends one short of the list.
RetireOneShort(w) ==
    /\ At("pool") /\ slot[w].at = "free" /\ (aborted \/ next + 1 >= Len(todo))
    /\ slot' = [slot EXCEPT ![w] = Over]
    /\ UNCHANGED <<execution, aborted, next, results, row, warmup, jvms, reaper, process>>

\* Mutant of Retire: i is counted up before it is compared.
RetireCounting(w) ==
    /\ At("pool") /\ slot[w].at = "free" /\ (aborted \/ next = Len(todo))
    /\ next' = next + 1
    /\ slot' = [slot EXCEPT ![w] = Over]
    /\ UNCHANGED <<execution, aborted, results, row, warmup, jvms, reaper, process>>

\* Mutant of Retire: a worker leaves when the list is through, and only then.
RetireExhausted(w) ==
    /\ At("pool") /\ slot[w].at = "free" /\ next = Len(todo)
    /\ slot' = [slot EXCEPT ![w] = Over]
    /\ UNCHANGED <<execution, aborted, next, results, row, warmup, jvms, reaper, process>>

\* Through the list, or told to stop admitting.
Retire(w) ==
    /\ At("pool") /\ slot[w].at = "free" /\ (aborted \/ next = Len(todo))
    /\ slot' = [slot EXCEPT ![w] = Over]
    /\ UNCHANGED <<execution, aborted, next, results, row, warmup, jvms, reaper, process>>

Working(w, at) == At("pool") /\ slot[w].at = at

\* runOne's loop: perm:attempt, then the work directory from the template.
Try(w) ==
    /\ Working(w, "loop") /\ ~aborted /\ slot[w].tries < MaxAttempts
    /\ slot' = [slot EXCEPT ![w].at = "seeding", ![w].tries = @ + 1]
    /\ row' = [row EXCEPT ![slot[w].perm] = Apply.attempt]
    /\ UNCHANGED <<execution, aborted, next, results, warmup, jvms, reaper, process>>

\* perm:spawned and track(), or no pid and an error event.
Launch(w) ==
    /\ Working(w, "seeding") /\ ~aborted
    /\ slot' = [slot EXCEPT ![w].at = "running"]
    /\ \/ /\ jvms' = jvms \cup {slot[w].perm}
          /\ live' = live \cup {slot[w].perm}
       \/ /\ "spawn" \in Faults
          /\ UNCHANGED <<jvms, live>>
    /\ UNCHANGED <<execution, aborted, next, results, row, warmup, reaping, process>>

\* perm:exited and untrack(): 'close' comes when the JVM is dead.
Close(w) ==
    /\ Working(w, "running") /\ slot[w].perm \notin jvms
    /\ slot' = [slot EXCEPT ![w].at = "closed"]
    /\ live' = live \ {slot[w].perm}
    /\ UNCHANGED <<execution, aborted, next, results, row, warmup, jvms, reaping, process>>

RetryWait(w) ==
    /\ Working(w, "closed") /\ slot[w].tries < MaxAttempts
    /\ slot' = [slot EXCEPT ![w].at = "loop"]
    /\ row' = [row EXCEPT ![slot[w].perm] = Apply.retryWait]
    /\ UNCHANGED <<execution, aborted, next, results, warmup, jvms, reaper, process>>

Settle(w, result, status) ==
    /\ slot' = [slot EXCEPT ![w] = Free]
    /\ results' = [results EXCEPT ![slot[w].perm] = result]
    /\ row' = [row EXCEPT ![slot[w].perm] = status]
    /\ UNCHANGED <<execution, aborted, next, warmup, jvms, reaper, process>>

\* What runOne returns, or the failure the batch makes of a throw; a cancelled
\* worker and one without a work directory leave their row as it is.
WorkerDone(w) ==
    \/ Working(w, "closed") /\ Settle(w, "ok", Apply.done)
    \/ Working(w, "closed") /\ Settle(w, "failed", Apply.failed)
    \/ Working(w, "seeding") /\ "seed" \in Faults /\ Settle(w, "failed", row[slot[w].perm])
    \/ /\ slot[w].at \in {"loop", "seeding", "closed"} /\ Working(w, slot[w].at) /\ aborted
       /\ Settle(w, "failed", row[slot[w].perm])

-----------------------------------------------------------------------------
(* After the pool *)

Join ==
    /\ At("pool") /\ \A w \in Workers : slot[w].at = "over"
    /\ pc' = "index"
    /\ UNCHANGED <<todo, indexed, said, cancelled, aborted, pool, warmup, jvms, reaper, process>>

\* entries: nothing when cancelled, and else an index that takes its time.
Index ==
    /\ At("index")
    /\ indexed' = ~aborted
    /\ pc' = "end"
    /\ UNCHANGED <<todo, said, cancelled, aborted, pool, warmup, jvms, reaper, process>>

\* batch:end, with the counts of the results; then the log is closed.
BatchEnd ==
    /\ At("end")
    /\ said' = [ok        |-> Cardinality({p \in Perms : results[p] = "ok"}),
                failed    |-> Cardinality({p \in Perms : results[p] = "failed"}),
                skipped   |-> Size - Len(todo),
                cancelled |-> aborted]
    /\ pc' = "closing"
    /\ UNCHANGED <<todo, indexed, cancelled, aborted, pool, warmup, jvms, reaper, process>>

\* Mutant of Return: a cancel that stopped no permutation is not counted.
ReturnByProgress ==
    /\ At("closing")
    /\ cancelled' = (aborted /\ next < Len(todo))
    /\ pc' = "over"
    /\ UNCHANGED <<todo, indexed, said, aborted, pool, warmup, jvms, reaper, process>>

\* The signal is read once more for the result.
Return ==
    /\ At("closing")
    /\ cancelled' = aborted
    /\ pc' = "over"
    /\ UNCHANGED <<todo, indexed, said, aborted, pool, warmup, jvms, reaper, process>>

-----------------------------------------------------------------------------
(* The process and its JVMs *)

\* handle.cancel(): the warm-up is killed, a worker's JVM is sent a SIGTERM.
Abort ==
    /\ proc = "up" /\ ~aborted
    /\ aborted' = TRUE
    /\ jvms' = jvms \ {WarmUp}
    /\ template' = IF WarmUp \in jvms THEN "torn" ELSE template

Cancel ==
    /\ Abort
    /\ UNCHANGED <<execution, pool, seeding, warm, reaper, process>>

\* Mutant of Signal: the reaper forgets its groups as soon as it has asked them.
SignalForgetful ==
    /\ proc = "up" /\ ~signalled
    /\ signalled' = TRUE
    /\ Abort \/ (aborted /\ UNCHANGED <<aborted, jvms, template>>)
    /\ live' = {}
    /\ reaping' = (live # {})
    /\ UNCHANGED <<execution, pool, seeding, warm, proc>>

\* SIGTERM or SIGINT: the run is cancelled, and reapAll asks every group to end.
Signal ==
    /\ proc = "up" /\ ~signalled
    /\ signalled' = TRUE
    /\ Abort \/ (aborted /\ UNCHANGED <<aborted, jvms, template>>)
    /\ reaping' = (live # {})
    /\ UNCHANGED <<execution, pool, seeding, warm, live, proc>>

\* reapAll's timer: SIGKILL for whatever is left.
Reap ==
    /\ proc = "up" /\ reaping
    /\ jvms' = jvms \ live
    /\ live' = {}
    /\ reaping' = FALSE
    /\ UNCHANGED <<execution, aborted, pool, warmup, process>>

\* The process ends when the batch is over, when its grace is, or on an
\* exception; the handlers of the reaper kill what it tracks.
ProcessExit ==
    /\ proc = "up"
    /\ pc \in {"over", "rejected"} \/ signalled \/ "uncaught" \in Faults
    /\ proc' = "gone"
    /\ jvms' = jvms \ live
    /\ live' = {}
    /\ UNCHANGED <<execution, aborted, pool, warmup, reaping, signalled>>

\* A JVM ends by itself, of a SIGTERM or of the SIGKILL that follows it.
JvmEnds(p) ==
    /\ p \in jvms \ {WarmUp}
    /\ jvms' = jvms \ {p}
    /\ UNCHANGED <<execution, aborted, pool, warmup, reaper, process>>

\* The warm-up's JVM has quit, with code 0 once its data is there.
WarmUpEnds ==
    /\ WarmUp \in jvms
    /\ jvms' = jvms \ {WarmUp}
    /\ \/ template' = "whole" /\ UNCHANGED warm
       \/ template' = "torn" /\ warm' = FALSE
    /\ UNCHANGED <<execution, aborted, pool, seeding, reaper, process>>

-----------------------------------------------------------------------------

Worker(w) == Admit(w) \/ Retire(w) \/ Try(w) \/ Launch(w) \/ Close(w) \/ RetryWait(w) \/ WorkerDone(w)

Execute ==
    \/ CreateStaging \/ Resume \/ FindJar
    \/ SkipWarmUp \/ WarmUpBegin \/ WarmUpSpawn \/ WarmUpClose
    \/ Fan \/ Join \/ Index \/ BatchEnd \/ Return

Next ==
    \/ CreateStaging \/ Resume \/ FindJar
    \/ SkipWarmUp \/ WarmUpBegin \/ WarmUpSpawn \/ WarmUpTimeout \/ WarmUpClose
    \/ Fan \/ Join \/ Index \/ BatchEnd \/ Return
    \/ Rejects("staging", "staging") \/ Rejects("wiping", "template") \/ Rejects("index", "index")
    \/ \E w \in Workers : Worker(w)
    \/ Cancel \/ Signal \/ Reap \/ ProcessExit
    \/ \E p \in Perms : JvmEnds(p)
    \/ WarmUpEnds

Spec == Init /\ [][Next]_vars

\* Promises that are kept resolve: execute and its workers go on.  A JVM ends
\* at the latest by its worker's hard timeout, the warm-up's by its own.
Fairness ==
    /\ WF_vars(Execute) /\ WF_vars(WarmUpTimeout)
    /\ \A w \in Workers : WF_vars(Worker(w))
    /\ \A p \in Perms : WF_vars(JvmEnds(p))

FairSpec == Spec /\ Fairness
-----------------------------------------------------------------------------
(* Properties *)

\* No JVM is launched for a run that was told to stop, neither by the warm-up
\* after its slow wipe nor by a worker after its slow seeding
\* (warmup.server.ts:36-39, runBatch.server.ts:450-452).
NeverLaunchesAborted == [][aborted => jvms' \subseteq jvms]_vars

\* No permutation gets a work directory made of half a warm-up
\* (runBatch.server.ts:275-293).
NoTornTemplate == seeding => template = "whole"

\* A batch that was not cancelled accounts for every permutation exactly once,
\* and what batch:end counts from the results is what the views count from the
\* rows; only a permutation without a work directory is failed there and for
\* ever running here (runBatch.server.ts:382-418, state.ts:133-137).
Accounted ==
    pc \in {"closing", "over"} /\ ~said.cancelled =>
        /\ \A p \in Perms : /\ results[p] = "none" <=> row[p] = "skipped"
                            /\ results[p] = "ok" <=> row[p] = "done"
        /\ Recount.queued = 0 /\ said.skipped = Recount.skipped
        /\ said.ok = Recount.done /\ said.failed = Recount.failed + Recount.running
        /\ Recount.running > 0 => "seed" \in Faults

\* The signal is read three times at the end; only a result that says cancelled
\* may come without the index of what the batch produced, for any other one is
\* published (runBatch.server.ts:382-418, run-manager.server.ts:372-375).
UncancelledIsIndexed == pc = "over" /\ ~cancelled => indexed /\ ~said.cancelled

\* A process that ends by its own exit handlers leaves no JVM behind, and one
\* that was told to end leaves not even the warm-up's, which no handler knows
\* (reaper.server.ts:4-13).
NothingOrphaned ==
    proc = "gone" => /\ jvms \subseteq {WarmUp}
                     /\ signalled => jvms = {}

\* A batch ends, cancelled or not: no worker waits for what never comes.
BatchEnds == <>(pc \in {"over", "rejected"} \/ proc = "gone")
=============================================================================
