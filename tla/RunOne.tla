------------------------------- MODULE RunOne -------------------------------
(***************************************************************************)
(* The per-permutation worker of src/src/core/runOne.server.ts: one        *)
(* KoLmafia JVM at a time, run to its end or to a watchdog, its output     *)
(* collected, judged, and retried or given up.                             *)
(*                                                                         *)
(* Four parties interleave: the worker's async function (pc), the          *)
(* callbacks Node runs while it awaits the child (lines read, watchdog     *)
(* timers, the abort listener), the operator who aborts, and the JVM       *)
(* process group, which writes, hangs, bails out or dies when it likes.    *)
(* The permutation's row of RunState (src/src/core/state.ts) is folded     *)
(* synchronously by every emit, so it changes in the emitting step.        *)
(***************************************************************************)
EXTENDS Integers, Sequences, FiniteSets

CONSTANTS
    MaxAttempts,  \* RunOneOptions.maxAttempts
    Total,        \* items one introspect walks over (12070 in production)
    Step,         \* mafia announces every Step-th item (100 in production)
    Tolerance,    \* completeTolerance (150 in production)
    PipeBound,    \* lines the stdio pipes hold before the JVM blocks
    StallWatch,   \* stallTimeoutMs is set
    Descendants,  \* the JVM may fork a child that keeps its stdio open
    Faults        \* what the file system and spawn may refuse

FaultKinds == {"seed", "spawn", "copy", "unlink", "rmdir"}

ASSUME AttemptsAssumption == MaxAttempts \in Nat \ {0}
ASSUME ItemsAssumption ==
    /\ Total \in Nat \ {0} /\ Step \in Nat \ {0} /\ PipeBound \in Nat \ {0}
    /\ Tolerance \in 0 .. Total - 1
ASSUME SwitchAssumption ==
    StallWatch \in BOOLEAN /\ Descendants \in BOOLEAN /\ Faults \subseteq FaultKinds

\* Progress: lines appear for item 1, 1 + Step, 1 + 2 * Step, ...
Announced(n) == n % Step = 1 % Step

\* The tolerance exceeds the announce step (the parser.ts comment's condition):
\* the last announced item lies within it.
ASSUME ToleranceAssumption ==
    \E n \in (Total - Tolerance) .. Total : n > 0 /\ Announced(n)

VARIABLES
    pc,       \* where the async function is
    attempt,  \* attempts begun
    aborted,  \* signal.aborted
    tracker,  \* the attempt's IntrospectTracker
    outcome,  \* runAttempt's outcome, "none" while null
    reason,   \* the reason variable of runOne, "none" while undefined
    copied,   \* files the last collect copied
    result,   \* what runOne returned
    row,      \* the permutation's PermStatus.kind
    timers,   \* armed timers: "login", "hard" and kill()'s "grace"
    jvm,      \* the process group (external)
    pipe,     \* lines written and not yet read (external)
    disk,     \* the three output files in the work dir
    staged    \* the three output files in the staging dir

control == <<pc, attempt, reason, copied, result>>
process == <<jvm, pipe>>
files   == <<disk, staged>>
vars    == <<pc, attempt, aborted, tracker, outcome, reason, copied, result,
             row, timers, jvm, pipe, disk, staged>>

-----------------------------------------------------------------------------
(* Data *)

Files   == 1 .. 3    \* Permutation.files, in the order mafia saves them

\* classifyLine's kinds that change anything; done is the count of a Progress: line.
Lines == [kind: {"transient", "notInTcrs", "items", "cafe", "progress"}, done: 0 .. Total]
Line(kind)     == [kind |-> kind, done |-> 0]
Progress(done) == [kind |-> "progress", done |-> done]

Outcomes == {"exited", "transient", "loginTimeout", "hardTimeout",
             "stallTimeout", "cancelled"}
Reasons  == {"login", "incomplete", "timeout", "stalled", "not-in-tcrs",
             "no-files", "spawn", "cancelled"}
Rows     == {"queued", "login", "stalled", "introspecting", "retrying",
             "done", "failed"}

\* What a file holds: nothing on disk, zero bytes, an unfinished write, the
\* output of an introspect that bailed, the output of one that did not.
Contents == {"absent", "empty", "torn", "short", "whole"}
NoFiles  == [f \in Files |-> "absent"]
Pending  == [ok |-> FALSE, reason |-> "none"]

FreshTracker == [phase |-> "none", items |-> 0, started |-> FALSE,
                 sawTransient |-> FALSE, notInTcrs |-> FALSE]

\* itemsProgress null is items = 0, which no Progress: line reports.
IsIntrospectComplete(t) == t.items > 0 /\ t.items >= Total - Tolerance

JvmAlive == jvm.leader \notin {"none", "dead"}

TypeOK ==
    /\ pc \in {"loop", "seeding", "seeded", "attempt", "collect", "finish",
               "judge", "backoff", "returned"}
    /\ attempt \in 0 .. MaxAttempts
    /\ aborted \in BOOLEAN
    /\ tracker \in [phase: {"none", "items", "cafe"}, items: 0 .. Total,
                    started: BOOLEAN, sawTransient: BOOLEAN, notInTcrs: BOOLEAN]
    /\ outcome \in Outcomes \cup {"none"}
    /\ reason \in Reasons \cup {"none"}
    /\ copied \in 0 .. 3
    /\ result \in [ok: BOOLEAN, reason: Reasons \cup {"none"}]
    /\ row \in Rows
    /\ timers \subseteq {"login", "hard", "grace"}
    /\ jvm \in [leader: {"none", "login", "leaving", "items", "cafe", "dead"},
                items: 0 .. Total, child: BOOLEAN]
    /\ pipe \in Seq(Lines)
    /\ disk \in [Files -> Contents]
    /\ staged \in [Files -> Contents]

Init ==
    /\ pc = "loop" /\ attempt = 0 /\ aborted \in BOOLEAN
    /\ tracker = FreshTracker /\ outcome = "none" /\ reason = "none"
    /\ copied = 0 /\ result = Pending /\ row = "queued" /\ timers = {}
    /\ jvm = [leader |-> "none", items |-> 0, child |-> FALSE]
    /\ pipe = <<>>
    /\ disk = NoFiles /\ staged = NoFiles

-----------------------------------------------------------------------------
(* The attempt loop *)

Return(ok, why) ==
    /\ pc' = "returned"
    /\ result' = [ok |-> ok, reason |-> why]

\* The top-of-loop check of the signal.
GiveUpBeforeAttempt ==
    /\ pc = "loop" /\ aborted
    /\ Return(FALSE, "cancelled")
    /\ UNCHANGED <<attempt, aborted, tracker, outcome, reason, copied, row, timers, process, files>>

\* Mutant of BeginAttempt: reason survives from the attempt before.
BeginAttemptKeepingReason ==
    /\ pc = "loop" /\ ~aborted
    /\ attempt' = attempt + 1
    /\ row' = "login"
    /\ pc' = "seeding"
    /\ UNCHANGED <<aborted, tracker, outcome, reason, copied, result, timers, process, files>>

\* The loop's own test of attempt never fails here: only a retry comes back.
BeginAttempt ==
    /\ pc = "loop" /\ ~aborted
    /\ attempt' = attempt + 1
    /\ reason' = "none"
    /\ row' = "login"
    /\ pc' = "seeding"
    /\ UNCHANGED <<aborted, tracker, outcome, copied, result, timers, process, files>>

\* seedWorkdir: rm -rf and cp -r of the template, minus its data directory.  A copy that
\* fails is warned of only, and returns before that directory is removed; no output lies
\* in it, for the warm-up, which never logs in, derives nothing.
\* A refusal returns without an event that would settle the row.
Seed ==
    /\ pc = "seeding"
    /\ \/ /\ disk' = NoFiles
          /\ pc' = "seeded"
          /\ UNCHANGED result
       \/ /\ "seed" \in Faults
          /\ Return(FALSE, "spawn")
          /\ UNCHANGED disk
    /\ UNCHANGED <<attempt, aborted, tracker, outcome, reason, copied, row, timers, process, staged>>

\* The second check, after the slow seeding and before the spawn.
GiveUpBeforeSpawn ==
    /\ pc = "seeded" /\ aborted
    /\ Return(FALSE, "cancelled")
    /\ UNCHANGED <<attempt, aborted, tracker, outcome, reason, copied, row, timers, process, files>>

\* Mutant of Spawn: the signal is not looked at after seeding.
SpawnUnchecked ==
    /\ pc = "seeded"
    /\ tracker' = FreshTracker
    /\ pc' = "attempt" /\ outcome' = "none" /\ timers' = {"login", "hard"}
    /\ jvm' = [leader |-> "login", items |-> 0, child |-> FALSE]
    /\ UNCHANGED <<attempt, aborted, reason, copied, result, row, pipe, files>>

\* spawn() starts the group, throws at once, or reports the failure later
\* through the child's 'error' event (leader "none" until ChildError).
Spawn ==
    /\ pc = "seeded" /\ ~aborted
    /\ tracker' = FreshTracker
    /\ \/ /\ pc' = "attempt" /\ outcome' = "none" /\ timers' = {"login", "hard"}
          /\ \E child \in IF Descendants THEN BOOLEAN ELSE {FALSE} :
                jvm' = [leader |-> "login", items |-> 0, child |-> child]
       \/ /\ "spawn" \in Faults
          /\ pc' = "attempt" /\ outcome' = "none" /\ timers' = {"login", "hard"}
          /\ jvm' = [leader |-> "none", items |-> 0, child |-> FALSE]
       \/ /\ "spawn" \in Faults
          /\ pc' = "collect" /\ outcome' = "exited" /\ timers' = {}
          /\ jvm' = [leader |-> "none", items |-> 0, child |-> FALSE]
    /\ UNCHANGED <<attempt, aborted, reason, copied, result, row, pipe, files>>

-----------------------------------------------------------------------------
(* Callbacks while the worker awaits the child *)

\* finish(): the first outcome wins.
Finish(o) == outcome' = IF outcome = "none" THEN o ELSE outcome

Settled(r) == r \in {"stalled", "done", "failed"}

Accept(t, line) ==
    CASE line.kind = "items"     -> [t EXCEPT !.phase = "items", !.started = TRUE]
      [] line.kind = "cafe"      -> [t EXCEPT !.phase = "cafe"]
      [] line.kind = "transient" -> [t EXCEPT !.sawTransient = TRUE]
      [] line.kind = "notInTcrs" -> [t EXCEPT !.notInTcrs = TRUE]
      [] OTHER -> [t EXCEPT !.started = TRUE,
                            !.items = IF t.phase \in {"items", "none"} THEN line.done ELSE @]

\* Mutant of RowAfter: without isSettled.
RowAfterUnsettled(line) ==
    CASE line.kind = "transient" -> IF row = "login" THEN "stalled" ELSE row
      [] line.kind = "notInTcrs" -> row
      [] OTHER -> "introspecting"

\* The reducer: a settled row takes no more phases or progress, and a
\* transient marker shows only while the row is still at login.
RowAfter(line) ==
    CASE line.kind = "transient" -> IF row = "login" THEN "stalled" ELSE row
      [] line.kind = "notInTcrs" -> row
      [] OTHER -> IF Settled(row) THEN row ELSE "introspecting"

\* consume(): the tracker first, then the event, then finish("transient") if
\* the introspect has not started.
Consume ==
    /\ pc = "attempt" /\ pipe # <<>>
    /\ LET line == Head(pipe) IN
       /\ tracker' = Accept(tracker, line)
       /\ row' = RowAfter(line)
       /\ IF line.kind = "transient" /\ ~tracker.started
          THEN Finish("transient") ELSE UNCHANGED outcome
    /\ pipe' = Tail(pipe)
    /\ UNCHANGED <<control, aborted, timers, jvm, files>>

\* kill(): nothing once the group leader has exited (or never started);
\* SIGTERM leaves the group to act on it and arms the 3s escalation.
Terminate(rest) == timers' = rest \cup (IF JvmAlive THEN {"grace"} ELSE {})

HardTimeout ==
    /\ pc = "attempt" /\ "hard" \in timers
    /\ row' = "stalled"
    /\ Finish("hardTimeout")
    /\ Terminate(timers \ {"hard"})
    /\ UNCHANGED <<control, aborted, tracker, process, files>>

LoginTimeout ==
    /\ pc = "attempt" /\ "login" \in timers
    /\ IF tracker.started
       THEN timers' = timers \ {"login"} /\ UNCHANGED <<row, outcome>>
       ELSE row' = "stalled" /\ Finish("loginTimeout") /\ Terminate(timers \ {"login"})
    /\ UNCHANGED <<control, aborted, tracker, process, files>>

\* The stall interval: started, and no items progress for stallTimeoutMs.
StallTimeout ==
    /\ pc = "attempt" /\ StallWatch /\ tracker.started
    /\ Finish("stallTimeout")
    /\ Terminate(timers)
    /\ UNCHANGED <<control, aborted, tracker, row, process, files>>

KillGroup == jvm' = [jvm EXCEPT !.leader = "dead", !.child = FALSE]

\* Mutant of Escalate: the signal is logged, never sent.
EscalateNever ==
    /\ pc = "attempt" /\ "grace" \in timers
    /\ timers' = timers \ {"grace"}
    /\ UNCHANGED <<control, aborted, tracker, outcome, row, process, files>>

\* Three seconds after SIGTERM: SIGKILL, unless the leader has exited.
Escalate ==
    /\ pc = "attempt" /\ "grace" \in timers
    /\ timers' = timers \ {"grace"}
    /\ IF JvmAlive THEN KillGroup ELSE UNCHANGED jvm
    /\ UNCHANGED <<control, aborted, tracker, outcome, row, pipe, files>>

\* The operator or a shutdown aborts. While an attempt is awaited the
\* listener runs at once and SIGKILLs the group.
Abort ==
    /\ ~aborted /\ pc # "returned"
    /\ aborted' = TRUE
    /\ IF pc = "attempt"
       THEN /\ Finish("cancelled")
            /\ IF JvmAlive THEN KillGroup ELSE UNCHANGED jvm
       ELSE UNCHANGED <<outcome, jvm>>
    /\ UNCHANGED <<control, tracker, row, timers, pipe, files>>

\* runAttempt resolves; runOne looks at the outcome before any other callback.
AttemptOver ==
    /\ Finish("exited")
    /\ timers' = {}
    /\ IF outcome = "cancelled"
       THEN Return(FALSE, "cancelled")
       ELSE pc' = "collect" /\ UNCHANGED result

\* Mutant of Close: decides on 'exit', dropping what the pipes still hold.
CloseOnExit ==
    /\ pc = "attempt" /\ jvm.leader = "dead"
    /\ AttemptOver
    /\ pipe' = <<>>
    /\ UNCHANGED <<attempt, aborted, tracker, reason, copied, row, jvm, files>>

\* The child's 'close' event: every holder of its stdio gone, every line read.
Close ==
    /\ pc = "attempt" /\ jvm.leader = "dead" /\ ~jvm.child /\ pipe = <<>>
    /\ AttemptOver
    /\ UNCHANGED <<attempt, aborted, tracker, reason, copied, row, process, files>>

\* The child's 'error' event: spawn failed after all.
ChildError ==
    /\ pc = "attempt" /\ jvm.leader = "none"
    /\ AttemptOver
    /\ UNCHANGED <<attempt, aborted, tracker, reason, copied, row, process, files>>

-----------------------------------------------------------------------------
(* Collecting, judging, retrying *)

AnyFile  == {f \in Files : disk[f] # "absent"}
NonEmpty == {f \in Files : disk[f] \notin {"absent", "empty"}}

CollectFrom(found) ==
    /\ pc = "collect"
    /\ \E got \in SUBSET found :
          /\ got = found \/ "copy" \in Faults
          /\ staged' = [f \in Files |-> IF f \in got THEN disk[f] ELSE staged[f]]
          /\ copied' = Cardinality(got)
          /\ pc' = IF got = Files /\ IsIntrospectComplete(tracker)
                   THEN "finish" ELSE "judge"
    /\ UNCHANGED <<attempt, aborted, tracker, outcome, reason, result, row, timers, process, disk>>

\* Mutant of Collect: existence is enough ([ -f ], not [ -s ]).
CollectAnySize == CollectFrom(AnyFile)

\* collect(): copy what is there and not empty; a refused copy is a file not
\* collected.
Collect == CollectFrom(NonEmpty)

\* Mutant of Threw: the catch records the result and emits nothing.
ThrewSilently ==
    /\ "rmdir" \in Faults
    /\ row' = row
    /\ Return(FALSE, "spawn")

\* rm of the work dir rejects: runOne throws, and runBatch's catch records a
\* failure of its own making.
Threw ==
    /\ "rmdir" \in Faults
    /\ row' = "failed"
    /\ Return(FALSE, "spawn")

Succeed ==
    /\ pc = "finish"
    /\ \/ row' = "done" /\ Return(TRUE, "none") /\ disk' = NoFiles
       \/ Threw /\ UNCHANGED disk
    /\ UNCHANGED <<attempt, aborted, tracker, outcome, reason, copied, timers, process, staged>>

\* Files there, but the introspect bailed early.
Bailed == copied > 0 /\ ~IsIntrospectComplete(tracker)

\* Mutant of Discard: what was collected stays.
DiscardNothing == UNCHANGED <<staged, copied>>

\* discard(): unlink errors are swallowed.
Discard ==
    IF Bailed
    THEN \E kept \in IF "unlink" \in Faults THEN SUBSET Files ELSE {{}} :
            /\ staged' = [f \in Files |-> IF f \in kept THEN staged[f] ELSE "absent"]
            /\ copied' = 0
    ELSE UNCHANGED <<staged, copied>>

Classified ==
    LET first == IF Bailed THEN "incomplete" ELSE reason IN
    CASE tracker.notInTcrs -> "not-in-tcrs"
      [] ~tracker.notInTcrs /\ outcome = "loginTimeout" -> "login"
      [] ~tracker.notInTcrs /\ outcome = "hardTimeout"  -> "timeout"
      [] ~tracker.notInTcrs /\ outcome = "stallTimeout" -> "stalled"
      [] OTHER -> IF first = "none" /\ copied = 0
                  THEN IF tracker.started THEN "no-files" ELSE "login"
                  ELSE first

\* Mutant of Transient: notInTcrs does not clear it.
TransientAnyway ==
    \/ outcome \in {"loginTimeout", "stallTimeout", "transient"}
    \/ Bailed
    \/ tracker.sawTransient

Transient ==
    /\ ~tracker.notInTcrs
    /\ \/ outcome \in {"loginTimeout", "stallTimeout", "transient"}
       \/ Bailed
       \/ tracker.sawTransient

\* Mutant of Retryable: one attempt too many.
RetryableOnceMore == Transient /\ attempt <= MaxAttempts

Retryable == Transient /\ attempt < MaxAttempts

\* The rest of the loop body: discard, classify, clean up, then wait for the
\* next attempt or give up.
Judge ==
    /\ pc = "judge"
    /\ Discard
    /\ reason' = Classified
    /\ \/ /\ disk' = NoFiles
          /\ IF Retryable
             THEN row' = "retrying" /\ pc' = "backoff" /\ UNCHANGED result
             ELSE row' = "failed" /\ Return(FALSE, IF reason' = "none" THEN "no-files" ELSE reason')
       \/ Threw /\ UNCHANGED disk
    /\ UNCHANGED <<attempt, aborted, tracker, outcome, timers, process>>

\* clock.sleep: the timer fires, or the signal rejects it.
BackoffOver ==
    /\ pc = "backoff" /\ ~aborted
    /\ pc' = "loop"
    /\ UNCHANGED <<attempt, aborted, tracker, outcome, reason, copied, result, row, timers, process, files>>

BackoffAborted ==
    /\ pc = "backoff" /\ aborted
    /\ Return(FALSE, "cancelled")
    /\ UNCHANGED <<attempt, aborted, tracker, outcome, reason, copied, row, timers, process, files>>

-----------------------------------------------------------------------------
(* The JVM (external): modelled from the script it is fed and the output    *)
(* parser.ts expects of it.                                                 *)

Worker == <<pc, attempt, aborted, tracker, outcome, reason, copied, result, row, timers, staged>>

Says(line) ==
    /\ Len(pipe) < PipeBound
    /\ pipe' = Append(pipe, line)

\* Network trouble, before or during the introspect. On a stream of its own it
\* may be read later than it was written: that is trouble said later.
JvmTrouble ==
    /\ jvm.leader \in {"login", "items"}
    /\ Says(Line("transient"))
    /\ UNCHANGED <<Worker, jvm, disk>>

JvmRefused ==
    /\ jvm.leader = "login"
    /\ Says(Line("notInTcrs"))
    /\ jvm' = [jvm EXCEPT !.leader = "leaving"]
    /\ UNCHANGED <<Worker, disk>>

JvmStart ==
    /\ jvm.leader = "login"
    /\ Says(Line("items"))
    /\ jvm' = [jvm EXCEPT !.leader = "items"]
    /\ UNCHANGED <<Worker, disk>>

JvmIntrospect ==
    /\ jvm.leader = "items" /\ jvm.items < Total
    /\ jvm' = [jvm EXCEPT !.items = @ + 1]
    /\ IF Announced(jvm.items + 1) THEN Says(Progress(jvm.items + 1)) ELSE UNCHANGED pipe
    /\ UNCHANGED <<Worker, disk>>

\* On to the cafe phases: done with the items, or bailed out of them.
JvmCafe ==
    /\ jvm.leader = "items"
    /\ Says(Line("cafe"))
    /\ jvm' = [jvm EXCEPT !.leader = "cafe"]
    /\ UNCHANGED <<Worker, disk>>

\* tcrs save writes the three files in turn: opened, part written, written.
Saved(f) == disk[f] \in {"short", "whole"}
JvmSave(f) ==
    /\ jvm.leader = "cafe" /\ ~Saved(f)
    /\ \A g \in Files : g < f => Saved(g)
    /\ disk' = [disk EXCEPT ![f] =
          CASE @ = "absent" -> "empty"
            [] @ = "empty"  -> "torn"
            [] OTHER -> IF jvm.items >= Total - Tolerance THEN "whole" ELSE "short"]
    /\ UNCHANGED <<Worker, process>>

JvmExit ==
    /\ JvmAlive
    /\ jvm' = [jvm EXCEPT !.leader = "dead"]
    /\ UNCHANGED <<Worker, pipe, disk>>

DescendantExit ==
    /\ jvm.child
    /\ jvm' = [jvm EXCEPT !.child = FALSE]
    /\ UNCHANGED <<Worker, pipe, disk>>

-----------------------------------------------------------------------------

Continue ==
    \/ GiveUpBeforeAttempt \/ BeginAttempt \/ Seed \/ GiveUpBeforeSpawn \/ Spawn
    \/ Collect \/ Succeed \/ Judge \/ BackoffOver \/ BackoffAborted

Jvm ==
    \/ JvmTrouble \/ JvmRefused \/ JvmStart \/ JvmIntrospect \/ JvmCafe
    \/ (\E f \in Files : JvmSave(f)) \/ JvmExit \/ DescendantExit

Returned == pc = "returned" /\ UNCHANGED vars

Next ==
    \/ Continue
    \/ Consume
    \/ HardTimeout \/ LoginTimeout \/ StallTimeout \/ Escalate
    \/ Close \/ ChildError
    \/ Abort
    \/ Jvm
    \/ Returned

\* The event loop runs what is due: the worker's continuations, every line a
\* pipe holds, the hard timeout and the SIGKILL it leads to, the close event.
\* Nothing is assumed of the JVM, of its descendants or of the operator.
Fairness ==
    /\ WF_vars(Continue)
    /\ WF_vars(Consume)
    /\ WF_vars(HardTimeout) /\ WF_vars(Escalate)
    /\ WF_vars(Close) /\ WF_vars(ChildError)

Spec     == Init /\ [][Next]_vars
FairSpec == Spec /\ Fairness
-----------------------------------------------------------------------------
(* Properties *)

\* A permutation is reported done only on an introspect that got within the
\* tolerance of the end, and with all three files collected from it: none is
\* missing, empty or the output of one that bailed (runOne, lines 157-165).
DoneIsComplete ==
    result.ok => /\ \A f \in Files : staged[f] \in {"torn", "whole"}
                 /\ IsIntrospectComplete(tracker)

\* Wherever the worker rests, in a JVM's company, in a backoff or for good,
\* the staging directory holds no file of an introspect that bailed: a later
\* RESUME or publish cannot adopt one (runOne, lines 169-179).
NoTruncatedAtRest ==
    pc \in {"loop", "seeding", "seeded", "attempt", "backoff", "returned"} =>
        \A f \in Files : staged[f] # "short"

\* An introspect that walked every item is never thrown away as incomplete,
\* however late its last lines are read: the reason runAttempt decides on
\* 'close' and never on 'exit' (lines 382-384).
WholeRunKept ==
    pc \in {"finish", "judge"} /\ jvm.leader = "dead" /\ jvm.items = Total => ~Bailed

\* The row the web page and the terminal show agrees with what the batch is
\* told: done exactly when ok, and settled unless the worker was cancelled or
\* never got a work dir (the two returns that emit nothing).
RowMatchesResult ==
    pc = "returned" =>
        /\ row = "done" <=> result.ok
        /\ row \notin {"done", "failed"} =>
              result.reason = "cancelled" \/ (result.reason = "spawn" /\ row = "login")
        /\ result.reason = "cancelled" => aborted

\* The reason reported is the last attempt's own, never carried over from an
\* earlier one (the comment at lines 126-129).
ReasonIsLastAttempts ==
    pc = "returned" /\ row = "failed" =>
        /\ result.reason = "incomplete" => tracker.started /\ ~IsIntrospectComplete(tracker)
        /\ result.reason = "login"   => ~tracker.started \/ outcome = "loginTimeout"
        /\ result.reason = "no-files" => tracker.started
        /\ result.reason = "timeout" => outcome = "hardTimeout"
        /\ result.reason = "stalled" => outcome = "stallTimeout"

\* An account that is not in a TCRS run is never logged in again, whatever
\* else went wrong with the attempt (lines 181-186, events.ts line 24).
NeverRetriesNotInTcrs ==
    [][attempt' # attempt => ~tracker.notInTcrs]_vars

\* Output drained after a watchdog fired cannot bring the row back to life;
\* the next attempt is the only way out of stalled but the end
\* (state.ts, lines 337-345).
StalledUntilNextAttempt ==
    [][ /\ row = "stalled" /\ row' # row
        /\ outcome = "loginTimeout" \/ "hard" \notin timers
        => pc' # "attempt" ]_vars

\* A worker returns in the end, whatever the JVM does: the hard timeout is
\* armed at spawn and kill() goes on to SIGKILL the whole group if it "does not
\* die within 3s" (lines 410-422 and 473-476).
Returns == <>(pc = "returned")

\* What the code achieves: the worker returns, unless a descendant outlives the
\* group leader and holds its stdio, for kill() signals no group whose leader
\* has exited (lines 482 and 489) and 'close' waits for the descendant.
ReturnsUnlessHeld == Returns \/ <>[](jvm.leader = "dead" /\ jvm.child)

\* What the batch has been told: result, once runOne has returned.
Verdict ==
    CASE pc # "returned" -> "pending"
      [] pc = "returned" /\ result.ok -> "ok"
      [] OTHER -> IF result.reason = "cancelled" THEN "cancelled" ELSE "failed"

\* The worker implements its contract with the batch.
Contract == INSTANCE WorkerContract WITH
    attempts <- attempt,
    live     <- JvmAlive,
    output   <- staged,
    verdict  <- Verdict

ImplementsContract == Contract!Spec
=============================================================================
