---------------------------- MODULE RunOneProofs ----------------------------
(***************************************************************************)
(* What a worker does and leaves behind, for every number of attempts and  *)
(* items, every announce step, every tolerance and every set of faults.    *)
(* The argument runs along the data.  The tracker never gets ahead of the  *)
(* JVM, so a file of an introspect that bailed is always seen to be        *)
(* incomplete: it is never reported done, and it is discarded before the   *)
(* worker rests, if unlink is not refused.  Nor does it fall behind once   *)
(* every line is read, so a whole introspect is never thrown away.  What   *)
(* is reported is about the last attempt.  Together they make the worker   *)
(* an implementation of its contract.                                      *)
(***************************************************************************)
EXTENDS RunOne, FiniteSetTheorems, TLAPS

\* Outside an attempt nothing runs and nothing is left to read.
Quiet ==
    /\ pc # "attempt" => ~JvmAlive /\ ~jvm.child /\ pipe = <<>>
    /\ jvm.leader = "none" => ~jvm.child /\ pipe = <<>>

\* The worker knows at most what the JVM has done.
Behind ==
    /\ tracker.items <= jvm.items
    /\ \A i \in 1 .. Len(pipe) : pipe[i].done <= jvm.items

\* Files come after the introspect, and tell how far it got.
SavedAfter ==
    /\ pc = "seeded" => disk = NoFiles
    /\ jvm.leader \in {"login", "leaving", "items"} => disk = NoFiles
    /\ \A f \in Files : disk[f] = "short" => jvm.items < Total - Tolerance

\* What is about to be reported done is complete, and stays so.
Finishing ==
    pc = "finish" => /\ \A f \in Files : staged[f] \in {"torn", "whole"}
                     /\ IsIntrospectComplete(tracker)
Kept == result.ok => pc = "returned" /\ DoneIsComplete

\* A truncated file is staged only on its way to being discarded.
StagedClean == \A f \in Files : staged[f] = "short" => pc = "judge" /\ Bailed

\* The loop is entered again only with an attempt left.
AttemptLeft == pc \in {"loop", "backoff"} => attempt < MaxAttempts

Typed == TypeOK /\ AttemptLeft

IInv == Typed /\ Quiet /\ Behind /\ SavedAfter /\ Finishing /\ Kept

LEMMA FilesFinite == IsFiniteSet(Files) /\ Cardinality(Files) = 3
<1>1. /\ IsFiniteSet(1 .. 3)
      /\ Cardinality(1 .. 3) = IF 1 > 3 THEN 0 ELSE 3 - 1 + 1
  <2>1. 1 \in Int /\ 3 \in Int
    OBVIOUS
  <2> QED
    BY <2>1, FS_Interval, Zenon
<1> QED
  BY <1>1 DEF Files

LEMMA CardinalityOfFiles == \A S \in SUBSET Files : Cardinality(S) \in 0 .. 3
<1>1. IsFiniteSet(Files) /\ Cardinality(Files) = 3
  BY FilesFinite
<1> SUFFICES ASSUME NEW S \in SUBSET Files PROVE Cardinality(S) \in 0 .. 3
  OBVIOUS
<1>2. IsFiniteSet(S) /\ Cardinality(S) <= 3
  BY <1>1, FS_Subset
<1>3. Cardinality(S) \in Nat
  BY <1>2, FS_CardinalityType
<1> QED
  BY <1>2, <1>3

LEMMA NoFilesType == NoFiles \in [Files -> Contents] /\ \A f \in Files : NoFiles[f] = "absent"
  BY DEF NoFiles, Contents

LEMMA InitIInv == Init => IInv /\ StagedClean
<1> SUFFICES ASSUME Init PROVE IInv /\ StagedClean
  OBVIOUS
<1> USE AttemptsAssumption, ItemsAssumption DEF Init
<1>1. Typed
  BY DEF Typed, AttemptLeft, TypeOK, FreshTracker, Pending, NoFiles, Rows, Contents, Files
<1>2. Quiet /\ Behind /\ SavedAfter /\ Finishing /\ Kept /\ StagedClean
  BY DEF Finishing, StagedClean, Quiet, JvmAlive, Behind, FreshTracker, SavedAfter, StagedClean, NoFiles, Kept, Pending
<1> QED
  BY <1>1, <1>2 DEF IInv

-----------------------------------------------------------------------------
(* Types *)

LEMMA ReturnTypes ==
    ASSUME NEW ok \in BOOLEAN, NEW why \in Reasons \cup {"none"}, Return(ok, why)
    PROVE  pc' = "returned" /\ result' \in [ok: BOOLEAN, reason: Reasons \cup {"none"}]
  BY DEF Return

\* The states of the JVM, and that its leader's or its child's end leads to one of them.
JvmState == [leader: {"none", "login", "leaving", "items", "cafe", "dead"},
             items: 0 .. Total, child: BOOLEAN]

LEMMA JvmStates ==
    ASSUME Typed, NEW leader \in {"none", "login", "leaving", "items", "cafe", "dead"}
    PROVE  /\ jvm \in JvmState /\ [jvm EXCEPT !.leader = leader] \in JvmState
           /\ [jvm EXCEPT !.child = FALSE] \in JvmState
           /\ [jvm EXCEPT !.leader = leader, !.child = FALSE] \in JvmState
<1> DEFINE led == [jvm EXCEPT !.leader = leader]
<1>1. jvm \in JvmState
  BY DEF Typed, TypeOK, JvmState
<1>2. led \in JvmState /\ [jvm EXCEPT !.child = FALSE] \in JvmState
  BY <1>1 DEF JvmState
<1>3. [led EXCEPT !.child = FALSE] \in JvmState
  <2> HIDE DEF led
  <2> QED
    BY <1>2 DEF JvmState
<1>4. [jvm EXCEPT !.leader = leader, !.child = FALSE] = [led EXCEPT !.child = FALSE]
  OBVIOUS
<1> QED
  BY <1>1, <1>2, <1>3, <1>4

\* The steps of the loop outside an attempt keep the types.
LEMMA LoopTypes ==
    ASSUME Typed,
           GiveUpBeforeAttempt \/ BeginAttempt \/ Seed \/ GiveUpBeforeSpawn \/ Spawn
           \/ BackoffOver \/ BackoffAborted
    PROVE  Typed'
<1> USE AttemptsAssumption, ItemsAssumption DEF Typed, AttemptLeft, TypeOK, control, process, files
<1>1. CASE GiveUpBeforeAttempt \/ GiveUpBeforeSpawn \/ BackoffAborted
  <2>1. Return(FALSE, "cancelled")
    BY <1>1 DEF GiveUpBeforeAttempt, GiveUpBeforeSpawn, BackoffAborted
  <2>2. pc' = "returned" /\ result' \in [ok: BOOLEAN, reason: Reasons \cup {"none"}]
    BY <2>1, ReturnTypes DEF Reasons
  <2>3. UNCHANGED <<attempt, aborted, tracker, outcome, reason, copied, row, timers, jvm, pipe,
                    disk, staged>>
    BY <1>1 DEF GiveUpBeforeAttempt, GiveUpBeforeSpawn, BackoffAborted
  <2> QED
    BY <2>2, <2>3
<1>2. CASE BeginAttempt
  BY <1>2 DEF BeginAttempt, Rows
<1>3. CASE Seed
  <2>1. Return(FALSE, "spawn") =>
            pc' = "returned" /\ result' \in [ok: BOOLEAN, reason: Reasons \cup {"none"}]
    BY ReturnTypes DEF Reasons
  <2> QED
    <3>1. disk' \in [Files -> Contents]
      BY <1>3, NoFilesType DEF Seed
    <3>2. /\ pc' \in {"seeded", "returned"}
          /\ result' \in [ok: BOOLEAN, reason: Reasons \cup {"none"}]
      BY <1>3, <2>1 DEF Seed
    <3> QED
      BY <1>3, <3>1, <3>2 DEF Seed
<1>4. CASE Spawn
  <2>1. tracker' \in [phase: {"none", "items", "cafe"}, items: 0 .. Total,
                      started: BOOLEAN, sawTransient: BOOLEAN, notInTcrs: BOOLEAN]
    BY <1>4 DEF Spawn, FreshTracker
  <2>2. jvm' \in [leader: {"none", "login", "leaving", "items", "cafe", "dead"},
                  items: 0 .. Total, child: BOOLEAN]
    <3>1. \E leader \in {"none", "login"}, child \in BOOLEAN :
             jvm' = [leader |-> leader, items |-> 0, child |-> child]
      BY <1>4 DEF Spawn
    <3> QED
      BY <3>1
  <2>3. pc' \in {"attempt", "collect"} /\ outcome' \in Outcomes \cup {"none"}
        /\ timers' \subseteq {"login", "hard", "grace"}
    BY <1>4 DEF Spawn, Outcomes
  <2> QED
    BY <1>4, <2>1, <2>2, <2>3 DEF Spawn
<1>5. CASE BackoffOver
  BY <1>5 DEF BackoffOver
<1> QED
  BY <1>1, <1>2, <1>3, <1>4, <1>5

\* So do the callbacks.
LEMMA CallbackTypes ==
    ASSUME Typed,
           Consume \/ HardTimeout \/ LoginTimeout \/ StallTimeout \/ Escalate \/ Abort
           \/ Close \/ ChildError
    PROVE  Typed'
<1> USE AttemptsAssumption, ItemsAssumption DEF Typed, AttemptLeft, TypeOK, control, process, files
<1>1. CASE Consume
  <2>1. Head(pipe) \in Lines /\ Tail(pipe) \in Seq(Lines)
    BY <1>1 DEF Consume
  <2>2. tracker' \in [phase: {"none", "items", "cafe"}, items: 0 .. Total,
                      started: BOOLEAN, sawTransient: BOOLEAN, notInTcrs: BOOLEAN]
    BY <1>1, <2>1 DEF Consume, Accept, Lines
  <2>3. row' \in Rows /\ outcome' \in Outcomes \cup {"none"}
    BY <1>1, <2>1 DEF Consume, RowAfter, Rows, Finish, Outcomes
  <2> QED
    BY <1>1, <2>1, <2>2, <2>3 DEF Consume
<1>2. CASE HardTimeout \/ LoginTimeout \/ StallTimeout
  <2>1. UNCHANGED <<pc, attempt, aborted, tracker, reason, copied, result, jvm, pipe, disk, staged>>
    BY <1>2 DEF HardTimeout, LoginTimeout, StallTimeout
  <2>2. row' \in {row, "stalled"}
    BY <1>2 DEF HardTimeout, LoginTimeout, StallTimeout
  <2>3. outcome' \in {outcome, "hardTimeout", "loginTimeout", "stallTimeout"}
    BY <1>2 DEF HardTimeout, LoginTimeout, StallTimeout, Finish
  <2>4. timers' \subseteq timers \cup {"grace"}
    BY <1>2 DEF HardTimeout, LoginTimeout, StallTimeout, Terminate
  <2> QED
    BY <2>1, <2>2, <2>3, <2>4 DEF Outcomes, Rows
<1>3. CASE Escalate \/ Abort
  <2>1. UNCHANGED <<pc, attempt, tracker, reason, copied, result, row, pipe, disk, staged>>
    BY <1>3 DEF Escalate, Abort
  <2>2. jvm' \in JvmState
    BY <1>3, JvmStates DEF Escalate, Abort, KillGroup
  <2>3. outcome' \in {outcome, "cancelled"} /\ timers' \subseteq timers /\ aborted' \in BOOLEAN
    BY <1>3 DEF Escalate, Abort, Finish
  <2> QED
    BY <2>1, <2>2, <2>3 DEF Outcomes, JvmState
<1>4. CASE Close \/ ChildError
  <2>1. AttemptOver /\ UNCHANGED <<attempt, aborted, tracker, reason, copied, row, jvm, pipe, disk, staged>>
    BY <1>4 DEF Close, ChildError
  <2>2. outcome' \in Outcomes \cup {"none"} /\ timers' = {}
    BY <2>1 DEF AttemptOver, Finish, Outcomes
  <2>3. pc' \in {"collect", "returned"} /\ result' \in [ok: BOOLEAN, reason: Reasons \cup {"none"}]
    BY <2>1, ReturnTypes DEF AttemptOver, Reasons
  <2> QED
    BY <2>1, <2>2, <2>3
<1> QED
  BY <1>1, <1>2, <1>3, <1>4

\* So do collecting and judging.
LEMMA JudgeTypes ==
    ASSUME Typed, Collect \/ Succeed \/ Judge
    PROVE  Typed'
<1> USE AttemptsAssumption, ItemsAssumption DEF Typed, AttemptLeft, TypeOK, control, process, files
<1>1. CASE Collect
  <2>1. PICK got \in SUBSET NonEmpty :
          /\ staged' = [f \in Files |-> IF f \in got THEN disk[f] ELSE staged[f]]
          /\ copied' = Cardinality(got)
          /\ pc' \in {"finish", "judge"}
    BY <1>1 DEF Collect, CollectFrom
  <2>2. copied' \in 0 .. 3
    BY <2>1, CardinalityOfFiles DEF NonEmpty
  <2> QED
    BY <1>1, <2>1, <2>2 DEF Collect, CollectFrom
<1>2. CASE Succeed
  <2>1. pc' = "returned" /\ result' \in [ok: BOOLEAN, reason: Reasons \cup {"none"}]
    BY <1>2, ReturnTypes DEF Succeed, Threw, Reasons
  <2> QED
    <3>1. disk' \in [Files -> Contents]
      BY <1>2, NoFilesType DEF Succeed
    <3>2. row' \in Rows
      BY <1>2 DEF Succeed, Threw, Rows
    <3> QED
      BY <1>2, <2>1, <3>1, <3>2 DEF Succeed
<1>3. CASE Judge
  <2>1. staged' \in [Files -> Contents] /\ copied' \in 0 .. 3
    <3>1. Discard
      BY <1>3 DEF Judge
    <3>2. CASE Bailed
      BY <3>1, <3>2 DEF Discard, Contents
    <3>3. CASE ~Bailed
      BY <3>1, <3>3 DEF Discard
    <3> QED
      BY <3>2, <3>3
  <2>2. reason' \in Reasons \cup {"none"}
    BY <1>3 DEF Judge, Classified, Reasons
  <2>3. disk' \in [Files -> Contents] /\ row' \in Rows
    <3>1. disk' \in [Files -> Contents]
      BY <1>3, NoFilesType DEF Judge
    <3>2. row' \in Rows
      BY <1>3 DEF Judge, Threw, Rows
    <3> QED
      BY <3>1, <3>2
  <2>4. \/ pc' = "backoff" /\ result' = result /\ attempt < MaxAttempts
        \/ pc' = "returned" /\ result' \in [ok: BOOLEAN, reason: Reasons \cup {"none"}]
    <3>1. \A why \in Reasons \cup {"none"} : Return(FALSE, why) =>
            pc' = "returned" /\ result' \in [ok: BOOLEAN, reason: Reasons \cup {"none"}]
      BY ReturnTypes
    <3>2. {"spawn", "no-files", reason'} \subseteq Reasons \cup {"none"}
      BY <2>2 DEF Reasons
    <3>3. \/ pc' = "backoff" /\ result' = result /\ Retryable
          \/ Return(FALSE, "spawn") \/ Return(FALSE, "no-files") \/ Return(FALSE, reason')
      BY <1>3 DEF Judge, Threw
    <3> QED
      BY <3>1, <3>2, <3>3 DEF Retryable
  <2>5. UNCHANGED <<attempt, aborted, tracker, outcome, timers, jvm, pipe>>
    BY <1>3 DEF Judge
  <2> QED
    BY <2>1, <2>2, <2>3, <2>4, <2>5
<1> QED
  BY <1>1, <1>2, <1>3

\* So does the JVM.
LEMMA JvmTypes == ASSUME Typed, Jvm PROVE Typed'
<1> USE AttemptsAssumption, ItemsAssumption DEF Typed, AttemptLeft, TypeOK, Worker, process
<1>1. ASSUME NEW line \in Lines, Says(line) PROVE pipe' \in Seq(Lines)
  BY <1>1 DEF Says
<1>2. \A kind \in {"transient", "notInTcrs", "items", "cafe"} : Line(kind) \in Lines
  BY DEF Line, Lines
<1>0. ASSUME UNCHANGED <<Worker, disk>>, pipe' \in Seq(Lines), jvm' \in JvmState
      PROVE  Typed'
  BY <1>0 DEF JvmState
<1>3. CASE JvmTrouble \/ JvmRefused \/ JvmStart \/ JvmCafe
  <2>1. UNCHANGED <<Worker, disk>> /\ jvm' \in JvmState
    BY <1>3, JvmStates DEF JvmTrouble, JvmRefused, JvmStart, JvmCafe
  <2>2. pipe' \in Seq(Lines)
    BY <1>1, <1>2, <1>3 DEF JvmTrouble, JvmRefused, JvmStart, JvmCafe
  <2> QED
    BY <1>0, <2>1, <2>2
<1>4. CASE JvmIntrospect
  <2>1. jvm.items + 1 \in 0 .. Total /\ Progress(jvm.items + 1) \in Lines
    BY <1>4 DEF JvmIntrospect, Progress, Lines
  <2>2. jvm' \in JvmState
    BY <1>4, <2>1 DEF JvmIntrospect, JvmState
  <2>3. pipe' \in Seq(Lines)
    BY <1>1, <1>4, <2>1 DEF JvmIntrospect
  <2> QED
    BY <1>0, <1>4, <2>2, <2>3 DEF JvmIntrospect
<1>5. ASSUME NEW f \in Files, JvmSave(f) PROVE Typed'
  BY <1>5 DEF JvmSave, Contents
<1>6. CASE JvmExit \/ DescendantExit
  <2>1. UNCHANGED <<Worker, disk>> /\ pipe' = pipe
    BY <1>6 DEF JvmExit, DescendantExit
  <2>2. jvm' \in JvmState
    BY <1>6, JvmStates DEF JvmExit, DescendantExit
  <2> QED
    BY <1>0, <2>1, <2>2
<1> QED
  BY <1>3, <1>4, <1>5, <1>6 DEF Jvm

\* Every step keeps the types.
LEMMA TypeStep == Typed /\ [Next]_vars => Typed'
<1> SUFFICES ASSUME Typed, [Next]_vars PROVE Typed'
  OBVIOUS
<1>1. CASE UNCHANGED vars
  BY <1>1 DEF Typed, AttemptLeft, TypeOK, vars
<1> QED
  BY <1>1, LoopTypes, CallbackTypes, JudgeTypes, JvmTypes DEF Next, Continue, Returned

\* Every variable of the worker keeps its type, and no attempt is one too many.
THEOREM TypeCorrect == Spec => []TypeOK
<1>1. Init => Typed
  BY InitIInv DEF IInv
<1>2. Typed => TypeOK
  BY DEF Typed
<1> QED
  BY <1>1, <1>2, TypeStep, PTL DEF Spec
-----------------------------------------------------------------------------
(* The rest of the invariant, one conjunct at a time *)

\* The worker leaves an attempt only once the JVM, its children and its output
\* are gone.
LEMMA QuietStep == Typed /\ Quiet /\ [Next]_vars => Quiet'
<1> SUFFICES ASSUME Typed, Quiet, [Next]_vars PROVE Quiet'
  OBVIOUS
<1> USE DEF Typed, TypeOK, Quiet, JvmAlive, control, process, files, Worker
<1>1. CASE UNCHANGED vars
  BY <1>1 DEF vars
<1>2. CASE GiveUpBeforeAttempt \/ BeginAttempt \/ Seed \/ GiveUpBeforeSpawn \/ BackoffOver
           \/ BackoffAborted \/ Collect \/ Succeed \/ Judge
  <2>1. pc # "attempt" /\ UNCHANGED <<jvm, pipe>>
    BY <1>2 DEF GiveUpBeforeAttempt, BeginAttempt, Seed, GiveUpBeforeSpawn, BackoffOver,
                BackoffAborted, Collect, CollectFrom, Succeed, Judge
  <2> QED
    BY <2>1
<1>3. CASE Spawn
  <2>1. pc # "attempt" /\ pipe' = <<>>
    BY <1>3 DEF Spawn
  <2>2. \/ pc' = "attempt" /\ jvm'.leader = "login"
        \/ jvm'.leader = "none" /\ ~jvm'.child
    <3>1. \/ /\ pc' = "attempt"
             /\ \E child \in BOOLEAN :
                   jvm' = [leader |-> "login", items |-> 0, child |-> child]
          \/ jvm' = [leader |-> "none", items |-> 0, child |-> FALSE]
      BY <1>3 DEF Spawn
    <3> QED
      BY <3>1
  <2> QED
    BY <2>1, <2>2
<1>4. CASE Consume \/ HardTimeout \/ LoginTimeout \/ StallTimeout
  <2>1. pc = "attempt" /\ pc' = pc /\ jvm' = jvm /\ (pipe' = pipe \/ pipe # <<>>)
    BY <1>4 DEF Consume, HardTimeout, LoginTimeout, StallTimeout
  <2> QED
    BY <2>1
<1>5. CASE Escalate \/ Abort
  <2>1. UNCHANGED <<pc, pipe>>
    BY <1>5 DEF Escalate, Abort
  <2>2. jvm' = jvm \/ (pc = "attempt" /\ jvm'.leader = "dead")
    BY <1>5 DEF Escalate, Abort, KillGroup
  <2> QED
    BY <2>1, <2>2
<1>6. CASE Close \/ ChildError
  <2>1. jvm' = jvm /\ pipe' = pipe /\ ~JvmAlive /\ ~jvm.child /\ pipe = <<>>
    BY <1>6 DEF Close, ChildError
  <2> QED
    BY <2>1
<1>7. CASE Jvm
  <2>1. pc' = pc /\ jvm'.leader # "none"
    BY <1>7 DEF Jvm, JvmTrouble, JvmRefused, JvmStart, JvmIntrospect, JvmCafe, JvmSave,
                JvmExit, DescendantExit
  <2>2. pc = "attempt"
    BY <1>7 DEF Jvm, JvmTrouble, JvmRefused, JvmStart, JvmIntrospect, JvmCafe, JvmSave,
                JvmExit, DescendantExit
  <2> QED
    BY <2>1, <2>2
<1> QED
  BY <1>1, <1>2, <1>3, <1>4, <1>5, <1>6, <1>7 DEF Next, Continue, Returned

LEMMA LinesCount == ASSUME pipe \in Seq(Lines) PROVE \A i \in 1 .. Len(pipe) : pipe[i].done \in Nat
<1> TAKE i \in 1 .. Len(pipe)
<1>1. pipe[i] \in Lines
  OBVIOUS
<1>2. \A line \in Lines : line.done \in Nat
  BY ItemsAssumption DEF Lines
<1> QED
  BY <1>1, <1>2

\* The tracker, and every line on its way to it, reports no more than was done.
LEMMA BehindStep == IInv /\ [Next]_vars => Behind'
<1> SUFFICES ASSUME IInv, [Next]_vars PROVE Behind'
  OBVIOUS
<1> USE ItemsAssumption DEF IInv, Typed, TypeOK, Behind, control, process, files, Worker
<1>1. CASE UNCHANGED <<tracker, jvm, pipe>>
  BY <1>1
<1>2. CASE GiveUpBeforeAttempt \/ BeginAttempt \/ Seed \/ GiveUpBeforeSpawn \/ BackoffOver
           \/ BackoffAborted \/ Collect \/ Succeed \/ Judge \/ HardTimeout \/ LoginTimeout
           \/ StallTimeout \/ Close \/ ChildError
  BY <1>1, <1>2 DEF GiveUpBeforeAttempt, BeginAttempt, Seed, GiveUpBeforeSpawn, BackoffOver,
                BackoffAborted, Collect, CollectFrom, Succeed, Judge, HardTimeout, LoginTimeout,
                StallTimeout, Close, ChildError
<1>3. CASE Spawn
  <2>1. tracker'.items = 0 /\ jvm'.items = 0 /\ pipe' = <<>>
    <3>1. \E leader, child : jvm' = [leader |-> leader, items |-> 0, child |-> child]
      BY <1>3 DEF Spawn
    <3> QED
      BY <1>3, <3>1 DEF Spawn, FreshTracker, Quiet
  <2> QED
    BY <2>1
<1>4. CASE Consume
  <2>1. Head(pipe).done <= jvm.items /\ Head(pipe) = pipe[1] /\ jvm' = jvm
    BY <1>4 DEF Consume
  <2>2. tracker'.items \in {tracker.items, Head(pipe).done}
    BY <1>4 DEF Consume, Accept
  <2>3. \A i \in 1 .. Len(Tail(pipe)) : Tail(pipe)[i] = pipe[i + 1] /\ i + 1 \in 1 .. Len(pipe)
    BY <1>4 DEF Consume
  <2>4. pipe' = Tail(pipe)
    BY <1>4 DEF Consume
  <2> QED
    BY <2>1, <2>2, <2>3, <2>4
<1>5. CASE Escalate \/ Abort \/ JvmExit \/ DescendantExit \/ \E f \in Files : JvmSave(f)
  <2>1. jvm'.items = jvm.items /\ UNCHANGED <<tracker, pipe>>
    BY <1>5 DEF Escalate, Abort, KillGroup, JvmExit, DescendantExit, JvmSave
  <2> QED
    BY <2>1
<1>6. ASSUME NEW line \in Lines, Says(line), UNCHANGED tracker, jvm'.items \in jvm.items .. Total,
             line.done <= jvm'.items
      PROVE  Behind'
  <2>1. pipe' = Append(pipe, line)
    BY <1>6 DEF Says
  <2>2. \A i \in 1 .. Len(pipe') :
            pipe'[i] = line \/ (i \in 1 .. Len(pipe) /\ pipe'[i] = pipe[i])
    <3>1. pipe \in Seq(Lines) /\ Len(pipe') = Len(pipe) + 1 /\ Len(pipe) \in Nat
      BY <2>1
    <3> TAKE i \in 1 .. Len(pipe')
    <3>2. CASE i = Len(pipe) + 1
      BY <2>1, <3>1, <3>2
    <3>3. CASE i \in 1 .. Len(pipe)
      BY <2>1, <3>1, <3>3
    <3> QED
      BY <3>1, <3>2, <3>3
  <2>3. \A i \in 1 .. Len(pipe) : pipe[i].done \in Nat
    BY LinesCount
  <2>4. tracker.items \in Nat /\ jvm.items \in Nat /\ jvm'.items \in Nat /\ jvm.items <= jvm'.items
    BY <1>6
  <2> QED
    <3>1. tracker'.items <= jvm'.items
      BY <1>6, <2>4
    <3>2. ASSUME NEW i \in 1 .. Len(pipe') PROVE pipe'[i].done <= jvm'.items
      BY <1>6, <2>2, <2>3, <2>4
    <3> QED
      BY <3>1, <3>2
<1>7. CASE JvmTrouble \/ JvmRefused \/ JvmStart \/ JvmCafe
  <2>1. PICK kind \in {"transient", "notInTcrs", "items", "cafe"} : Says(Line(kind))
    BY <1>7 DEF JvmTrouble, JvmRefused, JvmStart, JvmCafe
  <2>2. Line(kind) \in Lines /\ Line(kind).done = 0
    BY DEF Line, Lines
  <2>3. jvm'.items = jvm.items /\ UNCHANGED tracker
    BY <1>7 DEF JvmTrouble, JvmRefused, JvmStart, JvmCafe
  <2> QED
    BY <1>6, <2>1, <2>2, <2>3
<1>8. CASE JvmIntrospect
  <2>1. jvm.items + 1 \in 0 .. Total /\ jvm'.items = jvm.items + 1 /\ UNCHANGED tracker
    BY <1>8 DEF JvmIntrospect
  <2>2. /\ Progress(jvm.items + 1) \in Lines
        /\ Progress(jvm.items + 1).done = jvm.items + 1
    BY <2>1 DEF Progress, Lines
  <2>3. CASE Says(Progress(jvm.items + 1))
    BY <1>6, <2>1, <2>2, <2>3
  <2>4. CASE UNCHANGED pipe
    <3>1. \A i \in 1 .. Len(pipe) : pipe[i].done \in Nat
      BY LinesCount
    <3> QED
      BY <2>1, <2>4, <3>1
  <2> QED
    BY <1>8, <2>3, <2>4 DEF JvmIntrospect
<1> QED
  BY <1>1, <1>2, <1>3, <1>4, <1>5, <1>7, <1>8 DEF Next, Continue, Returned, Jvm, vars

\* The work dir is empty until the JVM saves, and what it saves tells how far
\* its introspect went.
LEMMA SavedStep == IInv /\ [Next]_vars => SavedAfter'
<1> SUFFICES ASSUME IInv, [Next]_vars PROVE SavedAfter'
  OBVIOUS
<1> USE ItemsAssumption DEF IInv, Typed, TypeOK, SavedAfter, control, process, files, Worker
<1>1. CASE UNCHANGED vars
  BY <1>1 DEF vars
<1>2. CASE GiveUpBeforeAttempt \/ BeginAttempt \/ GiveUpBeforeSpawn \/ BackoffOver
           \/ BackoffAborted \/ Collect \/ Consume \/ HardTimeout \/ LoginTimeout
           \/ StallTimeout \/ Close \/ ChildError
  <2>1. UNCHANGED <<jvm, disk>> /\ (pc' = "seeded" => pc = "seeded")
    BY <1>2 DEF GiveUpBeforeAttempt, BeginAttempt, GiveUpBeforeSpawn, BackoffOver, BackoffAborted,
                Collect, CollectFrom, Consume, HardTimeout, LoginTimeout, StallTimeout, Close,
                ChildError, AttemptOver, Return
  <2> QED
    BY <2>1
<1>3. CASE Seed \/ Succeed \/ Judge
  <2>1. jvm' = jvm /\ (disk' = NoFiles \/ (disk' = disk /\ pc' = "returned"))
    BY <1>3 DEF Seed, Succeed, Judge, Threw, Return
  <2> QED
    BY <2>1, NoFilesType
<1>4. CASE Spawn
  <2>1. disk' = NoFiles /\ pc' # "seeded"
    BY <1>4 DEF Spawn
  <2> QED
    BY <2>1, NoFilesType
<1>5. CASE Escalate \/ Abort
  <2>1. UNCHANGED <<pc, disk>>
    BY <1>5 DEF Escalate, Abort
  <2>2. jvm'.items = jvm.items /\ jvm'.leader \in {jvm.leader, "dead"}
    BY <1>5 DEF Escalate, Abort, KillGroup
  <2> QED
    BY <2>1, <2>2
<1>6. CASE JvmTrouble \/ JvmRefused \/ JvmStart \/ JvmIntrospect \/ JvmCafe \/ JvmExit
           \/ DescendantExit
  <2>1. UNCHANGED <<pc, disk>>
    BY <1>6 DEF JvmTrouble, JvmRefused, JvmStart, JvmIntrospect, JvmCafe, JvmExit, DescendantExit
  <2>2. \/ jvm.leader \in {"login", "leaving", "items"}
        \/ jvm'.items = jvm.items /\ jvm'.leader \in {jvm.leader, "dead"}
    BY <1>6 DEF JvmTrouble, JvmRefused, JvmStart, JvmIntrospect, JvmCafe, JvmExit, DescendantExit
  <2> QED
    BY <2>1, <2>2, NoFilesType
<1>7. ASSUME NEW f \in Files, JvmSave(f) PROVE SavedAfter'
  <2>1. UNCHANGED <<pc, jvm>> /\ jvm.leader = "cafe" /\ pc # "seeded"
    BY <1>7 DEF JvmSave, Quiet, JvmAlive
  <2>2. \A g \in Files : disk'[g] = "short" => disk[g] = "short" \/ jvm.items < Total - Tolerance
    BY <1>7 DEF JvmSave
  <2> QED
    BY <2>1, <2>2
<1> QED
  BY <1>1, <1>2, <1>3, <1>4, <1>5, <1>6, <1>7 DEF Next, Continue, Returned, Jvm

\* Collecting stages a truncated file only where judging will see it, and
\* finishes only on files that are not truncated.
LEMMA CollectStages ==
    ASSUME IInv, Collect
    PROVE  /\ \A f \in Files : staged[f] # "short" => (staged'[f] = "short" => pc' = "judge" /\ Bailed')
           /\ Finishing'
<1> USE ItemsAssumption DEF IInv, Typed, TypeOK
<1>1. PICK got \in SUBSET NonEmpty :
        /\ staged' = [f \in Files |-> IF f \in got THEN disk[f] ELSE staged[f]]
        /\ copied' = Cardinality(got)
        /\ pc' = IF got = Files /\ IsIntrospectComplete(tracker) THEN "finish" ELSE "judge"
  BY DEF Collect, CollectFrom
<1>2. pc = "collect" /\ tracker' = tracker
  BY DEF Collect, CollectFrom
<1>3. ASSUME NEW f \in got, disk[f] = "short" PROVE ~IsIntrospectComplete(tracker) /\ copied' > 0
  <2>1. ~IsIntrospectComplete(tracker)
    BY <1>3 DEF SavedAfter, Behind, IsIntrospectComplete, NonEmpty
  <2>2. IsFiniteSet(got)
    BY FilesFinite, FS_Subset DEF NonEmpty
  <2>3. Cardinality(got) \in Nat /\ Cardinality(got) # 0
    BY <2>2, FS_CardinalityType, FS_EmptySet
  <2> QED
    BY <1>1, <2>1, <2>3
<1>4. ASSUME NEW f \in Files, staged[f] # "short", staged'[f] = "short"
      PROVE  pc' = "judge" /\ Bailed'
  <2>1. f \in got /\ disk[f] = "short"
    BY <1>1, <1>4
  <2> QED
    BY <1>1, <1>2, <1>3, <2>1 DEF Bailed, IsIntrospectComplete
<1>5. ASSUME pc' = "finish"
      PROVE  (\A f \in Files : staged'[f] \in {"torn", "whole"}) /\ IsIntrospectComplete(tracker)'
  <2>1. got = Files /\ IsIntrospectComplete(tracker)
    BY <1>1, <1>5
  <2>2. \A f \in Files : staged'[f] = disk[f] /\ disk[f] \in Contents \ {"absent", "empty"}
    BY <1>1, <2>1 DEF NonEmpty
  <2>3. \A f \in Files : disk[f] # "short"
    BY <1>3, <2>1
  <2> QED
    BY <1>2, <2>1, <2>2, <2>3 DEF Contents, IsIntrospectComplete
<1> QED
  BY <1>4, <1>5 DEF Finishing

LEMMA FinishingStep == IInv /\ [Next]_vars => Finishing'
<1> SUFFICES ASSUME IInv, [Next]_vars PROVE Finishing'
  OBVIOUS
<1> USE DEF IInv, Finishing, control, process, files, Worker
<1>1. CASE UNCHANGED vars
  BY <1>1 DEF vars, IsIntrospectComplete
<1>2. CASE Collect
  BY <1>2, CollectStages
<1>3. CASE GiveUpBeforeAttempt \/ BeginAttempt \/ Seed \/ GiveUpBeforeSpawn \/ Spawn
           \/ BackoffOver \/ BackoffAborted \/ Judge \/ Succeed
  BY <1>3 DEF GiveUpBeforeAttempt, BeginAttempt, Seed, GiveUpBeforeSpawn, Spawn, BackoffOver,
              BackoffAborted, Judge, Succeed, Threw, Return
<1>4. CASE Consume \/ HardTimeout \/ LoginTimeout \/ StallTimeout \/ Escalate \/ Close \/ ChildError
  BY <1>4 DEF Consume, HardTimeout, LoginTimeout, StallTimeout, Escalate, Close, ChildError,
              AttemptOver, Return
<1>5. CASE Abort \/ Jvm
  <2>1. UNCHANGED <<pc, staged, tracker>>
    BY <1>5 DEF Abort, Jvm, JvmTrouble, JvmRefused, JvmStart, JvmIntrospect, JvmCafe, JvmSave,
                JvmExit, DescendantExit
  <2> QED
    BY <2>1 DEF IsIntrospectComplete
<1> QED
  BY <1>1, <1>2, <1>3, <1>4, <1>5 DEF Next, Continue, Returned

\* What was returned stands, and so does what it was returned on.
LEMMA KeptStep == IInv /\ [Next]_vars => Kept'
<1> SUFFICES ASSUME IInv, [Next]_vars PROVE Kept'
  OBVIOUS
<1> USE DEF IInv, Kept, DoneIsComplete, control, process, files, Worker
<1>1. CASE UNCHANGED vars
  BY <1>1 DEF vars, IsIntrospectComplete
<1>2. CASE Succeed
  BY <1>2 DEF Succeed, Finishing, Threw, Return, IsIntrospectComplete
<1>3. ASSUME result' = result, pc # "returned" PROVE Kept'
  BY <1>3
<1>4. ASSUME ~result'.ok PROVE Kept'
  BY <1>4
<1>5. CASE BeginAttempt \/ Spawn \/ Collect \/ BackoffOver \/ Consume \/ HardTimeout
           \/ LoginTimeout \/ StallTimeout \/ Escalate \/ Abort
  BY <1>3, <1>5 DEF BeginAttempt, Spawn, Collect, CollectFrom, BackoffOver, Consume, HardTimeout,
                    LoginTimeout, StallTimeout, Escalate, Abort
<1>6. CASE GiveUpBeforeAttempt \/ Seed \/ GiveUpBeforeSpawn \/ BackoffAborted \/ Judge
           \/ Close \/ ChildError
  <2>1. pc # "returned" /\ (result' = result \/ \E why : Return(FALSE, why))
    BY <1>6 DEF GiveUpBeforeAttempt, Seed, GiveUpBeforeSpawn, BackoffAborted, Judge, Threw, Close,
                ChildError, AttemptOver
  <2>2. (\E why : Return(FALSE, why)) => ~result'.ok
    BY DEF Return
  <2> QED
    BY <1>3, <1>4, <2>1, <2>2
<1>7. CASE Jvm
  <2>1. jvm.leader # "none" /\ UNCHANGED <<pc, result, staged, tracker>>
    BY <1>7 DEF Jvm, JvmTrouble, JvmRefused, JvmStart, JvmIntrospect, JvmCafe, JvmSave,
                JvmExit, DescendantExit, Quiet, Typed, TypeOK, JvmAlive
  <2> QED
    BY <2>1 DEF IsIntrospectComplete
<1> QED
  BY <1>1, <1>2, <1>5, <1>6, <1>7 DEF Next, Continue, Returned

LEMMA IInvStep == IInv /\ [Next]_vars => IInv'
  BY TypeStep, QuietStep, BehindStep, SavedStep, FinishingStep, KeptStep DEF IInv

\* Judging discards what is truncated, if unlink is not refused.
LEMMA StagedStep ==
    ASSUME "unlink" \notin Faults
    PROVE  IInv /\ StagedClean /\ [Next]_vars => StagedClean'
<1> SUFFICES ASSUME IInv, StagedClean, [Next]_vars PROVE StagedClean'
  OBVIOUS
<1> USE DEF StagedClean, control, process, files, Worker
<1>1. CASE UNCHANGED vars
  BY <1>1 DEF vars, Bailed, IsIntrospectComplete
<1>2. CASE Collect
  <2>1. \A f \in Files : staged[f] # "short"
    BY <1>2 DEF Collect, CollectFrom
  <2> QED
    BY <1>2, <2>1, CollectStages
<1>3. CASE Judge
  <2>1. Discard
    BY <1>3 DEF Judge
  <2>2. CASE Bailed
    BY <2>1, <2>2 DEF Discard
  <2>3. CASE ~Bailed
    BY <2>1, <2>3 DEF Discard
  <2> QED
    BY <2>2, <2>3
<1>4. ASSUME staged' = staged, pc # "judge" PROVE StagedClean'
  BY <1>4
<1>5. CASE GiveUpBeforeAttempt \/ BeginAttempt \/ Seed \/ GiveUpBeforeSpawn \/ Spawn
           \/ BackoffOver \/ BackoffAborted \/ Succeed
  BY <1>4, <1>5 DEF GiveUpBeforeAttempt, BeginAttempt, Seed, GiveUpBeforeSpawn, Spawn, BackoffOver,
                    BackoffAborted, Succeed
<1>6. CASE Consume \/ HardTimeout \/ LoginTimeout \/ StallTimeout \/ Escalate \/ Close \/ ChildError
  BY <1>4, <1>6 DEF Consume, HardTimeout, LoginTimeout, StallTimeout, Escalate, Close, ChildError
<1>7. CASE Abort \/ Jvm
  <2>1. UNCHANGED <<pc, staged, copied, tracker>>
    BY <1>7 DEF Abort, Jvm, JvmTrouble, JvmRefused, JvmStart, JvmIntrospect, JvmCafe, JvmSave,
                JvmExit, DescendantExit
  <2> QED
    BY <2>1 DEF Bailed, IsIntrospectComplete
<1> QED
  BY <1>1, <1>2, <1>3, <1>5, <1>6, <1>7 DEF Next, Continue, Returned

-----------------------------------------------------------------------------

\* A permutation reported done had an introspect within the tolerance of the
\* end and all three of its files, none missing, empty or truncated.
THEOREM DoneMeansComplete == Spec => []DoneIsComplete
<1>1. IInv => DoneIsComplete
  BY DEF IInv, Kept, DoneIsComplete
<1> QED
  BY <1>1, InitIInv, IInvStep, PTL DEF Spec

\* Wherever the worker rests, no file of an introspect that bailed is staged,
\* unless unlink was refused.
THEOREM NothingTruncatedRests ==
    ASSUME "unlink" \notin Faults
    PROVE  Spec => []NoTruncatedAtRest
<1>1. StagedClean => NoTruncatedAtRest
  BY DEF StagedClean, NoTruncatedAtRest
<1> QED
  BY <1>1, InitIInv, IInvStep, StagedStep, PTL DEF Spec

\* A launched JVM is gone, with its children and all it had said, before the
\* worker collects, retries or returns.
THEOREM NothingOutlivesAttempt == Spec => [](pc # "attempt" => ~JvmAlive /\ pipe = <<>>)
<1>1. Quiet => (pc # "attempt" => ~JvmAlive /\ pipe = <<>>)
  BY DEF Quiet
<1>2. Init => Typed /\ Quiet
  BY InitIInv DEF IInv
<1> QED
  BY <1>1, <1>2, TypeStep, QuietStep, PTL DEF Spec

-----------------------------------------------------------------------------
(* The lines, in the order they are written and read *)

\* Where a line stands in the script: the header of the items, their count,
\* the cafe phases; network trouble may be said anywhere.
Tells(line) == line.kind \in {"items", "progress", "cafe"}
Mark(line) ==
    CASE line.kind = "cafe"  -> Total + 1
      [] line.kind = "items" -> 0
      [] OTHER -> line.done

\* How far the tracker has heard of it, and how far the JVM has told it.
Heard ==
    CASE tracker.phase = "cafe" -> Total + 1
      [] tracker.phase # "cafe" /\ (tracker.phase = "items" \/ tracker.items > 0) -> tracker.items
      [] OTHER -> -1
Told ==
    CASE jvm.leader \in {"none", "login", "leaving"} -> -1
      [] jvm.leader = "items" -> jvm.items
      [] OTHER -> Total + 1

\* The script is told in its order, and nothing of it twice.
InOrder ==
    /\ Heard <= Told
    /\ \A i \in 1 .. Len(pipe) : Tells(pipe[i]) => Heard < Mark(pipe[i]) /\ Mark(pipe[i]) <= Told
    /\ \A i, j \in 1 .. Len(pipe) :
          i < j /\ Tells(pipe[i]) /\ Tells(pipe[j]) => Mark(pipe[i]) < Mark(pipe[j])
    /\ jvm.leader \in {"none", "login", "leaving"} => jvm.items = 0

\* What was announced is known to the tracker or on its way to it.
Known(n) ==
    \/ tracker.items >= n
    \/ \E i \in 1 .. Len(pipe) : pipe[i].kind = "progress" /\ pipe[i].done >= n
NothingLost == \A n \in 1 .. jvm.items : Announced(n) => Known(n)

\* Nothing else is ever counted.
OnlyAnnounced ==
    /\ tracker.items > 0 => Announced(tracker.items)
    /\ \A i \in 1 .. Len(pipe) :
          pipe[i].kind = "progress" => pipe[i].done > 0 /\ Announced(pipe[i].done)

LEMMA SaysAppends ==
    ASSUME pipe \in Seq(Lines), NEW line \in Lines, Says(line)
    PROVE  /\ Len(pipe) \in Nat /\ Len(pipe') = Len(pipe) + 1
           /\ \A i \in 1 .. Len(pipe) : pipe'[i] = pipe[i]
           /\ pipe'[Len(pipe) + 1] = line
  BY DEF Says

LEMMA ReadsHead ==
    ASSUME pipe \in Seq(Lines), pipe # <<>>, pipe' = Tail(pipe)
    PROVE  /\ Len(pipe) \in Nat \ {0} /\ Len(pipe') = Len(pipe) - 1
           /\ \A i \in 1 .. Len(pipe') : pipe'[i] = pipe[i + 1]
           /\ Head(pipe) = pipe[1] /\ pipe[1] \in Lines
  OBVIOUS

\* What a step does to the conversation.
Silence == /\ UNCHANGED <<tracker, pipe>> /\ jvm'.items = jvm.items
           /\ jvm'.leader = jvm.leader \/ (JvmAlive /\ jvm'.leader = "dead")
Launches == /\ tracker' = FreshTracker /\ pipe = <<>> /\ pipe' = <<>>
            /\ jvm'.items = 0 /\ jvm'.leader \in {"none", "login"}
Noise(line) == ~Tells(line) /\ Says(line) /\ UNCHANGED tracker /\ jvm'.items = jvm.items
               /\ \/ jvm'.leader = jvm.leader
                  \/ jvm.leader = "login" /\ jvm'.leader = "leaving"

LEMMA Conversation ==
    ASSUME Typed, Quiet, [Next]_vars
    PROVE  \/ Silence \/ Launches \/ Consume
           \/ \E line \in Lines : Noise(line)
           \/ JvmStart \/ JvmIntrospect \/ JvmCafe
<1> USE DEF Typed, TypeOK, control, process, files, Worker
<1>1. CASE UNCHANGED vars
  BY <1>1 DEF vars, Silence
<1>2. CASE GiveUpBeforeAttempt \/ BeginAttempt \/ Seed \/ GiveUpBeforeSpawn \/ BackoffOver
           \/ BackoffAborted \/ Collect \/ Succeed \/ Judge \/ HardTimeout \/ LoginTimeout
           \/ StallTimeout \/ Close \/ ChildError
  BY <1>2 DEF GiveUpBeforeAttempt, BeginAttempt, Seed, GiveUpBeforeSpawn, BackoffOver,
              BackoffAborted, Collect, CollectFrom, Succeed, Judge, HardTimeout, LoginTimeout,
              StallTimeout, Close, ChildError, Silence
<1>3. CASE Spawn
  <2>1. tracker' = FreshTracker /\ pipe = <<>> /\ pipe' = <<>>
    BY <1>3 DEF Spawn, Quiet
  <2>2. \E leader \in {"none", "login"} : \E child : jvm' = [leader |-> leader, items |-> 0, child |-> child]
    BY <1>3 DEF Spawn
  <2> QED
    BY <2>1, <2>2 DEF Launches
<1>4. CASE Escalate \/ Abort \/ JvmExit \/ DescendantExit \/ \E f \in Files : JvmSave(f)
  BY <1>4 DEF Escalate, Abort, KillGroup, JvmExit, DescendantExit, JvmSave, Silence, JvmAlive
<1>5. CASE JvmTrouble \/ JvmRefused
  <2>1. PICK kind \in {"transient", "notInTcrs"} :
           Says(Line(kind)) /\ UNCHANGED tracker /\ jvm'.items = jvm.items
           /\ (jvm'.leader = jvm.leader \/ (jvm.leader = "login" /\ jvm'.leader = "leaving"))
    BY <1>5 DEF JvmTrouble, JvmRefused
  <2>2. Line(kind) \in Lines /\ ~Tells(Line(kind))
    BY ItemsAssumption DEF Line, Lines, Tells
  <2> QED
    BY <2>1, <2>2 DEF Noise
<1> QED
  BY <1>1, <1>2, <1>3, <1>4, <1>5 DEF Next, Continue, Returned, Jvm

LEMMA MarkTypes ==
    ASSUME Typed
    PROVE  /\ \A line \in Lines : Mark(line) \in 0 .. Total + 1
           /\ Heard \in -1 .. Total + 1 /\ Told \in -1 .. Total + 1
<1> USE ItemsAssumption DEF Typed, TypeOK
<1>1. \A line \in Lines : Mark(line) \in 0 .. Total + 1
  BY DEF Mark, Lines
<1>2. Heard \in -1 .. Total + 1
  BY DEF Heard
<1>3. Told \in -1 .. Total + 1
  BY DEF Told
<1> QED
  BY <1>1, <1>2, <1>3

LEMMA MarkTypesNext == ASSUME Typed' PROVE Heard' \in -1 .. Total + 1 /\ Told' \in -1 .. Total + 1
  BY ItemsAssumption DEF Typed, TypeOK, Heard, Told

\* A line read moves the tracker to its place in the script.
LEMMA ConsumeMoves ==
    ASSUME Typed, InOrder, Consume
    PROVE  /\ pipe \in Seq(Lines) /\ pipe # <<>> /\ pipe' = Tail(pipe) /\ jvm' = jvm
           /\ tracker' = Accept(tracker, pipe[1])
           /\ Tells(pipe[1]) => Heard' <= Mark(pipe[1])
           /\ ~Tells(pipe[1]) => Heard' = Heard
<1> USE ItemsAssumption DEF Typed, TypeOK
<1>1. pipe \in Seq(Lines) /\ pipe # <<>> /\ pipe' = Tail(pipe) /\ jvm' = jvm
  BY DEF Consume
<1>2. Head(pipe) = pipe[1] /\ pipe[1] \in Lines /\ 1 \in 1 .. Len(pipe)
  BY <1>1
<1>3. tracker' = Accept(tracker, pipe[1])
  BY <1>2 DEF Consume
<1> DEFINE line == pipe[1]
<1>4. Tells(line) => Heard < Mark(line)
  BY <1>2 DEF InOrder
<1>5. /\ line.kind \in {"transient", "notInTcrs", "items", "cafe", "progress"}
      /\ line.done \in 0 .. Total
  BY <1>2 DEF Lines
<1> HIDE DEF line
<1>6. ~Tells(line) => tracker'.phase = tracker.phase /\ tracker'.items = tracker.items
  BY <1>3, <1>5 DEF Tells, Accept, line
<1>7. CASE ~Tells(line)
  BY <1>1, <1>2, <1>3, <1>6, <1>7 DEF Heard, line
<1>8. CASE line.kind = "cafe"
  <2>1. tracker'.phase = "cafe" /\ Mark(line) = Total + 1
    BY <1>3, <1>8 DEF Accept, Mark, line
  <2> QED
    BY <1>1, <1>3, <1>8, <2>1 DEF Heard, Tells, line
<1>9. CASE line.kind = "items"
  <2>1. tracker'.phase = "items" /\ tracker'.items = tracker.items /\ Mark(line) = 0
    BY <1>3, <1>9 DEF Accept, Mark, line
  <2>2. Heard < 0
    BY <1>4, <1>9, <2>1 DEF Tells
  <2>3. tracker.items = 0
    BY <2>2 DEF Heard
  <2>4. Heard' = 0
    BY <2>1, <2>3 DEF Heard
  <2> QED
    BY <1>1, <1>3, <1>9, <2>1, <2>4 DEF Tells, line
<1>10. CASE line.kind = "progress"
  <2>1. Mark(line) = line.done /\ Heard < line.done
    BY <1>4, <1>10 DEF Mark, Tells
  <2>2. tracker.phase \in {"items", "none"}
    BY <1>5, <2>1 DEF Heard
  <2>3. tracker'.phase = tracker.phase /\ tracker'.items = line.done
    BY <1>3, <1>10, <2>2 DEF Accept, line
  <2>4. Heard' <= line.done
    BY <1>5, <2>2, <2>3 DEF Heard
  <2> QED
    BY <1>1, <1>3, <1>10, <2>1, <2>4 DEF Tells, line
<1> QED
  BY <1>5, <1>7, <1>8, <1>9, <1>10 DEF Tells

\* A line said takes the next place.
LEMMA SayingInOrder ==
    ASSUME Typed, Typed', InOrder, NEW line \in Lines, Says(line), UNCHANGED tracker, Told <= Told',
           Tells(line) => Told < Mark(line) /\ Mark(line) <= Told',
           jvm'.leader \in {"none", "login", "leaving"} => jvm'.items = 0
    PROVE  InOrder'
<1>1. pipe \in Seq(Lines)
  BY DEF Typed, TypeOK
<1>2. Heard' = Heard /\ Heard \in Int /\ Told \in Int /\ Told' \in Int
  BY MarkTypes, MarkTypesNext DEF Heard
<1>3. /\ Len(pipe) \in Nat /\ Len(pipe') = Len(pipe) + 1
      /\ \A i \in 1 .. Len(pipe) : pipe'[i] = pipe[i]
      /\ pipe'[Len(pipe) + 1] = line
  BY <1>1, SaysAppends
<1>4. \A i \in 1 .. Len(pipe) : Mark(pipe[i]) \in Int
  BY <1>1, MarkTypes
<1>5. Mark(line) \in Int
  BY MarkTypes
<1>6. Heard' <= Told'
  BY <1>2 DEF InOrder
<1>7. ASSUME NEW i \in 1 .. Len(pipe'), Tells(pipe'[i])
      PROVE  Heard' < Mark(pipe'[i]) /\ Mark(pipe'[i]) <= Told'
  <2>1. CASE i = Len(pipe) + 1
    BY <1>2, <1>3, <1>5, <1>7, <2>1 DEF InOrder
  <2>2. CASE i \in 1 .. Len(pipe)
    BY <1>2, <1>3, <1>4, <1>7, <2>2 DEF InOrder
  <2> QED
    BY <1>3, <2>1, <2>2
<1>8. ASSUME NEW i \in 1 .. Len(pipe'), NEW j \in 1 .. Len(pipe'), i < j,
             Tells(pipe'[i]), Tells(pipe'[j])
      PROVE  Mark(pipe'[i]) < Mark(pipe'[j])
  <2>1. i \in 1 .. Len(pipe) /\ pipe'[i] = pipe[i]
    BY <1>3, <1>8
  <2>2. CASE j = Len(pipe) + 1
    BY <1>2, <1>3, <1>4, <1>5, <1>8, <2>1, <2>2 DEF InOrder
  <2>3. CASE j \in 1 .. Len(pipe)
    BY <1>3, <1>8, <2>1, <2>3 DEF InOrder
  <2> QED
    BY <1>3, <2>2, <2>3
<1> QED
  BY <1>6, <1>7, <1>8 DEF InOrder

LEMMA InOrderStep == Typed /\ Quiet /\ InOrder /\ [Next]_vars => InOrder'
<1> SUFFICES ASSUME Typed, Quiet, InOrder, [Next]_vars PROVE InOrder'
  OBVIOUS
<1>1. Typed'
  BY TypeStep
<1>2. /\ jvm.items \in 0 .. Total
      /\ jvm.leader \in {"none", "login", "leaving", "items", "cafe", "dead"}
      /\ jvm'.items \in 0 .. Total /\ pipe \in Seq(Lines) /\ Total \in Nat
      /\ Heard \in -1 .. Total + 1 /\ Told \in -1 .. Total + 1
  BY <1>1, ItemsAssumption, MarkTypes DEF Typed, TypeOK
<1>3. CASE Silence
  <2>1. Heard' = Heard
    BY <1>3 DEF Silence, Heard
  <2>2. /\ Told' = Told \/ Told' = Total + 1
        /\ jvm'.leader \in {"none", "login", "leaving"} => jvm'.leader = jvm.leader
    BY <1>3, <1>2 DEF Silence, Told
  <2>3. Told <= Told' /\ Told' \in Int
    BY <1>2, <2>2
  <2>4. \A i \in 1 .. Len(pipe) : Mark(pipe[i]) \in Int
    BY <1>2, MarkTypes
  <2> QED
    BY <1>2, <1>3, <2>1, <2>2, <2>3, <2>4 DEF Silence, InOrder
<1>4. CASE Launches
  <2>1. Heard' = -1 /\ Told' = -1
    BY <1>4 DEF Launches, FreshTracker, Heard, Told
  <2> QED
    BY <1>4, <2>1 DEF Launches, InOrder
<1>5. CASE Consume
  <2>1. /\ Tells(pipe[1]) => Heard' <= Mark(pipe[1])
        /\ ~Tells(pipe[1]) => Heard' = Heard
        /\ Told' = Told /\ jvm' = jvm /\ pipe # <<>> /\ pipe' = Tail(pipe)
    BY <1>5, ConsumeMoves DEF Told
  <2>2. /\ Len(pipe) \in Nat \ {0} /\ Len(pipe') = Len(pipe) - 1
        /\ \A i \in 1 .. Len(pipe') : pipe'[i] = pipe[i + 1]
    BY <1>2, <2>1, ReadsHead
  <2>3. \A i \in 1 .. Len(pipe) : Mark(pipe[i]) \in Int
    BY <1>2, MarkTypes
  <2>4. Heard' \in Int
    BY <1>1, MarkTypesNext
  <2>5. Heard' <= Told'
    BY <1>2, <2>1, <2>2, <2>3, <2>4 DEF InOrder
  <2>6. ASSUME NEW i \in 1 .. Len(pipe'), Tells(pipe'[i])
        PROVE  Heard' < Mark(pipe'[i]) /\ Mark(pipe'[i]) <= Told'
    <3>1. i + 1 \in 1 .. Len(pipe) /\ 1 \in 1 .. Len(pipe) /\ 1 < i + 1 /\ pipe'[i] = pipe[i + 1]
      BY <2>2
    <3> QED
      BY <1>2, <2>1, <2>3, <2>4, <2>6, <3>1 DEF InOrder
  <2>7. ASSUME NEW i \in 1 .. Len(pipe'), NEW j \in 1 .. Len(pipe'), i < j,
               Tells(pipe'[i]), Tells(pipe'[j])
        PROVE  Mark(pipe'[i]) < Mark(pipe'[j])
    <3>1. /\ i + 1 \in 1 .. Len(pipe) /\ j + 1 \in 1 .. Len(pipe) /\ i + 1 < j + 1
          /\ pipe'[i] = pipe[i + 1] /\ pipe'[j] = pipe[j + 1]
      BY <2>2, <2>7
    <3> QED
      BY <2>7, <3>1 DEF InOrder
  <2> QED
    BY <2>1, <2>5, <2>6, <2>7 DEF InOrder
<1>6. CASE \E line \in Lines : Noise(line)
  <2> PICK line \in Lines : Noise(line)
    BY <1>6
  <2>1. Told' = Told /\ (jvm'.leader \in {"none", "login", "leaving"} => jvm'.items = 0)
    BY DEF Noise, Told, InOrder
  <2> QED
    BY <1>1, <1>2, <2>1, SayingInOrder DEF Noise
<1>7. CASE JvmStart
  <2>1. /\ Says(Line("items")) /\ UNCHANGED tracker /\ jvm'.leader = "items"
        /\ jvm'.items = 0 /\ jvm.leader = "login"
    BY <1>2, <1>7 DEF JvmStart, Worker, InOrder, Typed, TypeOK
  <2>2. Line("items") \in Lines /\ Mark(Line("items")) = 0
    BY <1>2 DEF Line, Lines, Mark
  <2>3. Told = -1 /\ Told' = 0
    BY <2>1 DEF Told
  <2> QED
    BY <1>1, <2>1, <2>2, <2>3, SayingInOrder
<1>8. CASE JvmIntrospect
  <2>1. /\ jvm.leader = "items" /\ jvm'.leader = "items" /\ jvm'.items = jvm.items + 1
        /\ UNCHANGED tracker /\ jvm.items + 1 \in 0 .. Total
    BY <1>2, <1>8 DEF JvmIntrospect, Worker, Typed, TypeOK
  <2>2. Told = jvm.items /\ Told' = jvm.items + 1
    BY <2>1 DEF Told
  <2>3. CASE Says(Progress(jvm.items + 1))
    <3>1. Progress(jvm.items + 1) \in Lines /\ Mark(Progress(jvm.items + 1)) = jvm.items + 1
      BY <2>1 DEF Progress, Lines, Mark
    <3> QED
      BY <1>1, <1>2, <2>1, <2>2, <2>3, <3>1, SayingInOrder
  <2>4. CASE UNCHANGED pipe
    <3>1. \A i \in 1 .. Len(pipe) : Mark(pipe[i]) \in Int
      BY <1>2, MarkTypes
    <3>2. Heard' = Heard
      BY <2>1 DEF Heard
    <3> QED
      BY <1>2, <2>1, <2>2, <2>4, <3>1, <3>2 DEF InOrder
  <2> QED
    BY <1>8, <2>3, <2>4 DEF JvmIntrospect
<1>9. CASE JvmCafe
  <2>1. /\ Says(Line("cafe")) /\ UNCHANGED tracker /\ jvm.leader = "items" /\ jvm'.leader = "cafe"
    BY <1>9 DEF JvmCafe, Worker, Typed, TypeOK
  <2>2. Line("cafe") \in Lines /\ Mark(Line("cafe")) = Total + 1
    BY <1>2 DEF Line, Lines, Mark
  <2>3. Told = jvm.items /\ Told' = Total + 1
    BY <2>1 DEF Told
  <2> QED
    BY <1>1, <1>2, <2>1, <2>2, <2>3, SayingInOrder
<1> QED
  BY <1>3, <1>4, <1>5, <1>6, <1>7, <1>8, <1>9, Conversation

\* Nothing that was counted is counted back, and a count read is the count.
LEMMA ConsumeCounts ==
    ASSUME Typed, InOrder, Consume
    PROVE  /\ tracker'.items >= tracker.items
           /\ pipe[1].kind = "progress" =>
                 /\ tracker'.items = pipe[1].done /\ tracker'.phase = tracker.phase
                 /\ tracker.phase # "cafe"
           /\ pipe[1].kind # "progress" => tracker'.items = tracker.items
<1>1. /\ pipe \in Seq(Lines) /\ pipe # <<>> /\ pipe' = Tail(pipe)
      /\ tracker' = Accept(tracker, pipe[1])
  BY ConsumeMoves
<1>2. pipe[1] \in Lines /\ 1 \in 1 .. Len(pipe)
  BY <1>1, ReadsHead
<1>3. /\ pipe[1].kind \in {"transient", "notInTcrs", "items", "cafe", "progress"}
      /\ pipe[1].done \in 0 .. Total
  BY <1>2 DEF Lines
<1>4. /\ tracker \in [phase: {"none", "items", "cafe"}, items: 0 .. Total,
                      started: BOOLEAN, sawTransient: BOOLEAN, notInTcrs: BOOLEAN]
      /\ Total \in Nat
  BY ItemsAssumption DEF Typed, TypeOK
<1>5. CASE pipe[1].kind = "progress"
  <2>1. Heard < pipe[1].done
    BY <1>2, <1>5 DEF InOrder, Tells, Mark
  <2>2. tracker.phase \in {"none", "items"} /\ tracker.items <= pipe[1].done
    BY <1>3, <1>4, <2>1 DEF Heard
  <2>3. tracker'.items = pipe[1].done /\ tracker'.phase = tracker.phase
    BY <1>1, <1>4, <1>5, <2>2 DEF Accept
  <2> QED
    BY <1>3, <1>4, <1>5, <2>2, <2>3
<1>6. CASE pipe[1].kind # "progress"
  <2>1. tracker'.items = tracker.items
    BY <1>1, <1>3, <1>4, <1>6 DEF Accept
  <2> QED
    BY <1>4, <1>6, <2>1
<1> QED
  BY <1>5, <1>6

LEMMA SayingKeepsKnown ==
    ASSUME Typed, NEW line \in Lines, Says(line), UNCHANGED tracker, NEW n \in Nat, Known(n)
    PROVE  Known(n)'
<1>1. pipe \in Seq(Lines)
  BY DEF Typed, TypeOK
<1>2. /\ Len(pipe) \in Nat /\ Len(pipe') = Len(pipe) + 1
      /\ \A i \in 1 .. Len(pipe) : pipe'[i] = pipe[i]
  BY <1>1, SaysAppends
<1> QED
  BY <1>2 DEF Known

LEMMA NothingLostStep == Typed /\ Quiet /\ InOrder /\ NothingLost /\ [Next]_vars => NothingLost'
<1> SUFFICES ASSUME Typed, Quiet, InOrder, NothingLost, [Next]_vars PROVE NothingLost'
  OBVIOUS
<1>1. /\ pipe \in Seq(Lines) /\ Total \in Nat /\ jvm.items \in 0 .. Total
      /\ tracker.items \in 0 .. Total
      /\ jvm \in [leader: {"none", "login", "leaving", "items", "cafe", "dead"},
                  items: 0 .. Total, child: BOOLEAN]
  BY ItemsAssumption DEF Typed, TypeOK
<1>2. CASE Silence
  BY <1>2 DEF Silence, NothingLost, Known
<1>3. CASE Launches
  BY <1>3 DEF Launches, NothingLost
<1>4. CASE Consume
  <2>1. pipe # <<>> /\ pipe' = Tail(pipe) /\ jvm' = jvm
    BY <1>4, ConsumeMoves
  <2>2. /\ Len(pipe) \in Nat \ {0} /\ Len(pipe') = Len(pipe) - 1
        /\ \A i \in 1 .. Len(pipe') : pipe'[i] = pipe[i + 1]
    BY <1>1, <2>1, ReadsHead
  <2>3. /\ tracker'.items >= tracker.items
        /\ pipe[1].kind = "progress" => tracker'.items = pipe[1].done
    BY <1>4, ConsumeCounts
  <2>4. tracker'.items \in Nat
    BY <1>4, TypeStep, ItemsAssumption DEF Typed, TypeOK
  <2> SUFFICES ASSUME NEW n \in 1 .. jvm.items, Announced(n) PROVE Known(n)'
    BY <2>1 DEF NothingLost
  <2>5. Known(n)
    BY DEF NothingLost
  <2>6. CASE tracker.items >= n
    BY <1>1, <2>3, <2>4, <2>6 DEF Known
  <2>7. ASSUME NEW i \in 1 .. Len(pipe), pipe[i].kind = "progress", pipe[i].done >= n
        PROVE  Known(n)'
    <3>1. CASE i = 1
      BY <2>3, <2>7, <3>1 DEF Known
    <3>2. CASE i # 1
      <4>1. i - 1 \in 1 .. Len(pipe') /\ pipe'[i - 1] = pipe[i]
        BY <2>2, <2>7, <3>2
      <4> QED
        BY <2>7, <4>1 DEF Known
    <3> QED
      BY <3>1, <3>2
  <2> QED
    BY <2>5, <2>6, <2>7 DEF Known
<1>5. ASSUME NEW line \in Lines, Says(line), UNCHANGED tracker, jvm'.items = jvm.items
      PROVE  NothingLost'
  BY <1>1, <1>5, SayingKeepsKnown DEF NothingLost
<1>6. CASE \E line \in Lines : Noise(line)
  BY <1>5, <1>6 DEF Noise
<1>7. CASE JvmStart \/ JvmCafe
  <2>1. Line("items") \in Lines /\ Line("cafe") \in Lines
    BY <1>1 DEF Line, Lines
  <2>2. UNCHANGED tracker /\ jvm'.items = jvm.items /\ (Says(Line("items")) \/ Says(Line("cafe")))
    BY <1>1, <1>7 DEF JvmStart, JvmCafe, Worker
  <2> QED
    BY <1>5, <2>1, <2>2
<1>8. CASE JvmIntrospect
  <2> DEFINE k == jvm.items + 1
  <2>1. UNCHANGED tracker /\ jvm'.items = k /\ k \in 1 .. Total
    BY <1>1, <1>8 DEF JvmIntrospect, Worker
  <2>2. Progress(k) \in Lines /\ Progress(k).kind = "progress" /\ Progress(k).done = k
    BY <2>1 DEF Progress, Lines
  <2>3. IF Announced(k) THEN Says(Progress(k)) ELSE UNCHANGED pipe
    BY <1>8 DEF JvmIntrospect
  <2> HIDE DEF k
  <2>4. ASSUME NEW n \in 1 .. k, Announced(n) PROVE Known(n)'
    <3>1. CASE n = k
      <4>1. Says(Progress(k))
        BY <2>3, <2>4, <3>1
      <4>2. /\ Len(pipe) \in Nat /\ Len(pipe') = Len(pipe) + 1
            /\ pipe'[Len(pipe) + 1] = Progress(k)
        BY <1>1, <2>2, <4>1, SaysAppends
      <4> QED
        BY <2>1, <2>2, <3>1, <4>2 DEF Known
    <3>2. CASE n # k
      <4>1. n \in 1 .. jvm.items
        BY <1>1, <2>4, <3>2 DEF k
      <4>2. Known(n)
        BY <2>4, <4>1 DEF NothingLost
      <4>3. CASE Announced(k)
        BY <2>1, <2>2, <2>3, <4>2, <4>3, SayingKeepsKnown
      <4>4. CASE ~Announced(k)
        BY <2>1, <2>3, <4>2, <4>4 DEF Known
      <4> QED
        BY <4>3, <4>4
    <3> QED
      BY <3>1, <3>2
  <2> QED
    BY <2>1, <2>4 DEF NothingLost
<1> QED
  BY <1>2, <1>3, <1>4, <1>6, <1>7, <1>8, Conversation

LEMMA InitInOrder == Init => InOrder /\ NothingLost /\ OnlyAnnounced
  BY ItemsAssumption DEF Init, InOrder, NothingLost, OnlyAnnounced, FreshTracker, Heard, Told

\* An introspect that walked every item is seen to be complete once everything
\* it had said is read: the last announcement lies within the tolerance.
LEMMA WholeRunComplete ==
    ASSUME Typed, NothingLost, jvm.items = Total, pipe = <<>>
    PROVE  IsIntrospectComplete(tracker)
<1>1. PICK n \in (Total - Tolerance) .. Total : n > 0 /\ Announced(n)
  BY ToleranceAssumption
<1>2. Total \in Nat /\ Tolerance \in 0 .. Total - 1
  BY ItemsAssumption
<1>3. Known(n)
  BY <1>1, <1>2 DEF NothingLost
<1>4. tracker.items >= n
  BY <1>3 DEF Known
<1>5. tracker.items \in Nat
  BY ItemsAssumption DEF Typed, TypeOK
<1> QED
  BY <1>1, <1>2, <1>4, <1>5 DEF IsIntrospectComplete

\* An introspect that walked every item is never thrown away as incomplete: the
\* outcome is decided on 'close', when every line has been read.
THEOREM WholeRunsAreKept == Spec => []WholeRunKept
<1> DEFINE Inv == Typed /\ Quiet /\ InOrder /\ NothingLost
<1>1. Init => Inv
  BY InitIInv, InitInOrder DEF IInv
<1>2. Inv /\ [Next]_vars => Inv'
  BY TypeStep, QuietStep, InOrderStep, NothingLostStep
<1>3. Inv => WholeRunKept
  BY WholeRunComplete DEF WholeRunKept, Quiet, Bailed
<1> QED
  BY <1>1, <1>2, <1>3, PTL DEF Spec

LEMMA OnlyAnnouncedStep == Typed /\ Quiet /\ InOrder /\ OnlyAnnounced /\ [Next]_vars => OnlyAnnounced'
<1> SUFFICES ASSUME Typed, Quiet, InOrder, OnlyAnnounced, [Next]_vars PROVE OnlyAnnounced'
  OBVIOUS
<1>1. pipe \in Seq(Lines) /\ Total \in Nat /\ jvm.items \in 0 .. Total
  BY ItemsAssumption DEF Typed, TypeOK
<1>2. CASE Silence
  BY <1>2 DEF Silence, OnlyAnnounced
<1>3. CASE Launches
  BY <1>3 DEF Launches, OnlyAnnounced, FreshTracker
<1>4. CASE Consume
  <2>1. pipe # <<>> /\ pipe' = Tail(pipe)
    BY <1>4, ConsumeMoves
  <2>2. /\ Len(pipe) \in Nat \ {0} /\ Len(pipe') = Len(pipe) - 1
        /\ \A i \in 1 .. Len(pipe') : pipe'[i] = pipe[i + 1] /\ i + 1 \in 1 .. Len(pipe)
    BY <1>1, <2>1, ReadsHead
  <2>3. tracker'.items = tracker.items
        \/ (pipe[1].kind = "progress" /\ tracker'.items = pipe[1].done)
    BY <1>4, ConsumeCounts
  <2> QED
    BY <2>2, <2>3 DEF OnlyAnnounced
<1>5. ASSUME NEW line \in Lines, Says(line), UNCHANGED tracker,
             line.kind = "progress" => line.done > 0 /\ Announced(line.done)
      PROVE  OnlyAnnounced'
  <2>1. /\ Len(pipe) \in Nat /\ Len(pipe') = Len(pipe) + 1
        /\ \A i \in 1 .. Len(pipe) : pipe'[i] = pipe[i]
        /\ pipe'[Len(pipe) + 1] = line
    BY <1>1, <1>5, SaysAppends
  <2> QED
    BY <1>5, <2>1 DEF OnlyAnnounced
<1>6. CASE \E line \in Lines : Noise(line)
  BY <1>5, <1>6 DEF Noise, Tells
<1>7. CASE JvmStart \/ JvmCafe
  <2>1. \A kind \in {"items", "cafe"} : Line(kind) \in Lines /\ Line(kind).kind # "progress"
    BY <1>1 DEF Line, Lines
  <2>2. UNCHANGED tracker /\ (Says(Line("items")) \/ Says(Line("cafe")))
    BY <1>7 DEF JvmStart, JvmCafe, Worker
  <2> QED
    BY <1>5, <2>1, <2>2
<1>8. CASE JvmIntrospect
  <2> DEFINE k == jvm.items + 1
  <2>1. UNCHANGED tracker /\ k \in 1 .. Total
    BY <1>1, <1>8 DEF JvmIntrospect, Worker
  <2>2. Progress(k) \in Lines /\ Progress(k).done = k
    BY <1>1, <2>1 DEF Progress, Lines
  <2>3. IF Announced(k) THEN Says(Progress(k)) ELSE UNCHANGED pipe
    BY <1>8 DEF JvmIntrospect
  <2> HIDE DEF k
  <2>4. CASE Announced(k)
    BY <1>5, <2>1, <2>2, <2>3, <2>4
  <2>5. CASE ~Announced(k)
    BY <2>1, <2>3, <2>5 DEF OnlyAnnounced
  <2> QED
    BY <2>4, <2>5
<1> QED
  BY <1>2, <1>3, <1>4, <1>6, <1>7, <1>8, Conversation

-----------------------------------------------------------------------------
(* The end of a run, as it is reported *)

\* No file without the header of the items, read or still to read.
HeardStart == tracker.started \/ \E i \in 1 .. Len(pipe) : pipe[i].kind = "items"
Begun ==
    /\ (\E f \in Files : disk[f] # "absent") \/ jvm.leader \in {"items", "cafe"} => HeardStart
    /\ pc = "judge" /\ copied > 0 => tracker.started

\* Until it returns, the worker has reported no end, keeps no reason of an
\* earlier attempt, and goes on only with an account that is in TCRS.
Reporting ==
    /\ pc # "returned" => row \notin {"done", "failed"} /\ result = Pending
    /\ pc \in {"seeding", "seeded"} => row = "login"
    /\ pc \notin {"loop", "backoff", "returned"} => reason = "none" /\ attempt > 0
    /\ outcome = "cancelled" => aborted
    /\ pc \in {"loop", "backoff"} => ~tracker.notInTcrs

LEMMA BegunStep == IInv /\ Begun /\ [Next]_vars => Begun'
<1> SUFFICES ASSUME IInv, Begun, [Next]_vars PROVE Begun'
  OBVIOUS
<1>1. /\ pipe \in Seq(Lines) /\ Typed /\ Quiet
      /\ tracker \in [phase: {"none", "items", "cafe"}, items: 0 .. Total,
                      started: BOOLEAN, sawTransient: BOOLEAN, notInTcrs: BOOLEAN]
      /\ jvm \in [leader: {"none", "login", "leaving", "items", "cafe", "dead"},
                  items: 0 .. Total, child: BOOLEAN]
  BY DEF IInv, Typed, TypeOK
<1> USE DEF control, process, files, Worker
<1>2. ASSUME UNCHANGED <<tracker, pipe>>, disk' \in {disk, NoFiles},
             jvm'.leader \in {jvm.leader, "dead", "none", "login"},
             pc' # "judge" \/ (pc' = pc /\ copied' = copied)
      PROVE  Begun'
  BY <1>2, NoFilesType DEF Begun, HeardStart
<1>3. CASE UNCHANGED vars
  BY <1>2, <1>3 DEF vars
<1>4. CASE GiveUpBeforeAttempt \/ BeginAttempt \/ Seed \/ GiveUpBeforeSpawn \/ BackoffOver
           \/ BackoffAborted \/ Succeed \/ Judge \/ HardTimeout \/ LoginTimeout
           \/ StallTimeout \/ Close \/ ChildError
  <2>1. UNCHANGED <<tracker, pipe, jvm>> /\ disk' \in {disk, NoFiles}
    BY <1>4 DEF GiveUpBeforeAttempt, BeginAttempt, Seed, GiveUpBeforeSpawn, BackoffOver,
                BackoffAborted, Succeed, Judge, HardTimeout, LoginTimeout, StallTimeout, Close,
                ChildError
  <2>2. pc' # "judge"
    BY <1>4 DEF GiveUpBeforeAttempt, BeginAttempt, Seed, GiveUpBeforeSpawn, BackoffOver,
                BackoffAborted, Succeed, Judge, HardTimeout, LoginTimeout, StallTimeout, Close,
                ChildError, Return, Threw, AttemptOver
  <2> QED
    BY <1>2, <2>1, <2>2
<1>5. CASE Collect
  <2>1. PICK got \in SUBSET NonEmpty : copied' = Cardinality(got)
    BY <1>5 DEF Collect, CollectFrom
  <2>2. UNCHANGED <<tracker, pipe, jvm, disk>> /\ pipe = <<>>
    BY <1>1, <1>5 DEF Collect, CollectFrom, Quiet
  <2>3. ASSUME copied' > 0 PROVE tracker.started
    <3>1. got # {}
      BY <2>1, <2>3, FS_EmptySet
    <3>2. \E f \in Files : disk[f] # "absent"
      BY <3>1 DEF NonEmpty
    <3> QED
      BY <2>2, <3>2 DEF Begun, HeardStart
  <2> QED
    BY <2>2, <2>3 DEF Begun, HeardStart
<1>6. CASE Spawn
  <2>1. disk = NoFiles /\ disk' = disk /\ pc' # "judge"
    BY <1>6 DEF Spawn, IInv, SavedAfter
  <2>2. \E leader \in {"none", "login"} : \E child : jvm' = [leader |-> leader, items |-> 0, child |-> child]
    BY <1>6 DEF Spawn
  <2>3. jvm'.leader \in {"none", "login"}
    BY <2>2
  <2> QED
    BY <2>1, <2>3, NoFilesType DEF Begun
<1>7. CASE Escalate \/ Abort \/ JvmExit \/ DescendantExit
  BY <1>1, <1>2, <1>7 DEF Escalate, Abort, KillGroup, JvmExit, DescendantExit
<1>8. CASE Consume
  <2>1. /\ pipe # <<>> /\ pipe' = Tail(pipe) /\ tracker' = Accept(tracker, Head(pipe))
        /\ UNCHANGED <<jvm, disk, pc>> /\ pc = "attempt"
    BY <1>8 DEF Consume
  <2>2. /\ Len(pipe) \in Nat \ {0} /\ Len(pipe') = Len(pipe) - 1 /\ Head(pipe) = pipe[1]
        /\ \A i \in 1 .. Len(pipe') : pipe'[i] = pipe[i + 1] /\ i + 1 \in 1 .. Len(pipe)
        /\ pipe[1] \in Lines
    BY <1>1, <2>1, ReadsHead
  <2>3. pipe[1].kind = "items" \/ tracker.started => tracker'.started
    BY <1>1, <2>1, <2>2 DEF Accept, Lines
  <2>4. HeardStart => HeardStart'
    <3>1. ASSUME NEW i \in 1 .. Len(pipe), pipe[i].kind = "items", i # 1
          PROVE  i - 1 \in 1 .. Len(pipe') /\ pipe'[i - 1].kind = "items"
      BY <2>2, <3>1
    <3> QED
      BY <2>3, <3>1 DEF HeardStart
  <2> QED
    BY <2>1, <2>4 DEF Begun
<1>9. ASSUME NEW line \in Lines, Says(line), UNCHANGED <<tracker, disk, pc>>,
             line.kind = "items" \/ jvm'.leader \in {jvm.leader, "leaving"} \/ jvm.leader = "items",
             pc = "attempt"
      PROVE  Begun'
  <2>1. /\ Len(pipe) \in Nat /\ Len(pipe') = Len(pipe) + 1
        /\ \A i \in 1 .. Len(pipe) : pipe'[i] = pipe[i]
        /\ pipe'[Len(pipe) + 1] = line
    BY <1>1, <1>9, SaysAppends
  <2>2. HeardStart \/ line.kind = "items" => HeardStart'
    BY <1>9, <2>1 DEF HeardStart
  <2> QED
    BY <1>9, <2>2 DEF Begun
<1>10. CASE Jvm
  <2>1. pc = "attempt"
    BY <1>1, <1>10 DEF Jvm, JvmTrouble, JvmRefused, JvmStart, JvmIntrospect, JvmCafe, JvmSave,
                JvmExit, DescendantExit, Quiet, JvmAlive
  <2>2. CASE JvmTrouble \/ JvmRefused \/ JvmStart \/ JvmCafe
    <3>1. \A kind \in {"transient", "notInTcrs", "items", "cafe"} :
             Line(kind) \in Lines /\ Line(kind).kind = kind
      BY ItemsAssumption DEF Line, Lines
    <3>2. UNCHANGED <<tracker, disk, pc>>
      BY <2>2 DEF JvmTrouble, JvmRefused, JvmStart, JvmCafe
    <3>3. \/ Says(Line("transient")) /\ jvm' = jvm
          \/ Says(Line("notInTcrs")) /\ jvm'.leader = "leaving"
          \/ Says(Line("items"))
          \/ Says(Line("cafe")) /\ jvm.leader = "items"
      BY <1>1, <2>2 DEF JvmTrouble, JvmRefused, JvmStart, JvmCafe
    <3> QED
      BY <1>9, <2>1, <3>1, <3>2, <3>3
  <2>3. CASE JvmIntrospect
    <3>1. /\ jvm.items + 1 \in 0 .. Total /\ UNCHANGED <<tracker, disk, pc>>
          /\ jvm.leader = "items" /\ jvm'.leader = "items"
      BY <1>1, <2>3, ItemsAssumption DEF JvmIntrospect
    <3>2. Progress(jvm.items + 1) \in Lines
      BY <3>1 DEF Progress, Lines
    <3>3. Says(Progress(jvm.items + 1)) \/ UNCHANGED pipe
      BY <2>3 DEF JvmIntrospect
    <3> QED
      BY <1>2, <1>9, <2>1, <3>1, <3>2, <3>3
  <2>4. ASSUME NEW f \in Files, JvmSave(f) PROVE Begun'
    BY <2>1, <2>4 DEF JvmSave, Begun, HeardStart
  <2> QED
    BY <1>7, <1>10, <2>2, <2>3, <2>4 DEF Jvm
<1> QED
  BY <1>3, <1>4, <1>5, <1>6, <1>7, <1>8, <1>10 DEF Next, Continue, Returned

LEMMA ReportingStep == Typed /\ Quiet /\ Reporting /\ [Next]_vars => Reporting'
<1> SUFFICES ASSUME Typed, Quiet, Reporting, [Next]_vars PROVE Reporting'
  OBVIOUS
<1>1. attempt \in Nat /\ row \in Rows
  BY AttemptsAssumption DEF Typed, TypeOK
<1> USE DEF Reporting, control, process, files, Worker
<1>2. CASE UNCHANGED vars
  BY <1>2 DEF vars
<1>3. CASE GiveUpBeforeAttempt \/ GiveUpBeforeSpawn \/ BackoffAborted \/ Succeed
  BY <1>3 DEF GiveUpBeforeAttempt, GiveUpBeforeSpawn, BackoffAborted, Succeed, Threw, Return
<1>4. CASE BeginAttempt
  BY <1>1, <1>4 DEF BeginAttempt
<1>5. CASE Seed \/ BackoffOver \/ Collect
  BY <1>5 DEF Seed, BackoffOver, Collect, CollectFrom, Return
<1>6. CASE Spawn
  <2>1. /\ pc = "seeded" /\ pc' \in {"attempt", "collect"} /\ outcome' # "cancelled"
        /\ UNCHANGED <<attempt, aborted, reason, result, row>>
    BY <1>6 DEF Spawn
  <2> QED
    BY <2>1
<1>7. CASE Judge
  <2>1. UNCHANGED <<attempt, aborted, tracker, outcome>> /\ pc = "judge"
    BY <1>7 DEF Judge
  <2>2. \/ pc' = "returned"
        \/ pc' = "backoff" /\ row' = "retrying" /\ result' = result /\ ~tracker.notInTcrs
    BY <1>7 DEF Judge, Threw, Return, Retryable, Transient
  <2> QED
    BY <2>1, <2>2
<1>8. CASE Consume
  <2>1. UNCHANGED <<pc, attempt, reason, result, aborted>> /\ pc = "attempt"
    BY <1>8 DEF Consume
  <2>2. row' \in {row, "stalled", "introspecting"} /\ outcome' \in {outcome, "transient"}
    BY <1>8 DEF Consume, RowAfter, Finish
  <2> QED
    BY <2>1, <2>2
<1>9. CASE HardTimeout \/ LoginTimeout \/ StallTimeout
  BY <1>9 DEF HardTimeout, LoginTimeout, StallTimeout, Finish
<1>10. CASE Escalate \/ Abort
  BY <1>10 DEF Escalate, Abort, Finish
<1>11. CASE Close \/ ChildError
  <2>1. UNCHANGED <<attempt, aborted, tracker, reason, row>> /\ pc = "attempt"
    BY <1>11 DEF Close, ChildError
  <2>2. outcome' = outcome \/ outcome' = "exited"
    BY <1>11 DEF Close, ChildError, AttemptOver, Finish
  <2>3. pc' = "returned" \/ (pc' = "collect" /\ result' = result)
    BY <1>11 DEF Close, ChildError, AttemptOver, Return
  <2> QED
    BY <2>1, <2>2, <2>3
<1>12. CASE Jvm
  <2>1. UNCHANGED Worker
    BY <1>12 DEF Jvm, JvmTrouble, JvmRefused, JvmStart, JvmIntrospect, JvmCafe, JvmSave,
                 JvmExit, DescendantExit
  <2> QED
    BY <2>1
<1> QED
  BY <1>2, <1>3, <1>4, <1>5, <1>6, <1>7, <1>8, <1>9, <1>10, <1>11, <1>12 DEF Next, Continue, Returned

\* Steps that do not return.
LEMMA StaysReported ==
    ASSUME pc' # "returned" \/ UNCHANGED <<pc, row, result, aborted, tracker, outcome>>
    PROVE  /\ RowMatchesResult => RowMatchesResult'
           /\ ReasonIsLastAttempts => ReasonIsLastAttempts'
  BY DEF RowMatchesResult, ReasonIsLastAttempts, IsIntrospectComplete

\* What Judge makes of an attempt: the reason is about this attempt.
LEMMA JudgeReports ==
    ASSUME Typed, Quiet, Begun, Reporting, Judge, pc' = "returned"
    PROVE  RowMatchesResult' /\ ReasonIsLastAttempts'
<1>1. /\ UNCHANGED <<attempt, aborted, tracker, outcome>> /\ pc = "judge"
      /\ reason = "none" /\ copied \in Nat
  BY DEF Judge, Reporting, Typed, TypeOK
<1>2. IsIntrospectComplete(tracker)' = IsIntrospectComplete(tracker)
  BY <1>1 DEF IsIntrospectComplete
<1>3. copied > 0 => tracker.started
  BY <1>1 DEF Begun
<1>4. /\ Classified \in {"not-in-tcrs", "login", "timeout", "stalled", "no-files", "incomplete", "none"}
      /\ Classified = "incomplete" => copied > 0 /\ ~IsIntrospectComplete(tracker)
      /\ Classified = "login" => ~tracker.started \/ outcome = "loginTimeout"
      /\ Classified = "no-files" => tracker.started
      /\ Classified = "none" => copied > 0
      /\ Classified = "timeout" => outcome = "hardTimeout"
      /\ Classified = "stalled" => outcome = "stallTimeout"
  BY <1>1 DEF Classified, Bailed
<1>5. \/ row' = "failed" /\ Return(FALSE, "spawn")
      \/ row' = "failed" /\ Return(FALSE, IF Classified = "none" THEN "no-files" ELSE Classified)
  BY DEF Judge, Threw
<1>6. PICK why \in {"spawn", "not-in-tcrs", "login", "timeout", "stalled", "no-files", "incomplete"} :
        /\ row' = "failed" /\ result' = [ok |-> FALSE, reason |-> why]
        /\ why \in {"spawn", Classified} \/ (Classified = "none" /\ why = "no-files")
  BY <1>4, <1>5 DEF Return
<1> QED
  BY <1>1, <1>2, <1>3, <1>4, <1>6 DEF RowMatchesResult, ReasonIsLastAttempts

LEMMA ReportedStep ==
    Typed /\ Quiet /\ Begun /\ Reporting /\ RowMatchesResult /\ ReasonIsLastAttempts /\ [Next]_vars
        => RowMatchesResult' /\ ReasonIsLastAttempts'
<1> SUFFICES ASSUME Typed, Quiet, Begun, Reporting, RowMatchesResult, ReasonIsLastAttempts, [Next]_vars
             PROVE  RowMatchesResult' /\ ReasonIsLastAttempts'
  OBVIOUS
<1> USE DEF control, process, files, Worker
<1>1. CASE UNCHANGED vars
  BY <1>1, StaysReported DEF vars
<1>2. CASE BeginAttempt \/ Spawn \/ BackoffOver \/ Collect \/ Consume \/ HardTimeout \/ LoginTimeout
           \/ StallTimeout \/ Escalate \/ Abort
  <2>1. pc' # "returned"
    BY <1>2 DEF BeginAttempt, Spawn, BackoffOver, Collect, CollectFrom, Consume, HardTimeout,
                LoginTimeout, StallTimeout, Escalate, Abort
  <2> QED
    BY <2>1, StaysReported
<1>3. CASE GiveUpBeforeAttempt \/ GiveUpBeforeSpawn \/ BackoffAborted
  <2>1. /\ result' = [ok |-> FALSE, reason |-> "cancelled"] /\ aborted' /\ row' \notin {"done", "failed"}
    BY <1>3 DEF GiveUpBeforeAttempt, GiveUpBeforeSpawn, BackoffAborted, Return, Reporting
  <2> QED
    BY <2>1 DEF RowMatchesResult, ReasonIsLastAttempts
<1>4. CASE Seed
  <2>1. \/ pc' = "seeded"
        \/ result' = [ok |-> FALSE, reason |-> "spawn"] /\ row' = "login"
    BY <1>4 DEF Seed, Return, Reporting
  <2>2. CASE pc' = "seeded"
    BY <2>2, StaysReported
  <2>3. CASE result' = [ok |-> FALSE, reason |-> "spawn"] /\ row' = "login"
    BY <2>3 DEF RowMatchesResult, ReasonIsLastAttempts
  <2> QED
    BY <2>1, <2>2, <2>3
<1>5. CASE Succeed
  <2>1. \/ row' = "done" /\ result' = [ok |-> TRUE, reason |-> "none"]
        \/ row' = "failed" /\ result' = [ok |-> FALSE, reason |-> "spawn"]
    BY <1>5 DEF Succeed, Threw, Return
  <2> QED
    BY <2>1 DEF RowMatchesResult, ReasonIsLastAttempts
<1>6. CASE Judge
  <2>1. CASE pc' = "returned"
    BY <1>6, <2>1, JudgeReports
  <2> QED
    BY <2>1, StaysReported
<1>7. CASE Close \/ ChildError
  <2>1. pc = "attempt" /\ UNCHANGED <<aborted, row>>
        /\ (outcome = "cancelled" => aborted) /\ row \notin {"done", "failed"}
    BY <1>7 DEF Close, ChildError, Reporting
  <2>2. \/ pc' = "collect"
        \/ outcome = "cancelled" /\ result' = [ok |-> FALSE, reason |-> "cancelled"]
    BY <1>7 DEF Close, ChildError, AttemptOver, Return
  <2>3. CASE pc' = "collect"
    BY <2>3, StaysReported
  <2>4. CASE outcome = "cancelled" /\ result' = [ok |-> FALSE, reason |-> "cancelled"]
    BY <2>1, <2>4 DEF RowMatchesResult, ReasonIsLastAttempts
  <2> QED
    BY <2>2, <2>3, <2>4
<1>8. CASE Jvm
  <2>1. UNCHANGED Worker
    BY <1>8 DEF Jvm, JvmTrouble, JvmRefused, JvmStart, JvmIntrospect, JvmCafe, JvmSave,
                JvmExit, DescendantExit
  <2> QED
    BY <2>1, StaysReported
<1> QED
  BY <1>1, <1>2, <1>3, <1>4, <1>5, <1>6, <1>7, <1>8 DEF Next, Continue, Returned

ReportInv == IInv /\ Begun /\ Reporting /\ RowMatchesResult /\ ReasonIsLastAttempts

LEMMA InitReport == Init => ReportInv
<1> SUFFICES ASSUME Init PROVE ReportInv
  OBVIOUS
<1>1. IInv
  BY InitIInv
<1>2. Begun
  BY NoFilesType DEF Init, Begun
<1>3. Reporting /\ RowMatchesResult /\ ReasonIsLastAttempts
  BY DEF Init, Reporting, RowMatchesResult, ReasonIsLastAttempts, FreshTracker
<1> QED
  BY <1>1, <1>2, <1>3 DEF ReportInv

LEMMA ReportStep == ReportInv /\ [Next]_vars => ReportInv'
  BY IInvStep, BegunStep, ReportingStep, ReportedStep DEF ReportInv, IInv

\* The row of a permutation ends as the batch is told it ended: "done" exactly
\* on success, and settled unless it was cancelled or got no work directory.
THEOREM RowTellsTheResult == Spec => []RowMatchesResult
<1>1. ReportInv => RowMatchesResult
  BY DEF ReportInv
<1> QED
  BY <1>1, InitReport, ReportStep, PTL DEF Spec

\* The reason given for a failure is one the last attempt gave cause for.
THEOREM ReasonsAreTheLastAttempts == Spec => []ReasonIsLastAttempts
<1>1. ReportInv => ReasonIsLastAttempts
  BY DEF ReportInv
<1> QED
  BY <1>1, InitReport, ReportStep, PTL DEF Spec

\* An account found not to be in TCRS costs no further attempt, whatever else
\* went wrong with that one.
THEOREM NotInTcrsEndsIt == Spec => NeverRetriesNotInTcrs
<1>1. ReportInv /\ [Next]_vars => [attempt' # attempt => ~tracker.notInTcrs]_vars
  <2> SUFFICES ASSUME ReportInv, Next, attempt' # attempt PROVE ~tracker.notInTcrs
    OBVIOUS
  <2>1. pc = "loop"
    <3> USE DEF control, process, files, Worker
    <3>1. CASE BeginAttempt
      BY <3>1 DEF BeginAttempt
    <3>2. ~(GiveUpBeforeAttempt \/ Seed \/ GiveUpBeforeSpawn \/ Spawn \/ Collect \/ Succeed \/ Judge
            \/ BackoffOver \/ BackoffAborted)
      BY DEF GiveUpBeforeAttempt, Seed, GiveUpBeforeSpawn, Spawn, Collect, CollectFrom, Succeed,
             Judge, BackoffOver, BackoffAborted
    <3>3. ~(Consume \/ HardTimeout \/ LoginTimeout \/ StallTimeout \/ Escalate \/ Close \/ ChildError
            \/ Abort \/ Returned)
      BY DEF Consume, HardTimeout, LoginTimeout, StallTimeout, Escalate, Close, ChildError, Abort,
             Returned, vars
    <3>4. ~Jvm
      BY DEF Jvm, JvmTrouble, JvmRefused, JvmStart, JvmIntrospect, JvmCafe, JvmSave, JvmExit,
             DescendantExit
    <3> QED
      BY <3>1, <3>2, <3>3, <3>4 DEF Next, Continue
  <2> QED
    BY <2>1 DEF ReportInv, Reporting
<1> QED
  BY <1>1, InitReport, ReportStep, PTL DEF Spec, NeverRetriesNotInTcrs

\* What is read after a watchdog has marked the row stalled cannot move it: it
\* stays so until the attempt is over.
THEOREM StalledStays == Spec => StalledUntilNextAttempt
<1>1. [Next]_vars => [ row = "stalled" /\ row' # row
                       /\ (outcome = "loginTimeout" \/ "hard" \notin timers)
                       => pc' # "attempt" ]_vars
  <2> SUFFICES ASSUME Next, row = "stalled", row' # row, pc' = "attempt" PROVE FALSE
    OBVIOUS
  <2> USE DEF control, process, files, Worker
  <2>1. ~(Consume \/ HardTimeout \/ LoginTimeout)
    BY DEF Consume, RowAfter, Settled, HardTimeout, LoginTimeout
  <2>2. ~(StallTimeout \/ Escalate \/ Close \/ ChildError \/ Abort \/ Returned \/ Jvm)
    BY DEF StallTimeout, Escalate, Close, ChildError, Abort, Returned, vars, Jvm, JvmTrouble,
           JvmRefused, JvmStart, JvmIntrospect, JvmCafe, JvmSave, JvmExit, DescendantExit
  <2>3. ~Continue
    BY DEF Continue, GiveUpBeforeAttempt, BeginAttempt, Seed, GiveUpBeforeSpawn, Spawn, Collect,
           CollectFrom, Succeed, Judge, BackoffOver, BackoffAborted, Return, Threw
  <2> QED
    BY <2>1, <2>2, <2>3 DEF Next
<1> QED
  BY <1>1, PTL DEF Spec, StalledUntilNextAttempt

-----------------------------------------------------------------------------
(* The contract: each step is one of the contract's, or changes nothing it  *)
(* speaks of                                                                *)

Clean == ReportInv /\ StagedClean

LEMMA Verdicts ==
    /\ Verdict = "pending" <=> pc # "returned"
    /\ pc = "returned" /\ result.ok => Verdict = "ok"
    /\ pc = "returned" /\ ~result.ok =>
          Verdict = IF result.reason = "cancelled" THEN "cancelled" ELSE "failed"
  BY DEF Verdict

LEMMA VerdictsNext ==
    /\ Verdict' = "pending" <=> pc' # "returned"
    /\ pc' = "returned" /\ result'.ok => Verdict' = "ok"
    /\ pc' = "returned" /\ ~result'.ok =>
          Verdict' = IF result'.reason = "cancelled" THEN "cancelled" ELSE "failed"
  BY DEF Verdict

\* Returning settles it.
LEMMA Returning ==
    ASSUME pc # "returned", ~JvmAlive, Clean', pc' = "returned",
           UNCHANGED <<attempt, aborted, jvm>>
    PROVE  Contract!Settle
<1>1. Contract!Idle
  BY Verdicts DEF Contract!Idle
<1>2. /\ Typed' /\ StagedClean' /\ RowMatchesResult' /\ (result'.ok => DoneIsComplete')
  BY DEF Clean, ReportInv, IInv, Kept
<1>3. \A f \in Files : staged'[f] # "short"
  BY <1>2 DEF StagedClean
<1>4. staged' \in [Files -> Contents]
  BY <1>2 DEF Typed, TypeOK
<1>5. staged' \in [Files -> Contents \ {"short"}]
  BY <1>3, <1>4
<1>6. result'.ok \in BOOLEAN
  BY <1>2 DEF Typed, TypeOK
<1>7. /\ Verdict' \in {"ok", "failed", "cancelled"}
      /\ Verdict' = "ok" => result'.ok
      /\ Verdict' = "cancelled" => result'.reason = "cancelled"
  BY <1>6, VerdictsNext
<1>8. Verdict' = "ok" => \A f \in Files : staged'[f] \notin {"absent", "empty"}
  BY <1>2, <1>7 DEF DoneIsComplete
<1>9. Verdict' = "cancelled" => aborted
  BY <1>2, <1>7 DEF RowMatchesResult
<1>10. JvmAlive' = JvmAlive
  BY DEF JvmAlive
<1> QED
  BY <1>1, <1>5, <1>7, <1>8, <1>9, <1>10 DEF Contract!Settle

\* A step the contract does not speak of.
LEMMA Unspoken ==
    ASSUME UNCHANGED <<attempt, aborted, staged>>, JvmAlive' = JvmAlive,
           pc # "returned", pc' # "returned"
    PROVE  UNCHANGED Contract!vars
  BY Verdicts, VerdictsNext DEF Contract!vars

\* The steps between the attempts.
LEMMA LoopRefines ==
    ASSUME Clean, Clean',
           GiveUpBeforeAttempt \/ BeginAttempt \/ Seed \/ GiveUpBeforeSpawn \/ Spawn
           \/ BackoffOver \/ BackoffAborted
    PROVE  [Contract!Next]_Contract!vars
<1> USE DEF control, process, files
<1>1. pc # "returned" /\ ~JvmAlive /\ attempt \in 0 .. MaxAttempts /\ MaxAttempts \in Nat
  <2>1. Quiet /\ Typed
    BY DEF Clean, ReportInv, IInv
  <2> QED
    BY <2>1, AttemptsAssumption
       DEF Quiet, Typed, TypeOK, GiveUpBeforeAttempt, BeginAttempt, Seed, GiveUpBeforeSpawn, Spawn,
           BackoffOver, BackoffAborted
<1>2. CASE GiveUpBeforeAttempt \/ Seed \/ GiveUpBeforeSpawn \/ BackoffOver \/ BackoffAborted
  <2>1. UNCHANGED <<attempt, aborted, jvm, staged>>
    BY <1>2 DEF GiveUpBeforeAttempt, Seed, GiveUpBeforeSpawn, BackoffOver, BackoffAborted
  <2>2. CASE pc' = "returned"
    BY <1>1, <2>1, <2>2, Returning DEF Contract!Next
  <2>3. CASE pc' # "returned"
    BY <1>1, <2>1, <2>3, Unspoken DEF JvmAlive
  <2> QED
    BY <2>2, <2>3
<1>3. CASE BeginAttempt
  <2>1. /\ attempt' = attempt + 1 /\ attempt < MaxAttempts /\ ~aborted
        /\ UNCHANGED <<aborted, jvm, staged>> /\ pc' # "returned"
    BY <1>3 DEF BeginAttempt, Clean, ReportInv, IInv, Typed, AttemptLeft
  <2>2. Contract!Try
    BY <1>1, <2>1, Verdicts, VerdictsNext DEF Contract!Try, Contract!Idle, JvmAlive
  <2> QED
    BY <2>2 DEF Contract!Next
<1>4. CASE Spawn
  <2>1. ~aborted /\ pc' # "returned" /\ attempt > 0 /\ UNCHANGED <<attempt, aborted, staged>>
    BY <1>4 DEF Spawn, Clean, ReportInv, Reporting
  <2>2. CASE JvmAlive'
    <3>1. Contract!Launch
      BY <1>1, <2>1, <2>2, Verdicts, VerdictsNext DEF Contract!Launch, Contract!Idle
    <3> QED
      BY <3>1 DEF Contract!Next
  <2>3. CASE ~JvmAlive'
    BY <1>1, <2>1, <2>3, Unspoken DEF JvmAlive
  <2> QED
    BY <2>2, <2>3
<1> QED
  BY <1>2, <1>3, <1>4

\* Collecting writes; judging writes and goes on, or settles it.
LEMMA JudgeRefines ==
    ASSUME Clean, Clean', Collect \/ Succeed \/ Judge
    PROVE  [Contract!Next]_Contract!vars
<1> USE DEF control, process, files
<1>1. /\ pc # "returned" /\ ~JvmAlive /\ UNCHANGED <<attempt, aborted, jvm>>
  BY DEF Collect, CollectFrom, Succeed, Judge, Clean, ReportInv, IInv, Quiet
<1>2. CASE pc' = "returned"
  BY <1>1, <1>2, Returning DEF Contract!Next
<1>3. CASE pc' # "returned"
  <2>1. staged' \in [Files -> Contents]
    BY DEF Clean, ReportInv, IInv, Typed, TypeOK
  <2>2. Contract!Write
    BY <1>1, <1>3, <2>1, Verdicts, VerdictsNext DEF Contract!Write, Contract!Idle, JvmAlive
  <2> QED
    BY <2>2 DEF Contract!Next
<1> QED
  BY <1>2, <1>3

\* A callback stops the JVM or changes nothing; closing may settle it.
LEMMA CallbackRefines ==
    ASSUME Clean, Clean',
           Consume \/ HardTimeout \/ LoginTimeout \/ StallTimeout \/ Escalate \/ Abort
           \/ Close \/ ChildError
    PROVE  [Contract!Next]_Contract!vars
<1> USE DEF control, process, files
<1>1. CASE Consume \/ HardTimeout \/ LoginTimeout \/ StallTimeout
  <2>1. pc = "attempt" /\ UNCHANGED <<pc, attempt, aborted, jvm, staged>>
    BY <1>1 DEF Consume, HardTimeout, LoginTimeout, StallTimeout
  <2> QED
    BY <2>1, Unspoken DEF JvmAlive
<1>2. CASE Escalate
  <2>1. pc = "attempt" /\ UNCHANGED <<pc, attempt, aborted, staged>>
    BY <1>2 DEF Escalate
  <2>2. CASE JvmAlive' = JvmAlive
    BY <2>1, <2>2, Unspoken
  <2>3. CASE JvmAlive' # JvmAlive
    <3>1. JvmAlive /\ ~JvmAlive'
      BY <1>2, <2>3 DEF Escalate, KillGroup, JvmAlive, Clean, ReportInv, IInv, Typed, TypeOK
    <3>2. Contract!Die
      BY <2>1, <3>1, Verdicts, VerdictsNext DEF Contract!Die
    <3> QED
      BY <3>2 DEF Contract!Next
  <2> QED
    BY <2>2, <2>3
<1>3. CASE Abort
  <2>1. ~aborted /\ aborted' = TRUE /\ UNCHANGED <<pc, attempt, staged>> /\ pc # "returned"
    BY <1>3 DEF Abort
  <2>2. JvmAlive' \in {JvmAlive, FALSE}
    BY <1>3 DEF Abort, KillGroup, JvmAlive, Clean, ReportInv, IInv, Typed, TypeOK
  <2>3. Contract!Abort
    BY <2>1, <2>2, Verdicts, VerdictsNext DEF Contract!Abort
  <2> QED
    BY <2>3 DEF Contract!Next
<1>4. CASE Close \/ ChildError
  <2>1. pc = "attempt" /\ ~JvmAlive /\ UNCHANGED <<attempt, aborted, jvm, staged>>
    BY <1>4 DEF Close, ChildError, JvmAlive
  <2>2. CASE pc' = "returned"
    BY <2>1, <2>2, Returning DEF Contract!Next
  <2>3. CASE pc' # "returned"
    BY <2>1, <2>3, Unspoken DEF JvmAlive
  <2> QED
    BY <2>2, <2>3
<1> QED
  BY <1>1, <1>2, <1>3, <1>4

\* The JVM lives on or dies.
LEMMA JvmRefines ==
    ASSUME Clean, Jvm
    PROVE  [Contract!Next]_Contract!vars
<1>1. Quiet /\ jvm \in [leader: {"none", "login", "leaving", "items", "cafe", "dead"},
                        items: 0 .. Total, child: BOOLEAN]
  BY DEF Clean, ReportInv, IInv, Typed, TypeOK
<1>2. UNCHANGED Worker
  BY DEF Jvm, JvmTrouble, JvmRefused, JvmStart, JvmIntrospect, JvmCafe, JvmSave, JvmExit,
         DescendantExit
<1>3. pc = "attempt" /\ (JvmAlive' = JvmAlive \/ (JvmAlive /\ ~JvmAlive'))
  BY <1>1 DEF Jvm, JvmTrouble, JvmRefused, JvmStart, JvmIntrospect, JvmCafe, JvmSave, JvmExit,
              DescendantExit, JvmAlive, Quiet, process, Worker
<1>4. CASE JvmAlive' = JvmAlive
  BY <1>2, <1>3, <1>4, Unspoken DEF Worker
<1>5. CASE JvmAlive /\ ~JvmAlive'
  <2>1. Contract!Die
    BY <1>2, <1>3, <1>5, Verdicts, VerdictsNext DEF Contract!Die, Worker
  <2> QED
    BY <2>1 DEF Contract!Next
<1> QED
  BY <1>3, <1>4, <1>5

\* A worker is, to the batch, what WorkerContract says: it never goes past its
\* attempts, never launches once told to stop, never returns with a JVM of its
\* own, and leaves behind what its verdict promises; unless unlink was refused.
THEOREM WorkerImplementsContract ==
    ASSUME "unlink" \notin Faults
    PROVE  Spec => ImplementsContract
<1>1. Init => Clean
  BY InitReport, InitIInv DEF Clean
<1>2. Clean /\ [Next]_vars => Clean'
  BY ReportStep, StagedStep DEF Clean, ReportInv
<1>3. Init => Contract!Init
  BY DEF Init, Contract!Init, Verdict, JvmAlive, NoFiles
<1>4. Clean /\ Clean' /\ [Next]_vars => [Contract!Next]_Contract!vars
  <2> SUFFICES ASSUME Clean, Clean', [Next]_vars PROVE [Contract!Next]_Contract!vars
    OBVIOUS
  <2>1. CASE UNCHANGED vars
    BY <2>1 DEF vars, Contract!vars, Verdict, JvmAlive
  <2> QED
    BY <2>1, LoopRefines, JudgeRefines, CallbackRefines, JvmRefines
       DEF Next, Continue, Returned
<1> QED
  BY <1>1, <1>2, <1>3, <1>4, PTL DEF Spec, ImplementsContract, Contract!Spec
=============================================================================
