------------------------------ MODULE ServerProofs ------------------------------
(***************************************************************************)
(* Theorems about Server, for any permutations, files, runs, cooldowns and *)
(* clock.                                                                  *)
(*                                                                         *)
(* No entry on offer describes another file than the one behind it,        *)
(* whatever fails, even when #finish ends before its batch: the manifest   *)
(* of a run whose batch is still at work lists nothing.  That every entry  *)
(* has its file needs more, and is in DatasetProofs.  That there is one    *)
(* batch at most holds of every failure but the two that let #finish end   *)
(* first (finding TwoBatches).                                             *)
(***************************************************************************)
EXTENDS Server, TLAPS

Live == {"starting", "running", "indexed"}

\* The steps of #finish at which the batch may be at work; those before its
\* directory has entries; those before it is linked; and those that publish it.
Waiting    == {"begin", "open", "await"}
Unindexing == Waiting \cup {"previous", "carry"}
Unlinking  == Unindexing \cup {"manifest", "promote"}
Publishing == {"previous", "carry", "manifest"}

Dirs    == [exists: BOOLEAN, data: [Names -> Source], manifest: Manifests]
Batches == [pc: {"none", "starting", "running", "indexed", "over"},
            aborted: BOOLEAN, cancelled: BOOLEAN,
            todo: SUBSET Users, entries: SUBSET Names,
            results: [Users -> {"none", "ok", "failed"}]]

\* What is on disk is no longer than what is in memory.
Typed == TypeOK /\ Len(saved.attempts) <= AttemptsKept

\* Nothing is active while a process boots.
BootsIdle == proc \in {"down", "reconcile", "prune", "save"} => active = 0

\* Runs are numbered as they start; nothing is there of a later one.
Numbered ==
    /\ current <= runs /\ active <= runs
    /\ \A r \in Runs : r > runs => dirs[r] = NoDir /\ batch[r] = NoBatch

\* A run is published once its batch is over, and linked last.
Settled  == active # 0 /\ fin \in Publishing => batch[active].pc = "over"
Unlinked == active # 0 /\ fin \in Unlinking => current # active

\* An entry's file is the one it describes, unless the removal of its directory has begun.
HonestDirs ==
    \A r \in Runs, n \in Names :
        dirs[r].manifest.entries[n] # 0 =>
            dirs[r].data[n] \in {0, dirs[r].manifest.entries[n]}

\* A directory that may still be written to is described by no entry.
Undescribed ==
    \A r \in Runs : batch[r].pc \in Live \/ (r = active /\ fin \in Unindexing) =>
        \A n \in Names : dirs[r].manifest.entries[n] = 0

\* Before anything is carried into it the active run's directory holds its own files
\* only.
OwnFiles ==
    active # 0 =>
        /\ fin \in Waiting => \A n \in Names : dirs[active].data[n] \in {0, active}
        /\ fin \in Unindexing \cup {"manifest"} =>
              \A n \in batch[active].entries : dirs[active].data[n] = active

\* What has been carried is there, as listed where it came from.
CarriedOver ==
    active # 0 =>
        /\ fin = "carry" => pub.prev # active
        /\ fin = "manifest" =>
              \A n \in pub.carried :
                  /\ pub.prev # 0 /\ pub.prev # active
                  /\ dirs[pub.prev].manifest.entries[n] # 0
                  /\ dirs[active].data[n] = dirs[pub.prev].manifest.entries[n]
                  /\ n \notin batch[active].entries

RunsOK     == BootsIdle /\ Numbered /\ Settled /\ Unlinked
ContentsOK == HonestDirs /\ Undescribed /\ OwnFiles /\ CarriedOver

IInv == Typed /\ RunsOK /\ ContentsOK

\* Only the active run's batch is at work, and only while #finish waits for it.
SingleFlight == \A r \in Runs : batch[r].pc \in Live => r = active /\ fin \in Waiting
-----------------------------------------------------------------------------
(* Lemmas about the volume and the records on it *)

\* Runs are numbers, and 0 is none of them.
LEMMA RunFacts ==
    /\ Source \subseteq Nat /\ Runs \subseteq Source /\ 0 \in Source /\ 0 \notin Runs
    /\ \A r \in Source : r # 0 => r \in Runs
    /\ \A r \in Source : r < MaxRuns => r + 1 \in Runs
  BY RunsAssumption DEF Runs, Source

\* The records the module names are of the types it names.
LEMMA RecordTypes ==
    /\ NoManifest \in Manifests /\ OpenManifest \in Manifests /\ NoDir \in Dirs
    /\ NoBatch \in Batches /\ NoPub \in [prev: Source, carried: SUBSET Names]
    /\ Fresh \in Persisted /\ Len(Fresh.attempts) = 0
    /\ NoManifest.state = "none"
    /\ \A n \in Names : NoManifest.entries[n] = 0 /\ OpenManifest.entries[n] = 0
    /\ \A n \in Names : NoDir.data[n] = 0 /\ NoDir.manifest.entries[n] = 0
    /\ NoBatch.pc = "none" /\ NoBatch.entries = {}
<1> USE RunFacts
<1>1. NoManifest \in Manifests /\ \A n \in Names : NoManifest.entries[n] = 0
  BY DEF NoManifest, Manifests
<1>2. OpenManifest \in Manifests /\ \A n \in Names : OpenManifest.entries[n] = 0
  BY <1>1 DEF OpenManifest, NoManifest, Manifests
<1>3. NoDir \in Dirs /\ \A n \in Names : NoDir.data[n] = 0 /\ NoDir.manifest.entries[n] = 0
  BY <1>1 DEF NoDir, Dirs
<1>4. NoBatch \in Batches
  BY DEF NoBatch, Batches
<1>5. Fresh \in Persisted /\ Len(Fresh.attempts) = 0
  BY DEF Fresh, Persisted
<1> QED
  BY <1>1, <1>2, <1>3, <1>4, <1>5 DEF NoPub, NoBatch, NoManifest

\* The types of what a directory and a batch hold.
LEMMA FieldTypes ==
    ASSUME TypeOK, NEW r \in Runs
    PROVE  /\ dirs[r] \in Dirs /\ dirs[r].data \in [Names -> Source]
           /\ dirs[r].manifest \in Manifests /\ dirs[r].manifest.entries \in [Names -> Source]
           /\ dirs[r].manifest.results \in [Users -> {"none", "ok", "failed"}]
           /\ batch[r] \in Batches /\ batch[r].entries \subseteq Names
           /\ batch[r].results \in [Users -> {"none", "ok", "failed"}]
  BY DEF TypeOK, StorageTypeOK, Dirs, Manifests, Batches

\* A link that resolves is the link.
LEMMA ResolvedIsCurrent == TypeOK => Resolved \in Source /\ Resolved \in {0, current}
  BY RunFacts DEF Resolved, TypeOK, StorageTypeOK

\* mkdir -p of a run directory leaves what it holds.
LEMMA CreateDirFacts ==
    ASSUME StorageTypeOK, NEW r \in Runs, CreateDir(r)
    PROVE  /\ dirs' \in [Runs -> Dirs]
           /\ dirs'[r].data = dirs[r].data /\ dirs'[r].manifest = dirs[r].manifest
           /\ dirs'[r].exists
           /\ \A s \in Runs \ {r} : dirs'[s] = dirs[s]
<1>1. dirs' = [dirs EXCEPT ![r] = [dirs[r] EXCEPT !.exists = TRUE]]
  BY DEF CreateDir
<1>2. [dirs[r] EXCEPT !.exists = TRUE] \in Dirs
  BY DEF StorageTypeOK, Dirs
<1> QED
  BY <1>1, <1>2 DEF StorageTypeOK, Dirs

\* A manifest is written beside the data, in its own directory only.
LEMMA WriteManifestFacts ==
    ASSUME StorageTypeOK, NEW r \in Runs, NEW m \in Manifests, WriteManifest(r, m)
    PROVE  /\ dirs' \in [Runs -> Dirs]
           /\ dirs'[r].manifest = m /\ dirs'[r].data = dirs[r].data
           /\ dirs'[r].exists = dirs[r].exists
           /\ \A s \in Runs \ {r} : dirs'[s] = dirs[s]
<1>1. dirs' = [dirs EXCEPT ![r] = [dirs[r] EXCEPT !.manifest = m]]
  BY DEF WriteManifest
<1>2. [dirs[r] EXCEPT !.manifest = m] \in Dirs
  BY DEF StorageTypeOK, Dirs
<1> QED
  BY <1>1, <1>2 DEF StorageTypeOK, Dirs

\* New data leave the manifest of its directory and every other directory alone.
LEMMA DataFacts ==
    ASSUME StorageTypeOK, NEW r \in Runs, NEW d \in [Names -> Source],
           dirs' = [dirs EXCEPT ![r].data = d]
    PROVE  /\ dirs' \in [Runs -> Dirs]
           /\ dirs'[r].data = d /\ dirs'[r].manifest = dirs[r].manifest
           /\ dirs'[r].exists = dirs[r].exists
           /\ \A s \in Runs \ {r} : dirs'[s] = dirs[s]
<1>1. dirs' = [dirs EXCEPT ![r] = [dirs[r] EXCEPT !.data = d]]
  OBVIOUS
<1>2. [dirs[r] EXCEPT !.data = d] \in Dirs
  BY DEF StorageTypeOK, Dirs
<1> QED
  BY <1>1, <1>2 DEF StorageTypeOK, Dirs

\* A step of rm -rf takes from its directory, and leaves the others.
LEMMA RemoveStepFacts ==
    ASSUME StorageTypeOK, NEW r \in Runs, RemoveStep(r)
    PROVE  /\ dirs' \in [Runs -> Dirs]
           /\ \A n \in Names : dirs'[r].data[n] \in {0, dirs[r].data[n]}
           /\ dirs'[r].manifest \in {NoManifest, dirs[r].manifest}
           /\ dirs'[r].exists = dirs[r].exists \/ dirs'[r] = NoDir
           /\ dirs[r] = NoDir => dirs'[r] = NoDir
           /\ \A s \in Runs \ {r} : dirs'[s] = dirs[s]
<1> USE RecordTypes
<1>1. CASE \E n \in Names : dirs[r].data[n] # 0 /\ dirs' = [dirs EXCEPT ![r].data[n] = 0]
  <2>1. PICK n \in Names : dirs[r].data[n] # 0 /\ dirs' = [dirs EXCEPT ![r].data[n] = 0]
    BY <1>1
  <2> DEFINE d == [dirs[r].data EXCEPT ![n] = 0]
  <2>2. d \in [Names -> Source] /\ \A m \in Names : d[m] \in {0, dirs[r].data[m]}
    BY RunFacts DEF StorageTypeOK
  <2>3. dirs' = [dirs EXCEPT ![r].data = d]
    BY <2>1
  <2>4. dirs[r] # NoDir
    BY <2>1
  <2> HIDE DEF d
  <2> QED
    BY <2>2, <2>3, <2>4, DataFacts
<1>2. CASE WriteManifest(r, NoManifest) /\ dirs[r].manifest.state # "none"
  <2>1. dirs[r] # NoDir
    BY <1>2 DEF NoDir
  <2> QED
    BY <1>2, <2>1, WriteManifestFacts
<1>3. CASE dirs' = [dirs EXCEPT ![r] = NoDir]
  <2>1. dirs'[r] = NoDir /\ NoDir.manifest = NoManifest /\ \A s \in Runs \ {r} : dirs'[s] = dirs[s]
    BY <1>3 DEF StorageTypeOK, NoDir
  <2>2. dirs' \in [Runs -> Dirs]
    BY <1>3 DEF StorageTypeOK, Dirs
  <2> QED
    BY <2>1, <2>2
<1> QED
  BY <1>1, <1>2, <1>3 DEF RemoveStep

\* Closing an attempt keeps the history as long as it was.
LEMMA CloseTyped ==
    ASSUME NEW attempts \in Seq(Attempts), NEW r, NEW how \in Outcomes, now \in 0 .. MaxTime
    PROVE  /\ Close(attempts, r, how) \in Seq(Attempts)
           /\ Len(Close(attempts, r, how)) = Len(attempts)
<1> DEFINE closed(i) == IF attempts[i].id = r /\ attempts[i].outcome = "none"
                        THEN [attempts[i] EXCEPT !.outcome = how, !.finished = now]
                        ELSE attempts[i]
<1>1. \A i \in 1 .. Len(attempts) : closed(i) \in Attempts
  <2> TAKE i \in 1 .. Len(attempts)
  <2>1. attempts[i] \in Attempts
    OBVIOUS
  <2> QED
    BY <2>1 DEF Attempts
<1> HIDE DEF closed
<1>2. Close(attempts, r, how) = [i \in 1 .. Len(attempts) |-> closed(i)]
  BY DEF Close, closed
<1> QED
  BY <1>1, <1>2

\* A run that begins heads a history no longer than MAX_ATTEMPTS_KEPT.
LEMMA BegunTyped ==
    ASSUME NEW s \in Persisted, Len(s.attempts) <= AttemptsKept, NEW r \in Runs,
           started \in 0 .. MaxTime
    PROVE  Begun(s, r) \in Persisted /\ Len(Begun(s, r).attempts) <= AttemptsKept
<1> DEFINE new  == [id |-> r, started |-> started, finished |-> 0, outcome |-> "none"]
           kept == AttemptsKept - 1
           old  == IF Len(s.attempts) > kept THEN SubSeq(s.attempts, 1, kept) ELSE s.attempts
<1>1. new \in Attempts
  BY ClockAssumption DEF Attempts
<1>2. s.attempts \in Seq(Attempts) /\ kept \in Nat
  BY ClockAssumption DEF Persisted
<1>3. old \in Seq(Attempts) /\ Len(old) <= kept
  BY <1>2
<1> HIDE DEF new, old
<1>4. <<new>> \o old \in Seq(Attempts) /\ Len(<<new>> \o old) <= AttemptsKept
  BY <1>1, <1>2, <1>3, ClockAssumption
<1>5. Begun(s, r) = [s EXCEPT !.active = r, !.attempts = <<new>> \o old]
  BY DEF Begun, new, old
<1> QED
  BY <1>4, <1>5, RunFacts DEF Persisted

\* Run r's batch is at pc with these entries, every other batch where it was.
Became(r, pc, entries) ==
    /\ batch' \in [Runs -> Batches]
    /\ batch'[r].pc = pc /\ batch'[r].entries = entries
    /\ \A s \in Runs \ {r} : batch'[s] = batch[s]

\* A batch whose record is replaced by one like it.
LEMMA BecameByRecord ==
    ASSUME TypeOK, NEW r \in Runs, NEW b \in Batches, batch' = [batch EXCEPT ![r] = b]
    PROVE  Became(r, b.pc, b.entries)
  BY DEF TypeOK, Batches, Became

\* What the steps of a run's activities do to its batch.
LEMMA StartBecomes ==
    ASSUME TypeOK, runs < MaxRuns, runs' = runs + 1,
           batch' = [batch EXCEPT ![runs'].pc = "starting"]
    PROVE  Became(runs + 1, "starting", batch[runs + 1].entries)
<1> DEFINE b == [batch[runs + 1] EXCEPT !.pc = "starting"]
<1>1. runs + 1 \in Runs
  BY RunFacts DEF TypeOK
<1>2. batch' = [batch EXCEPT ![runs + 1] = b]
  OBVIOUS
<1>3. b \in Batches /\ b.pc = "starting" /\ b.entries = batch[runs + 1].entries
  BY <1>1, FieldTypes DEF Batches
<1> QED
  BY <1>1, <1>2, <1>3, BecameByRecord

LEMMA AbortBecomes ==
    ASSUME TypeOK, NEW r \in Runs, batch' = [batch EXCEPT ![r].aborted = TRUE]
    PROVE  Became(r, batch[r].pc, batch[r].entries)
<1> DEFINE b == [batch[r] EXCEPT !.aborted = TRUE]
<1>1. batch' = [batch EXCEPT ![r] = b]
  OBVIOUS
<1>2. b \in Batches /\ b.pc = batch[r].pc /\ b.entries = batch[r].entries
  BY FieldTypes DEF Batches
<1> QED
  BY <1>1, <1>2, BecameByRecord

LEMMA StagingBecomes ==
    ASSUME TypeOK, NEW r \in Runs, CreateStaging(r)
    PROVE  Became(r, "running", batch[r].entries)
<1>1. PICK todo \in Selections :
          batch' = [batch EXCEPT ![r].pc = "running", ![r].todo = todo]
  BY DEF CreateStaging
<1> DEFINE b == [batch[r] EXCEPT !.pc = "running", !.todo = todo]
<1>2. todo \subseteq Users
  BY <1>1 DEF Selections
<1>3. batch' = [batch EXCEPT ![r] = b]
  <2> DEFINE half == [batch[r] EXCEPT !.pc = "running"]
             mid  == [batch EXCEPT ![r] = half]
  <2>1. batch' = [mid EXCEPT ![r] = [mid[r] EXCEPT !.todo = todo]]
    BY <1>1
  <2>2. DOMAIN batch = Runs /\ DOMAIN mid = Runs
    BY DEF TypeOK
  <2>3. mid[r] = half /\ b = [half EXCEPT !.todo = todo]
    BY <2>2
  <2>4. [mid EXCEPT ![r] = b] = [batch EXCEPT ![r] = b]
    <3> HIDE DEF half, b
    <3> QED
      BY <2>2
  <2> QED
    BY <2>1, <2>3, <2>4
<1>4. b \in Batches /\ b.pc = "running" /\ b.entries = batch[r].entries
  <2> DEFINE half == [batch[r] EXCEPT !.pc = "running"]
  <2>1. half \in Batches /\ half.pc = "running" /\ half.entries = batch[r].entries
    BY FieldTypes DEF Batches
  <2>2. b = [half EXCEPT !.todo = todo]
    OBVIOUS
  <2> HIDE DEF half, b
  <2> QED
    BY <1>2, <2>1, <2>2 DEF Batches
<1> QED
  BY <1>3, <1>4, BecameByRecord

LEMMA WorkerBecomes ==
    ASSUME TypeOK, NEW r \in Runs, NEW u \in Users, WorkerDone(r, u)
    PROVE  Became(r, "running", batch[r].entries)
<1>1. PICK ok \in BOOLEAN :
          batch' = [batch EXCEPT ![r].results[u] = IF ok THEN "ok" ELSE "failed"]
  BY DEF WorkerDone
<1> DEFINE how == IF ok THEN "ok" ELSE "failed"
           b   == [batch[r] EXCEPT !.results = [batch[r].results EXCEPT ![u] = how]]
<1>2. batch' = [batch EXCEPT ![r] = b]
  BY <1>1
<1>3. [batch[r].results EXCEPT ![u] = how] \in [Users -> {"none", "ok", "failed"}]
  BY FieldTypes
<1>4. b \in Batches /\ b.pc = batch[r].pc /\ b.entries = batch[r].entries
  BY <1>3, FieldTypes DEF Batches
<1>5. batch[r].pc = "running"
  BY DEF WorkerDone
<1> HIDE DEF b
<1> QED
  BY <1>2, <1>4, <1>5, BecameByRecord

LEMMA IndexBecomes ==
    ASSUME TypeOK, NEW r \in Runs, Index(r)
    PROVE  \E entries \in SUBSET Indexed(r) : Became(r, "indexed", entries)
<1> DEFINE entries == IF batch[r].aborted THEN {} ELSE Indexed(r)
           b       == [batch[r] EXCEPT !.pc = "indexed", !.entries = entries]
<1>1. entries \subseteq Indexed(r) /\ entries \subseteq Names
  BY DEF Indexed
<1>2. batch' = [batch EXCEPT ![r] = b]
  BY DEF Index, TypeOK
<1>3. b \in Batches /\ b.pc = "indexed" /\ b.entries = entries
  <2> DEFINE half == [batch[r] EXCEPT !.pc = "indexed"]
  <2>1. half \in Batches /\ half.pc = "indexed"
    BY FieldTypes DEF Batches
  <2>2. b = [half EXCEPT !.entries = entries]
    OBVIOUS
  <2> HIDE DEF half, entries, b
  <2> QED
    BY <1>1, <2>1, <2>2 DEF Batches
<1>4. Became(r, "indexed", entries)
  BY <1>2, <1>3, BecameByRecord
<1> QED
  BY <1>1, <1>4

LEMMA OverBecomes ==
    ASSUME TypeOK, NEW r \in Runs, BatchOver(r)
    PROVE  Became(r, "over", batch[r].entries)
<1> DEFINE b == [batch[r] EXCEPT !.pc = "over", !.cancelled = batch[r].aborted]
<1>1. batch' = [batch EXCEPT ![r] = b]
  BY DEF BatchOver, TypeOK
<1>2. b \in Batches /\ b.pc = "over" /\ b.entries = batch[r].entries
  <2> DEFINE half == [batch[r] EXCEPT !.pc = "over"]
  <2>1. half \in Batches /\ half.pc = "over" /\ half.entries = batch[r].entries
    BY FieldTypes DEF Batches
  <2>2. b = [half EXCEPT !.cancelled = batch[r].aborted] /\ batch[r].aborted \in BOOLEAN
    BY FieldTypes DEF Batches
  <2> HIDE DEF half, b
  <2> QED
    BY <2>1, <2>2 DEF Batches
<1> QED
  BY <1>1, <1>2, BecameByRecord

\* A signal aborts the active run's batch, if there is one.
LEMMA SignalBecomes ==
    ASSUME TypeOK, Signal
    PROVE  /\ batch' \in [Runs -> Batches]
           /\ \A s \in Runs : /\ batch'[s].pc = batch[s].pc
                              /\ batch'[s].entries = batch[s].entries
           /\ \A s \in Runs \ {active} : batch'[s] = batch[s]
<1>1. \A s \in Runs : batch'[s] = IF s = active THEN [batch[s] EXCEPT !.aborted = TRUE]
                                  ELSE batch[s]
  BY DEF Signal
<1>2. \A s \in Runs : LET b == [batch[s] EXCEPT !.aborted = TRUE]
                      IN  b \in Batches /\ b.pc = batch[s].pc /\ b.entries = batch[s].entries
  <2> TAKE s \in Runs
  <2> QED
    BY FieldTypes DEF Batches
<1>3. batch' = [s \in Runs |-> batch'[s]]
  BY DEF Signal
<1>4. \A s \in Runs : batch'[s] \in Batches
  BY <1>1, <1>2, FieldTypes
<1>5. batch' \in [Runs -> Batches]
  BY <1>3, <1>4
<1> QED
  BY <1>1, <1>2, <1>5

\* Files left by a worker are its run's own.
LEMMA WorkerFacts ==
    ASSUME TypeOK, NEW r \in Runs, NEW u \in Users, WorkerDone(r, u)
    PROVE  /\ dirs' \in [Runs -> Dirs]
           /\ dirs'[r].manifest = dirs[r].manifest /\ dirs'[r].exists = dirs[r].exists
           /\ \A n \in Names : dirs'[r].data[n] \in {r, dirs[r].data[n]}
           /\ \A s \in Runs \ {r} : dirs'[s] = dirs[s]
<1>1. PICK left \in SUBSET Names :
          dirs' = [dirs EXCEPT ![r].data = [n \in Names |-> IF n \in left THEN r ELSE @[n]]]
  BY DEF WorkerDone
<1> DEFINE d == [n \in Names |-> IF n \in left THEN r ELSE dirs[r].data[n]]
<1>2. d \in [Names -> Source]
  BY FieldTypes, RunFacts
<1>3. dirs' = [dirs EXCEPT ![r].data = d]
  BY <1>1
<1>4. \A n \in Names : d[n] \in {r, dirs[r].data[n]}
  OBVIOUS
<1> HIDE DEF d
<1>5. /\ dirs' \in [Runs -> Dirs]
      /\ dirs'[r].data = d /\ dirs'[r].manifest = dirs[r].manifest
      /\ dirs'[r].exists = dirs[r].exists
      /\ \A s \in Runs \ {r} : dirs'[s] = dirs[s]
  BY <1>2, <1>3, DataFacts DEF TypeOK
<1> QED
  BY <1>4, <1>5

\* Carrying forward copies data of the previous dataset over nothing of the run's own.
LEMMA CarryFacts ==
    ASSUME TypeOK, CarryForward
    PROVE  /\ active \in Runs
           /\ dirs' \in [Runs -> Dirs]
           /\ pub' = [prev |-> pub.prev, carried |-> pub'.carried]
           /\ pub'.carried \subseteq Carried(pub.prev, batch[active].entries)
           /\ dirs'[active].manifest = dirs[active].manifest
           /\ dirs'[active].exists = dirs[active].exists
           /\ \A n \in Names : dirs'[active].data[n] = IF n \in pub'.carried
                                                       THEN dirs[pub.prev].data[n]
                                                       ELSE dirs[active].data[n]
           /\ \A s \in Runs \ {active} : dirs'[s] = dirs[s]
<1>1. PICK carried \in SUBSET Carried(pub.prev, batch[active].entries) :
          /\ pub' = [pub EXCEPT !.carried = carried]
          /\ CopyInto(active, pub.prev, carried)
  BY DEF CarryForward
<1> DEFINE d == [n \in Names |-> IF n \in carried THEN dirs[pub.prev].data[n]
                                 ELSE dirs[active].data[n]]
<1>2. active \in Runs
  BY RunFacts DEF CarryForward, At, TypeOK
<1>3. pub.prev \in Source /\ \A n \in carried : pub.prev \in Runs
  BY <1>1, RunFacts DEF Carried, TypeOK
<1>4. d \in [Names -> Source]
  BY <1>2, <1>3, FieldTypes
<1>5. dirs' = [dirs EXCEPT ![active].data = d]
  BY <1>1 DEF CopyInto
<1>6. pub' = [prev |-> pub.prev, carried |-> carried]
  BY <1>1 DEF TypeOK
<1>7. \A n \in Names : d[n] = IF n \in carried THEN dirs[pub.prev].data[n]
                             ELSE dirs[active].data[n]
  OBVIOUS
<1> HIDE DEF d
<1>8. /\ dirs' \in [Runs -> Dirs]
      /\ dirs'[active].data = d /\ dirs'[active].manifest = dirs[active].manifest
      /\ dirs'[active].exists = dirs[active].exists
      /\ \A s \in Runs \ {active} : dirs'[s] = dirs[s]
  BY <1>2, <1>4, <1>5, DataFacts DEF TypeOK
<1>9. pub'.carried = carried
  BY <1>6
<1> QED
  BY <1>2, <1>6, <1>7, <1>8, <1>9

\* The final manifest lists what the run produced as its own, and what it carried as
\* the previous manifest does.
LEMMA FinalManifestFacts ==
    ASSUME TypeOK, At("manifest"),
           NEW entries,
           entries = MergedEntries(pub.prev, active, batch[active].entries, pub.carried),
           NEW results, results = MergedResults(pub.prev, batch[active].results, pub.carried),
           \A n \in pub.carried : pub.prev # 0
    PROVE  [state |-> "finished", entries |-> entries, results |-> results] \in Manifests
<1>1. active \in Runs /\ pub.prev \in Source /\ (pub.prev # 0 => pub.prev \in Runs)
  BY RunFacts DEF At, TypeOK
<1>2. entries \in [Names -> Source]
  BY <1>1, FieldTypes, RunFacts DEF MergedEntries
<1>3. results \in [Users -> {"none", "ok", "failed"}]
  BY <1>1, FieldTypes DEF MergedResults
<1> QED
  BY <1>2, <1>3 DEF Manifests

\* The end of a process.
LEMMA DieTyped == Typed /\ Die => Typed'
  BY RunFacts, RecordTypes, ClockAssumption
     DEF Die, Typed, TypeOK, StorageTypeOK, Outcomes, NoStop, disk, Batches

\* What is persisted is typed when the state handed to #persist is.
LEMMA PersistTyped ==
    ASSUME Typed, NEW s \in Persisted, Len(s.attempts) <= AttemptsKept,
           NEW next, NEW otherwise, Persist(s, next, otherwise)
    PROVE  /\ saved' \in Persisted /\ Len(saved'.attempts) <= AttemptsKept
           /\ state' \in Persisted /\ Len(state'.attempts) <= AttemptsKept
  BY DEF Persist, Typed, TypeOK

\* The fields of state.json that change, alone or together.
LEMMA CurrentTyped ==
    ASSUME NEW s \in Persisted, NEW r \in Source
    PROVE  /\ [s EXCEPT !.current = r] \in Persisted
           /\ [s EXCEPT !.current = r].attempts = s.attempts
  BY DEF Persisted

LEMMA AttemptsTyped ==
    ASSUME NEW s \in Persisted, NEW attempts \in Seq(Attempts)
    PROVE  /\ [s EXCEPT !.active = 0, !.attempts = attempts] \in Persisted
           /\ [s EXCEPT !.active = 0, !.attempts = attempts].attempts = attempts
           /\ [s EXCEPT !.attempts = attempts, !.active = 0] \in Persisted
           /\ [s EXCEPT !.attempts = attempts, !.active = 0].attempts = attempts
  BY RunFacts DEF Persisted

\* Every step keeps the types.
LEMMA StepTypeOK ==
    Typed /\ (active # 0 /\ fin = "manifest" => \A n \in pub.carried : pub.prev # 0)
    /\ [Next]_vars => Typed'
<1> SUFFICES ASSUME Typed, [Next]_vars,
                    active # 0 /\ fin = "manifest" => \A n \in pub.carried : pub.prev # 0
             PROVE  Typed'
  OBVIOUS
<1> USE RunFacts DEF disk, Typed
<1>0. /\ state \in Persisted /\ saved \in Persisted /\ now \in 0 .. MaxTime
      /\ Len(state.attempts) <= AttemptsKept /\ Len(saved.attempts) <= AttemptsKept
      /\ StorageTypeOK
  BY DEF TypeOK
<1>1. CASE Boot
  <2> DEFINE orphan == saved.active
             early  == \A i \in DOMAIN saved.attempts :
                          saved.attempts[i].id = orphan =>
                              now - saved.attempts[i].started < EarlyAbort
             how    == IF early THEN "aborted-early" ELSE "aborted"
             closed == Close(saved.attempts, orphan, how)
  <2>1. how \in Outcomes
    BY DEF Outcomes
  <2>2. state' = [saved EXCEPT !.active = 0, !.attempts = closed]
    BY <1>1 DEF Boot, Persisted, TypeOK
  <2> HIDE DEF how, orphan
  <2>3. saved.attempts \in Seq(Attempts)
    BY <1>0 DEF Persisted
  <2>4. closed \in Seq(Attempts) /\ Len(closed) = Len(saved.attempts)
    BY <1>0, <2>1, <2>3, CloseTyped
  <2> HIDE DEF closed
  <2>5. state' \in Persisted /\ Len(state'.attempts) = Len(saved.attempts)
    BY <1>0, <2>2, <2>4, AttemptsTyped
  <2> QED
    BY <1>1, <2>5 DEF Boot, TypeOK, StorageTypeOK
<1>2. CASE Reconcile
  <2>1. current' \in Source
    BY <1>2, ResolvedIsCurrent DEF Reconcile
  <2>2. state' \in Persisted /\ Len(state'.attempts) <= AttemptsKept
    BY <1>0, <1>2, <2>1, CurrentTyped DEF Reconcile
  <2> QED
    BY <1>2, <2>1, <2>2 DEF Reconcile, TypeOK, StorageTypeOK
<1>3. CASE BootPrune
  <2>1. dirs' \in [Runs -> Dirs]
    BY <1>0, <1>3, RemoveStepFacts DEF BootPrune, Existing, StorageTypeOK, Dirs
  <2> QED
    BY <1>3, <2>1 DEF BootPrune, TypeOK, StorageTypeOK, Dirs
<1>4. CASE BootSave
  BY <1>4 DEF BootSave, TypeOK, StorageTypeOK
<1>5. CASE Trigger
  <2>1. batch' \in [Runs -> Batches]
    BY <1>5, StartBecomes DEF Trigger, Start, Became
  <2>2. runs' \in Source /\ active' \in Source
    BY <1>5 DEF Trigger, Start, TypeOK
  <2> QED
    BY <1>5, <2>1, <2>2, RecordTypes
       DEF Trigger, Start, TypeOK, StorageTypeOK, Batches, Outcomes
<1>6. CASE Cancel
  <2>1. active \in Runs
    BY <1>6 DEF Cancel, TypeOK
  <2>2. batch' \in [Runs -> Batches]
    BY <1>6, <2>1, AbortBecomes DEF Cancel, Became
  <2> QED
    BY <1>6, <2>2 DEF Cancel, TypeOK, StorageTypeOK, Batches
<1>7. CASE ClearAttempts
  <2>1. <<>> \in Seq(Attempts) /\ Len(<<>>) <= AttemptsKept
    BY ClockAssumption
  <2>2. state' \in Persisted /\ saved' = state' /\ Len(state'.attempts) <= AttemptsKept
    BY <1>0, <1>7, <2>1, AttemptsTyped DEF ClearAttempts
  <2> QED
    BY <1>7, <2>2 DEF ClearAttempts, TypeOK, StorageTypeOK
<1>8. CASE BeginAttempt
  <2>1. active \in Runs /\ started \in 0 .. MaxTime
    BY <1>8 DEF BeginAttempt, At, TypeOK
  <2>2. Begun(state, active) \in Persisted /\ Len(Begun(state, active).attempts) <= AttemptsKept
    BY <1>0, <2>1, BegunTyped
  <2>3. /\ saved' \in Persisted /\ Len(saved'.attempts) <= AttemptsKept
        /\ state' \in Persisted /\ Len(state'.attempts) <= AttemptsKept
    BY <1>8, <2>2, PersistTyped DEF BeginAttempt
  <2> QED
    BY <1>8, <2>3 DEF BeginAttempt, Persist, TypeOK, StorageTypeOK
<1>9. CASE WriteOpenManifest
  <2>1. active \in Runs
    BY <1>9 DEF WriteOpenManifest, At, TypeOK
  <2>2. dirs' \in [Runs -> Dirs]
    BY <1>0, <1>9, <2>1, WriteManifestFacts, RecordTypes
       DEF WriteOpenManifest, StorageTypeOK, Dirs
  <2> QED
    BY <1>9, <2>2 DEF WriteOpenManifest, TypeOK, StorageTypeOK, Dirs
<1>10. CASE AwaitResult
  BY <1>10 DEF AwaitResult, At, Classify, Outcomes, TypeOK, StorageTypeOK
<1>11. CASE Discard
  <2>1. active \in Runs
    BY <1>11 DEF Discard, At, TypeOK
  <2>2. dirs' \in [Runs -> Dirs]
    BY <1>0, <1>11, <2>1, RemoveStepFacts DEF Discard, StorageTypeOK, Dirs
  <2> QED
    BY <1>11, <2>2 DEF Discard, At, TypeOK, StorageTypeOK, Dirs
<1>12. CASE Fail
  <2>1. active \in Runs
    BY <1>12 DEF Fail, At, TypeOK
  <2>2. dirs' \in [Runs -> Dirs]
    BY <1>0, <1>12, <2>1, RemoveStepFacts DEF Fail, StorageTypeOK, Dirs
  <2> QED
    BY <1>12, <2>2 DEF Fail, At, TypeOK, StorageTypeOK, Dirs, Outcomes
<1>13. CASE EndAttempt
  <2> DEFINE s == [state EXCEPT !.active = 0,
                                !.attempts = Close(state.attempts, active, outcome)]
  <2>1. Persist(s, "release", "release")
    BY <1>0, <1>13 DEF EndAttempt, Persisted
  <2>2. outcome \in Outcomes /\ state.attempts \in Seq(Attempts)
    BY <1>0 DEF TypeOK, Persisted
  <2>3. /\ Close(state.attempts, active, outcome) \in Seq(Attempts)
        /\ Len(Close(state.attempts, active, outcome)) = Len(state.attempts)
    BY <1>0, <2>2, CloseTyped
  <2>4. s \in Persisted /\ Len(s.attempts) <= AttemptsKept
    BY <1>0, <2>3, AttemptsTyped
  <2> HIDE DEF s
  <2>5. /\ saved' \in Persisted /\ Len(saved'.attempts) <= AttemptsKept
        /\ state' \in Persisted /\ Len(state'.attempts) <= AttemptsKept
    BY <2>1, <2>4, PersistTyped
  <2> QED
    BY <1>13, <2>5 DEF EndAttempt, Persist, TypeOK, StorageTypeOK
<1>14. CASE Release
  <2>1. batch' \in [Runs -> Batches]
    BY <1>14, RecordTypes DEF Release, TypeOK, Batches
  <2>2. started' \in 0 .. MaxTime
    BY <1>14, ClockAssumption DEF Release
  <2> QED
    BY <1>14, <2>1, <2>2, RecordTypes
       DEF Release, TypeOK, StorageTypeOK, Outcomes, Batches
<1>15. CASE CliResult
  BY <1>15 DEF CliResult, TypeOK, StorageTypeOK
<1>16. CASE CliExit
  BY <1>16, DieTyped DEF CliExit
<1>17. CASE ReadPrevious
  <2>1. pub' \in [prev: Source, carried: SUBSET Names]
    BY <1>17, ResolvedIsCurrent DEF ReadPrevious, TypeOK
  <2> QED
    BY <1>17, <2>1 DEF ReadPrevious, TypeOK, StorageTypeOK
<1>18. CASE CarryForward
  <2>1. pub' \in [prev: Source, carried: SUBSET Names]
    BY <1>18, CarryFacts DEF TypeOK, Carried
  <2>2. dirs' \in [Runs -> Dirs]
    BY <1>18, CarryFacts
  <2> QED
    BY <1>18, <2>1, <2>2 DEF CarryForward, TypeOK, StorageTypeOK, Dirs
<1>19. CASE WriteFinalManifest
  <2> DEFINE entries == MergedEntries(pub.prev, active, batch[active].entries, pub.carried)
             results == MergedResults(pub.prev, batch[active].results, pub.carried)
             m       == [state |-> "finished", entries |-> entries, results |-> results]
  <2>1. active \in Runs /\ (dirs' = dirs \/ WriteManifest(active, m))
    BY <1>19 DEF WriteFinalManifest, At, TypeOK
  <2>2. m \in Manifests
    BY <1>19, FinalManifestFacts DEF WriteFinalManifest, At
  <2> HIDE DEF m
  <2>3. dirs' \in [Runs -> Dirs]
    BY <1>0, <2>1, <2>2, WriteManifestFacts DEF StorageTypeOK, Dirs
  <2> QED
    BY <1>19, <2>3 DEF WriteFinalManifest, Refused, TypeOK, StorageTypeOK, Dirs
<1>20. CASE Promote
  BY <1>20 DEF Promote, Refused, At, TypeOK, StorageTypeOK
<1>21. CASE Prune
  <2>1. dirs' \in [Runs -> Dirs]
    BY <1>0, <1>21, RemoveStepFacts DEF Prune, Existing, StorageTypeOK, Dirs
  <2> QED
    BY <1>21, <2>1 DEF Prune, TypeOK, StorageTypeOK, Dirs
<1>22. CASE SetCurrent
  <2>1. /\ saved' \in Persisted /\ Len(saved'.attempts) <= AttemptsKept
        /\ state' \in Persisted /\ Len(state'.attempts) <= AttemptsKept
    <3> DEFINE s == [state EXCEPT !.current = active]
    <3>1. active \in Source /\ Persist(s, "end", "failed")
      BY <1>22 DEF SetCurrent, TypeOK
    <3>2. s \in Persisted /\ s.attempts = state.attempts
      BY <1>0, <3>1, CurrentTyped
    <3> HIDE DEF s
    <3> QED
      BY <1>0, <3>1, <3>2, PersistTyped
  <2> QED
    BY <1>22, <2>1 DEF SetCurrent, Persist, TypeOK, StorageTypeOK
<1>23. CASE Signal
  <2>1. batch' \in [Runs -> Batches]
    BY <1>23, SignalBecomes
  <2> QED
    BY <1>23, <2>1 DEF Signal, TypeOK, StorageTypeOK, Batches
<1>24. CASE ReleaseLock
  BY <1>24 DEF ReleaseLock, TypeOK, StorageTypeOK
<1>25. CASE Exit
  BY <1>25, DieTyped DEF Exit
<1>26. CASE CliStart
  <2>1. batch' \in [Runs -> Batches]
    BY <1>26, StartBecomes DEF CliStart, Became
  <2>2. runs' \in Source /\ active' \in Source
    BY <1>26 DEF CliStart, TypeOK
  <2> QED
    BY <1>26, <2>1, <2>2 DEF CliStart, TypeOK, StorageTypeOK, Batches
<1>27. CASE CliCancel
  <2>1. active \in Runs \/ active = 0
    BY DEF TypeOK
  <2>2. batch' \in [Runs -> Batches]
    <3>1. CASE active \in Runs
      BY <1>27, <3>1, AbortBecomes DEF CliCancel, Became
    <3>2. CASE active = 0
      BY <1>27, <3>2 DEF CliCancel, TypeOK, Batches
    <3> QED
      BY <2>1, <3>1, <3>2
  <2> QED
    BY <1>27, <2>2 DEF CliCancel, TypeOK, StorageTypeOK, Batches
<1>28. CASE Crash
  BY <1>28, DieTyped DEF Crash
<1>29. CASE Tick
  <2>1. now' \in 0 .. MaxTime
    BY <1>29, ClockAssumption DEF Tick, TypeOK
  <2> QED
    BY <1>29, <2>1 DEF Tick, TypeOK, StorageTypeOK, memory
<1>30. ASSUME NEW r \in Runs, CreateStaging(r) PROVE Typed'
  <2>1. dirs' \in [Runs -> Dirs]
    BY <1>0, <1>30, CreateDirFacts DEF CreateStaging
  <2>2. batch' \in [Runs -> Batches]
    BY <1>30, StagingBecomes DEF Became
  <2> QED
    BY <1>30, <2>1, <2>2 DEF CreateStaging, TypeOK, StorageTypeOK, Batches, Dirs
<1>31. ASSUME NEW r \in Runs, Index(r) PROVE Typed'
  <2>1. batch' \in [Runs -> Batches]
    BY <1>31, IndexBecomes DEF Became
  <2> QED
    BY <1>31, <2>1 DEF Index, TypeOK, StorageTypeOK, Batches
<1>32. ASSUME NEW r \in Runs, BatchOver(r) PROVE Typed'
  <2>1. batch' \in [Runs -> Batches]
    BY <1>32, OverBecomes DEF Became
  <2> QED
    BY <1>32, <2>1 DEF BatchOver, TypeOK, StorageTypeOK, Batches
<1>33. ASSUME NEW r \in Runs, NEW u \in Users, WorkerDone(r, u) PROVE Typed'
  <2>1. dirs' \in [Runs -> Dirs]
    BY <1>33, WorkerFacts
  <2>2. batch' \in [Runs -> Batches]
    BY <1>33, WorkerBecomes DEF Became
  <2> QED
    BY <1>33, <2>1, <2>2 DEF WorkerDone, TypeOK, StorageTypeOK, Batches, Dirs
<1>34. CASE UNCHANGED vars
  BY <1>34 DEF vars, memory, TypeOK, StorageTypeOK
<1> QED
  BY <1>1, <1>2, <1>3, <1>4, <1>5, <1>6, <1>7, <1>8, <1>9, <1>10, <1>11, <1>12, <1>13,
     <1>14, <1>15, <1>16, <1>17, <1>18, <1>19, <1>20, <1>21, <1>22, <1>23, <1>24, <1>25,
     <1>26, <1>27, <1>28, <1>29, <1>30, <1>31, <1>32, <1>33, <1>34 DEF Next, Finish, Execute

\* The initial state satisfies the invariant.
LEMMA InitIInv == Init => IInv
<1> SUFFICES ASSUME Init PROVE IInv
  OBVIOUS
<1> USE RunFacts, RecordTypes
<1>1. \/ dirs = [r \in Runs |-> NoDir]
      \/ dirs = [r \in Runs |-> IF r = Earlier THEN Complete(r) ELSE NoDir]
  BY DEF Init, StorageInit
<1>2. \A r \in Runs : /\ Complete(r) \in Dirs
                      /\ \A n \in Names : Complete(r).manifest.entries[n] = Complete(r).data[n]
  BY DEF Complete, Dirs, Manifests
<1>3. dirs \in [Runs -> Dirs]
  BY <1>1, <1>2
<1>4. current \in {0, runs} /\ runs \in Source /\ active = 0 /\ current <= runs
  <2>1. current \in {0, runs} /\ runs = Earlier /\ active = 0
    BY DEF Init, StorageInit
  <2> QED
    BY <2>1, ClockAssumption, RunsAssumption DEF Source
<1>5. Typed
  BY <1>3, <1>4, ClockAssumption
     DEF Init, Typed, TypeOK, StorageTypeOK, Dirs, Batches, Outcomes, NoStop
<1>6. RunsOK
  <2>1. \A r \in Runs : r > runs => dirs[r] = NoDir
    BY <1>1, RunsAssumption DEF Init, Runs, Source
  <2>2. Numbered
    BY <1>4, <2>1, RunsAssumption DEF Init, Numbered, Source
  <2> QED
    BY <1>4, <2>2 DEF RunsOK, BootsIdle, Settled, Unlinked
<1>7. HonestDirs
  BY <1>1, <1>2, RecordTypes DEF HonestDirs
<1>8. Undescribed /\ OwnFiles /\ CarriedOver
  BY DEF Init, Undescribed, OwnFiles, CarriedOver, Unindexing, Waiting, Live, NoBatch
<1> QED
  BY <1>5, <1>6, <1>7, <1>8 DEF IInv, ContentsOK

\* A run that is neither numbered nor at work has no batch.
LEMMA LiveIsNumbered ==
    ASSUME IInv, NEW r \in Runs, batch[r].pc # "none"
    PROVE  r <= runs
<1>1. r \in Nat /\ runs \in Nat /\ ~(r > runs)
  BY RunsAssumption, RecordTypes DEF IInv, Typed, TypeOK, RunsOK, Numbered, Runs, Source
<1> QED
  BY <1>1

\* A change to a run that has been numbered leaves the later ones alone.
LEMMA NumberedKept ==
    ASSUME IInv, NEW r \in Runs, r <= runs, UNCHANGED <<current, active, runs>>,
           \A s \in Runs \ {r} : dirs'[s] = dirs[s] /\ batch'[s] = batch[s]
    PROVE  Numbered'
<1>1. runs \in Nat /\ r \in Nat /\ \A s \in Runs : s > runs => s # r
  BY RunsAssumption DEF IInv, Typed, TypeOK, Runs, Source
<1> QED
  BY <1>1 DEF IInv, RunsOK, Numbered

\* A batch that moves on keeps its entries.
LEMMA SameFields ==
    ASSUME NEW r \in Runs, NEW pc, Became(r, pc, batch[r].entries)
    PROVE  \A s \in Runs : batch'[s].entries = batch[s].entries
  BY DEF Became

\* What is said of runs and contents does not depend on the rest.
LEMMA StillStep ==
    ASSUME IInv, UNCHANGED <<dirs, current, active, fin, batch, pub, runs>>,
           proc' = proc \/ active = 0
    PROVE  RunsOK' /\ ContentsOK'
<1> USE DEF IInv
<1>1. RunsOK'
  BY DEF RunsOK, BootsIdle, Numbered, Settled, Unlinked
<1>2. ContentsOK'
  BY DEF ContentsOK, HonestDirs, Undescribed, OwnFiles, CarriedOver
<1> QED
  BY <1>1, <1>2

\* A removal takes what is said of a run with it, once #finish no longer builds on it.
LEMMA RemovalStep ==
    ASSUME IInv, UNCHANGED <<current, active, batch, pub, runs>>,
           proc' = proc \/ active = 0, active = 0 \/ fin' \notin Unlinking,
           dirs' = dirs \/ \E r \in Runs : RemoveStep(r)
    PROVE  RunsOK' /\ ContentsOK'
<1> USE RunFacts DEF IInv, Unlinking, Unindexing, Waiting, Publishing
<1>1. \A s \in Runs :
         /\ \A n \in Names : dirs'[s].data[n] \in {0, dirs[s].data[n]}
         /\ dirs'[s].manifest \in {NoManifest, dirs[s].manifest}
         /\ dirs[s] = NoDir => dirs'[s] = NoDir
  BY RemoveStepFacts DEF Typed, TypeOK
<1>2. RunsOK'
  BY <1>1 DEF RunsOK, BootsIdle, Numbered, Settled, Unlinked
<1>3. HonestDirs'
  <2> SUFFICES ASSUME NEW s \in Runs, NEW n \in Names, dirs'[s].manifest.entries[n] # 0
               PROVE  dirs'[s].data[n] \in {0, dirs'[s].manifest.entries[n]}
    BY DEF HonestDirs
  <2>1. dirs'[s].manifest = dirs[s].manifest
    BY <1>1, RecordTypes
  <2> QED
    BY <1>1, <2>1 DEF ContentsOK, HonestDirs
<1>4. Undescribed' /\ OwnFiles' /\ CarriedOver'
  BY <1>1, RecordTypes DEF ContentsOK, Undescribed, OwnFiles, CarriedOver
<1> QED
  BY <1>2, <1>3, <1>4 DEF ContentsOK

\* The end of a process.
LEMMA DieStep == IInv /\ Die => RunsOK' /\ ContentsOK'
<1> SUFFICES ASSUME IInv, Die PROVE RunsOK' /\ ContentsOK'
  OBVIOUS
<1> USE RunFacts, RecordTypes DEF IInv, Die, disk
<1>1. RunsOK'
  <2>1. 0 <= runs
    BY DEF Typed, TypeOK
  <2> QED
    BY <2>1 DEF RunsOK, BootsIdle, Numbered, Settled, Unlinked
<1>2. HonestDirs'
  BY DEF ContentsOK, HonestDirs
<1>3. Undescribed' /\ OwnFiles' /\ CarriedOver'
  BY DEF ContentsOK, Undescribed, OwnFiles, CarriedOver, Live, Unindexing, Waiting
<1> QED
  BY <1>1, <1>2, <1>3 DEF ContentsOK

\* What the final manifest lists is there: what the run produced, and what was carried as
\* it was listed.
LEMMA FinalIsHonest ==
    ASSUME IInv, active \in Runs, fin = "manifest", NEW n \in Names
    PROVE  LET entry == MergedEntries(pub.prev, active, batch[active].entries, pub.carried)[n]
           IN  entry # 0 => entry = dirs[active].data[n]
<1> USE RunFacts DEF IInv, ContentsOK
<1>1. CASE n \in batch[active].entries
  <2>1. n \notin pub.carried
    BY <1>1 DEF CarriedOver
  <2>2. dirs[active].data[n] = active
    BY <1>1 DEF OwnFiles
  <2> QED
    BY <1>1, <2>1, <2>2 DEF MergedEntries
<1>2. CASE n \notin batch[active].entries /\ n \in pub.carried
  BY <1>2 DEF MergedEntries, CarriedOver
<1>3. CASE n \notin batch[active].entries /\ n \notin pub.carried
  BY <1>3 DEF MergedEntries
<1> QED
  BY <1>1, <1>2, <1>3

\* Every step keeps what is said of runs and contents.
LEMMA StepIInv == IInv /\ [Next]_vars => IInv'
<1> SUFFICES ASSUME IInv, [Next]_vars PROVE IInv'
  OBVIOUS
<1>0. Typed'
  BY StepTypeOK DEF IInv, ContentsOK, CarriedOver
<1> SUFFICES RunsOK' /\ ContentsOK'
  BY <1>0 DEF IInv
<1>a. RunsOK /\ ContentsOK /\ TypeOK /\ StorageTypeOK
  BY DEF IInv, Typed, TypeOK
<1>b. /\ active \in Source /\ runs \in Source /\ current \in Source
      /\ pub \in [prev: Source, carried: SUBSET Names]
  BY <1>a DEF TypeOK, StorageTypeOK
<1> USE RunFacts, <1>a, <1>b DEF Live, Waiting, Unindexing, Unlinking, Publishing, disk

<1>1. CASE Boot
  BY <1>1, StillStep DEF Boot, BootsIdle, RunsOK
<1>2. CASE Reconcile
  <2>1. RunsOK'
    BY <1>2, ResolvedIsCurrent DEF Reconcile, RunsOK, BootsIdle, Numbered, Settled, Unlinked
  <2>2. ContentsOK'
    BY <1>2, ResolvedIsCurrent
       DEF Reconcile, ContentsOK, HonestDirs, Undescribed, OwnFiles, CarriedOver
  <2> QED
    BY <2>1, <2>2
<1>3. CASE BootPrune
  <2>1. active = 0 /\ UNCHANGED <<current, active, batch, pub, runs>>
    BY <1>3 DEF BootPrune, RunsOK, BootsIdle
  <2>2. dirs' = dirs \/ \E r \in Runs : RemoveStep(r)
    BY <1>3 DEF BootPrune, Existing
  <2> QED
    BY <2>1, <2>2, RemovalStep
<1>4. CASE BootSave
  BY <1>4, StillStep DEF BootSave, RunsOK, BootsIdle
<1>5. CASE Trigger
  <2>1. RunsOK'
    BY <1>5, StartBecomes
       DEF Trigger, Start, Became, RunsOK, BootsIdle, Numbered, Settled, Unlinked
  <2>2. ContentsOK'
    <3>1. active' = runs + 1 /\ active' \in Runs /\ active' > runs /\ fin' \in Waiting
      BY <1>5, RunsAssumption DEF Trigger, Start, Runs, Source
    <3>2. dirs[active'] = NoDir /\ batch[active'] = NoBatch
      BY <3>1 DEF RunsOK, Numbered
    <3>3. Became(active', "starting", {}) /\ active = 0 /\ dirs' = dirs
      BY <1>5, <3>1, <3>2, StartBecomes, RecordTypes DEF Trigger, Start, RunsOK, BootsIdle
    <3>4. HonestDirs'
      BY <3>3 DEF ContentsOK, HonestDirs
    <3>5. Undescribed'
      BY <3>1, <3>2, <3>3, RecordTypes DEF ContentsOK, Undescribed, Became
    <3>6. OwnFiles' /\ CarriedOver'
      BY <1>5, <3>1, <3>2, <3>3, RecordTypes
         DEF Trigger, Start, OwnFiles, CarriedOver, Became
    <3> QED
      BY <3>4, <3>5, <3>6 DEF ContentsOK
  <2> QED
    BY <2>1, <2>2
<1>6. CASE Cancel
  <2>1. RunsOK'
    BY <1>6, AbortBecomes DEF Cancel, Became, RunsOK, BootsIdle, Numbered, Settled, Unlinked
  <2>2. ContentsOK'
    BY <1>6, AbortBecomes
       DEF Cancel, Became, ContentsOK, HonestDirs, Undescribed, OwnFiles, CarriedOver
  <2> QED
    BY <2>1, <2>2
<1>7. CASE ClearAttempts
  BY <1>7, StillStep DEF ClearAttempts
<1>8. CASE BeginAttempt
  <2>1. RunsOK'
    BY <1>8 DEF BeginAttempt, At, Persist, RunsOK, BootsIdle, Numbered, Settled, Unlinked
  <2>2. ContentsOK'
    BY <1>8
       DEF BeginAttempt, At, Persist, ContentsOK, HonestDirs, Undescribed, OwnFiles,
           CarriedOver
  <2> QED
    BY <2>1, <2>2
<1>9. CASE WriteOpenManifest
  <2>1. RunsOK'
    <3>1. active \in Runs /\ active <= runs
      BY <1>9 DEF WriteOpenManifest, At, RunsOK, Numbered
    <3>2. \A s \in Runs \ {active} : dirs'[s] = dirs[s]
      BY <1>9, <3>1, WriteManifestFacts, RecordTypes DEF WriteOpenManifest
    <3>3. Numbered'
      BY <1>9, <3>1, <3>2, NumberedKept DEF WriteOpenManifest
    <3> QED
      BY <1>9, <3>3 DEF WriteOpenManifest, At, RunsOK, BootsIdle, Settled, Unlinked
  <2>2. ContentsOK'
    BY <1>9, WriteManifestFacts, RecordTypes
       DEF WriteOpenManifest, At, ContentsOK, HonestDirs, Undescribed, OwnFiles,
           CarriedOver
  <2> QED
    BY <2>1, <2>2
<1>10. CASE AwaitResult
  <2>1. RunsOK'
    BY <1>10 DEF AwaitResult, At, RunsOK, BootsIdle, Numbered, Settled, Unlinked
  <2>2. ContentsOK'
    BY <1>10 DEF AwaitResult, At, ContentsOK, HonestDirs, Undescribed, OwnFiles, CarriedOver
  <2> QED
    BY <2>1, <2>2
<1>11. CASE Discard
  <2>1. UNCHANGED <<current, proc, active, batch, pub, runs>> /\ fin' \notin Unlinking
    BY <1>11 DEF Discard, At
  <2>2. dirs' = dirs \/ \E r \in Runs : RemoveStep(r)
    BY <1>11 DEF Discard, At, Existing
  <2> QED
    BY <2>1, <2>2, RemovalStep
<1>12. CASE Fail
  <2>1. UNCHANGED <<current, proc, active, batch, pub, runs>> /\ fin' \notin Unlinking
    BY <1>12 DEF Fail, At
  <2>2. dirs' = dirs \/ \E r \in Runs : RemoveStep(r)
    BY <1>12 DEF Fail, At, Existing
  <2> QED
    BY <2>1, <2>2, RemovalStep
<1>13. CASE EndAttempt
  <2>1. RunsOK'
    BY <1>13 DEF EndAttempt, At, Persist, RunsOK, BootsIdle, Numbered, Settled, Unlinked
  <2>2. ContentsOK'
    BY <1>13
       DEF EndAttempt, At, Persist, ContentsOK, HonestDirs, Undescribed, OwnFiles,
           CarriedOver
  <2> QED
    BY <2>1, <2>2
<1>14. CASE Release
  <2>1. RunsOK'
    BY <1>14, RecordTypes DEF Release, At, RunsOK, BootsIdle, Numbered, Settled, Unlinked
  <2>2. HonestDirs'
    BY <1>14 DEF Release, ContentsOK, HonestDirs
  <2>3. Undescribed' /\ OwnFiles' /\ CarriedOver'
    BY <1>14, RecordTypes DEF Release, At, ContentsOK, Undescribed, OwnFiles, CarriedOver
  <2> QED
    BY <2>1, <2>2, <2>3 DEF ContentsOK
<1>15. CASE CliResult
  <2>1. RunsOK'
    BY <1>15 DEF CliResult, At, RunsOK, BootsIdle, Numbered, Settled, Unlinked
  <2>2. ContentsOK'
    BY <1>15 DEF CliResult, At, ContentsOK, HonestDirs, Undescribed, OwnFiles, CarriedOver
  <2> QED
    BY <2>1, <2>2
<1>16. CASE CliExit
  BY <1>16, DieStep DEF CliExit
<1>17. CASE ReadPrevious
  <2>1. RunsOK'
    BY <1>17, ResolvedIsCurrent
       DEF ReadPrevious, At, RunsOK, BootsIdle, Numbered, Settled, Unlinked
  <2>2. ContentsOK'
    <3>1. pub'.prev # active /\ fin' = "carry" /\ active \in Runs
      BY <1>17, ResolvedIsCurrent DEF ReadPrevious, At, RunsOK, Unlinked
    <3> QED
      BY <1>17, <3>1
         DEF ReadPrevious, At, ContentsOK, HonestDirs, Undescribed, OwnFiles, CarriedOver
  <2> QED
    BY <2>1, <2>2
<1>18. CASE CarryForward
  <2>1. RunsOK'
    BY <1>18, CarryFacts
       DEF CarryForward, At, RunsOK, BootsIdle, Numbered, Settled, Unlinked
  <2>2. ContentsOK'
    <3>1. fin = "carry" /\ fin' = "manifest" /\ active' = active /\ batch' = batch /\ active # 0
      BY <1>18 DEF CarryForward, At
    <3>2. batch[active].pc = "over" /\ pub.prev # active
      BY <3>1 DEF RunsOK, Settled, ContentsOK, CarriedOver
    <3>3. HonestDirs'
      <4>1. active \in Runs /\ \A n \in Names : dirs[active].manifest.entries[n] = 0
        BY <1>18, <3>1, CarryFacts DEF ContentsOK, Undescribed
      <4>2. dirs'[active].manifest = dirs[active].manifest
        BY <1>18, CarryFacts
      <4>3. \A s \in Runs \ {active} : dirs'[s] = dirs[s]
        BY <1>18, CarryFacts
      <4> SUFFICES ASSUME NEW s \in Runs, NEW n \in Names, dirs'[s].manifest.entries[n] # 0
                   PROVE  dirs'[s].data[n] \in {0, dirs'[s].manifest.entries[n]}
        BY DEF HonestDirs
      <4>4. s # active /\ dirs'[s] = dirs[s]
        BY <4>1, <4>2, <4>3
      <4> QED
        BY <4>4 DEF ContentsOK, HonestDirs
    <3>4. Undescribed'
      <4>1. \A s \in Runs : dirs'[s].manifest = dirs[s].manifest
        BY <1>18, CarryFacts
      <4> QED
        BY <3>1, <4>1 DEF ContentsOK, Undescribed
    <3>5. OwnFiles'
      BY <1>18, <3>1, CarryFacts, FieldTypes DEF ContentsOK, OwnFiles, Carried
    <3>6. CarriedOver'
      <4>1. \A s \in Runs \ {active} : dirs'[s] = dirs[s]
        BY <1>18, CarryFacts
      <4>2. pub'.prev = pub.prev
        BY <1>18, CarryFacts
      <4>3. ASSUME NEW n \in pub'.carried
            PROVE  /\ pub.prev \in Runs \ {active} /\ n \notin batch[active].entries
                   /\ dirs[pub.prev].manifest.entries[n] # 0
                   /\ dirs'[active].data[n] = dirs[pub.prev].manifest.entries[n]
        <5>1. n \in Carried(pub.prev, batch[active].entries)
          BY <1>18, <4>3, CarryFacts
        <5>2. /\ n \in Names /\ n \notin batch[active].entries /\ pub.prev \in Runs
              /\ dirs[pub.prev].manifest.entries[n] # 0 /\ dirs[pub.prev].data[n] # 0
          BY <5>1 DEF Carried
        <5>3. dirs'[active].data[n] = dirs[pub.prev].data[n]
          BY <1>18, <4>3, <5>2, CarryFacts
        <5> QED
          BY <3>2, <5>2, <5>3 DEF ContentsOK, HonestDirs
      <4>4. \A n \in pub'.carried : dirs'[pub.prev] = dirs[pub.prev]
        BY <4>1, <4>3
      <4> QED
        BY <3>1, <3>2, <4>2, <4>3, <4>4 DEF CarriedOver
    <3> QED
      BY <3>3, <3>4, <3>5, <3>6 DEF ContentsOK
  <2> QED
    BY <2>1, <2>2
<1>19. CASE WriteFinalManifest
  <2> DEFINE entries == MergedEntries(pub.prev, active, batch[active].entries, pub.carried)
             results == MergedResults(pub.prev, batch[active].results, pub.carried)
             m       == [state |-> "finished", entries |-> entries, results |-> results]
  <2>1. /\ active \in Runs /\ active <= runs
        /\ fin = "manifest" /\ fin' \in {"promote", "failed"}
        /\ batch[active].pc = "over"
        /\ UNCHANGED <<current, proc, active, pub, batch, runs>>
    BY <1>19 DEF WriteFinalManifest, Refused, At, RunsOK, Numbered, Settled
  <2>2. CASE dirs' = dirs
    <3>1. RunsOK'
      BY <2>1, <2>2 DEF RunsOK, BootsIdle, Numbered, Settled, Unlinked
    <3>2. ContentsOK'
      BY <2>1, <2>2 DEF ContentsOK, HonestDirs, Undescribed, OwnFiles, CarriedOver
    <3> QED
      BY <3>1, <3>2
  <2>3. CASE WriteManifest(active, m)
    <3>1. m \in Manifests
      BY <2>1, FinalManifestFacts DEF At, ContentsOK, CarriedOver
    <3>2. m.entries = entries
      OBVIOUS
    <3>3. \A n \in Names : entries[n] # 0 => entries[n] = dirs[active].data[n]
      BY <2>1, FinalIsHonest
    <3> HIDE DEF entries, m
    <3>4. /\ dirs'[active].manifest = m /\ dirs'[active].data = dirs[active].data
          /\ \A s \in Runs \ {active} : dirs'[s] = dirs[s]
      BY <2>1, <2>3, <3>1, WriteManifestFacts
    <3>5. RunsOK'
      <4>1. Numbered'
        BY <2>1, <3>4, RunsAssumption DEF RunsOK, Numbered, Runs, Source
      <4> QED
        BY <2>1, <4>1 DEF RunsOK, BootsIdle, Settled, Unlinked
    <3>6. HonestDirs'
      <4> SUFFICES ASSUME NEW s \in Runs, NEW n \in Names, dirs'[s].manifest.entries[n] # 0
                   PROVE  dirs'[s].data[n] \in {0, dirs'[s].manifest.entries[n]}
        BY DEF HonestDirs
      <4>1. CASE s = active
        BY <3>2, <3>3, <3>4, <4>1
      <4>2. CASE s # active
        BY <3>4, <4>2 DEF ContentsOK, HonestDirs
      <4> QED
        BY <4>1, <4>2
    <3>7. Undescribed'
      BY <2>1, <3>4 DEF ContentsOK, Undescribed
    <3>8. OwnFiles' /\ CarriedOver'
      BY <2>1 DEF OwnFiles, CarriedOver
    <3> QED
      BY <3>5, <3>6, <3>7, <3>8 DEF ContentsOK
  <2> QED
    BY <1>19, <2>2, <2>3 DEF WriteFinalManifest
<1>20. CASE Promote
  <2>1. RunsOK'
    BY <1>20 DEF Promote, At, Refused, RunsOK, BootsIdle, Numbered, Settled, Unlinked
  <2>2. ContentsOK'
    BY <1>20
       DEF Promote, At, Refused, ContentsOK, HonestDirs, Undescribed, OwnFiles,
           CarriedOver
  <2> QED
    BY <2>1, <2>2
<1>21. CASE Prune
  <2>1. UNCHANGED <<current, proc, active, batch, pub, runs>> /\ fin' \notin Unlinking
    BY <1>21 DEF Prune, At
  <2>2. dirs' = dirs \/ \E r \in Runs : RemoveStep(r)
    BY <1>21 DEF Prune, At, Existing
  <2> QED
    BY <2>1, <2>2, RemovalStep
<1>22. CASE SetCurrent
  <2>1. RunsOK'
    BY <1>22 DEF SetCurrent, At, Persist, RunsOK, BootsIdle, Numbered, Settled, Unlinked
  <2>2. ContentsOK'
    BY <1>22
       DEF SetCurrent, At, Persist, ContentsOK, HonestDirs, Undescribed, OwnFiles,
           CarriedOver
  <2> QED
    BY <2>1, <2>2
<1>23. CASE Signal
  <2>1. RunsOK'
    BY <1>23, SignalBecomes DEF Signal, RunsOK, BootsIdle, Numbered, Settled, Unlinked
  <2>2. ContentsOK'
    BY <1>23, SignalBecomes
       DEF Signal, ContentsOK, HonestDirs, Undescribed, OwnFiles, CarriedOver
  <2> QED
    BY <2>1, <2>2
<1>24. CASE ReleaseLock
  BY <1>24, StillStep DEF ReleaseLock
<1>25. CASE Exit
  BY <1>25, DieStep DEF Exit
<1>26. CASE CliStart
  <2>1. RunsOK'
    BY <1>26, StartBecomes
       DEF CliStart, Became, RunsOK, BootsIdle, Numbered, Settled, Unlinked
  <2>2. ContentsOK'
    <3>1. active' = runs + 1 /\ active' \in Runs /\ active' > runs /\ fin' \in Waiting
      BY <1>26, RunsAssumption DEF CliStart, Runs, Source
    <3>2. dirs[active'] = NoDir /\ batch[active'] = NoBatch
      BY <3>1 DEF RunsOK, Numbered
    <3>3. Became(active', "starting", {}) /\ active = 0 /\ dirs' = dirs
      BY <1>26, <3>1, <3>2, StartBecomes, RecordTypes DEF CliStart, RunsOK, BootsIdle
    <3>4. HonestDirs'
      BY <3>3 DEF ContentsOK, HonestDirs
    <3>5. Undescribed'
      BY <3>1, <3>2, <3>3, RecordTypes DEF ContentsOK, Undescribed, Became
    <3>6. OwnFiles' /\ CarriedOver'
      BY <1>26, <3>1, <3>2, <3>3, RecordTypes DEF CliStart, OwnFiles, CarriedOver, Became
    <3> QED
      BY <3>4, <3>5, <3>6 DEF ContentsOK
  <2> QED
    BY <2>1, <2>2
<1>27. CASE CliCancel
  <2>1. RunsOK'
    BY <1>27, AbortBecomes
       DEF CliCancel, Became, RunsOK, BootsIdle, Numbered, Settled, Unlinked
  <2>2. ContentsOK'
    BY <1>27, AbortBecomes
       DEF CliCancel, Became, ContentsOK, HonestDirs, Undescribed, OwnFiles, CarriedOver
  <2> QED
    BY <2>1, <2>2
<1>28. CASE Crash
  BY <1>28, DieStep DEF Crash
<1>29. CASE Tick
  BY <1>29, StillStep DEF Tick, memory
<1>30. ASSUME NEW r \in Runs, CreateStaging(r) PROVE RunsOK' /\ ContentsOK'
  <2>1. /\ Became(r, "running", batch[r].entries) /\ batch[r].pc = "starting" /\ r <= runs
        /\ UNCHANGED <<current, proc, active, fin, pub, runs>>
    BY <1>30, StagingBecomes, LiveIsNumbered DEF CreateStaging
  <2>2. /\ dirs'[r].data = dirs[r].data /\ dirs'[r].manifest = dirs[r].manifest
        /\ \A s \in Runs \ {r} : dirs'[s] = dirs[s]
    BY <1>30, CreateDirFacts DEF CreateStaging
  <2>3. RunsOK'
    BY <2>1, <2>2, NumberedKept DEF RunsOK, BootsIdle, Settled, Unlinked, Became
  <2>4. HonestDirs' /\ Undescribed'
    BY <2>1, <2>2 DEF ContentsOK, HonestDirs, Undescribed, Became
  <2>5. \A s \in Runs : /\ batch'[s].entries = batch[s].entries
                        /\ dirs'[s].data = dirs[s].data /\ dirs'[s].manifest = dirs[s].manifest
    BY <2>1, <2>2, SameFields
  <2>6. OwnFiles' /\ CarriedOver'
    <3>1. active # 0 => active \in Runs /\ (pub.prev # 0 => pub.prev \in Runs)
      OBVIOUS
    <3>2. OwnFiles'
      BY <2>1, <2>5, <3>1 DEF ContentsOK, OwnFiles
    <3>3. CarriedOver'
      <4>1. active # 0 /\ fin = "carry" => pub.prev # active
        BY DEF ContentsOK, CarriedOver
      <4>2. ASSUME active # 0, fin = "manifest", NEW n \in pub.carried
            PROVE  /\ pub.prev # 0 /\ pub.prev # active
                   /\ dirs'[pub.prev].manifest.entries[n] # 0
                   /\ dirs'[active].data[n] = dirs'[pub.prev].manifest.entries[n]
                   /\ n \notin batch'[active].entries
        BY <2>5, <3>1, <4>2 DEF ContentsOK, CarriedOver
      <4> QED
        BY <2>1, <4>1, <4>2 DEF CarriedOver
    <3> QED
      BY <3>2, <3>3
  <2> QED
    BY <2>3, <2>4, <2>5, <2>6 DEF ContentsOK
<1>31. ASSUME NEW r \in Runs, Index(r) PROVE RunsOK' /\ ContentsOK'
  <2>1. PICK entries \in SUBSET Indexed(r) : Became(r, "indexed", entries)
    BY <1>31, IndexBecomes
  <2>2. /\ batch[r].pc = "running" /\ r <= runs
        /\ UNCHANGED <<dirs, current, proc, active, fin, pub, runs>>
    BY <1>31, LiveIsNumbered DEF Index
  <2>3. RunsOK'
    BY <2>1, <2>2, NumberedKept DEF RunsOK, BootsIdle, Settled, Unlinked, Became
  <2>4. HonestDirs' /\ Undescribed'
    BY <2>1, <2>2 DEF ContentsOK, HonestDirs, Undescribed, Became
  <2>5. OwnFiles'
    <3>1. CASE r = active
      <4>1. active # 0 /\ fin \notin Publishing
        BY <2>2, <3>1 DEF RunsOK, Settled
      <4>2. \A n \in entries : dirs[active].data[n] # 0 /\ n \in Names
        BY <3>1 DEF Indexed
      <4> QED
        BY <2>1, <2>2, <3>1, <4>1, <4>2 DEF ContentsOK, OwnFiles, Became
    <3>2. CASE r # active
      BY <2>1, <2>2, <3>2 DEF ContentsOK, OwnFiles, Became
    <3> QED
      BY <3>1, <3>2
  <2>6. CarriedOver'
    <3>1. CASE r = active
      BY <2>2, <3>1 DEF RunsOK, Settled, CarriedOver
    <3>2. CASE r # active
      BY <2>1, <2>2, <3>2 DEF ContentsOK, CarriedOver, Became
    <3> QED
      BY <3>1, <3>2
  <2> QED
    BY <2>3, <2>4, <2>5, <2>6 DEF ContentsOK
<1>32. ASSUME NEW r \in Runs, BatchOver(r) PROVE RunsOK' /\ ContentsOK'
  <2>1. /\ Became(r, "over", batch[r].entries) /\ batch[r].pc = "indexed" /\ r <= runs
        /\ UNCHANGED <<dirs, current, proc, active, fin, pub, runs>>
    BY <1>32, OverBecomes, LiveIsNumbered DEF BatchOver
  <2>2. RunsOK'
    BY <2>1, NumberedKept DEF RunsOK, BootsIdle, Settled, Unlinked, Became
  <2>3. HonestDirs' /\ Undescribed'
    <3>1. \A s \in Runs : batch'[s].pc \in Live => batch[s].pc \in Live
      BY <2>1 DEF Became
    <3> QED
      BY <2>1, <3>1 DEF ContentsOK, HonestDirs, Undescribed
  <2>4. OwnFiles'
    BY <2>1, SameFields DEF ContentsOK, OwnFiles
  <2>5. CarriedOver'
    BY <2>1, SameFields DEF ContentsOK, CarriedOver
  <2> QED
    BY <2>2, <2>3, <2>4, <2>5 DEF ContentsOK
<1>33. ASSUME NEW r \in Runs, NEW u \in Users, WorkerDone(r, u) PROVE RunsOK' /\ ContentsOK'
  <2>1. /\ Became(r, "running", batch[r].entries) /\ batch[r].pc = "running" /\ r <= runs
        /\ UNCHANGED <<current, proc, active, fin, pub, runs>>
    BY <1>33, WorkerBecomes, LiveIsNumbered DEF WorkerDone
  <2>2. /\ dirs'[r].manifest = dirs[r].manifest
        /\ \A n \in Names : dirs'[r].data[n] \in {r, dirs[r].data[n]}
        /\ \A s \in Runs \ {r} : dirs'[s] = dirs[s]
    BY <1>33, WorkerFacts
  <2>3. RunsOK'
    BY <2>1, <2>2, NumberedKept DEF RunsOK, BootsIdle, Settled, Unlinked, Became
  <2>4. HonestDirs'
    <3> SUFFICES ASSUME NEW s \in Runs, NEW n \in Names, dirs'[s].manifest.entries[n] # 0
                 PROVE  dirs'[s].data[n] \in {0, dirs'[s].manifest.entries[n]}
      BY DEF HonestDirs
    <3>1. dirs[r].manifest.entries[n] = 0
      BY <2>1 DEF ContentsOK, Undescribed
    <3>2. s # r /\ dirs'[s] = dirs[s]
      BY <2>2, <3>1
    <3> QED
      BY <3>2 DEF ContentsOK, HonestDirs
  <2>5. Undescribed'
    <3>1. \A s \in Runs : /\ dirs'[s].manifest = dirs[s].manifest
                          /\ batch'[s].pc \in Live => batch[s].pc \in Live
      BY <2>1, <2>2 DEF Became
    <3> QED
      BY <2>1, <3>1 DEF ContentsOK, Undescribed
  <2>6. OwnFiles'
    <3>1. batch'[active].entries = batch[active].entries \/ active = 0
      BY <2>1, SameFields
    <3>2. \A n \in Names : active # 0 /\ dirs[active].data[n] \in {0, active} =>
                            dirs'[active].data[n] \in {0, active}
      BY <2>2
    <3>3. \A n \in Names : active # 0 /\ dirs[active].data[n] = active =>
                            dirs'[active].data[n] = active
      BY <2>2
    <3>4. active # 0 => batch[active].entries \subseteq Names
      BY FieldTypes
    <3> QED
      BY <2>1, <3>1, <3>2, <3>3, <3>4 DEF ContentsOK, OwnFiles
  <2>7. CarriedOver'
    <3> SUFFICES ASSUME active # 0, fin \in {"carry", "manifest"} PROVE CarriedOver'
      BY <2>1 DEF CarriedOver
    <3>1. r # active
      BY <2>1 DEF RunsOK, Settled
    <3>2. ASSUME fin = "manifest", NEW n \in pub.carried
          PROVE  pub.prev # r /\ pub.prev \in Runs
      <4>1. n \in Names /\ pub.prev \in Runs /\ dirs[pub.prev].manifest.entries[n] # 0
        BY <3>2 DEF ContentsOK, CarriedOver
      <4>2. dirs[r].manifest.entries[n] = 0
        BY <2>1, <4>1 DEF ContentsOK, Undescribed
      <4> QED
        BY <4>1, <4>2
    <3>3. dirs'[active] = dirs[active] /\ batch'[active] = batch[active]
      BY <2>1, <2>2, <3>1 DEF Became
    <3>4. fin = "manifest" => \A n \in pub.carried : dirs'[pub.prev] = dirs[pub.prev]
      BY <2>2, <3>2
    <3> QED
      BY <2>1, <3>3, <3>4 DEF ContentsOK, CarriedOver
  <2> QED
    BY <2>3, <2>4, <2>5, <2>6, <2>7 DEF ContentsOK
<1>34. CASE UNCHANGED vars
  BY <1>34, StillStep DEF vars, memory
<1> QED
  BY <1>1, <1>2, <1>3, <1>4, <1>5, <1>6, <1>7, <1>8, <1>9, <1>10, <1>11, <1>12, <1>13,
     <1>14, <1>15, <1>16, <1>17, <1>18, <1>19, <1>20, <1>21, <1>22, <1>23, <1>24, <1>25, <1>26,
     <1>27, <1>28, <1>29, <1>30, <1>31, <1>32, <1>33, <1>34
     DEF Next, Finish, Execute

\* The invariant of every behaviour.
LEMMA Invariant == Spec => []IInv
<1>1. Init => IInv
  BY InitIInv
<1>2. IInv /\ [Next]_vars => IInv'
  BY StepIInv
<1> QED
  BY <1>1, <1>2, PTL DEF Spec
-----------------------------------------------------------------------------
(* Theorems *)

\* Types; the history is never longer than MAX_ATTEMPTS_KEPT.
THEOREM TypeCorrect == Spec => []TypeOK
<1>1. IInv => TypeOK
  BY DEF IInv, Typed
<1> QED
  BY <1>1, Invariant, PTL

\* Whatever fails and wherever the process is killed, no entry on offer describes another
\* file than the one behind it: that file is there, or a removal cut short has taken it.
THEOREM EntriesNeverMislabel == Spec => []NeverMislabelled
<1>1. IInv => NeverMislabelled
  BY RunFacts, ResolvedIsCurrent
     DEF IInv, Typed, ContentsOK, HonestDirs, NeverMislabelled, Readable
<1> QED
  BY <1>1, Invariant, PTL

\* A batch at work is the one the run manager waits for.
LEMMA StepSingleFlight ==
    ASSUME {"persist", "open"} \cap Faults = {}
    PROVE  IInv /\ SingleFlight /\ [Next]_vars => SingleFlight'
<1> SUFFICES ASSUME IInv, SingleFlight, [Next]_vars PROVE SingleFlight'
  OBVIOUS
<1> USE RunFacts, RecordTypes DEF SingleFlight, Live, Waiting
<1>0. TypeOK
  BY DEF IInv, Typed
<1>1. CASE UNCHANGED <<batch, active, fin>>
  BY <1>1
<1>2. CASE fin \notin Waiting /\ UNCHANGED batch
  BY <1>2
<1>3. CASE Trigger \/ CliStart
  <2>1. active = 0 /\ runs < MaxRuns /\ runs' = runs + 1 /\ active' = runs' /\ fin' \in Waiting
    BY <1>3 DEF Trigger, Start, CliStart, IInv, RunsOK, BootsIdle
  <2>2. batch' = [batch EXCEPT ![runs'].pc = "starting"]
    BY <1>3 DEF Trigger, Start, CliStart
  <2>3. Became(runs + 1, "starting", batch[runs + 1].entries)
    BY <1>0, <2>1, <2>2, StartBecomes
  <2> QED
    BY <2>1, <2>3 DEF Became
<1>4. CASE Cancel \/ CliCancel
  <2>1. UNCHANGED <<active, fin>> /\ batch' = [batch EXCEPT ![active].aborted = TRUE]
    BY <1>4 DEF Cancel, CliCancel
  <2>2. \A r \in Runs : batch'[r].pc = batch[r].pc
    <3>1. CASE active \in Runs
      BY <1>0, <2>1, <3>1, AbortBecomes DEF Became
    <3>2. CASE active \notin Runs
      BY <1>0, <2>1, <3>2 DEF TypeOK
    <3> QED
      BY <3>1, <3>2
  <2> QED
    BY <2>1, <2>2
<1>5. CASE Signal
  BY <1>0, <1>5, SignalBecomes DEF Signal
<1>6. CASE BeginAttempt \/ WriteOpenManifest
  BY <1>6 DEF BeginAttempt, WriteOpenManifest, Persist, At
<1>7. CASE AwaitResult \/ CliResult
  BY <1>7 DEF AwaitResult, CliResult, At
<1>8. CASE Release
  <2>1. \A r \in Runs : batch[r].pc \notin Live
    BY <1>8 DEF Release, At
  <2>2. \A r \in Runs : batch'[r] \in {batch[r], NoBatch}
    BY <1>0, <1>8 DEF Release, TypeOK
  <2> QED
    BY <2>1, <2>2
<1>9. CASE Die
  BY <1>9 DEF Die
<1>10. ASSUME NEW r \in Runs, Execute(r) PROVE SingleFlight'
  <2>1. \/ CreateStaging(r) \/ Index(r) \/ BatchOver(r)
        \/ \E u \in Users : WorkerDone(r, u)
    BY <1>10 DEF Execute
  <2>2. UNCHANGED <<active, fin>> /\ batch[r].pc \in Live
    BY <2>1 DEF CreateStaging, Index, BatchOver, WorkerDone
  <2>3. \A s \in Runs \ {r} : batch'[s] = batch[s]
    BY <1>0, <2>1, StagingBecomes, IndexBecomes, OverBecomes, WorkerBecomes DEF Became
  <2> QED
    BY <2>2, <2>3
<1>11. CASE Boot \/ Reconcile \/ BootPrune \/ BootSave \/ ClearAttempts \/ ReleaseLock \/ Tick
            \/ UNCHANGED vars
  BY <1>1, <1>11
     DEF Boot, Reconcile, BootPrune, BootSave, ClearAttempts, ReleaseLock, Tick, vars, memory
<1>12. CASE Discard \/ Fail \/ EndAttempt \/ ReadPrevious \/ CarryForward
            \/ WriteFinalManifest \/ Promote \/ Prune \/ SetCurrent
  BY <1>2, <1>12
     DEF Discard, Fail, EndAttempt, ReadPrevious, CarryForward, WriteFinalManifest, Promote,
         Prune, SetCurrent, At
<1>13. CASE CliExit \/ Exit \/ Crash
  BY <1>9, <1>13 DEF CliExit, Exit, Crash
<1> QED
  BY <1>3, <1>4, <1>5, <1>6, <1>7, <1>8, <1>10, <1>11, <1>12, <1>13 DEF Next, Finish

\* At most one run, ever: a batch at work is the one the single-flight lock names, as long
\* as nothing ends #finish before its batch.
THEOREM SingleRun ==
    ASSUME {"persist", "open"} \cap Faults = {}
    PROVE  Spec => []AtMostOneBatch
<1>1. Init => SingleFlight
  BY DEF Init, SingleFlight, NoBatch, Live
<1>2. IInv /\ SingleFlight /\ [Next]_vars => SingleFlight'
  BY StepSingleFlight
<1>3. SingleFlight => AtMostOneBatch
  BY DEF SingleFlight, AtMostOneBatch, Running, Live
<1> QED
  BY <1>1, <1>2, <1>3, Invariant, PTL DEF Spec
-----------------------------------------------------------------------------
(* What is recorded of a run, and a shutdown that waits for it *)

\* An attempt without an outcome is the one that is recorded as active.
OpenIsActive(s) ==
    \A i \in DOMAIN s.attempts :
        s.attempts[i].outcome = "none" => s.attempts[i].id = s.active

\* `tcrs run` records nothing.
CliSteps ==
    proc = "cli" =>
        fin \in {"await", "previous", "carry", "manifest", "promote", "prune", "done", "failed"}

\* What is recorded, in memory and on disk: no attempt is open but the active run's, from
\* its record on and until it ends.
Recorded ==
    /\ OpenIsActive(saved) /\ OpenIsActive(state)
    /\ proc \in {"reconcile", "prune", "save"} => state.active = 0
    /\ proc = "up" =>
          /\ saved = state
          /\ state.active # 0 => state.active = active /\ fin \notin {"begin", "release"}

\* A shutdown lets the lock go once the run it found has ended.
Stopped ==
    /\ stop.pc # "no" => proc = "up"
    /\ stop.run <= runs
    /\ stop.pc = "released" /\ stop.run # 0 => active # stop.run

RecordInv == CliSteps /\ Recorded

\* Closing an attempt gives an outcome to what had none, and changes nothing else.
LEMMA CloseFacts ==
    ASSUME NEW attempts \in Seq(Attempts), NEW r, NEW how
    PROVE  /\ DOMAIN Close(attempts, r, how) = DOMAIN attempts
           /\ \A i \in DOMAIN attempts :
                 /\ Close(attempts, r, how)[i].id = attempts[i].id
                 /\ Close(attempts, r, how)[i].outcome =
                       IF attempts[i].id = r /\ attempts[i].outcome = "none" THEN how
                       ELSE attempts[i].outcome
<1>1. \A i \in DOMAIN attempts : attempts[i] \in Attempts
  OBVIOUS
<1>2. \A i \in DOMAIN attempts :
         /\ [attempts[i] EXCEPT !.outcome = how, !.finished = now].id = attempts[i].id
         /\ [attempts[i] EXCEPT !.outcome = how, !.finished = now].outcome = how
  BY <1>1 DEF Attempts
<1> QED
  BY <1>2 DEF Close

\* The history of a run that begins is its own attempt and some of the older ones.
LEMMA BegunFacts ==
    ASSUME NEW s \in Persisted, NEW r \in Runs
    PROVE  /\ Begun(s, r).active = r /\ Begun(s, r).current = s.current
           /\ \A i \in DOMAIN Begun(s, r).attempts :
                 \/ /\ Begun(s, r).attempts[i].id = r
                    /\ Begun(s, r).attempts[i].outcome = "none"
                 \/ \E j \in DOMAIN s.attempts : Begun(s, r).attempts[i] = s.attempts[j]
<1> DEFINE new  == [id |-> r, started |-> started, finished |-> 0, outcome |-> "none"]
           kept == AttemptsKept - 1
           old  == IF Len(s.attempts) > kept THEN SubSeq(s.attempts, 1, kept) ELSE s.attempts
           all  == <<new>> \o old
<1>1. s.attempts \in Seq(Attempts) /\ kept \in Nat
  BY ClockAssumption DEF Persisted
<1>2. /\ old \in Seq(Attempts) /\ DOMAIN old \subseteq DOMAIN s.attempts
      /\ \A j \in DOMAIN old : old[j] = s.attempts[j]
  BY <1>1
<1>3. Begun(s, r) = [s EXCEPT !.active = r, !.attempts = all]
  BY DEF Begun
<1>4. new.id = r /\ new.outcome = "none"
  OBVIOUS
<1> HIDE DEF new, old
<1>5. \A i \in DOMAIN all : all[i] = new \/ (i - 1 \in DOMAIN old /\ all[i] = old[i - 1])
  BY <1>2
<1>6. \A i \in DOMAIN all : all[i] = new \/ \E j \in DOMAIN s.attempts : all[i] = s.attempts[j]
  BY <1>2, <1>5
<1> HIDE DEF all
<1>7. /\ Begun(s, r).active = r /\ Begun(s, r).current = s.current
      /\ Begun(s, r).attempts = all
  BY <1>3 DEF Persisted
<1> QED
  BY <1>4, <1>6, <1>7

\* The ids of a history are runs, so nothing is open where nothing is active.
LEMMA NoneOpen ==
    ASSUME NEW s \in Persisted, OpenIsActive(s), s.active = 0
    PROVE  \A i \in DOMAIN s.attempts : s.attempts[i].outcome # "none"
<1>1. \A i \in DOMAIN s.attempts : s.attempts[i] \in Attempts
  BY DEF Persisted
<1>2. \A i \in DOMAIN s.attempts : s.attempts[i].id # 0
  BY <1>1, RunFacts DEF Attempts
<1> QED
  BY <1>2 DEF OpenIsActive

\* The last attempt that was open is closed with its run.
LEMMA ClosesAll ==
    ASSUME NEW s \in Persisted, OpenIsActive(s), NEW how \in Outcomes, NEW r,
           s.active # 0 => r = s.active
    PROVE  \A i \in DOMAIN Close(s.attempts, r, how) :
              Close(s.attempts, r, how)[i].outcome # "none"
<1>1. s.attempts \in Seq(Attempts) /\ how # "none"
  BY DEF Persisted, Outcomes
<1>2. CASE s.active = 0
  BY <1>1, <1>2, CloseFacts, NoneOpen
<1>3. CASE s.active # 0
  BY <1>1, <1>3, CloseFacts DEF OpenIsActive
<1> QED
  BY <1>2, <1>3

\* Where a record keeps its attempts and its active run, nothing else is open.
LEMMA OpenKept ==
    ASSUME NEW s, NEW t, OpenIsActive(s), t.attempts = s.attempts, t.active = s.active
    PROVE  OpenIsActive(t)
  BY DEF OpenIsActive

LEMMA NoneOpenIsActive ==
    ASSUME NEW s, \A i \in DOMAIN s.attempts : s.attempts[i].outcome # "none"
    PROVE  OpenIsActive(s)
  BY DEF OpenIsActive

\* Every step keeps what is recorded.
LEMMA StepRecorded ==
    ASSUME "persist" \notin Faults
    PROVE  IInv /\ RecordInv /\ [Next]_vars => RecordInv'
<1> SUFFICES ASSUME IInv, RecordInv, [Next]_vars PROVE RecordInv'
  OBVIOUS
<1>0. /\ state \in Persisted /\ saved \in Persisted /\ outcome \in Outcomes
      /\ active \in Source /\ (active # 0 => active \in Runs)
      /\ proc \in {"down", "reconcile", "prune", "save"} => active = 0
      /\ Recorded /\ CliSteps
      /\ OpenIsActive(saved) /\ OpenIsActive(state)
  BY RunFacts DEF IInv, Typed, TypeOK, RunsOK, BootsIdle, RecordInv, Recorded
<1>p. ASSUME NEW s, NEW next, NEW otherwise, Persist(s, next, otherwise)
      PROVE  state' = s /\ saved' = s /\ fin' = next
  BY <1>p DEF Persist
<1>1. CASE Boot
  <2>1. PICK how \in Outcomes :
            state' = [saved EXCEPT !.active = 0, !.attempts = Close(@, saved.active, how)]
    BY <1>1 DEF Boot, Outcomes
  <2>2. state'.active = 0 /\ state'.attempts = Close(saved.attempts, saved.active, how)
    BY <1>0, <2>1 DEF Persisted
  <2>3. OpenIsActive(state')
    BY <1>0, <2>2, ClosesAll, NoneOpenIsActive
  <2>4. saved' = saved /\ proc' = "reconcile"
    BY <1>1 DEF Boot
  <2> QED
    BY <1>0, <2>2, <2>3, <2>4 DEF RecordInv, Recorded, CliSteps
<1>2. CASE Reconcile
  <2>1. state'.active = state.active /\ state'.attempts = state.attempts
    BY <1>0, <1>2 DEF Reconcile, Persisted
  <2>2. OpenIsActive(state') /\ proc' = "prune" /\ proc = "reconcile" /\ saved' = saved
    BY <1>0, <1>2, <2>1, OpenKept DEF Reconcile
  <2> QED
    BY <1>0, <2>1, <2>2 DEF RecordInv, Recorded, CliSteps
<1>3. CASE BootPrune
  <2>1. UNCHANGED <<state, saved>> /\ proc = "prune" /\ proc' \in {"prune", "save"}
    BY <1>3 DEF BootPrune
  <2> QED
    BY <1>0, <2>1 DEF RecordInv, Recorded, CliSteps
<1>4. CASE BootSave
  <2>1. state' = state /\ saved' = state /\ proc = "save" /\ proc' = "up"
    BY <1>4 DEF BootSave
  <2> QED
    BY <1>0, <2>1 DEF RecordInv, Recorded, CliSteps
<1>5. CASE Trigger
  <2>1. UNCHANGED <<state, saved, proc>> /\ proc = "up" /\ active = 0
    BY <1>5 DEF Trigger, Start
  <2> QED
    BY <1>0, <2>1 DEF RecordInv, Recorded, CliSteps
<1>6. CASE CliStart
  <2>1. UNCHANGED <<state, saved>> /\ proc' = "cli" /\ fin' = "await"
    BY <1>6 DEF CliStart
  <2> QED
    BY <1>0, <2>1 DEF RecordInv, Recorded, CliSteps
<1>7. CASE ClearAttempts
  <2>1. /\ state'.active = 0 /\ state'.attempts = <<>> /\ saved' = state'
        /\ UNCHANGED <<proc, fin>> /\ proc = "up"
    BY <1>0, <1>7 DEF ClearAttempts, Persisted
  <2>2. OpenIsActive(state')
    BY <2>1 DEF OpenIsActive
  <2> QED
    BY <2>1, <2>2 DEF RecordInv, Recorded, CliSteps
<1>8. CASE BeginAttempt
  <2>1. /\ active # 0 /\ fin = "begin" /\ fin' = "open" /\ UNCHANGED <<proc, active>>
        /\ state' = Begun(state, active) /\ saved' = Begun(state, active)
    BY <1>8, <1>p DEF BeginAttempt, At
  <2>2. active \in Runs /\ proc = "up" /\ state.active = 0
    BY <1>0, <2>1 DEF Recorded, CliSteps, IInv, Typed, TypeOK
  <2>3. state'.active = active /\ OpenIsActive(state')
    BY <1>0, <2>1, <2>2, BegunFacts, NoneOpen DEF OpenIsActive
  <2> QED
    BY <2>1, <2>2, <2>3 DEF RecordInv, Recorded, CliSteps
<1>9. CASE EndAttempt
  <2>1. /\ active # 0 /\ fin = "end" /\ fin' = "release" /\ UNCHANGED <<proc, active>>
        /\ state' = [state EXCEPT !.active = 0, !.attempts = Close(@, active, outcome)]
        /\ saved' = state'
    BY <1>9, <1>p DEF EndAttempt, At
  <2>2. proc = "up" /\ (state.active # 0 => state.active = active)
    BY <1>0, <2>1 DEF Recorded, CliSteps, IInv, Typed, TypeOK
  <2>3. state'.active = 0 /\ state'.attempts = Close(state.attempts, active, outcome)
    BY <1>0, <2>1 DEF Persisted
  <2>4. OpenIsActive(state')
    BY <1>0, <2>2, <2>3, ClosesAll, NoneOpenIsActive
  <2> QED
    BY <2>1, <2>2, <2>3, <2>4 DEF RecordInv, Recorded, CliSteps
<1>10. CASE SetCurrent
  <2>1. /\ active # 0 /\ fin = "setCurrent" /\ fin' = "end" /\ UNCHANGED <<proc, active>>
        /\ state' = [state EXCEPT !.current = active] /\ saved' = state'
    BY <1>10, <1>p DEF SetCurrent, At
  <2>2. state'.active = state.active /\ state'.attempts = state.attempts
    BY <1>0, <2>1 DEF Persisted
  <2>3. proc = "up" /\ OpenIsActive(state')
    BY <1>0, <2>1, <2>2, OpenKept DEF CliSteps, IInv, Typed, TypeOK
  <2> QED
    BY <1>0, <2>1, <2>2, <2>3 DEF RecordInv, Recorded, CliSteps
<1>11. CASE Release
  <2>1. active # 0 /\ fin = "release" /\ UNCHANGED <<proc, state, saved>>
    BY <1>11 DEF Release, At
  <2>2. proc = "up" /\ state.active = 0
    BY <1>0, <2>1 DEF Recorded, CliSteps, IInv, Typed, TypeOK
  <2> QED
    BY <1>0, <2>1, <2>2 DEF RecordInv, Recorded, CliSteps
<1>12. CASE Die
  <2>1. state' = Fresh /\ saved' = saved /\ proc' = "down"
    BY <1>12 DEF Die
  <2>2. OpenIsActive(state')
    BY <2>1 DEF Fresh, OpenIsActive
  <2> QED
    BY <1>0, <2>1, <2>2 DEF RecordInv, Recorded, CliSteps
<1>13. CASE UNCHANGED <<state, saved, proc, active, fin>>
  BY <1>0, <1>13 DEF RecordInv, Recorded, CliSteps
<1>14. CASE WriteOpenManifest \/ AwaitResult \/ CliResult \/ Discard \/ Fail \/ ReadPrevious
            \/ CarryForward \/ WriteFinalManifest \/ Promote \/ Prune
  <2>1. /\ UNCHANGED <<state, saved, proc, active>> /\ active # 0
        /\ fin' \notin {"begin", "release"}
    BY <1>14
       DEF WriteOpenManifest, AwaitResult, CliResult, Discard, Fail, ReadPrevious,
           CarryForward, WriteFinalManifest, Promote, Prune, At, Refused
  <2>2. CliSteps'
    BY <1>0, <1>14
       DEF WriteOpenManifest, AwaitResult, CliResult, Discard, Fail, ReadPrevious,
           CarryForward, WriteFinalManifest, Promote, Prune, At, Refused, CliSteps
  <2> QED
    BY <1>0, <2>1, <2>2 DEF RecordInv, Recorded
<1>15. CASE Cancel \/ CliCancel \/ Signal \/ ReleaseLock \/ Tick \/ UNCHANGED vars
            \/ \E r \in Runs : Execute(r)
  BY <1>13, <1>15
     DEF Cancel, CliCancel, Signal, ReleaseLock, Tick, vars, memory, Execute, CreateStaging,
         Index, BatchOver, WorkerDone
<1>16. CASE CliExit \/ Exit \/ Crash
  BY <1>12, <1>16 DEF CliExit, Exit, Crash
<1> QED
  BY <1>1, <1>2, <1>3, <1>4, <1>5, <1>6, <1>7, <1>8, <1>9, <1>10, <1>11, <1>14, <1>15, <1>16
     DEF Next, Finish

\* The invariant, from the start.
LEMMA RecordInvariant ==
    ASSUME "persist" \notin Faults
    PROVE  Spec => []RecordInv
<1>1. Init => RecordInv
  BY DEF Init, RecordInv, Recorded, CliSteps, OpenIsActive, Fresh
<1>2. IInv /\ RecordInv /\ [Next]_vars => RecordInv'
  BY StepRecorded
<1> QED
  BY <1>1, <1>2, Invariant, PTL DEF Spec

\* A shutdown that waits for its run lets the lock go after it.
LEMMA StepStopped ==
    ASSUME "grace" \notin Faults
    PROVE  IInv /\ Stopped /\ [Next]_vars => Stopped'
<1> SUFFICES ASSUME IInv, Stopped, [Next]_vars PROVE Stopped'
  OBVIOUS
<1>0. /\ active \in Nat /\ runs \in Nat /\ stop.run \in Nat /\ active <= runs
      /\ stop \in [pc: {"no", "waiting", "released"}, run: Source]
  BY RunFacts DEF IInv, Typed, TypeOK, RunsOK, Numbered
<1>1. CASE Signal
  <2>1. /\ stop' = [pc |-> "waiting", run |-> active]
        /\ UNCHANGED <<active, runs, proc>> /\ proc = "up"
    BY <1>1 DEF Signal
  <2> QED
    BY <1>0, <2>1 DEF Stopped
<1>2. CASE ReleaseLock
  <2>1. /\ stop.run = 0 \/ active # stop.run
        /\ stop'.run = stop.run /\ stop.pc = "waiting" /\ UNCHANGED <<active, runs, proc>>
    BY <1>0, <1>2 DEF ReleaseLock
  <2> QED
    BY <2>1 DEF Stopped
<1>3. CASE Trigger
  <2>1. runs' = runs + 1 /\ active' = runs + 1 /\ UNCHANGED <<stop, proc>>
    BY <1>3 DEF Trigger, Start
  <2> QED
    BY <1>0, <2>1 DEF Stopped
<1>4. CASE CliStart
  <2>1. proc = "down" /\ runs' = runs + 1 /\ active' = runs + 1 /\ UNCHANGED stop
    BY <1>4 DEF CliStart
  <2> QED
    BY <1>0, <2>1 DEF Stopped
<1>5. CASE Release
  <2>1. active' = 0 /\ UNCHANGED <<stop, proc, runs>>
    BY <1>5 DEF Release
  <2> QED
    BY <2>1 DEF Stopped
<1>6. CASE Die
  BY <1>0, <1>6 DEF Die, NoStop, Stopped
<1>7. CASE Boot \/ Reconcile \/ BootPrune \/ BootSave
  <2>1. proc # "up" /\ UNCHANGED <<stop, active, runs>>
    BY <1>7 DEF Boot, Reconcile, BootPrune, BootSave
  <2> QED
    BY <2>1 DEF Stopped
<1>8. CASE UNCHANGED <<stop, proc, active, runs>>
  BY <1>8 DEF Stopped
<1>9. CASE Cancel \/ ClearAttempts \/ CliCancel \/ Tick \/ UNCHANGED vars
            \/ (\E r \in Runs : Execute(r))
            \/ BeginAttempt \/ WriteOpenManifest \/ AwaitResult \/ Discard \/ Fail \/ EndAttempt
            \/ CliResult \/ ReadPrevious \/ CarryForward \/ WriteFinalManifest \/ Promote
            \/ Prune \/ SetCurrent
  BY <1>8, <1>9
     DEF Cancel, ClearAttempts, CliCancel, Tick, vars, memory, Execute, CreateStaging, Index,
         BatchOver, WorkerDone, BeginAttempt, WriteOpenManifest, AwaitResult, Discard, Fail,
         EndAttempt, CliResult, ReadPrevious, CarryForward, WriteFinalManifest, Promote, Prune,
         SetCurrent
<1>10. CASE CliExit \/ Exit \/ Crash
  BY <1>6, <1>10 DEF CliExit, Exit, Crash
<1> QED
  BY <1>1, <1>2, <1>3, <1>4, <1>5, <1>7, <1>9, <1>10 DEF Next, Finish

\* When a shutdown lets the data-dir lock go within its grace, the run it interrupted is over
\* and recorded as ended.
THEOREM StopsAreClean ==
    ASSUME {"persist", "open", "grace"} \cap Faults = {}
    PROVE  Spec => []StopIsClean
<1>1. Init => Stopped
  BY RunFacts, ClockAssumption DEF Init, Stopped, NoStop
<1>2. IInv /\ Stopped /\ [Next]_vars => Stopped'
  BY StepStopped
<1>3. Spec => []Stopped
  BY <1>1, <1>2, Invariant, PTL DEF Spec
<1>4. IInv /\ RecordInv /\ Stopped /\ AtMostOneBatch => StopIsClean
  <2> SUFFICES ASSUME IInv, RecordInv, Stopped, AtMostOneBatch,
                      stop.pc = "released", stop.run # 0
               PROVE  /\ stop.run \notin Running
                      /\ saved.active # stop.run
                      /\ \A i \in DOMAIN saved.attempts :
                            saved.attempts[i].id = stop.run => saved.attempts[i].outcome # "none"
    BY DEF StopIsClean
  <2>1. active # stop.run /\ proc = "up"
    BY DEF Stopped
  <2>2. saved.active \in {0, active} /\ OpenIsActive(saved)
    BY <2>1 DEF RecordInv, Recorded
  <2> QED
    BY <2>1, <2>2 DEF AtMostOneBatch, OpenIsActive
<1>5. Spec => []RecordInv /\ []AtMostOneBatch
  BY RecordInvariant, SingleRun
<1> QED
  BY <1>3, <1>4, <1>5, Invariant, PTL
-----------------------------------------------------------------------------
(* At rest *)

\* While the server is up its record names the linked dataset, except from the link on until
\* it is recorded, and no directory is there but that one's and the active run's.
Tidied ==
    /\ active # 0 /\ fin \in {"prune", "setCurrent"} => current = active
    /\ active # 0 /\ fin = "setCurrent" => Existing \subseteq {active}
    /\ active = 0 \/ fin \notin {"prune", "setCurrent"} =>
          state.current = current /\ Existing \subseteq {current, active}
    /\ active # 0 /\ fin \in {"end", "release"} => Existing \subseteq {current}

Tidy ==
    /\ proc \in {"prune", "save"} => state.current = current
    /\ proc = "save" => Existing \subseteq {current}
    /\ proc = "up" => Tidied

\* The directories there are after one is made or removed.
LEMMA ExistingFacts ==
    ASSUME StorageTypeOK
    PROVE  /\ \A r \in Runs : RemoveStep(r) => Existing' \in {Existing, Existing \ {r}}
           /\ \A r \in Runs : CreateDir(r) => Existing' = Existing \cup {r}
           /\ \A r \in Runs :
                 (\A s \in Runs \ {r} : dirs'[s] = dirs[s]) /\ dirs'[r].exists = dirs[r].exists =>
                     Existing' = Existing
           /\ 0 \notin Existing
<1>1. ASSUME NEW r \in Runs, RemoveStep(r) PROVE Existing' \in {Existing, Existing \ {r}}
  <2>1. /\ \A s \in Runs \ {r} : dirs'[s] = dirs[s]
        /\ dirs'[r].exists = dirs[r].exists \/ ~dirs'[r].exists
    BY <1>1, RemoveStepFacts DEF NoDir
  <2> QED
    BY <2>1 DEF Existing
<1>2. ASSUME NEW r \in Runs, CreateDir(r) PROVE Existing' = Existing \cup {r}
  BY <1>2, CreateDirFacts DEF Existing
<1>3. ASSUME NEW r \in Runs, \A s \in Runs \ {r} : dirs'[s] = dirs[s],
             dirs'[r].exists = dirs[r].exists
      PROVE  Existing' = Existing
  <2>1. \A s \in Runs : dirs'[s].exists = dirs[s].exists
    BY <1>3
  <2> QED
    BY <2>1 DEF Existing
<1> QED
  BY <1>1, <1>2, <1>3, RunFacts DEF Existing

\* Every step keeps the volume tidy.
LEMMA StepTidy ==
    ASSUME {"persist", "open", "rm"} \cap Faults = {}
    PROVE  IInv /\ SingleFlight /\ RecordInv /\ Tidy /\ [Next]_vars => Tidy'
<1> SUFFICES ASSUME IInv, SingleFlight, RecordInv, Tidy, [Next]_vars PROVE Tidy'
  OBVIOUS
<1>0. /\ TypeOK /\ StorageTypeOK /\ state \in Persisted
      /\ (active # 0 => active \in Runs)
      /\ proc \in {"down", "reconcile", "prune", "save"} => active = 0
      /\ 0 \notin Existing
  BY RunFacts, ExistingFacts DEF IInv, Typed, TypeOK, RunsOK, BootsIdle
<1>p. ASSUME NEW s, NEW next, NEW otherwise, Persist(s, next, otherwise)
      PROVE  state' = s /\ fin' = next
  BY <1>p DEF Persist
<1>1. CASE Boot
  BY <1>1 DEF Boot, Tidy
<1>2. CASE Reconcile
  <2>1. state'.current = current' /\ proc' = "prune"
    BY <1>0, <1>2 DEF Reconcile, Persisted
  <2> QED
    BY <2>1 DEF Tidy
<1>3. CASE BootPrune
  <2>1. /\ UNCHANGED <<current, state>> /\ state.current = current
        /\ proc' = "prune" \/ (proc' = "save" /\ dirs' = dirs /\ Existing \subseteq {current})
    BY <1>3 DEF BootPrune, Tidy
  <2> QED
    BY <2>1 DEF Tidy, Existing
<1>4. CASE BootSave
  <2>1. UNCHANGED <<dirs, current, state, active>> /\ active = 0
    BY <1>0, <1>4 DEF BootSave, disk
  <2>2. state.current = current /\ Existing \subseteq {current} /\ Existing' = Existing
    BY <1>4, <2>1 DEF BootSave, Tidy, Existing
  <2> QED
    BY <1>4, <2>1, <2>2 DEF BootSave, Tidy, Tidied
<1>5. CASE Trigger
  <2>1. /\ UNCHANGED <<dirs, current, state, proc>> /\ active = 0 /\ proc = "up"
        /\ fin' = "begin"
    BY <1>5 DEF Trigger, Start, disk
  <2>2. state.current = current /\ Existing \subseteq {current} /\ Existing' = Existing
    BY <1>0, <2>1 DEF Tidy, Tidied, Existing
  <2> QED
    BY <2>1, <2>2 DEF Tidy, Tidied
<1>6. CASE CliStart \/ Die
  <2>1. proc' \in {"cli", "down"}
    BY <1>6 DEF CliStart, Die
  <2> QED
    BY <2>1 DEF Tidy
<1>7. CASE proc = "cli" /\ proc' = proc
  BY <1>7 DEF Tidy
<1>8. CASE BeginAttempt \/ EndAttempt \/ ClearAttempts
  <2>1. state'.current = state.current
    <3>1. CASE BeginAttempt
      BY <1>0, <1>p, <3>1, BegunFacts DEF BeginAttempt, At
    <3>2. CASE EndAttempt
      BY <1>0, <1>p, <3>2 DEF EndAttempt, Persisted
    <3>3. CASE ClearAttempts
      BY <1>0, <3>3 DEF ClearAttempts, Persisted
    <3> QED
      BY <1>8, <3>1, <3>2, <3>3
  <2>2. /\ UNCHANGED <<dirs, current, active, proc>>
        /\ \/ fin' = fin
           \/ fin = "begin" /\ fin' = "open"
           \/ fin = "end" /\ fin' = "release"
    BY <1>8, <1>p DEF BeginAttempt, EndAttempt, ClearAttempts, At, disk
  <2>3. Existing' = Existing
    BY <2>2 DEF Existing
  <2> QED
    BY <2>1, <2>2, <2>3 DEF Tidy, Tidied
<1>9. CASE SetCurrent
  <2>1. /\ active # 0 /\ fin = "setCurrent" /\ fin' = "end"
        /\ UNCHANGED <<dirs, current, active, proc>> /\ state'.current = active
    BY <1>0, <1>9, <1>p DEF SetCurrent, At, Persisted, disk
  <2>2. Existing' = Existing /\ proc \notin {"prune", "save"}
    BY <1>0, <2>1 DEF Existing
  <2> QED
    BY <2>1, <2>2 DEF Tidy, Tidied
<1>10. CASE Release
  <2>1. /\ active # 0 /\ fin = "release" /\ active' = 0 /\ UNCHANGED <<dirs, current, state, proc>>
    BY <1>10 DEF Release, At, disk
  <2>2. Existing' = Existing /\ proc \notin {"prune", "save"}
    BY <1>0, <2>1 DEF Existing
  <2> QED
    BY <2>1, <2>2 DEF Tidy, Tidied
<1>11. CASE Discard \/ Fail
  <2>1. /\ active # 0 /\ active \in Runs /\ fin \in {"discard", "failed"}
        /\ UNCHANGED <<current, state, active, proc>>
    BY <1>0, <1>11 DEF Discard, Fail, At
  <2>2. ~RmRejects(active)
    BY <2>1 DEF RmRejects, SingleFlight, Live, Waiting
  <2>3. \/ RemoveStep(active) /\ fin' = fin
        \/ active \notin Existing /\ fin' = "end" /\ dirs' = dirs
    BY <1>11, <2>2 DEF Discard, Fail
  <2>4. /\ Existing' \subseteq Existing /\ proc \notin {"prune", "save"}
        /\ fin' = fin \/ (fin' = "end" /\ active \notin Existing)
    BY <1>0, <2>1, <2>3, ExistingFacts DEF Existing
  <2> QED
    BY <2>1, <2>4 DEF Tidy, Tidied
<1>12. CASE WriteOpenManifest \/ CarryForward \/ WriteFinalManifest
  <2>1. /\ active # 0 /\ active \in Runs /\ UNCHANGED <<current, state, active, proc>>
        /\ fin \in {"open", "carry", "manifest"}
        /\ fin' \in {"await", "manifest", "promote", "failed"}
    BY <1>0, <1>12
       DEF WriteOpenManifest, CarryForward, WriteFinalManifest, At, Refused
  <2>2. /\ \A s \in Runs \ {active} : dirs'[s] = dirs[s]
        /\ dirs'[active].exists = dirs[active].exists
    <3>1. CASE WriteOpenManifest
      <4>1. WriteManifest(active, OpenManifest) \/ dirs' = dirs
        BY <3>1 DEF WriteOpenManifest
      <4> QED
        BY <1>0, <2>1, <4>1, WriteManifestFacts, RecordTypes
    <3>2. CASE CarryForward
      BY <1>0, <3>2, CarryFacts
    <3>3. CASE WriteFinalManifest
      <4>1. (\E m : WriteManifest(active, m)) \/ dirs' = dirs
        BY <3>3 DEF WriteFinalManifest, Refused
      <4> QED
        BY <1>0, <2>1, <4>1 DEF WriteManifest, StorageTypeOK
    <3> QED
      BY <1>12, <3>1, <3>2, <3>3
  <2>3. Existing' = Existing /\ proc \notin {"prune", "save"}
    BY <1>0, <2>1, <2>2, ExistingFacts
  <2> QED
    BY <2>1, <2>3 DEF Tidy, Tidied
<1>13. CASE AwaitResult \/ CliResult \/ ReadPrevious
  <2>1. /\ active # 0 /\ UNCHANGED <<dirs, current, state, active, proc>>
        /\ fin \in {"await", "previous"} /\ fin' \in {"previous", "discard", "done", "carry"}
    BY <1>13 DEF AwaitResult, CliResult, ReadPrevious, At, disk
  <2>2. Existing' = Existing /\ proc \notin {"prune", "save"}
    BY <1>0, <2>1 DEF Existing
  <2> QED
    BY <2>1, <2>2 DEF Tidy, Tidied
<1>14. CASE Promote
  <2>1. /\ active # 0 /\ fin = "promote" /\ UNCHANGED <<dirs, state, active, proc>>
        /\ \/ fin' = "prune" /\ current' = active
           \/ fin' = "failed" /\ current' = current
    BY <1>14 DEF Promote, At, Refused
  <2>2. Existing' = Existing /\ proc \notin {"prune", "save"}
    BY <1>0, <2>1 DEF Existing
  <2> QED
    BY <2>1, <2>2 DEF Tidy, Tidied
<1>15. CASE Prune
  <2>1. /\ active # 0 /\ fin = "prune" /\ UNCHANGED <<current, state, active, proc>>
        /\ \/ fin' = "prune"
           \/ fin' \in {"done", "setCurrent"} /\ dirs' = dirs /\ Existing \subseteq {active}
        /\ fin' = "done" => proc = "cli"
    <3>1. ~(\E r \in Existing \ {active} : RmRejects(r))
      BY DEF RmRejects, SingleFlight, Live, Existing
    <3> QED
      BY <1>15, <3>1 DEF Prune, At
  <2>2. proc \notin {"prune", "save"} /\ (dirs' = dirs => Existing' = Existing)
    BY <1>0, <2>1 DEF Existing
  <2> QED
    BY <2>1, <2>2 DEF Tidy, Tidied
<1>16. ASSUME NEW r \in Runs, Execute(r) PROVE Tidy'
  <2>1. UNCHANGED <<current, state, active, fin, proc>> /\ batch[r].pc \in Live
    BY <1>16 DEF Execute, CreateStaging, Index, BatchOver, WorkerDone, Live, disk
  <2>2. r = active /\ fin \in Waiting /\ active # 0
    BY <2>1, RunFacts DEF SingleFlight
  <2>3. Existing' \subseteq Existing \cup {r}
    <3>1. CASE CreateStaging(r)
      BY <1>0, <3>1, ExistingFacts DEF CreateStaging
    <3>2. CASE Index(r) \/ BatchOver(r)
      BY <3>2 DEF Index, BatchOver, Existing, disk
    <3>3. ASSUME NEW u \in Users, WorkerDone(r, u) PROVE Existing' = Existing
      BY <1>0, <3>3, WorkerFacts, ExistingFacts
    <3> QED
      BY <1>16, <3>1, <3>2, <3>3 DEF Execute
  <2>4. proc \notin {"prune", "save"}
    BY <1>0, <2>2
  <2> QED
    BY <2>1, <2>2, <2>3, <2>4 DEF Tidy, Tidied, Waiting
<1>17. CASE Cancel \/ CliCancel \/ Signal \/ ReleaseLock \/ Tick \/ UNCHANGED vars
  <2>1. UNCHANGED <<dirs, current, state, active, fin, proc>>
    BY <1>17 DEF Cancel, CliCancel, Signal, ReleaseLock, Tick, vars, memory, disk
  <2>2. Existing' = Existing
    BY <2>1 DEF Existing
  <2> QED
    BY <2>1, <2>2 DEF Tidy, Tidied
<1>18. CASE CliExit \/ Exit \/ Crash
  BY <1>6, <1>18 DEF CliExit, Exit, Crash
<1> QED
  BY <1>1, <1>2, <1>3, <1>4, <1>5, <1>6, <1>8, <1>9, <1>10, <1>11, <1>12, <1>13, <1>14, <1>15,
     <1>16, <1>17, <1>18 DEF Next, Finish

\* Between runs memory, state.json and the volume agree, as long as no write of state.json,
\* no first manifest and no removal of a directory fails.
THEOREM AgreesAtRest ==
    ASSUME {"persist", "open", "rm"} \cap Faults = {}
    PROVE  Spec => []AtRestAgree
<1>1. Init => Tidy /\ SingleFlight
  BY DEF Init, Tidy, SingleFlight, NoBatch, Live
<1>2. IInv /\ SingleFlight /\ [Next]_vars => SingleFlight'
  BY StepSingleFlight
<1>3. IInv /\ SingleFlight /\ RecordInv /\ Tidy /\ [Next]_vars => Tidy'
  BY StepTidy
<1>4. Spec => []RecordInv
  BY RecordInvariant
<1>5. Spec => []Tidy
  BY <1>1, <1>2, <1>3, <1>4, Invariant, PTL DEF Spec
<1>6. IInv /\ RecordInv /\ Tidy => AtRestAgree
  <2> SUFFICES ASSUME IInv, RecordInv, Tidy, proc = "up", active = 0
               PROVE  /\ saved = state /\ state.active = 0 /\ state.current = current
                      /\ Existing \subseteq {current}
                      /\ \A i \in DOMAIN state.attempts : state.attempts[i].outcome # "none"
    BY DEF AtRestAgree
  <2>1. saved = state /\ state.active = 0 /\ OpenIsActive(state) /\ state \in Persisted
    BY DEF RecordInv, Recorded, IInv, Typed, TypeOK
  <2>2. state.current = current /\ Existing \subseteq {current, 0}
    BY DEF Tidy, Tidied
  <2>3. 0 \notin Existing
    BY RunFacts DEF Existing
  <2> QED
    BY <2>1, <2>2, <2>3, NoneOpen
<1> QED
  BY <1>4, <1>5, <1>6, Invariant, PTL
-----------------------------------------------------------------------------
(* Results that vouch for files *)

\* A permutation whose result says ok has all its files in the manifest, of one run.
Whole(m) ==
    \A u \in Users : m.results[u] = "ok" =>
        \E r \in Runs : \A n \in Names : UserOf[n] = u => m.entries[n] = r

AllWhole == \A r \in Runs : Whole(dirs[r].manifest)

\* A batch with data d in its directory: a permutation has left no file until it has settled
\* and all of them when it is ok, and the index lists what was left unless the run was cancelled.
Tried(b, d) ==
    \A n \in Names :
        LET how == b.results[UserOf[n]] IN
        /\ b.pc \in {"starting", "running"} =>
              (how = "none" => d[n] = 0) /\ (how = "ok" => d[n] # 0)
        /\ b.pc \in {"indexed", "over"} /\ how = "none" => n \notin b.entries
        /\ (b.pc = "indexed" /\ ~b.aborted) \/ (b.pc = "over" /\ ~b.cancelled) =>
              (how = "ok" => n \in b.entries)

\* So it is of the active run until it is linked or given up; a batch that #finish has not
\* waited for goes on in a directory that nobody publishes.
ActiveTried ==
    active # 0 /\ fin \in Unlinking => Tried(batch[active], dirs[active].data)

\* A cancelled run is not published, and what is carried is all there is to carry.
Carries ==
    active # 0 =>
        /\ fin \in Publishing => ~batch[active].cancelled
        /\ fin = "manifest" => pub.carried = Carried(pub.prev, batch[active].entries)

WholeInv == AllWhole /\ ActiveTried /\ Carries

\* An abort changes nothing that was tried.
LEMMA AbortTried ==
    ASSUME NEW b \in Batches, NEW d, Tried(b, d)
    PROVE  Tried([b EXCEPT !.aborted = TRUE], d)
<1> DEFINE c == [b EXCEPT !.aborted = TRUE]
<1>1. /\ c.pc = b.pc /\ c.results = b.results /\ c.entries = b.entries
      /\ c.cancelled = b.cancelled /\ c.aborted
  BY DEF Batches
<1> HIDE DEF c
<1>2. Tried(c, d)
  BY <1>1 DEF Tried
<1> QED
  BY <1>2 DEF c

\* Data written once the pool has ended say nothing of what was tried.
LEMMA SettledTried ==
    ASSUME NEW b, NEW d, Tried(b, d), NEW e, b.pc \notin {"starting", "running"}
    PROVE  Tried(b, e)
  BY DEF Tried

\* A batch that has just started has an empty directory.
LEMMA StartTried ==
    ASSUME NEW d, \A n \in Names : d[n] = 0
    PROVE  Tried([NoBatch EXCEPT !.pc = "starting"], d)
<1> DEFINE c == [NoBatch EXCEPT !.pc = "starting"]
<1>1. c.pc = "starting" /\ \A u \in Users : c.results[u] = "none"
  BY DEF NoBatch
<1>2. \A n \in Names : UserOf[n] \in Users
  BY NamesAssumption
<1> HIDE DEF c
<1>3. Tried(c, d)
  BY <1>1, <1>2 DEF Tried
<1> QED
  BY <1>3 DEF c

\* Every file of the permutations settled so far is as their results say.
LEMMA StagingTried ==
    ASSUME TypeOK, NEW r \in Runs, CreateStaging(r), NEW d, Tried(batch[r], d)
    PROVE  Tried(batch'[r], d)
<1>1. PICK todo \in Selections :
          batch' = [batch EXCEPT ![r].pc = "running", ![r].todo = todo]
  BY DEF CreateStaging
<1>2. batch[r].pc = "starting" /\ batch'[r] = [batch[r] EXCEPT !.pc = "running", !.todo = todo]
  BY <1>1 DEF CreateStaging, TypeOK
<1>3. batch'[r].pc = "running" /\ batch'[r].results = batch[r].results
  BY <1>2, FieldTypes DEF Batches
<1> QED
  BY <1>2, <1>3 DEF Tried

LEMMA WorkerTried ==
    ASSUME TypeOK, NEW r \in Runs, NEW u \in Users, WorkerDone(r, u),
           Tried(batch[r], dirs[r].data)
    PROVE  Tried(batch'[r], dirs'[r].data)
<1> DEFINE mine == {n \in Names : UserOf[n] = u}
<1>1. PICK ok \in BOOLEAN, left \in SUBSET mine :
          /\ ok => left = mine
          /\ dirs' = [dirs EXCEPT ![r].data = [n \in Names |-> IF n \in left THEN r ELSE @[n]]]
          /\ batch' = [batch EXCEPT ![r].results[u] = IF ok THEN "ok" ELSE "failed"]
  BY DEF WorkerDone
<1> DEFINE how == IF ok THEN "ok" ELSE "failed"
           d   == [n \in Names |-> IF n \in left THEN r ELSE dirs[r].data[n]]
           b   == [batch[r] EXCEPT !.results = [batch[r].results EXCEPT ![u] = how]]
<1>2. batch[r].pc = "running" /\ r # 0
  BY RunFacts DEF WorkerDone
<1>3. dirs'[r].data = d
  <2>1. d \in [Names -> Source]
    BY FieldTypes, RunFacts
  <2>2. dirs' = [dirs EXCEPT ![r].data = d]
    BY <1>1
  <2> HIDE DEF d
  <2> QED
    BY <2>1, <2>2, DataFacts DEF TypeOK
<1>4. batch'[r] = b
  BY <1>1 DEF TypeOK
<1>5. b.pc = "running" /\ b.results = [batch[r].results EXCEPT ![u] = how]
  BY <1>2, FieldTypes DEF Batches
<1>6. batch[r].results \in [Users -> {"none", "ok", "failed"}]
  BY FieldTypes
<1> HIDE DEF b
<1> SUFFICES ASSUME NEW n \in Names
             PROVE  /\ b.results[UserOf[n]] = "none" => d[n] = 0
                    /\ b.results[UserOf[n]] = "ok" => d[n] # 0
  BY <1>3, <1>4, <1>5 DEF Tried
<1>7. UserOf[n] \in Users
  BY NamesAssumption
<1>8. CASE UserOf[n] = u
  BY <1>1, <1>2, <1>5, <1>6, <1>8
<1>9. CASE UserOf[n] # u
  <2>1. b.results[UserOf[n]] = batch[r].results[UserOf[n]] /\ n \notin left
    BY <1>5, <1>6, <1>7, <1>9
  <2> QED
    BY <1>2, <2>1 DEF Tried
<1> QED
  BY <1>8, <1>9

LEMMA IndexTried ==
    ASSUME TypeOK, NEW r \in Runs, Index(r), Tried(batch[r], dirs[r].data), NEW e
    PROVE  Tried(batch'[r], e)
<1> DEFINE entries == IF batch[r].aborted THEN {} ELSE Indexed(r)
<1>1. batch[r].pc = "running" /\ batch'[r] = [batch[r] EXCEPT !.pc = "indexed", !.entries = entries]
  BY DEF Index, TypeOK
<1> HIDE DEF entries
<1>2. /\ batch'[r].pc = "indexed" /\ batch'[r].entries = entries
      /\ batch'[r].results = batch[r].results /\ batch'[r].aborted = batch[r].aborted
  BY <1>1, FieldTypes DEF Batches
<1>3. \A n \in Names : n \in entries <=> ~batch[r].aborted /\ dirs[r].data[n] # 0
  BY FieldTypes DEF entries, Indexed, Batches
<1> QED
  BY <1>1, <1>2, <1>3 DEF Tried

LEMMA OverTried ==
    ASSUME TypeOK, NEW r \in Runs, BatchOver(r), NEW d, Tried(batch[r], d)
    PROVE  Tried(batch'[r], d)
<1>1. /\ batch[r].pc = "indexed"
      /\ batch'[r] = [batch[r] EXCEPT !.pc = "over", !.cancelled = batch[r].aborted]
  BY DEF BatchOver, TypeOK
<1>2. /\ batch'[r].pc = "over" /\ batch'[r].entries = batch[r].entries
      /\ batch'[r].results = batch[r].results /\ batch'[r].cancelled = batch[r].aborted
  BY <1>1, FieldTypes DEF Batches
<1> QED
  BY <1>1, <1>2 DEF Tried

\* Manifests that name no result are whole.
LEMMA EmptyWhole == Whole(NoManifest) /\ Whole(OpenManifest)
<1>1. \A u \in Users : NoManifest.results[u] = "none" /\ OpenManifest.results[u] = "none"
  BY DEF OpenManifest, NoManifest
<1> QED
  BY <1>1 DEF Whole

\* The final manifest of a run that was not cancelled is whole if no removal had begun in the
\* directory it carries from: what it produced is its own, and what it never attempted has
\* come with all of its files.
LEMMA FinalWhole ==
    ASSUME IInv, WholeInv, active \in Runs, fin = "manifest", NEW m,
           m.entries = MergedEntries(pub.prev, active, batch[active].entries, pub.carried),
           m.results = MergedResults(pub.prev, batch[active].results, pub.carried),
           \A n \in Names : pub.prev # 0 /\ dirs[pub.prev].manifest.entries[n] # 0 =>
                                dirs[pub.prev].data[n] # 0
    PROVE  Whole(m)
<1> DEFINE b == batch[active]
<1>0. /\ active # 0 /\ b.pc = "over" /\ ~b.cancelled /\ TypeOK
      /\ pub.carried = Carried(pub.prev, b.entries)
      /\ pub.prev # 0 => pub.prev \in Runs
      /\ \A n \in Names : UserOf[n] \in Users
  BY RunFacts, NamesAssumption
     DEF IInv, Typed, TypeOK, RunsOK, Settled, Publishing, WholeInv, Carries
<1>1. \A n \in Names : /\ b.results[UserOf[n]] = "none" => n \notin b.entries
                       /\ b.results[UserOf[n]] = "ok" => n \in b.entries
  BY <1>0 DEF WholeInv, ActiveTried, Unlinking, Tried
<1> HIDE DEF b
<1> SUFFICES ASSUME NEW u \in Users, m.results[u] = "ok"
             PROVE  \E r \in Runs : \A n \in Names : UserOf[n] = u => m.entries[n] = r
  BY DEF Whole
<1>2. CASE b.results[u] # "none"
  <2>1. b.results[u] = "ok"
    BY <1>2 DEF MergedResults, b
  <2>2. \A n \in Names : UserOf[n] = u => m.entries[n] = active
    <3>1. \A n \in Names : UserOf[n] = u => n \in b.entries
      BY <1>1, <2>1
    <3>2. \A n \in pub.carried : n \notin b.entries
      BY <1>0 DEF Carried
    <3> QED
      BY <3>1, <3>2 DEF MergedEntries, b
  <2> QED
    BY <2>2
<1>3. CASE b.results[u] = "none"
  <2>1. /\ \E n \in pub.carried : UserOf[n] = u
        /\ dirs[pub.prev].manifest.results[u] = "ok"
    BY <1>3 DEF MergedResults, b
  <2>2. pub.prev \in Runs
    BY <1>0, <2>1 DEF Carried
  <2>3. PICK r \in Runs : \A n \in Names : UserOf[n] = u => dirs[pub.prev].manifest.entries[n] = r
    BY <2>1, <2>2 DEF WholeInv, AllWhole, Whole
  <2>4. ASSUME NEW n \in Names, UserOf[n] = u PROVE m.entries[n] = r
    <3>1. dirs[pub.prev].manifest.entries[n] = r /\ r # 0
      BY <2>3, <2>4, RunFacts
    <3>2. dirs[pub.prev].data[n] # 0
      BY <2>2, <3>1, RunFacts
    <3>3. n \notin b.entries
      BY <1>1, <1>3, <2>4
    <3>4. n \in pub.carried
      BY <1>0, <2>2, <3>1, <3>2, <3>3, RunFacts DEF Carried
    <3> QED
      BY <3>1, <3>3, <3>4 DEF MergedEntries, b
  <2> QED
    BY <2>4
<1> QED
  BY <1>2, <1>3

\* What a step does to the manifests: none is written but the active run's.
LEMMA ManifestsAre ==
    ASSUME IInv, [Next]_vars, NEW s \in Runs
    PROVE  \/ dirs'[s].manifest \in {dirs[s].manifest, NoManifest, OpenManifest}
           \/ /\ active \in Runs /\ fin = "manifest" /\ s = active
              /\ dirs'[s].manifest.entries =
                     MergedEntries(pub.prev, active, batch[active].entries, pub.carried)
              /\ dirs'[s].manifest.results =
                     MergedResults(pub.prev, batch[active].results, pub.carried)
<1> USE RunFacts
<1>0. /\ TypeOK /\ StorageTypeOK /\ (active # 0 => active \in Runs)
      /\ active # 0 /\ fin = "manifest" => \A n \in pub.carried : pub.prev # 0
  BY DEF IInv, Typed, TypeOK, ContentsOK, CarriedOver
<1>1. CASE \E r \in Runs : RemoveStep(r)
  <2>1. PICK r \in Runs : RemoveStep(r)
    BY <1>1
  <2>2. dirs'[s].manifest \in {dirs[s].manifest, NoManifest}
    BY <1>0, <2>1, RemoveStepFacts
  <2> QED
    BY <2>2
<1>2. CASE WriteOpenManifest
  <2>1. active \in Runs /\ (WriteManifest(active, OpenManifest) \/ dirs' = dirs)
    BY <1>0, <1>2 DEF WriteOpenManifest, At
  <2> QED
    BY <1>0, <2>1, WriteManifestFacts, RecordTypes
<1>3. CASE CarryForward
  BY <1>0, <1>3, CarryFacts
<1>4. CASE WriteFinalManifest
  <2> DEFINE entries == MergedEntries(pub.prev, active, batch[active].entries, pub.carried)
             results == MergedResults(pub.prev, batch[active].results, pub.carried)
             m       == [state |-> "finished", entries |-> entries, results |-> results]
  <2>1. /\ active \in Runs /\ fin = "manifest" /\ At("manifest")
        /\ WriteManifest(active, m) \/ dirs' = dirs
    BY <1>0, <1>4 DEF WriteFinalManifest, At
  <2>2. m \in Manifests /\ m.entries = entries /\ m.results = results
    BY <1>0, <2>1, FinalManifestFacts DEF At
  <2> HIDE DEF m, entries, results
  <2>3. CASE WriteManifest(active, m)
    <3>1. dirs'[active].manifest = m /\ \A t \in Runs \ {active} : dirs'[t] = dirs[t]
      BY <1>0, <2>1, <2>2, <2>3, WriteManifestFacts
    <3> QED
      BY <2>1, <2>2, <3>1 DEF entries, results
  <2> QED
    BY <2>1, <2>3
<1>5. CASE UNCHANGED dirs
  BY <1>5
<1>6. ASSUME NEW r \in Runs, Execute(r)
      PROVE  dirs'[s].manifest = dirs[s].manifest
  <2>1. CASE CreateStaging(r)
    BY <1>0, <2>1, CreateDirFacts DEF CreateStaging
  <2>2. CASE Index(r) \/ BatchOver(r)
    BY <2>2 DEF Index, BatchOver, disk
  <2>3. ASSUME NEW u \in Users, WorkerDone(r, u) PROVE dirs'[s].manifest = dirs[s].manifest
    BY <1>0, <2>3, WorkerFacts
  <2> QED
    BY <1>6, <2>1, <2>2, <2>3 DEF Execute
<1>7. CASE BootPrune \/ Prune \/ Discard \/ Fail
  <2>1. dirs' = dirs \/ \E r \in Runs : RemoveStep(r)
    BY <1>0, <1>7 DEF BootPrune, Prune, Discard, Fail, At, Existing
  <2> QED
    BY <1>1, <1>5, <2>1
<1>8. CASE Boot \/ Reconcile \/ BootSave \/ Trigger \/ Cancel \/ ClearAttempts \/ BeginAttempt
           \/ AwaitResult \/ EndAttempt \/ Release \/ CliResult \/ CliExit \/ ReadPrevious
           \/ Promote \/ SetCurrent \/ Signal \/ ReleaseLock \/ Exit \/ CliStart \/ CliCancel
           \/ Crash \/ Tick \/ UNCHANGED vars
  <2>1. UNCHANGED dirs
    BY <1>8
       DEF Boot, Reconcile, BootSave, Trigger, Start, Cancel, ClearAttempts, BeginAttempt,
           AwaitResult, EndAttempt, Release, CliResult, CliExit, Die, ReadPrevious, Promote,
           SetCurrent, Signal, ReleaseLock, Exit, CliStart, CliCancel, Crash, Tick, vars,
           memory, disk
  <2> QED
    BY <1>5, <2>1
<1> QED
  BY <1>2, <1>3, <1>4, <1>6, <1>7, <1>8 DEF Next, Finish

\* A run's batch at work leaves the other runs alone.
LEMMA ExecuteElsewhere ==
    ASSUME TypeOK, NEW r \in Runs, Execute(r)
    PROVE  \A s \in Runs \ {r} : batch'[s] = batch[s] /\ dirs'[s] = dirs[s]
<1>0. StorageTypeOK
  BY DEF TypeOK
<1>1. CASE CreateStaging(r)
  BY <1>0, <1>1, StagingBecomes, CreateDirFacts DEF CreateStaging, Became
<1>2. CASE Index(r)
  BY <1>2, IndexBecomes DEF Index, Became, disk
<1>3. CASE BatchOver(r)
  BY <1>3, OverBecomes DEF BatchOver, Became, disk
<1>4. ASSUME NEW u \in Users, WorkerDone(r, u)
      PROVE  \A s \in Runs \ {r} : batch'[s] = batch[s] /\ dirs'[s] = dirs[s]
  BY <1>4, WorkerBecomes, WorkerFacts DEF Became
<1> QED
  BY <1>1, <1>2, <1>3, <1>4 DEF Execute

\* What a step does to the active batch and its directory's data keeps what was tried.
LEMMA StepTried ==
    ASSUME IInv, ActiveTried, [Next]_vars
    PROVE  ActiveTried'
<1> USE RunFacts DEF Unlinking, Unindexing, Waiting
<1>0. /\ TypeOK /\ StorageTypeOK /\ (active # 0 => active \in Runs)
      /\ proc \in {"down", "reconcile", "prune", "save"} => active = 0
  BY DEF IInv, Typed, TypeOK, RunsOK, BootsIdle
<1>1. CASE active' = 0 \/ fin' \notin Unlinking
  BY <1>1 DEF ActiveTried
<1>2. CASE active' = active /\ fin \in Unlinking /\ UNCHANGED batch /\ active # 0
           /\ dirs'[active].data = dirs[active].data
  BY <1>2 DEF ActiveTried
<1>3. CASE Trigger \/ CliStart
  <2>1. /\ runs' = runs + 1 /\ runs < MaxRuns /\ active' = runs' /\ UNCHANGED dirs
        /\ batch' = [batch EXCEPT ![runs'].pc = "starting"]
    BY <1>3 DEF Trigger, Start, CliStart, disk
  <2>2. runs + 1 \in Runs /\ runs + 1 > runs
    BY <1>0, <2>1 DEF TypeOK
  <2>3. dirs[runs + 1] = NoDir /\ batch[runs + 1] = NoBatch
    BY <2>2 DEF IInv, RunsOK, Numbered
  <2>4. batch'[runs + 1] = [NoBatch EXCEPT !.pc = "starting"]
    BY <1>0, <2>1, <2>2, <2>3 DEF TypeOK
  <2>5. Tried(batch'[runs + 1], dirs'[runs + 1].data)
    BY <2>1, <2>3, <2>4, StartTried, RecordTypes
  <2> QED
    BY <2>1, <2>5 DEF ActiveTried
<1>4. CASE Cancel \/ CliCancel \/ Signal
  <2>1. /\ UNCHANGED <<dirs, active, fin>>
        /\ \A s \in Runs : batch'[s] \in {batch[s], [batch[s] EXCEPT !.aborted = TRUE]}
    BY <1>0, <1>4 DEF Cancel, CliCancel, Signal, TypeOK, disk
  <2> QED
    BY <1>0, <2>1, AbortTried, FieldTypes DEF ActiveTried
<1>5. CASE WriteOpenManifest
  <2>1. /\ active \in Runs /\ fin = "open" /\ UNCHANGED <<active, batch>> /\ active # 0
        /\ WriteManifest(active, OpenManifest) \/ dirs' = dirs
    BY <1>0, <1>5 DEF WriteOpenManifest, At
  <2>2. dirs'[active].data = dirs[active].data
    BY <1>0, <2>1, WriteManifestFacts, RecordTypes
  <2> QED
    BY <1>2, <2>1, <2>2
<1>6. CASE CarryForward \/ WriteFinalManifest
  <2>1. active \in Runs /\ active # 0 /\ fin \in Publishing /\ UNCHANGED <<active, batch>>
    BY <1>0, <1>6 DEF CarryForward, WriteFinalManifest, At, Publishing
  <2>2. batch[active].pc = "over" /\ fin \in Unlinking
    BY <2>1 DEF IInv, RunsOK, Settled, Publishing
  <2> QED
    BY <2>1, <2>2, SettledTried DEF ActiveTried
<1>7. ASSUME NEW r \in Runs, Execute(r) PROVE ActiveTried'
  <2>1. UNCHANGED <<active, fin>>
    BY <1>7 DEF Execute, CreateStaging, Index, BatchOver, WorkerDone
  <2>2. \A s \in Runs \ {r} : batch'[s] = batch[s] /\ dirs'[s] = dirs[s]
    BY <1>0, <1>7, ExecuteElsewhere
  <2>3. Tried(batch[r], dirs[r].data) => Tried(batch'[r], dirs'[r].data)
    <3> SUFFICES ASSUME Tried(batch[r], dirs[r].data) PROVE Tried(batch'[r], dirs'[r].data)
      OBVIOUS
    <3>1. CASE CreateStaging(r)
      <4>1. dirs'[r].data = dirs[r].data
        BY <1>0, <3>1, CreateDirFacts DEF CreateStaging
      <4> QED
        BY <1>0, <3>1, <4>1, StagingTried
    <3>2. CASE Index(r)
      BY <1>0, <3>2, IndexTried
    <3>3. CASE BatchOver(r)
      BY <1>0, <3>3, OverTried DEF BatchOver, disk
    <3>4. ASSUME NEW u \in Users, WorkerDone(r, u)
          PROVE  Tried(batch'[r], dirs'[r].data)
      BY <1>0, <3>4, WorkerTried
    <3> QED
      BY <1>7, <3>1, <3>2, <3>3, <3>4 DEF Execute
  <2> QED
    BY <1>0, <2>1, <2>2, <2>3 DEF ActiveTried
<1>8. CASE BootPrune \/ Prune \/ Die \/ Release \/ Discard \/ Fail \/ EndAttempt \/ Promote
           \/ SetCurrent
  <2>1. active' = 0 \/ fin' \notin Unlinking
    BY <1>0, <1>8
       DEF BootPrune, Prune, Die, Release, Discard, Fail, EndAttempt, Promote, SetCurrent, At,
           Persist, Refused
  <2> QED
    BY <1>1, <2>1
<1>9. CASE BeginAttempt \/ AwaitResult \/ CliResult \/ ReadPrevious
  <2>1. fin \in Unlinking /\ active # 0 /\ UNCHANGED <<dirs, batch, active>>
    BY <1>9 DEF BeginAttempt, AwaitResult, CliResult, ReadPrevious, At, disk
  <2> QED
    BY <1>2, <2>1
<1>10. CASE Boot \/ Reconcile \/ BootSave \/ ClearAttempts \/ ReleaseLock \/ Tick \/ UNCHANGED vars
  <2>1. UNCHANGED <<dirs, batch, active, fin>>
    BY <1>10 DEF Boot, Reconcile, BootSave, ClearAttempts, ReleaseLock, Tick, vars, memory, disk
  <2> QED
    BY <2>1 DEF ActiveTried
<1>11. CASE CliExit \/ Exit \/ Crash
  BY <1>8, <1>11 DEF CliExit, Exit, Crash
<1> QED
  BY <1>3, <1>4, <1>5, <1>6, <1>7, <1>8, <1>9, <1>10, <1>11 DEF Next, Finish

\* What is carried stays all there is to carry, from the copies to the manifest.
LEMMA StepCarries ==
    ASSUME "copy" \notin Faults, "always" \notin Modes,
           IInv, Carries, [Next]_vars
    PROVE  Carries'
<1> USE RunFacts
<1>0. /\ TypeOK /\ StorageTypeOK /\ (active # 0 => active \in Runs)
      /\ pub \in [prev: Source, carried: SUBSET Names]
  BY DEF IInv, Typed, TypeOK
<1>1. CASE active' = 0 \/ fin' \notin Publishing
  BY <1>1 DEF Carries, Publishing
<1>2. CASE UNCHANGED <<dirs, active, fin, pub, batch>>
  BY <1>2 DEF Carries, Carried
<1>3. CASE AwaitResult \/ CliResult
  <2>1. CASE fin' = "previous"
    <3>1. ~batch[active].cancelled /\ active' = active /\ batch' = batch
      BY <1>3, <2>1 DEF AwaitResult, CliResult, ShouldPublish, ShouldPromote
    <3> QED
      BY <2>1, <3>1 DEF Carries
  <2>2. CASE fin' # "previous"
    <3>1. fin' \notin Publishing
      BY <1>3, <2>2 DEF AwaitResult, CliResult, Publishing
    <3> QED
      BY <1>1, <3>1
  <2> QED
    BY <2>1, <2>2
<1>4. CASE ReadPrevious
  <2>1. active # 0 /\ fin = "previous" /\ fin' = "carry" /\ active' = active /\ batch' = batch
    BY <1>4 DEF ReadPrevious, At
  <2> QED
    BY <2>1 DEF Carries, Publishing
<1>5. CASE CarryForward
  <2>1. /\ active # 0 /\ active \in Runs /\ fin = "carry" /\ fin' = "manifest"
        /\ UNCHANGED <<active, batch>>
    BY <1>0, <1>5 DEF CarryForward, At
  <2>2. PICK carried : /\ carried = Carried(pub.prev, batch[active].entries)
                       /\ pub' = [pub EXCEPT !.carried = carried]
    BY <1>5 DEF CarryForward
  <2>3. /\ pub'.prev = pub.prev /\ pub'.carried = Carried(pub.prev, batch[active].entries)
        /\ pub.prev # active /\ (pub.prev # 0 => pub.prev \in Runs)
    BY <1>0, <2>1, <2>2 DEF IInv, ContentsOK, CarriedOver
  <2>4. pub.prev # 0 => dirs'[pub.prev] = dirs[pub.prev]
    BY <1>0, <1>5, <2>3, CarryFacts
  <2>5. Carried(pub.prev, batch[active].entries)' = Carried(pub.prev, batch[active].entries)
    BY <2>1, <2>3, <2>4 DEF Carried
  <2> QED
    BY <2>1, <2>3, <2>5 DEF Carries, Publishing
<1>6. CASE Cancel \/ CliCancel \/ Signal
  <2>1. /\ UNCHANGED <<dirs, active, fin, pub>>
        /\ \A s \in Runs : batch'[s] \in {batch[s], [batch[s] EXCEPT !.aborted = TRUE]}
    BY <1>0, <1>6 DEF Cancel, CliCancel, Signal, TypeOK, disk
  <2>2. \A s \in Runs : /\ [batch[s] EXCEPT !.aborted = TRUE].cancelled = batch[s].cancelled
                        /\ [batch[s] EXCEPT !.aborted = TRUE].entries = batch[s].entries
    BY <1>0, FieldTypes DEF Batches
  <2>3. active # 0 => /\ batch'[active].cancelled = batch[active].cancelled
                      /\ batch'[active].entries = batch[active].entries
    BY <1>0, <2>1, <2>2
  <2> QED
    BY <2>1, <2>3 DEF Carries, Carried
<1>7. ASSUME NEW r \in Runs, Execute(r) PROVE Carries'
  <2>1. UNCHANGED <<active, fin>> /\ batch[r].pc \in Live
    BY <1>7 DEF Execute, CreateStaging, Index, BatchOver, WorkerDone, Live
  <2>2. UNCHANGED pub /\ \A s \in Runs \ {r} : batch'[s] = batch[s] /\ dirs'[s] = dirs[s]
    BY <1>0, <1>7, ExecuteElsewhere DEF Execute, CreateStaging, Index, BatchOver, WorkerDone
  <2> SUFFICES ASSUME active # 0, fin \in Publishing PROVE Carries'
    BY <1>1, <2>1
  <2>3. active # r /\ active \in Runs /\ batch'[active] = batch[active]
    BY <1>0, <2>1, <2>2 DEF IInv, RunsOK, Settled, Live
  <2>4. \A n \in Names : dirs[r].manifest.entries[n] = 0
    BY <2>1 DEF IInv, ContentsOK, Undescribed
  <2>5. dirs'[r].manifest = dirs[r].manifest
    <3>1. ASSUME NEW u \in Users, WorkerDone(r, u) PROVE dirs'[r].manifest = dirs[r].manifest
      BY <1>0, <3>1, WorkerFacts
    <3>2. CASE CreateStaging(r)
      BY <1>0, <3>2, CreateDirFacts DEF CreateStaging
    <3>3. CASE Index(r) \/ BatchOver(r)
      BY <3>3 DEF Index, BatchOver, disk
    <3> QED
      BY <1>7, <3>1, <3>2, <3>3 DEF Execute
  <2>6. Carried(pub.prev, batch[active].entries)' = Carried(pub.prev, batch[active].entries)
    <3>1. pub'.prev = pub.prev /\ (pub.prev # 0 => pub.prev \in Runs)
      BY <1>0, <2>2
    <3>2. CASE pub.prev = r
      BY <2>3, <2>4, <2>5, <3>1, <3>2 DEF Carried
    <3>3. CASE pub.prev # r
      <4>1. batch'[active'].entries = batch[active].entries
        BY <2>1, <2>3
      <4>2. pub.prev # 0 => dirs'[pub.prev] = dirs[pub.prev]
        BY <2>2, <3>1, <3>3
      <4> QED
        BY <3>1, <4>1, <4>2 DEF Carried
    <3> QED
      BY <3>2, <3>3
  <2> QED
    BY <2>1, <2>2, <2>3, <2>6 DEF Carries
<1>8. CASE BootPrune
  <2>1. active' = 0
    BY <1>8 DEF BootPrune, IInv, RunsOK, BootsIdle
  <2> QED
    BY <1>1, <2>1
<1>9. CASE Trigger \/ CliStart \/ BeginAttempt \/ WriteOpenManifest \/ Discard \/ Fail
           \/ EndAttempt \/ Release \/ WriteFinalManifest \/ Promote \/ Prune \/ SetCurrent
           \/ Die
  <2>1. active' = 0 \/ fin' \notin Publishing
    BY <1>9
       DEF Trigger, Start, CliStart, BeginAttempt, WriteOpenManifest, Discard, Fail, EndAttempt,
           Release, WriteFinalManifest, Promote, Prune, SetCurrent, Die, At, Persist, Refused,
           Publishing
  <2> QED
    BY <1>1, <2>1
<1>10. CASE Boot \/ Reconcile \/ BootSave \/ ClearAttempts \/ ReleaseLock \/ Tick \/ UNCHANGED vars
  <2>1. UNCHANGED <<dirs, active, fin, pub, batch>>
    BY <1>10 DEF Boot, Reconcile, BootSave, ClearAttempts, ReleaseLock, Tick, vars, memory, disk
  <2> QED
    BY <1>2, <2>1
<1>11. CASE CliExit \/ Exit \/ Crash
  BY <1>9, <1>11 DEF CliExit, Exit, Crash
<1> QED
  BY <1>3, <1>4, <1>5, <1>6, <1>7, <1>8, <1>9, <1>10, <1>11 DEF Next, Finish
=============================================================================
