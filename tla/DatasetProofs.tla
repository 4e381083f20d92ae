----------------------------- MODULE DatasetProofs -----------------------------
(***************************************************************************)
(* Server implements Dataset and offers nothing but whole, honest          *)
(* manifests, for any permutations, files, runs, cooldowns and clock, and  *)
(* any selection or promotion of the runs, as long as no write of          *)
(* state.json, no first manifest and no removal of a directory fails: each *)
(* of them can make #finish unlink, file by file, the directory that       *)
(* `current` leads to (finding DatasetLost).  A copy that fails drops a file *)
(* from the dataset.                                                       *)
(***************************************************************************)
EXTENDS ServerProofs

\* Nothing makes #finish remove what it has linked.
Harmless == {"persist", "open", "rm"} \cap Faults = {}

\* The entries of the linked dataset.
Listed == [n \in Names |-> IF current = 0 THEN 0 ELSE dirs[current].manifest.entries[n]]

Offered == Published = Listed

\* Every entry's file is there, and is the one it describes.
Honest(d) == \A n \in Names : d.manifest.entries[n] # 0 => d.data[n] = d.manifest.entries[n]

\* The link leads to a dataset that is all there.
Linked == current # 0 => /\ dirs[current].exists
                         /\ dirs[current].manifest.state = "finished"
                         /\ Honest(dirs[current])

\* The active run is the last, and is linked when it has been promoted, not before.
Latest   == active # 0 => active = runs
Promoted == active # 0 =>
                /\ active = current => fin \in {"prune", "setCurrent", "end", "release", "done"}
                /\ fin \in {"prune", "setCurrent"} => active = current

\* The process that prunes at boot keeps what is linked.
KeepsLinked == proc = "prune" => state.current = current

\* No file is newer than the directory it lies in.
Aged == \A r \in Runs, n \in Names : dirs[r].data[n] <= r

\* A run's directory is there from its first step until it is discarded.
Staged ==
    active # 0 /\ fin \in Unlinking /\ batch[active].pc \in {"running", "indexed", "over"} =>
        dirs[active].exists

\* What is published replaces what is linked, entry by entry if every copy succeeds.
Replaces ==
    active # 0 =>
        /\ fin \in {"carry", "manifest", "promote"} =>
              pub.prev = current /\ batch[active].pc = "over"
        /\ fin = "manifest" =>
              /\ pub.carried \subseteq Carried(current, batch[active].entries)
              /\ "copy" \notin Faults => pub.carried = Carried(current, batch[active].entries)
        /\ fin = "promote" =>
              /\ dirs[active].manifest.state = "finished"
              /\ Honest(dirs[active])
              /\ "copy" \notin Faults =>
                    \A n \in Names : \/ dirs[active].manifest.entries[n] = active
                                     \/ dirs[active].manifest.entries[n] = Listed[n]

LinkOK == Linked /\ Latest /\ Promoted /\ KeepsLinked
DirsOK == Aged /\ Staged /\ Replaces

DInv == IInv /\ SingleFlight /\ LinkOK /\ DirsOK

\* A step that leaves the dataset on offer alone.
Kept == /\ current' = current
        /\ current # 0 => dirs'[current].manifest = dirs[current].manifest
-----------------------------------------------------------------------------
(* The dataset on offer is what is listed by the linked manifest. *)

\* The types and the parts of the invariant the lemmas below use.
LEMMA DFacts ==
    ASSUME DInv
    PROVE  /\ TypeOK /\ StorageTypeOK /\ RunsOK /\ ContentsOK
           /\ active \in Source /\ runs \in Source /\ current \in Source
           /\ pub \in [prev: Source, carried: SUBSET Names]
           /\ current <= runs /\ active <= runs
           /\ active # 0 => active \in Runs
           /\ current # 0 => current \in Runs
  BY RunFacts DEF DInv, IInv, Typed, TypeOK, StorageTypeOK, RunsOK, Numbered

\* Nobody works on what is linked.
LEMMA LinkedRests == DInv /\ current # 0 => batch[current].pc \notin Live
  BY DFacts DEF DInv, SingleFlight, LinkOK, Promoted, Waiting

\* A linked dataset is a readable one.
LEMMA ResolvedIsLinked == DInv => Resolved = current /\ (Readable <=> current # 0)
  BY DFacts DEF DInv, LinkOK, Linked, Resolved, Readable

\* A file on offer is of the run its entry names.
LEMMA PublishedIsListed == DInv => Offered
<1> SUFFICES ASSUME DInv PROVE Published = Listed
  BY DEF Offered
<1>1. \A n \in Names : current # 0 /\ dirs[current].manifest.entries[n] # 0 =>
                          dirs[current].manifest.entries[n] = dirs[current].data[n]
  BY DEF DInv, LinkOK, Linked, Honest
<1> QED
  BY <1>1, ResolvedIsLinked DEF Published, Listed

\* No entry on offer is newer than the link.
LEMMA ListedIsOld ==
    ASSUME DInv
    PROVE  /\ Listed \in [Names -> Source]
           /\ \A n \in Names : Listed[n] <= current
<1>1. CASE current = 0
  BY <1>1, RunFacts DEF Listed
<1>2. CASE current # 0
  <2>1. current \in Runs /\ dirs[current].manifest.entries \in [Names -> Source]
    BY <1>2, DFacts, FieldTypes
  <2>2. \A n \in Names : /\ dirs[current].manifest.entries[n] # 0 =>
                               dirs[current].manifest.entries[n] = dirs[current].data[n]
                         /\ dirs[current].data[n] <= current
    BY <1>2, <2>1 DEF DInv, LinkOK, Linked, Honest, DirsOK, Aged
  <2>3. current \in Nat
    BY <2>1, RunFacts
  <2> QED
    BY <1>2, <2>1, <2>2, <2>3 DEF Listed
<1> QED
  BY <1>1, <1>2

\* What is listed stays when neither the link nor the manifest it leads to changes.
LEMMA KeptListed == Kept => Listed' = Listed
  BY DEF Kept, Listed
-----------------------------------------------------------------------------
(* The invariant *)

LEMMA InitDInv == Init => DInv
<1> SUFFICES ASSUME Init PROVE DInv
  OBVIOUS
<1> USE RunFacts
<1>1. IInv
  BY InitIInv
<1>2. SingleFlight
  BY DEF Init, SingleFlight, NoBatch, Live
<1>3. \/ dirs = [r \in Runs |-> NoDir] /\ current = 0
      \/ /\ dirs = [r \in Runs |-> IF r = Earlier THEN Complete(r) ELSE NoDir]
         /\ current = Earlier /\ Earlier \in Runs
  BY ClockAssumption DEF Init, StorageInit
<1>4. LinkOK
  <2>1. current # 0 => current \in Runs /\ dirs[current] = Complete(current)
    BY <1>3
  <2>2. Linked
    BY <2>1 DEF Linked, Honest, Complete
  <2> QED
    BY <2>2 DEF Init, LinkOK, Latest, Promoted, KeepsLinked
<1>5. \A r \in Runs : \A n \in Names : NoDir.data[n] <= r /\ Complete(r).data[n] <= r
  BY RunsAssumption DEF NoDir, Complete, Runs
<1>6. Aged
  BY <1>3, <1>5 DEF Aged
<1> QED
  BY <1>1, <1>2, <1>4, <1>6 DEF Init, DInv, DirsOK, Staged, Replaces

\* What depends on neither the rest of memory nor the clock.
LEMMA StillKept ==
    ASSUME DInv, UNCHANGED <<dirs, current, active, fin, batch, pub, runs>>, KeepsLinked'
    PROVE  LinkOK' /\ DirsOK' /\ Kept
<1>1. Listed' = Listed
  BY DEF Listed
<1>2. LinkOK' /\ Kept
  BY DEF DInv, LinkOK, Linked, Latest, Promoted, Kept
<1>3. Carried(current, batch[active].entries)' = Carried(current, batch[active].entries)
  BY DEF Carried
<1> QED
  BY <1>1, <1>2, <1>3 DEF DInv, DirsOK, Aged, Staged, Replaces

LEMMA DieKept == DInv /\ Die => LinkOK' /\ DirsOK' /\ Kept
  BY DEF Die, disk, DInv, LinkOK, Linked, Latest, Promoted, KeepsLinked, DirsOK, Aged, Staged,
         Replaces, Kept

\* Aborting a batch says nothing of the dataset.
LEMMA AbortKept ==
    ASSUME DInv, UNCHANGED <<dirs, current, active, fin, pub, runs, proc, state>>,
           \A s \in Runs : batch'[s].pc = batch[s].pc /\ batch'[s].entries = batch[s].entries
    PROVE  LinkOK' /\ DirsOK' /\ Kept
<1>1. Listed' = Listed
  BY DEF Listed
<1>2. LinkOK' /\ Kept
  BY DEF DInv, LinkOK, Linked, Latest, Promoted, KeepsLinked, Kept
<1>3. active # 0 => /\ batch'[active].pc = batch[active].pc
                    /\ Carried(current, batch[active].entries)' =
                           Carried(current, batch[active].entries)
  BY DFacts DEF Carried
<1> QED
  BY <1>1, <1>2, <1>3 DEF DInv, DirsOK, Aged, Staged, Replaces

\* Removing what is not linked, at a step that publishes nothing.
LEMMA RemoveKept ==
    ASSUME DInv, dirs' = dirs \/ \E r \in Runs \ {current} : RemoveStep(r),
           UNCHANGED <<current, active, batch, pub, runs>>,
           active # 0 => fin' \notin Unlinking
    PROVE  Linked' /\ DirsOK' /\ Kept
<1>1. /\ \A s \in Runs, n \in Names : dirs'[s].data[n] \in {0, dirs[s].data[n]}
      /\ current # 0 => dirs'[current] = dirs[current]
  <2>1. CASE dirs' = dirs
    BY <2>1
  <2>2. ASSUME NEW r \in Runs \ {current}, RemoveStep(r)
        PROVE  /\ \A s \in Runs, n \in Names : dirs'[s].data[n] \in {0, dirs[s].data[n]}
               /\ current # 0 => dirs'[current] = dirs[current]
    BY <2>2, DFacts, RemoveStepFacts
  <2> QED
    BY <2>1, <2>2
<1>2. Aged'
  BY <1>1, RunsAssumption DEF DInv, DirsOK, Aged, Runs
<1>3. Linked' /\ Kept
  BY <1>1 DEF DInv, LinkOK, Linked, Kept
<1>4. Staged' /\ Replaces'
  BY DEF Staged, Replaces, Unlinking, Unindexing, Waiting
<1> QED
  BY <1>2, <1>3, <1>4 DEF DirsOK

\* Every step keeps the invariant, and all but Promote the dataset on offer.
LEMMA StepDInv ==
    ASSUME Harmless
    PROVE  DInv /\ [Next]_vars => DInv' /\ (Kept \/ Promote)
<1> SUFFICES ASSUME DInv, [Next]_vars PROVE DInv' /\ (Kept \/ Promote)
  OBVIOUS
<1>0. "persist" \notin Faults /\ "open" \notin Faults /\ "rm" \notin Faults
  BY DEF Harmless
<1> SUFFICES LinkOK' /\ DirsOK' /\ (Kept \/ Promote)
  BY <1>0, StepIInv, StepSingleFlight DEF DInv
<1>a. LinkOK /\ DirsOK /\ RunsOK /\ ContentsOK /\ SingleFlight
  BY DFacts DEF DInv
<1> USE RunFacts, DFacts, <1>0, <1>a DEF Waiting, Unindexing, Unlinking, disk

<1>1. CASE Boot \/ BootSave \/ ClearAttempts \/ ReleaseLock \/ Tick \/ UNCHANGED vars
  BY <1>1, StillKept
     DEF Boot, BootSave, ClearAttempts, ReleaseLock, Tick, vars, memory, LinkOK, KeepsLinked
<1>2. CASE Reconcile
  <2>1. current' = current /\ state'.current = current
    BY <1>2, ResolvedIsLinked DEF Reconcile, TypeOK, Persisted
  <2> QED
    BY <1>2, <2>1, StillKept DEF Reconcile, KeepsLinked
<1>3. CASE BootPrune
  <2>1. active = 0 /\ state.current = current
    BY <1>3 DEF BootPrune, RunsOK, BootsIdle, LinkOK, KeepsLinked
  <2>2. dirs' = dirs \/ \E r \in Runs \ {current} : RemoveStep(r)
    BY <1>3, <2>1 DEF BootPrune, Existing
  <2>3. Linked' /\ DirsOK' /\ Kept
    BY <1>3, <2>1, <2>2, RemoveKept DEF BootPrune
  <2> QED
    BY <1>3, <2>1, <2>3 DEF BootPrune, LinkOK, Latest, Promoted, KeepsLinked
<1>4. CASE Trigger \/ CliStart
  <2>1. /\ active = 0 /\ runs' = runs + 1 /\ active' = runs' /\ fin' \in Waiting
        /\ proc' \in {"up", "cli"} /\ runs < MaxRuns /\ UNCHANGED <<dirs, current>>
    BY <1>4 DEF Trigger, Start, CliStart, RunsOK, BootsIdle
  <2>2. batch' = [batch EXCEPT ![runs'].pc = "starting"]
    BY <1>4 DEF Trigger, Start, CliStart
  <2>3. batch'[active'].pc = "starting"
    BY <2>1, <2>2, StartBecomes DEF Became
  <2>4. active' \in Runs /\ active' # current
    <3>1. runs \in Nat /\ current \in Nat /\ current <= runs /\ runs + 1 \in Runs
      BY <2>1
    <3> QED
      BY <2>1, <3>1
  <2>5. LinkOK' /\ Kept
    BY <2>1, <2>4 DEF LinkOK, Linked, Latest, Promoted, KeepsLinked, Kept
  <2>6. DirsOK'
    BY <2>1, <2>3 DEF DirsOK, Aged, Staged, Replaces
  <2> QED
    BY <2>5, <2>6
<1>5. CASE Cancel \/ CliCancel
  <2>1. /\ UNCHANGED <<dirs, current, active, fin, pub, runs, proc, state>>
        /\ batch' = [batch EXCEPT ![active].aborted = TRUE]
    BY <1>5 DEF Cancel, CliCancel
  <2>2. \A s \in Runs : batch'[s].pc = batch[s].pc /\ batch'[s].entries = batch[s].entries
    <3>1. CASE active \in Runs
      BY <2>1, <3>1, AbortBecomes DEF Became
    <3>2. CASE active \notin Runs
      BY <2>1, <3>2 DEF TypeOK
    <3> QED
      BY <3>1, <3>2
  <2> QED
    BY <2>1, <2>2, AbortKept
<1>6. CASE Signal
  BY <1>6, SignalBecomes, AbortKept DEF Signal
<1>7. CASE BeginAttempt \/ EndAttempt \/ SetCurrent \/ AwaitResult \/ CliResult
  <2>1. /\ UNCHANGED <<dirs, current, active, batch, pub, runs, proc>> /\ active # 0
        /\ proc # "prune"
    BY <1>7
       DEF BeginAttempt, EndAttempt, SetCurrent, AwaitResult, CliResult, At, Persist, RunsOK,
           BootsIdle
  <2>2. \/ fin = "begin" /\ fin' = "open"
        \/ fin = "end" /\ fin' = "release"
        \/ fin = "setCurrent" /\ fin' = "end"
        \/ fin = "await" /\ fin' \in {"previous", "discard", "done"}
    BY <1>7 DEF BeginAttempt, EndAttempt, SetCurrent, AwaitResult, CliResult, At, Persist
  <2>3. LinkOK' /\ Kept
    BY <2>1, <2>2 DEF LinkOK, Linked, Latest, Promoted, KeepsLinked, Kept
  <2>4. DirsOK'
    BY <2>1, <2>2 DEF DirsOK, Aged, Staged, Replaces
  <2> QED
    BY <2>3, <2>4
<1>8. CASE WriteOpenManifest
  <2>1. /\ active \in Runs /\ active # 0 /\ fin = "open" /\ fin' \in {"await", "failed"}
        /\ active # current /\ (WriteManifest(active, OpenManifest) \/ dirs' = dirs)
        /\ UNCHANGED <<current, active, batch, pub, runs, proc, state>>
    BY <1>8 DEF WriteOpenManifest, At, LinkOK, Promoted
  <2>2. /\ dirs'[active].data = dirs[active].data /\ dirs'[active].exists = dirs[active].exists
        /\ \A s \in Runs \ {active} : dirs'[s] = dirs[s]
    BY <2>1, WriteManifestFacts, RecordTypes
  <2>3. LinkOK' /\ Kept
    BY <2>1, <2>2 DEF LinkOK, Linked, Latest, Promoted, KeepsLinked, Kept
  <2>4. Aged' /\ Staged' /\ Replaces'
    BY <2>1, <2>2 DEF DirsOK, Aged, Staged, Replaces
  <2> QED
    BY <2>3, <2>4 DEF DirsOK
<1>9. CASE Discard \/ Fail
  <2>1. /\ active \in Runs /\ active # 0 /\ active # current
        /\ fin' \in {"discard", "failed", "end"}
        /\ dirs' = dirs \/ RemoveStep(active)
        /\ UNCHANGED <<current, active, batch, pub, runs, proc, state>>
    BY <1>9 DEF Discard, Fail, At, LinkOK, Promoted
  <2>2. Linked' /\ DirsOK' /\ Kept
    BY <2>1, RemoveKept
  <2> QED
    BY <2>1, <2>2 DEF LinkOK, Latest, Promoted, KeepsLinked
<1>10. CASE Release
  BY <1>10 DEF Release, At, LinkOK, Linked, Latest, Promoted, KeepsLinked, Kept, DirsOK, Aged,
           Staged, Replaces
<1>11. CASE CliExit \/ Exit \/ Crash
  BY <1>11, DieKept DEF CliExit, Exit, Crash
<1>12. CASE ReadPrevious
  <2>1. /\ active # 0 /\ fin = "previous" /\ fin' = "carry" /\ batch[active].pc = "over"
        /\ UNCHANGED <<dirs, current, active, batch, runs, proc, state>>
    BY <1>12 DEF ReadPrevious, At, RunsOK, Settled, Publishing
  <2>2. pub'.prev = current
    BY <1>12, ResolvedIsLinked DEF ReadPrevious, LinkOK, Linked
  <2>3. LinkOK' /\ Kept
    BY <2>1 DEF LinkOK, Linked, Latest, Promoted, KeepsLinked, Kept
  <2>4. DirsOK'
    BY <2>1, <2>2 DEF DirsOK, Aged, Staged, Replaces
  <2> QED
    BY <2>3, <2>4
<1>13. CASE CarryForward
  <2>1. /\ active \in Runs /\ active # 0 /\ fin = "carry" /\ fin' = "manifest"
        /\ active # current /\ pub.prev = current /\ batch[active].pc = "over"
        /\ UNCHANGED <<current, active, batch, runs, proc, state>>
    BY <1>13 DEF CarryForward, At, LinkOK, Promoted, DirsOK, Replaces
  <2>2. /\ pub'.prev = current
        /\ pub'.carried \subseteq Carried(current, batch[active].entries)
        /\ "copy" \notin Faults => pub'.carried = Carried(current, batch[active].entries)
    <3>1. PICK carried : /\ carried \subseteq Carried(pub.prev, batch[active].entries)
                         /\ \/ carried = Carried(pub.prev, batch[active].entries)
                            \/ "copy" \in Faults
                         /\ pub' = [pub EXCEPT !.carried = carried]
      BY <1>13 DEF CarryForward
    <3> QED
      BY <2>1, <3>1
  <2>3. /\ dirs'[active].exists = dirs[active].exists
        /\ \A n \in Names : dirs'[active].data[n] = IF n \in pub'.carried
                                                    THEN dirs[pub.prev].data[n]
                                                    ELSE dirs[active].data[n]
        /\ \A s \in Runs \ {active} : dirs'[s] = dirs[s]
    BY <1>13, CarryFacts
  <2>4. LinkOK' /\ Kept
    BY <2>1, <2>3 DEF LinkOK, Linked, Latest, Promoted, KeepsLinked, Kept
  <2>5. Carried(current, batch[active].entries)' = Carried(current, batch[active].entries)
    BY <2>1, <2>3 DEF Carried
  <2>6. Replaces'
    BY <2>1, <2>2, <2>5 DEF Replaces
  <2>7. Aged'
    <3>1. active = runs /\ active \in Nat /\ current \in Nat /\ current < active
      <4>1. active = runs /\ active \in Nat /\ current \in Nat /\ current <= runs
        BY <2>1 DEF LinkOK, Latest
      <4> QED
        BY <2>1, <4>1
    <3>2. \A n \in pub'.carried :
              n \in Names /\ current \in Runs /\ dirs[current].data[n] <= current
      BY <2>2 DEF Carried, DirsOK, Aged
    <3>3. \A n \in Names : dirs'[active].data[n] <= active
      <4> SUFFICES ASSUME NEW n \in Names PROVE dirs'[active].data[n] <= active
        OBVIOUS
      <4>1. CASE n \in pub'.carried
        <5>1. dirs'[active].data[n] = dirs[current].data[n] /\ current \in Runs
          BY <2>1, <2>3, <3>2, <4>1
        <5>2. dirs[current].data[n] \in Source /\ dirs[current].data[n] <= current
          BY <3>2, <4>1, <5>1, FieldTypes
        <5>3. dirs[current].data[n] \in Nat
          BY <5>2
        <5> QED
          BY <3>1, <5>1, <5>2, <5>3
      <4>2. CASE n \notin pub'.carried
        BY <2>1, <2>3, <4>2 DEF DirsOK, Aged
      <4> QED
        BY <4>1, <4>2
    <3> QED
      BY <2>3, <3>3 DEF DirsOK, Aged
  <2>8. Staged'
    BY <2>1, <2>3 DEF DirsOK, Staged
  <2> QED
    BY <2>4, <2>6, <2>7, <2>8 DEF DirsOK
<1>14. CASE WriteFinalManifest
  <2> DEFINE entries == MergedEntries(pub.prev, active, batch[active].entries, pub.carried)
             results == MergedResults(pub.prev, batch[active].results, pub.carried)
             m       == [state |-> "finished", entries |-> entries, results |-> results]
  <2>1. /\ active \in Runs /\ active # 0 /\ fin = "manifest" /\ active # current
        /\ pub.prev = current /\ batch[active].pc = "over"
        /\ "copy" \notin Faults => pub.carried = Carried(current, batch[active].entries)
        /\ pub.carried \subseteq Carried(current, batch[active].entries)
        /\ UNCHANGED <<current, active, batch, pub, runs, proc, state>>
    BY <1>14 DEF WriteFinalManifest, At, LinkOK, Promoted, DirsOK, Replaces
  <2>2. CASE fin' = "failed" /\ dirs' = dirs
    <3>1. LinkOK' /\ Kept
      BY <2>1, <2>2 DEF LinkOK, Linked, Latest, Promoted, KeepsLinked, Kept
    <3>2. DirsOK'
      BY <2>1, <2>2 DEF DirsOK, Aged, Staged, Replaces
    <3> QED
      BY <3>1, <3>2
  <2>3. CASE fin' = "promote" /\ WriteManifest(active, m)
    <3>1. m \in Manifests
      BY <2>1, FinalManifestFacts DEF At, ContentsOK, CarriedOver
    <3>2. m.entries = entries /\ m.state = "finished"
      OBVIOUS
    <3>3. "copy" \notin Faults => \A n \in Names : entries[n] = active \/ entries[n] = Listed[n]
      <4> SUFFICES ASSUME "copy" \notin Faults, NEW n \in Names
                   PROVE  entries[n] = active \/ entries[n] = Listed[n]
        OBVIOUS
      <4>1. CASE n \in batch[active].entries
        BY <2>1, <4>1 DEF MergedEntries, Carried
      <4>2. CASE n \in pub.carried
        BY <2>1, <4>2 DEF MergedEntries, Carried, Listed
      <4>3. CASE n \notin batch[active].entries /\ n \notin pub.carried
        <5>1. entries[n] = 0
          BY <4>3 DEF MergedEntries
        <5>2. Listed[n] = 0
          BY <2>1, <4>3 DEF Carried, Listed, LinkOK, Linked, Honest
        <5> QED
          BY <5>1, <5>2
      <4> QED
        BY <4>1, <4>2, <4>3
    <3>10. \A n \in Names : entries[n] # 0 => entries[n] = dirs[active].data[n]
      BY <2>1, FinalIsHonest DEF DInv
    <3> HIDE DEF entries, m
    <3>4. /\ dirs'[active].manifest = m /\ dirs'[active].data = dirs[active].data
          /\ dirs'[active].exists = dirs[active].exists
          /\ \A s \in Runs \ {active} : dirs'[s] = dirs[s]
      BY <2>1, <2>3, <3>1, WriteManifestFacts
    <3>5. LinkOK' /\ Kept
      BY <2>1, <2>3, <3>4 DEF LinkOK, Linked, Latest, Promoted, KeepsLinked, Kept
    <3>6. Aged' /\ Staged'
      BY <2>1, <2>3, <3>4 DEF DirsOK, Aged, Staged
    <3>7. Listed' = Listed
      BY <3>5, KeptListed
    <3>8. Honest(dirs'[active])
      BY <3>2, <3>4, <3>10 DEF Honest
    <3>9. Replaces'
      BY <2>1, <2>3, <3>2, <3>3, <3>4, <3>7, <3>8 DEF Replaces
    <3> QED
      BY <3>5, <3>6, <3>9 DEF DirsOK
  <2> QED
    BY <1>14, <2>2, <2>3 DEF WriteFinalManifest, Refused
<1>15. CASE Promote
  <2>1. /\ active \in Runs /\ active # 0 /\ fin = "promote" /\ active # current
        /\ UNCHANGED <<dirs, active, batch, pub, runs, proc, state>> /\ proc # "prune"
        /\ batch[active].pc = "over" /\ dirs[active].manifest.state = "finished"
        /\ Honest(dirs[active])
    BY <1>15 DEF Promote, At, LinkOK, Promoted, DirsOK, Replaces, RunsOK, BootsIdle
  <2>2. dirs[active].exists
    BY <2>1 DEF DirsOK, Staged
  <2>3. LinkOK'
    BY <1>15, <2>1, <2>2 DEF Promote, Refused, LinkOK, Linked, Latest, Promoted, KeepsLinked
  <2>4. fin' \in {"prune", "failed"}
    BY <1>15 DEF Promote, Refused
  <2>5. DirsOK'
    BY <2>1, <2>4 DEF DirsOK, Aged, Staged, Replaces
  <2> QED
    BY <1>15, <2>3, <2>5
<1>16. CASE Prune
  <2>1. /\ active \in Runs /\ active # 0 /\ fin = "prune" /\ active = current
        /\ UNCHANGED <<current, active, batch, pub, runs, proc, state>> /\ proc # "prune"
    BY <1>16 DEF Prune, At, LinkOK, Promoted, RunsOK, BootsIdle
  <2>2. ~(\E r \in Existing \ {active} : RmRejects(r))
    BY DEF RmRejects, SingleFlight, Live, Existing
  <2>3. /\ fin' \in {"prune", "setCurrent", "done"}
        /\ dirs' = dirs \/ \E r \in Runs \ {current} : RemoveStep(r)
    BY <1>16, <2>1, <2>2 DEF Prune, Existing
  <2>4. Linked' /\ DirsOK' /\ Kept
    BY <2>1, <2>3, RemoveKept
  <2> QED
    BY <2>1, <2>3, <2>4 DEF LinkOK, Latest, Promoted, KeepsLinked
<1>17. ASSUME NEW r \in Runs, Execute(r) PROVE LinkOK' /\ DirsOK' /\ Kept
  <2>1. \/ CreateStaging(r) \/ Index(r) \/ BatchOver(r)
        \/ \E u \in Users : WorkerDone(r, u)
    BY <1>17 DEF Execute
  <2>2. /\ batch[r].pc \in Live /\ r # current
        /\ UNCHANGED <<current, active, fin, pub, runs, proc, state>>
    BY <2>1, LinkedRests DEF CreateStaging, Index, BatchOver, WorkerDone, Live
  <2>3. /\ \A s \in Runs \ {r} : dirs'[s] = dirs[s]
        /\ \A n \in Names : dirs'[r].data[n] \in {r, dirs[r].data[n]}
        /\ dirs[r].exists => dirs'[r].exists
    BY <2>1, CreateDirFacts, WorkerFacts DEF CreateStaging, Index, BatchOver
  <2>4. CreateStaging(r) \/ batch[r].pc \in {"running", "indexed"}
    BY <2>1 DEF Index, BatchOver, WorkerDone
  <2>5. \A s \in Runs \ {r} : batch'[s] = batch[s]
    BY <1>17, ExecuteElsewhere
  <2>6. LinkOK' /\ Kept
    BY <2>2, <2>3 DEF LinkOK, Linked, Latest, Promoted, KeepsLinked, Kept
  <2>7. Aged'
    BY <2>2, <2>3, RunsAssumption DEF DirsOK, Aged, Runs
  <2>8. Staged'
    <3>1. CASE active = r
      BY <2>2, <2>3, <2>4, <3>1, CreateDirFacts DEF CreateStaging, DirsOK, Staged
    <3>2. CASE active # r
      BY <2>2, <2>3, <2>5, <3>2 DEF DirsOK, Staged
    <3> QED
      BY <3>1, <3>2
  <2>9. Replaces'
    <3> SUFFICES ASSUME active # 0, fin \in {"carry", "manifest", "promote"} PROVE Replaces'
      BY <2>2 DEF Replaces
    <3>1. active # r /\ active \in Runs
      BY <2>2 DEF DirsOK, Replaces, Live
    <3>2. batch'[active] = batch[active] /\ dirs'[active] = dirs[active]
      BY <2>3, <2>5, <3>1
    <3>3. current # 0 => dirs'[current] = dirs[current]
      BY <2>2, <2>3
    <3>4. Listed' = Listed
      BY <2>6, KeptListed
    <3>5. Carried(current, batch[active].entries)' = Carried(current, batch[active].entries)
      BY <2>2, <3>2, <3>3 DEF Carried
    <3> QED
      BY <2>2, <3>2, <3>4, <3>5 DEF DirsOK, Replaces
  <2> QED
    BY <2>6, <2>7, <2>8, <2>9 DEF DirsOK
<1> QED
  BY <1>1, <1>2, <1>3, <1>4, <1>5, <1>6, <1>7, <1>8, <1>9, <1>10, <1>11, <1>12, <1>13,
     <1>14, <1>15, <1>16, <1>17
     DEF Next, Finish
-----------------------------------------------------------------------------
(* The refinement *)

\* A promotion offers nothing new, or the dataset of a newer run.
LEMMA PromotePublishes ==
    ASSUME "copy" \notin Faults, DInv, Promote
    PROVE  \/ Listed' = Listed
           \/ /\ active \in Runs
              /\ \A n \in Names : Listed[n] < active
              /\ Listed' \in [Names -> Source]
              /\ \A n \in Names : Listed'[n] \in {Listed[n], active}
              /\ \E n \in Names : Listed'[n] = active
<1> USE DFacts
<1>1. CASE current' = current
  <2>1. dirs' = dirs
    BY DEF Promote
  <2> QED
    BY <1>1, <2>1 DEF Listed
<1>2. CASE current' = active
  <2>1. /\ dirs' = dirs /\ active # 0 /\ active \in Runs /\ fin = "promote" /\ active # current
        /\ \A n \in Names : \/ dirs[active].manifest.entries[n] = active
                            \/ dirs[active].manifest.entries[n] = Listed[n]
    BY DEF Promote, At, DInv, LinkOK, Promoted, DirsOK, Replaces
  <2>2. \A n \in Names : Listed'[n] = dirs[active].manifest.entries[n]
    BY <1>2, <2>1 DEF Listed
  <2>3. Listed' \in [Names -> Source]
    <3>1. \A n \in Names : dirs[active].manifest.entries[n] \in Source
      BY <2>1, FieldTypes
    <3>2. Listed' = [n \in Names |-> Listed'[n]]
      BY DEF Listed
    <3> QED
      BY <2>2, <3>1, <3>2
  <2>4. \A n \in Names : Listed[n] < active
    <3>1. active \in Nat /\ current \in Nat /\ current < active
      <4>1. active = runs /\ active \in Nat /\ current \in Nat /\ current <= runs
        BY <2>1, RunFacts DEF DInv, LinkOK, Latest
      <4> QED
        BY <2>1, <4>1
    <3>2. \A n \in Names : Listed[n] \in Nat /\ Listed[n] <= current
      BY ListedIsOld, RunFacts
    <3> QED
      BY <3>1, <3>2
  <2>5. \A n \in Names : Listed'[n] \in {Listed[n], active}
    BY <2>1, <2>2
  <2>6. CASE \A n \in Names : Listed'[n] # active
    <3>1. \A n \in Names : Listed'[n] = Listed[n]
      BY <2>5, <2>6
    <3> QED
      BY <3>1 DEF Listed
  <2> QED
    BY <2>1, <2>3, <2>4, <2>5, <2>6
<1> QED
  BY <1>1, <1>2 DEF Promote, Refused

\* The consumer's dataset at first: nothing, or all of one run.
LEMMA InitPublic == Init => Public!Init
<1> SUFFICES ASSUME Init PROVE Public!Init
  OBVIOUS
<1>1. DInv
  BY InitDInv
<1>2. CASE current = 0
  <2>1. Published = [n \in Names |-> 0] /\ 0 \in 0 .. MaxRuns
    BY <1>1, <1>2, PublishedIsListed, RunsAssumption DEF Listed, Offered
  <2> QED
    BY <2>1 DEF Public!Init
<1>3. CASE current # 0
  <2>1. current \in Runs /\ dirs[current] = Complete(current)
    BY <1>3, ClockAssumption, RunFacts DEF Init, StorageInit
  <2>2. Published = [n \in Names |-> current]
    BY <1>1, <1>3, <2>1, PublishedIsListed DEF Listed, Complete, Offered
  <2>3. current \in 0 .. MaxRuns
    BY <2>1, RunFacts DEF Source
  <2> QED
    BY <2>2, <2>3 DEF Public!Init
<1> QED
  BY <1>2, <1>3

\* Every step publishes, or leaves what is on offer alone.
LEMMA StepPublic ==
    ASSUME Harmless, "copy" \notin Faults
    PROVE  DInv /\ Offered /\ Offered' /\ [Next]_vars => [Public!Next]_Published
<1> SUFFICES ASSUME DInv, Offered, Offered', [Next]_vars
             PROVE  Public!Next \/ Published' = Published
  OBVIOUS
<1>1. DInv' /\ (Kept \/ Promote)
  BY StepDInv
<1>2. Published = Listed /\ Published' = Listed'
  BY DEF Offered
<1>3. CASE Kept
  BY <1>2, <1>3, KeptListed
<1>4. CASE Promote
  <2>1. CASE Listed' = Listed
    BY <1>2, <2>1
  <2>2. CASE Listed' # Listed
    <3>1. /\ active \in Runs
          /\ \A n \in Names : Listed[n] < active
          /\ Listed' \in [Names -> Source]
          /\ \A n \in Names : Listed'[n] \in {Listed[n], active}
          /\ \E n \in Names : Listed'[n] = active
      BY <1>4, <2>2, PromotePublishes
    <3>2. Public!Publish(active)
      BY <1>2, <3>1 DEF Public!Publish, Source
    <3> QED
      BY <3>1, <3>2 DEF Public!Next, Runs
  <2> QED
    BY <2>1, <2>2
<1> QED
  BY <1>1, <1>3, <1>4
-----------------------------------------------------------------------------
(* Theorems *)

LEMMA DInvariant ==
    ASSUME Harmless
    PROVE  Spec => []DInv
<1>1. Init => DInv
  BY InitDInv
<1>2. DInv /\ [Next]_vars => DInv'
  BY StepDInv
<1> QED
  BY <1>1, <1>2, PTL DEF Spec

\* The server is a Dataset to its consumer: what is on offer changes by publication only,
\* all at once, never back to an older file and never to none, as long as every file to carry
\* is copied.
THEOREM ServerImplementsDataset ==
    ASSUME Harmless, "copy" \notin Faults
    PROVE  Spec => ImplementsDataset
<1>1. Init => Public!Init
  BY InitPublic
<1>2. DInv /\ Offered /\ Offered' /\ [Next]_vars => [Public!Next]_Published
  BY StepPublic
<1>3. DInv => Offered
  BY PublishedIsListed
<1> QED
  BY <1>1, <1>2, <1>3, DInvariant, PTL DEF Spec, ImplementsDataset, Public!Spec
-----------------------------------------------------------------------------
(* What the history calls a success *)

\* What a record counts as a success is on offer, or replaced by a newer run, where c is linked.
Offers(s, c) ==
    \A i \in DOMAIN s.attempts :
        s.attempts[i].outcome \in {"success", "partial"} => c # 0 /\ s.attempts[i].id <= c

\* An attempt that is about to be recorded as a success has been linked.
Earned ==
    /\ Offers(saved, current) /\ Offers(state, current)
    /\ active # 0 /\ fin = "discard" => outcome \notin {"success", "partial"}
    /\ active # 0 /\ fin = "end" /\ outcome \in {"success", "partial"} => active = current

\* A record with the same attempts, where the link moves forward or not at all.
LEMMA OffersKept ==
    ASSUME NEW s \in Persisted, NEW t, t.attempts = s.attempts, NEW c \in Nat, NEW d \in Nat,
           Offers(s, c), c <= d
    PROVE  Offers(t, d)
<1>1. \A i \in DOMAIN s.attempts : s.attempts[i] \in Attempts
  BY DEF Persisted
<1>2. \A i \in DOMAIN s.attempts : s.attempts[i].id \in Nat
  BY <1>1, RunFacts DEF Attempts
<1> QED
  BY <1>2 DEF Offers

\* Closing an attempt as a success is right where it is linked.
LEMMA OffersClosed ==
    ASSUME NEW s \in Persisted, NEW t, NEW r, NEW how, NEW c \in Nat, Offers(s, c),
           t.attempts = Close(s.attempts, r, how),
           how \in {"success", "partial"} => r = c /\ c # 0
    PROVE  Offers(t, c)
<1>1. s.attempts \in Seq(Attempts)
  BY DEF Persisted
<1> QED
  BY <1>1, CloseFacts DEF Offers

LEMMA OffersBegun ==
    ASSUME NEW s \in Persisted, NEW r \in Runs, NEW c, Offers(s, c)
    PROVE  Offers(Begun(s, r), c)
  BY BegunFacts DEF Offers

\* Every step keeps what is earned.
LEMMA StepEarned ==
    ASSUME Harmless
    PROVE  DInv /\ Earned /\ [Next]_vars => Earned'
<1> SUFFICES ASSUME DInv, Earned, [Next]_vars PROVE Earned'
  OBVIOUS
<1>0. /\ state \in Persisted /\ saved \in Persisted
      /\ current \in Nat /\ active \in Nat /\ runs \in Nat /\ current <= runs
      /\ active # 0 => active \in Runs /\ active = runs
      /\ active # 0 /\ fin \in {"prune", "setCurrent"} => active = current
      /\ Offers(saved, current) /\ Offers(state, current)
      /\ "persist" \notin Faults /\ "rm" \notin Faults
  BY DFacts, RunFacts
     DEF DInv, LinkOK, Latest, Promoted, TypeOK, Earned, Harmless
<1>p. ASSUME NEW s, NEW next, NEW otherwise, Persist(s, next, otherwise)
      PROVE  state' = s /\ saved' = s /\ fin' = next
  BY <1>0, <1>p DEF Persist
<1>1. CASE Boot
  <2>1. PICK how \in {"aborted", "aborted-early"} :
            state' = [saved EXCEPT !.active = 0, !.attempts = Close(@, saved.active, how)]
    BY <1>1 DEF Boot
  <2>2. state'.attempts = Close(saved.attempts, saved.active, how)
    BY <1>0, <2>1 DEF Persisted
  <2>3. Offers(state', current)
    BY <1>0, <2>2, OffersClosed
  <2>4. UNCHANGED <<saved, current, active, fin, outcome>>
    BY <1>1 DEF Boot, disk
  <2> QED
    BY <1>0, <2>3, <2>4 DEF Earned
<1>2. CASE Reconcile
  <2>1. current' = current
    BY <1>2, ResolvedIsLinked, DFacts DEF Reconcile
  <2>2. state'.attempts = state.attempts /\ UNCHANGED <<saved, active, fin, outcome>>
    BY <1>0, <1>2 DEF Reconcile, Persisted
  <2>3. Offers(state', current)
    BY <1>0, <2>2, OffersKept
  <2> QED
    BY <1>0, <2>1, <2>2, <2>3 DEF Earned
<1>3. CASE BootSave
  <2>1. UNCHANGED <<state, current, active, fin, outcome>> /\ saved' = state
    BY <1>3 DEF BootSave, disk
  <2> QED
    BY <1>0, <2>1 DEF Earned
<1>4. CASE ClearAttempts
  <2>1. /\ state'.attempts = <<>> /\ saved' = state'
        /\ UNCHANGED <<current, active, fin, outcome>>
    BY <1>0, <1>4 DEF ClearAttempts, Persisted, disk
  <2>2. Offers(state', current)
    BY <2>1 DEF Offers
  <2> QED
    BY <2>1, <2>2 DEF Earned
<1>5. CASE BeginAttempt
  <2>1. /\ active # 0 /\ fin' = "open" /\ UNCHANGED <<current, active, outcome>>
        /\ state' = Begun(state, active) /\ saved' = Begun(state, active)
    BY <1>5, <1>p DEF BeginAttempt, At, disk
  <2> QED
    BY <1>0, <2>1, OffersBegun DEF Earned
<1>6. CASE EndAttempt
  <2>1. /\ active # 0 /\ fin = "end" /\ fin' = "release" /\ UNCHANGED <<current, active>>
        /\ state' = [state EXCEPT !.active = 0, !.attempts = Close(@, active, outcome)]
        /\ saved' = state'
    BY <1>6, <1>p DEF EndAttempt, At, disk
  <2>2. state'.attempts = Close(state.attempts, active, outcome)
    BY <1>0, <2>1 DEF Persisted
  <2>3. outcome \in {"success", "partial"} => active = current
    BY <2>1 DEF Earned
  <2>4. Offers(state', current)
    BY <1>0, <2>1, <2>2, <2>3, OffersClosed
  <2> QED
    BY <2>1, <2>4 DEF Earned
<1>7. CASE SetCurrent
  <2>1. /\ active # 0 /\ fin = "setCurrent" /\ UNCHANGED <<current, active>>
        /\ state' = [state EXCEPT !.current = active] /\ saved' = state' /\ fin' = "end"
    BY <1>7, <1>p DEF SetCurrent, At, disk
  <2>2. state'.attempts = state.attempts
    BY <1>0, <2>1 DEF Persisted
  <2>3. Offers(state', current)
    BY <1>0, <2>2, OffersKept
  <2> QED
    BY <1>0, <2>1, <2>3 DEF Earned
<1>8. CASE Promote
  <2>1. /\ active # 0 /\ current' \in {current, active} /\ UNCHANGED <<saved, state, active>>
        /\ fin' \in {"prune", "failed"}
    BY <1>8 DEF Promote, At, Refused
  <2>2. Offers(saved, current') /\ Offers(state, current')
    BY <1>0, <2>1, OffersKept
  <2> QED
    BY <2>1, <2>2 DEF Earned
<1>9. CASE AwaitResult
  <2>1. /\ active # 0 /\ UNCHANGED <<saved, state, current, active>>
        /\ outcome' = Classify(batch[active])
        /\ fin' = IF ShouldPublish(batch[active]) THEN "previous" ELSE "discard"
    BY <1>9 DEF AwaitResult, At, disk
  <2>2. CASE ShouldPublish(batch[active])
    BY <1>0, <2>1, <2>2 DEF Earned
  <2>3. CASE ~ShouldPublish(batch[active])
    <3>1. outcome' \in {"aborted", "failed"}
      BY <2>1, <2>3 DEF Classify, ShouldPublish
    <3> QED
      BY <1>0, <2>1, <2>3, <3>1 DEF Earned
  <2> QED
    BY <2>2, <2>3
<1>10. CASE Discard \/ Fail
  <2>1. /\ UNCHANGED <<saved, state, current, active>> /\ active # 0
        /\ outcome' \notin {"success", "partial"}
    BY <1>10 DEF Discard, Fail, At, Earned
  <2> QED
    BY <1>0, <2>1 DEF Earned
<1>11. CASE Release
  BY <1>0, <1>11 DEF Release, Earned, disk
<1>12. CASE Die
  <2>1. state' = Fresh /\ active' = 0 /\ UNCHANGED <<saved, current>>
    BY <1>12 DEF Die, disk
  <2>2. Offers(Fresh, current)
    BY DEF Fresh, Offers
  <2> QED
    BY <1>0, <2>1, <2>2 DEF Earned
<1>13. CASE Trigger \/ CliStart \/ WriteOpenManifest \/ CliResult \/ ReadPrevious
            \/ CarryForward \/ WriteFinalManifest \/ Prune
  <2>1. /\ UNCHANGED <<saved, state, current>> /\ fin' \notin {"discard", "end"}
    BY <1>13
       DEF Trigger, Start, CliStart, WriteOpenManifest, CliResult, ReadPrevious, CarryForward,
           WriteFinalManifest, Prune, At, Refused, disk
  <2> QED
    BY <1>0, <2>1 DEF Earned
<1>14. CASE BootPrune \/ Cancel \/ CliCancel \/ Signal \/ ReleaseLock \/ Tick \/ UNCHANGED vars
            \/ \E r \in Runs : Execute(r)
  <2>1. UNCHANGED <<saved, state, current, active, fin, outcome>>
    BY <1>14
       DEF BootPrune, Cancel, CliCancel, Signal, ReleaseLock, Tick, vars, memory, disk, Execute,
           CreateStaging, Index, BatchOver, WorkerDone
  <2> QED
    BY <2>1 DEF Earned
<1>15. CASE CliExit \/ Exit \/ Crash
  BY <1>12, <1>15 DEF CliExit, Exit, Crash
<1> QED
  BY <1>1, <1>2, <1>3, <1>4, <1>5, <1>6, <1>7, <1>8, <1>9, <1>10, <1>11, <1>13, <1>14, <1>15
     DEF Next, Finish

\* What the history calls a success or a partial is on offer, unless a newer run has replaced
\* it, as long as nothing makes #finish remove what it has linked.
THEOREM SuccessesArePublished ==
    ASSUME Harmless
    PROVE  Spec => []SuccessIsPublished
<1>1. Init => Earned
  BY DEF Init, Earned, Offers, Fresh
<1>2. DInv /\ Earned /\ [Next]_vars => Earned'
  BY StepEarned
<1>3. DInv /\ Earned => SuccessIsPublished
  <2> SUFFICES ASSUME DInv, Earned, NEW i \in DOMAIN saved.attempts,
                      saved.attempts[i].outcome \in {"success", "partial"}
               PROVE  Readable /\ Resolved >= saved.attempts[i].id
    BY DEF SuccessIsPublished
  <2>1. current # 0 /\ saved.attempts[i].id <= current
    BY DEF Earned, Offers
  <2>2. saved.attempts[i].id \in Nat /\ current \in Nat
    <3>1. saved.attempts \in Seq(Attempts)
      BY DFacts DEF TypeOK, Persisted
    <3>2. saved.attempts[i] \in Attempts
      BY <3>1
    <3> QED
      BY <3>2, DFacts, RunFacts DEF Attempts
  <2> QED
    BY <2>1, <2>2, ResolvedIsLinked
<1> QED
  BY <1>1, <1>2, <1>3, DInvariant, PTL DEF Spec
-----------------------------------------------------------------------------
(* What is on offer is honest and whole *)

\* Every entry on offer is backed by the very file it describes, of the run it names, wherever
\* the process is killed and whatever is carried forward, as long as nothing makes #finish
\* remove what it has linked.
THEOREM EntriesAreHonest ==
    ASSUME Harmless
    PROVE  Spec => []HonestEntries
<1>1. DInv => HonestEntries
  BY ResolvedIsLinked DEF DInv, LinkOK, Linked, Honest, HonestEntries
<1> QED
  BY <1>1, DInvariant, PTL

\* A permutation whose result says ok has all its files on offer, of one run, so a RESUME may
\* skip it: as long as nothing makes #finish remove what it has linked, every carried file is
\* copied and nobody promotes a cancelled run.
THEOREM OkMeansWhole ==
    ASSUME Harmless, "copy" \notin Faults, "always" \notin Modes
    PROVE  Spec => []OkIsWhole
<1>1. Init => WholeInv
  <2> SUFFICES ASSUME Init PROVE WholeInv
    OBVIOUS
  <2>1. Carries /\ ActiveTried
    BY DEF Init, Carries, ActiveTried
  <2>2. AllWhole
    <3>1. \A r \in Runs : Whole(Complete(r).manifest)
      BY DEF Whole, Complete
    <3>2. \A r \in Runs : dirs[r] \in {NoDir, Complete(r)}
      BY DEF Init, StorageInit
    <3> QED
      BY <3>1, <3>2, EmptyWhole DEF AllWhole, NoDir
  <2> QED
    BY <2>1, <2>2 DEF WholeInv
<1>2. ASSUME DInv, WholeInv, [Next]_vars PROVE WholeInv'
  <2>0. IInv
    BY <1>2 DEF DInv
  <2>1. ActiveTried' /\ Carries'
    BY <1>2, <2>0, StepTried, StepCarries DEF WholeInv
  <2>2. ASSUME active # 0, fin = "manifest", NEW n \in Names, pub.prev # 0,
               dirs[pub.prev].manifest.entries[n] # 0
        PROVE  dirs[pub.prev].data[n] # 0
    <3>1. pub.prev = current
      BY <1>2, <2>2 DEF DInv, DirsOK, Replaces
    <3> QED
      BY <1>2, <2>2, <3>1 DEF DInv, LinkOK, Linked, Honest
  <2>3. \A s \in Runs : Whole(dirs'[s].manifest)
    BY <1>2, <2>0, <2>2, RunFacts, ManifestsAre, FinalWhole, EmptyWhole DEF WholeInv, AllWhole
  <2>4. AllWhole'
    BY <2>3 DEF AllWhole, Whole
  <2> QED
    BY <2>1, <2>4 DEF WholeInv
<1>3. IInv /\ WholeInv => OkIsWhole
  <2> SUFFICES ASSUME IInv, WholeInv, Readable PROVE Whole(dirs[Resolved].manifest)
    BY DEF OkIsWhole, Whole
  <2>1. Resolved \in Runs
    BY RunFacts, ResolvedIsCurrent DEF IInv, Typed, Readable
  <2> QED
    BY <2>1 DEF WholeInv, AllWhole
<1> QED
  BY <1>1, <1>2, <1>3, DInvariant, Invariant, PTL DEF Spec
=============================================================================
