------------------------------ MODULE Storage ------------------------------
(***************************************************************************)
(* The data volume (src/src/core/staging.server.ts): the run directories,  *)
(* their manifests and the `current` link, and what publishing computes    *)
(* from them.  Runs are numbered in the order they start (run ids are      *)
(* timestamps), and a file is known by the run that introspected it.       *)
(***************************************************************************)
EXTENDS Naturals, FiniteSets, Sequences

CONSTANTS
    Users,     \* permutations
    Names,     \* output files (ALL_FILE_NAMES)
    UserOf,    \* permutationForFile
    MaxRuns    \* bound on runs

ASSUME NamesAssumption == UserOf \in [Names -> Users]
ASSUME RunsAssumption  == MaxRuns \in Nat \ {0}

VARIABLES
    dirs,      \* runs/<id>, what is in it
    current    \* the run `current` links to, 0 for no link

disk == <<dirs, current>>

Runs   == 1 .. MaxRuns
Source == 0 .. MaxRuns    \* 0: no such file, or no such entry

Manifests == [state: {"none", "open", "finished"},
              entries: [Names -> Source], results: [Users -> {"none", "ok", "failed"}]]

NoManifest   == [state |-> "none", entries |-> [n \in Names |-> 0],
                 results |-> [u \in Users |-> "none"]]
\* finishedAt: null
OpenManifest == [NoManifest EXCEPT !.state = "open"]

NoDir == [exists |-> FALSE, data |-> [n \in Names |-> 0], manifest |-> NoManifest]

StorageTypeOK ==
    /\ dirs \in [Runs -> [exists: BOOLEAN, data: [Names -> Source], manifest: Manifests]]
    /\ current \in Source

\* Everything a run could produce, from that run.
Complete(r) ==
    [exists |-> TRUE, data |-> [n \in Names |-> r],
     manifest |-> [state |-> "finished", entries |-> [n \in Names |-> r],
                   results |-> [u \in Users |-> "ok"]]]

\* The volume at first: empty, or with the dataset of an earlier `tcrs run`, which
\* writes no state.json.
StorageInit(earlier) ==
    \/ dirs = [r \in Runs |-> NoDir] /\ current = 0
    \/ /\ earlier # 0
       /\ dirs = [r \in Runs |-> IF r = earlier THEN Complete(r) ELSE NoDir]
       /\ current = earlier

Existing == {r \in Runs : dirs[r].exists}

\* resolveCurrent: a dangling link is no link.
Resolved == IF current # 0 /\ dirs[current].exists THEN current ELSE 0

\* readManifest(resolveCurrent()), and finished.
Readable == Resolved # 0 /\ dirs[Resolved].manifest.state = "finished"

\* indexFiles: every file present is an entry of this run.
Indexed(r) == {n \in Names : dirs[r].data[n] # 0}

\* carryForward: what the run did not produce and the previous manifest lists,
\* if the file is still there to copy.
Carried(prev, produced) ==
    {n \in Names \ produced : /\ prev # 0
                              /\ dirs[prev].manifest.entries[n] # 0
                              /\ dirs[prev].data[n] # 0}

\* Mutant of MergedEntries: re-indexed after the copies, so stamped with this run.
MergedEntriesRestamped(prev, r, produced, carried) ==
    [n \in Names |-> IF n \in produced \cup carried THEN r ELSE 0]

\* Fresh wins; a carried entry keeps the run that produced it.
MergedEntries(prev, r, produced, carried) ==
    [n \in Names |-> CASE n \in produced -> r
                       [] n \in carried  -> dirs[prev].manifest.entries[n]
                       [] OTHER -> 0]

\* Mutant of MergedResults: a carried file vouches for its permutation.
MergedResultsVouched(prev, results, carried) ==
    [u \in Users |->
        IF \E n \in carried : UserOf[n] = u THEN dirs[prev].manifest.results[u]
        ELSE results[u]]

\* Results follow their files: a permutation the run never attempted keeps the
\* result that came with its carried files.
MergedResults(prev, results, carried) ==
    [u \in Users |->
        IF results[u] # "none" THEN results[u]
        ELSE IF \E n \in carried : UserOf[n] = u THEN dirs[prev].manifest.results[u]
        ELSE "none"]

\* resumableUsers: every file on offer, and an ok beside them.
Resumable ==
    {u \in Users : /\ Resolved # 0
                   /\ dirs[Resolved].manifest.results[u] = "ok"
                   /\ \A n \in Names : UserOf[n] = u => dirs[Resolved].manifest.entries[n] # 0}

\* createStaging: mkdir -p.
CreateDir(r) == dirs' = [dirs EXCEPT ![r].exists = TRUE]

WriteManifest(r, m) == dirs' = [dirs EXCEPT ![r].manifest = m]

IsEmpty(r) == dirs[r].manifest.state = "none" /\ \A n \in Names : dirs[r].data[n] = 0

\* A step of rm -rf runs/<id>: what lies there is unlinked in any order, and the
\* directory goes when it is empty.
RemoveStep(r) ==
    \/ \E n \in Names : dirs[r].data[n] # 0 /\ dirs' = [dirs EXCEPT ![r].data[n] = 0]
    \/ dirs[r].manifest.state # "none" /\ WriteManifest(r, NoManifest)
    \/ IsEmpty(r) /\ dirs' = [dirs EXCEPT ![r] = NoDir]

\* The copies of carryForward.
CopyInto(r, prev, carried) ==
    dirs' = [dirs EXCEPT ![r].data =
                [n \in Names |-> IF n \in carried THEN dirs[prev].data[n] ELSE @[n]]]

\* What a consumer is offered: what the listing of downloads is built from, and the
\* file behind it.
Published ==
    [n \in Names |-> IF Readable /\ dirs[Resolved].manifest.entries[n] # 0
                     THEN dirs[Resolved].data[n] ELSE 0]
=============================================================================
