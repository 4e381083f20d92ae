---------------------------------- MODULE Jar ----------------------------------
(***************************************************************************)
(* The KoLmafia jar (src/src/core/jar.server.ts): found or downloaded when *)
(* a process starts, checked against GitHub when the server starts a run,  *)
(* and probed for the command that does a full pass.                       *)
(*                                                                         *)
(* Jars lie at the configured path ($JAR, beside the program) and, fetched *)
(* for a run, at one path per release under the data dir.  A sidecar file  *)
(* records the release a jar came from.  One process at a time; it may be  *)
(* killed between any two steps, and GitHub may refuse any request.        *)
(***************************************************************************)
EXTENDS Naturals

CONSTANTS
    MaxTag,    \* bound on releases, numbered in the order they come out
    Renamed    \* the release whose full pass is `tcrs introspect`

ASSUME TagAssumption == MaxTag \in Nat \ {0} /\ Renamed \in Nat

VARIABLES
    latest,    \* the latest release on GitHub (external)
    jar,       \* the jar at each path
    sidecar,   \* the release its .tag file names, 0 for none
    part,      \* the .part file being written
    proc,      \* the process: none, the server, or `tcrs run`
    pc,        \* where it is
    pin,       \* its MAFIA_TAG, 0 when unset
    path,      \* config.jarPath
    asset,     \* the release being fetched
    found,     \* what the check for this run found, 0 when it gave nothing
    command    \* tcrsCommand of the run

volume == <<jar, sidecar>>
vars   == <<latest, jar, sidecar, part, proc, pc, pin, path, asset, found, command>>

-----------------------------------------------------------------------------

Tags  == 1 .. MaxTag
Paths == 0 .. MaxTag    \* 0: as configured; t: <data dir>/mafia/<the asset of t>

\* A jar file: the release it is of, 0 for no file, and whether all of it is there.
Jars     == [tag: 0 .. MaxTag, whole: BOOLEAN]
NoJar    == [tag |-> 0, whole |-> FALSE]
Whole(t) == [tag |-> t, whole |-> TRUE]

\* There, and not empty; a truncated one passes.
IsFile(p) == jar[p] # NoJar

Fetching == {"open", "write", "rename", "sidecar"}

TypeOK ==
    /\ latest \in Tags
    /\ jar \in [Paths -> Jars] /\ part \in Jars
    /\ sidecar \in [Paths -> 0 .. latest]
    /\ \A p \in Paths : jar[p].tag <= latest
    /\ proc \in {"none", "server", "cli"}
    /\ pc \in {"off", "ensure", "misconfigured", "idle", "check", "probe", "running"}
              \cup Fetching
    /\ pc = "off" <=> proc = "none"
    /\ pin \in 0 .. latest /\ asset \in 0 .. latest /\ found \in 0 .. latest
    /\ path \in Paths /\ (path # 0 => IsFile(path))
    /\ command \in {"none", "introspect", "derive"}

\* Baked into the image with its tag, put there by hand without one, or absent.
Init ==
    /\ latest \in Tags
    /\ \E t \in 0 .. latest, tagged \in BOOLEAN :
          /\ jar = [p \in Paths |-> IF p = 0 /\ t # 0 THEN Whole(t) ELSE NoJar]
          /\ sidecar = [p \in Paths |-> IF p = 0 /\ tagged THEN t ELSE 0]
    /\ part = NoJar
    /\ proc = "none" /\ pc = "off" /\ pin = 0 /\ path = 0 /\ asset = 0 /\ found = 0
    /\ command = "none"

-----------------------------------------------------------------------------
(* A process starts: ensureJar *)

Start ==
    /\ pc = "off"
    /\ proc' \in {"server", "cli"}
    /\ pin' \in 0 .. latest
    /\ pc' = "ensure"
    /\ UNCHANGED <<latest, volume, part, path, asset, found, command>>

\* The server waits for a run to start; `tcrs run` starts its own at once.
Ready == IF proc = "server" THEN "idle" ELSE "probe"

\* resolveJar: an explicit path is looked for there and nowhere else.
Resolve ==
    /\ pc = "ensure" /\ IsFile(0)
    /\ path' = 0
    /\ pc' = Ready
    /\ UNCHANGED <<latest, volume, part, proc, pin, asset, found, command>>

\* findReleaseJar(tag), then downloadJar to the configured path.
FindForBoot ==
    /\ pc = "ensure" /\ ~IsFile(0)
    /\ asset' = IF pin # 0 THEN pin ELSE latest
    /\ pc' = "open"
    /\ UNCHANGED <<latest, volume, part, proc, pin, path, found, command>>

\* JarUnavailableError: the server stays misconfigured, the CLI exits.
Off == /\ proc' = "none" /\ pc' = "off"
       /\ pin' = 0 /\ path' = 0 /\ asset' = 0 /\ found' = 0 /\ command' = "none"

Unavailable ==
    \/ proc = "server" /\ pc' = "misconfigured" /\ UNCHANGED <<proc, pin, path, asset, found, command>>
    \/ proc = "cli" /\ Off

CannotFind ==
    /\ pc = "ensure" /\ ~IsFile(0)
    /\ Unavailable
    /\ UNCHANGED <<latest, volume, part>>

-----------------------------------------------------------------------------
(* A run of the server starts: refreshJar, updateJar *)

Trigger ==
    /\ pc = "idle"
    /\ pc' = "check"
    /\ UNCHANGED <<latest, volume, part, proc, pin, path, asset, found, command>>

\* A pinned release is not moved off; a failed check keeps the jar there is.
KeepJar ==
    /\ pc = "check"
    /\ found' = 0
    /\ pc' = "probe"
    /\ UNCHANGED <<latest, volume, part, proc, pin, path, asset, command>>

\* Mutant of UpToDate: a jar with any tag at all has been checked before.
UpToDateOnceTagged == sidecar[path] # 0

UpToDate == sidecar[path] = latest

AlreadyCurrent ==
    /\ pc = "check" /\ pin = 0 /\ UpToDate
    /\ found' = latest
    /\ pc' = "probe"
    /\ UNCHANGED <<latest, volume, part, proc, pin, path, asset, command>>

\* Fetched by an earlier run: only the sidecar needs catching up.
AlreadyFetched ==
    /\ pc = "check" /\ pin = 0 /\ ~UpToDate /\ IsFile(latest)
    /\ sidecar' = [sidecar EXCEPT ![latest] = latest]
    /\ path' = latest
    /\ found' = latest
    /\ pc' = "probe"
    /\ UNCHANGED <<latest, jar, part, proc, pin, asset, command>>

\* Mutant of FindForRun: config.jarPath is moved before the jar is there.
FindForRunAhead ==
    /\ pc = "check" /\ pin = 0 /\ ~UpToDate /\ ~IsFile(latest)
    /\ asset' = latest /\ path' = latest
    /\ pc' = "open"
    /\ UNCHANGED <<latest, volume, part, proc, pin, found, command>>

FindForRun ==
    /\ pc = "check" /\ pin = 0 /\ ~UpToDate /\ ~IsFile(latest)
    /\ asset' = latest
    /\ pc' = "open"
    /\ UNCHANGED <<latest, volume, part, proc, pin, path, found, command>>

-----------------------------------------------------------------------------
(* downloadJar, and what its caller does next *)

\* At boot only the configured path may be missing its jar.
ForRun == IsFile(path)
Dest   == IF ForRun THEN asset ELSE 0

\* The bytes are all there before the file is opened, and truncated.
Open ==
    /\ pc = "open"
    /\ part' = [tag |-> asset, whole |-> FALSE]
    /\ pc' = "write"
    /\ UNCHANGED <<latest, volume, proc, pin, path, asset, found, command>>

Write ==
    /\ pc = "write"
    /\ part' = Whole(asset)
    /\ pc' = "rename"
    /\ UNCHANGED <<latest, volume, proc, pin, path, asset, found, command>>

\* At boot nobody writes a sidecar.
Rename ==
    /\ pc = "rename"
    /\ jar' = [jar EXCEPT ![Dest] = part]
    /\ part' = NoJar
    /\ pc' = IF ForRun THEN "sidecar" ELSE Ready
    /\ UNCHANGED <<latest, sidecar, proc, pin, path, asset, found, command>>

\* writeFile of the sidecar; refreshJar then moves config.jarPath.
TagJar ==
    /\ pc = "sidecar"
    /\ sidecar' = [sidecar EXCEPT ![asset] = asset]
    /\ path' = asset
    /\ found' = asset
    /\ pc' = "probe"
    /\ UNCHANGED <<latest, jar, part, proc, pin, asset, command>>

\* A refused request or write: fatal at boot, a warning in a run.
FetchFails ==
    /\ pc \in Fetching
    /\ \/ ForRun /\ pc' = "probe" /\ found' = 0 /\ UNCHANGED <<proc, pin, path, asset, command>>
       \/ ~ForRun /\ Unavailable
    /\ UNCHANGED <<latest, volume, part>>

-----------------------------------------------------------------------------
(* The run: detectTcrsCommand, then the JVMs *)

\* The classes a release has; a truncated file may lack the names of any.
Markers(t) == IF t >= Renamed THEN {"introspect", "derive"} ELSE {"derive"}
FullPass(t) == IF t >= Renamed THEN "introspect" ELSE "derive"

Detect(markers) == IF "introspect" \in markers THEN "introspect" ELSE "derive"

Probe ==
    /\ pc = "probe"
    /\ \E seen \in SUBSET Markers(jar[path].tag) :
          /\ jar[path].whole => seen = Markers(jar[path].tag)
          /\ command' = Detect(seen)
    /\ pc' = "running"
    /\ UNCHANGED <<latest, volume, part, proc, pin, path, asset, found>>

\* The batch is over, or was cancelled before it came to the jar.
RunOver ==
    /\ pc \in {"check", "probe", "running"}
    /\ IF proc = "server"
       THEN /\ pc' = "idle" /\ asset' = 0 /\ found' = 0 /\ command' = "none"
            /\ UNCHANGED <<proc, pin, path>>
       ELSE Off
    /\ UNCHANGED <<latest, volume, part>>

Crash ==
    /\ pc # "off"
    /\ Off
    /\ UNCHANGED <<latest, volume, part>>

\* KoLmafia publishes a release (external).
Release ==
    /\ latest < MaxTag
    /\ latest' = latest + 1
    /\ UNCHANGED <<volume, part, proc, pc, pin, path, asset, found, command>>

Next == \/ Start \/ Resolve \/ FindForBoot \/ CannotFind
        \/ Trigger \/ KeepJar \/ AlreadyCurrent \/ AlreadyFetched \/ FindForRun
        \/ Open \/ Write \/ Rename \/ TagJar \/ FetchFails
        \/ Probe \/ RunOver
        \/ Crash \/ Release

Spec == Init /\ [][Next]_vars

-----------------------------------------------------------------------------
(* Properties *)

\* A run drives a jar that is all there, with the command that does that very
\* release's full pass; and if its check reached GitHub, it is the release the
\* check found, for a sidecar never passes an older jar for it ("already current"
\* from "never checked", lines 12-14).  Whatever was cut off, fetched or left
\* undone by this process or an earlier one (runBatch.server.ts, lines 244-249).
RunFits ==
    pc = "running" =>
        /\ jar[path].whole
        /\ command = FullPass(jar[path].tag)
        /\ found # 0 => jar[path].tag = found

\* MAFIA_TAG keeps a process on the jar it was started with, however many newer
\* ones earlier processes fetched (lines 8-10, "refusing to upgrade past it").
PinHonoured == pin # 0 => path = 0
=============================================================================
