-------------------------------- MODULE Lock --------------------------------
(***************************************************************************)
(* The single-instance lock on the data volume (src/src/core/              *)
(* lock.server.ts), taken by every server and every `tcrs run`: an         *)
(* O_EXCL create, a pid check on the same host, a heartbeat across hosts,  *)
(* and the reclaiming of a lock whose holder is gone.  Each system call is *)
(* a step, and processes run them at their own pace.                       *)
(***************************************************************************)
EXTENDS Integers

CONSTANTS
    Procs,       \* server and CLI slots sharing the volume
    Nobody,
    Hosts,
    HostOf,      \* hostname(): a container is a host
    Pids,
    Stale,       \* STALE_MS, in ticks
    Beat,        \* a live holder touches the file at least this often
    Serial,      \* starts are serialised from outside: stop-then-start
    PidReuse,    \* a new process may get the pid a lock file records
    MaxCrashes   \* bound on kills

ASSUME ProcsAssumption == Nobody \notin Procs /\ HostOf \in [Procs -> Hosts]
ASSUME PidsAssumption  == Pids \subseteq Nat \ {0}
ASSUME ClockAssumption == Stale \in Nat /\ Beat \in Nat /\ Beat < Stale
ASSUME SwitchAssumption == Serial \in BOOLEAN /\ PidReuse \in BOOLEAN /\ MaxCrashes \in Nat

VARIABLES
    pc,       \* where each process is in acquireLock, "off" when it does not run
    pid,      \* 0 when it does not run
    seen,     \* what readFile gave: the creator and the pid it wrote, or nothing
    file,     \* the lock file
    crashes

vars == <<pc, pid, seen, file, crashes>>

Blank  == [by |-> Nobody, pid |-> 0]
NoFile == [by |-> Nobody, written |-> FALSE, pid |-> 0, age |-> 0]
Exists == file # NoFile

Acquiring == {"create", "read", "judge", "remove", "recreate", "write"}

Contents == [by: Procs, pid: Pids] \cup {Blank}
Files    == [by: Procs, written: BOOLEAN, pid: Pids, age: 0 .. Stale] \cup {NoFile}

TypeOK ==
    /\ pc \in [Procs -> Acquiring \cup {"off", "held"}]
    /\ pid \in [Procs -> Pids \cup {0}]
    /\ \A p \in Procs : pc[p] = "off" <=> pid[p] = 0
    /\ seen \in [Procs -> Contents]
    /\ file \in Files
    /\ crashes \in 0 .. MaxCrashes

Init ==
    /\ pc = [p \in Procs |-> "off"]
    /\ pid = [p \in Procs |-> 0]
    /\ seen = [p \in Procs |-> Blank]
    /\ file = NoFile
    /\ crashes = 0

\* process.kill(pid, 0), in the pid namespace of host.
IsAlive(host, i) == \E q \in Procs : HostOf[q] = host /\ pid[q] = i

Goto(p, step) == pc' = [pc EXCEPT ![p] = step] /\ UNCHANGED pid

\* Mutant of Exit: the process that did not get the lock lives on.
ExitLingering(p) == pc' = [pc EXCEPT ![p] = "off"] /\ UNCHANGED pid

\* LockHeldError, a release or a kill: the process ends.
Exit(p) == pc' = [pc EXCEPT ![p] = "off"] /\ pid' = [pid EXCEPT ![p] = 0]

-----------------------------------------------------------------------------

\* A process starts, or starts again, and calls acquireLock.
Start(p) ==
    /\ pc[p] = "off"
    /\ Serial => \A q \in Procs : pc[q] \notin Acquiring
    /\ \E i \in Pids :
          /\ ~IsAlive(HostOf[p], i)
          /\ PidReuse \/ ~(Exists /\ HostOf[file.by] = HostOf[p] /\ file.pid = i)
          /\ pid' = [pid EXCEPT ![p] = i]
    /\ pc' = [pc EXCEPT ![p] = "create"]
    /\ UNCHANGED <<seen, file, crashes>>

\* open(path, "wx")
Open(p) ==
    /\ ~Exists
    /\ file' = [by |-> p, written |-> FALSE, pid |-> pid[p], age |-> 0]
    /\ Goto(p, "write")

\* EEXIST the first time: decide whether the holder is still alive.
Create(p) ==
    /\ pc[p] = "create"
    /\ Open(p) \/ (Exists /\ Goto(p, "read") /\ UNCHANGED file)
    /\ UNCHANGED <<seen, crashes>>

\* The handle writes to the file it opened, even once that has been unlinked.
Write(p) ==
    /\ pc[p] = "write"
    /\ Goto(p, "held")
    /\ file' = IF file.by = p THEN [file EXCEPT !.written = TRUE, !.age = 0] ELSE file
    /\ UNCHANGED <<seen, crashes>>

Read(p) ==
    /\ pc[p] = "read"
    /\ seen' = [seen EXCEPT ![p] = IF file.written THEN [by |-> file.by, pid |-> file.pid] ELSE Blank]
    /\ Goto(p, "judge")
    /\ UNCHANGED <<file, crashes>>

SameHost(p) == seen[p] # Blank /\ HostOf[seen[p].by] = HostOf[p]

\* Mutant of HolderAlive: the pid is trusted wherever it was written.
HolderAliveAnyHost(p) == seen[p] # Blank /\ IsAlive(HostOf[p], seen[p].pid)

\* Mutant of HolderAlive: a lock of another host is never given up.
HolderAliveForever(p) ==
    \/ SameHost(p) /\ IsAlive(HostOf[p], seen[p].pid)
    \/ ~SameHost(p) /\ Exists

\* A pid means something on its own host only; elsewhere the heartbeat decides.
HolderAlive(p) ==
    \/ SameHost(p) /\ IsAlive(HostOf[p], seen[p].pid)
    \/ ~SameHost(p) /\ Exists /\ file.age < Stale

Judge(p) ==
    /\ pc[p] = "judge"
    /\ \/ HolderAlive(p) /\ Exit(p)
       \/ ~HolderAlive(p) /\ Goto(p, "remove")
    /\ seen' = [seen EXCEPT ![p] = Blank]
    /\ UNCHANGED <<file, crashes>>

Remove(p) ==
    /\ pc[p] = "remove"
    /\ file' = NoFile
    /\ Goto(p, "recreate")
    /\ UNCHANGED <<seen, crashes>>

\* EEXIST the second time: somebody else was quicker.
Recreate(p) ==
    /\ pc[p] = "recreate"
    /\ Open(p) \/ (Exists /\ Exit(p) /\ UNCHANGED file)
    /\ UNCHANGED <<seen, crashes>>

\* utimes on the path, whoever's file that is now.
Heartbeat(p) ==
    /\ pc[p] = "held" /\ Exists /\ file.age > 0
    /\ file' = [file EXCEPT !.age = 0]
    /\ UNCHANGED <<pc, pid, seen, crashes>>

\* rm on the path, whoever's file that is now.
Release(p) ==
    /\ pc[p] = "held"
    /\ file' = NoFile
    /\ Exit(p)
    /\ UNCHANGED <<seen, crashes>>

Crash(p) ==
    /\ pc[p] # "off" /\ crashes < MaxCrashes
    /\ crashes' = crashes + 1
    /\ Exit(p)
    /\ seen' = [seen EXCEPT ![p] = Blank]
    /\ UNCHANGED file

\* Mutant of Tick: nobody touches the file.
TickUnbeaten ==
    /\ Exists /\ file.age < Stale
    /\ file' = [file EXCEPT !.age = @ + 1]
    /\ UNCHANGED <<pc, pid, seen, crashes>>

\* No live holder lets Beat ticks pass without touching the file, and no
\* process is stopped between opening the file and writing it.
Tick ==
    /\ Exists /\ file.age < Stale
    /\ \A p \in Procs : pc[p] \in {"write", "held"} => file.age < Beat
    /\ file' = [file EXCEPT !.age = @ + 1]
    /\ UNCHANGED <<pc, pid, seen, crashes>>

-----------------------------------------------------------------------------

Acquire(p) == \/ Create(p) \/ Write(p) \/ Read(p) \/ Judge(p) \/ Remove(p) \/ Recreate(p)

Next == \/ \E p \in Procs : Start(p) \/ Acquire(p) \/ Heartbeat(p) \/ Release(p) \/ Crash(p)
        \/ Tick

Spec == Init /\ [][Next]_vars

\* A supervisor starts what has stopped; processes and the clock go on.
FairSpec ==
    /\ Spec
    /\ WF_vars(\E p \in Procs : Start(p))
    /\ \A p \in Procs : WF_vars(Acquire(p)) /\ WF_vars(Heartbeat(p))
    /\ WF_vars(Tick)

-----------------------------------------------------------------------------
(* Properties *)

\* Two servers, or a server and a CLI, never run on one data volume: "their
\* create succeeds and ours throws LockHeldError rather than double-acquiring"
\* (lock.server.ts:95).
OneHolder == \A p, q \in Procs : pc[p] = "held" /\ pc[q] = "held" => p = q

\* The file on the volume is the live holder's own, so what it touches and
\* what it removes on release is nobody else's lock.
HolderOwnsFile == \A p \in Procs : pc[p] = "held" => Exists /\ file.by = p /\ file.written

\* A kill at any step never wedges the volume: somebody holds it again and
\* again, however the lock file was left ("a SIGKILLed process must not wedge
\* the next boot forever", run-manager.test.ts:372).
Recovers == []<>(\E p \in Procs : pc[p] = "held")
=============================================================================
