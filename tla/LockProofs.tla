----------------------------- MODULE LockProofs -----------------------------
(***************************************************************************)
(* Mutual exclusion on the data volume, for any number of processes, hosts *)
(* and pids and any timings with Beat < Stale, as long as starts are       *)
(* serialised from outside.  (Without that it is false: run LockRace.)     *)
(***************************************************************************)
EXTENDS Lock, TLAPS

\* A process that waits to judge a live holder has read that holder's file.
JudgesTheHolder ==
    \A p, q \in Procs : pc[p] = "judge" /\ pc[q] = "held" =>
        seen[p] = [by |-> q, pid |-> pid[q]]

\* Nobody holds the lock while somebody reclaims it.
ReclaimsTheDead ==
    \A p, q \in Procs : pc[p] \in {"remove", "recreate"} => pc[q] # "held"

OneStarter == \A p, q \in Procs : pc[p] \in Acquiring /\ pc[q] \in Acquiring => p = q

\* Whoever created the file and may still be alive: the file is fresh, and its own.
Keeps(p) == file.by = p /\ file.pid = pid[p] /\ file.age <= Beat

KeepersKeep ==
    \A p \in Procs : /\ pc[p] = "write" => Keeps(p)
                     /\ pc[p] = "held" => Keeps(p) /\ file.written

IInv == TypeOK /\ OneStarter /\ KeepersKeep /\ JudgesTheHolder /\ ReclaimsTheDead

USE DEF Goto, Exit

\* The initial state satisfies the invariant.
LEMMA InitIInv == Init => IInv
  BY ProcsAssumption, PidsAssumption, ClockAssumption, SwitchAssumption
     DEF Init, IInv, TypeOK, OneStarter, KeepersKeep, JudgesTheHolder, ReclaimsTheDead,
         Acquiring, Contents, Files, Blank, NoFile

\* Every step keeps the variables in their types.
LEMMA TypeStep == TypeOK /\ [Next]_vars => TypeOK'
<1> SUFFICES ASSUME TypeOK, [Next]_vars PROVE TypeOK'
  OBVIOUS
<1> USE ProcsAssumption, PidsAssumption, ClockAssumption, SwitchAssumption
        DEF TypeOK, Acquiring
<1>1. ASSUME NEW p \in Procs, Start(p) PROVE TypeOK'
  BY <1>1 DEF Start, Contents, Files
<1>a. \A p \in Procs : Open(p) /\ pc[p] # "off" => file' \in Files
  <2> SUFFICES ASSUME NEW p \in Procs, Open(p), pc[p] # "off" PROVE file' \in Files
    OBVIOUS
  <2>1. pid[p] \in Pids /\ 0 \in 0 .. Stale
    OBVIOUS
  <2> QED
    BY <2>1 DEF Open, Files
<1>2. ASSUME NEW p \in Procs, Create(p) PROVE TypeOK'
  <2>1. file' \in Files
    BY <1>2, <1>a DEF Create
  <2> QED
    BY <1>2, <2>1 DEF Create, Open
<1>3. ASSUME NEW p \in Procs, Write(p) PROVE TypeOK'
  <2>1. file' \in Files
    <3>1. CASE file.by = p
      <4>1. file \in [by: Procs, written: BOOLEAN, pid: Pids, age: 0 .. Stale]
        BY <3>1 DEF Files, NoFile
      <4>2. file' = [by |-> file.by, written |-> TRUE, pid |-> file.pid, age |-> 0]
        BY <1>3, <3>1, <4>1 DEF Write
      <4> QED
        BY <4>1, <4>2 DEF Files
    <3>2. CASE file.by # p
      BY <1>3, <3>2 DEF Write
    <3> QED
      BY <3>1, <3>2
  <2> QED
    BY <1>3, <2>1 DEF Write
<1>4. ASSUME NEW p \in Procs, Read(p) PROVE TypeOK'
  BY <1>4 DEF Read, Files, NoFile, Contents, Blank
<1>5. ASSUME NEW p \in Procs, Judge(p) PROVE TypeOK'
  BY <1>5 DEF Judge, Contents
<1>6. ASSUME NEW p \in Procs, Remove(p) PROVE TypeOK'
  BY <1>6 DEF Remove, Files
<1>7. ASSUME NEW p \in Procs, Recreate(p) PROVE TypeOK'
  <2>1. file' \in Files
    BY <1>7, <1>a DEF Recreate
  <2> QED
    BY <1>7, <2>1 DEF Recreate, Open
<1>8. ASSUME NEW p \in Procs, Heartbeat(p) PROVE TypeOK'
  BY <1>8 DEF Heartbeat, Exists, Files, NoFile
<1>9. ASSUME NEW p \in Procs, Release(p) PROVE TypeOK'
  BY <1>9 DEF Release, Files
<1>10. ASSUME NEW p \in Procs, Crash(p) PROVE TypeOK'
  BY <1>10 DEF Crash, Contents
<1>11. CASE Tick
  BY <1>11 DEF Tick, Exists, Files, NoFile
<1>12. CASE UNCHANGED vars
  BY <1>12 DEF vars
<1> QED
  BY <1>1, <1>2, <1>3, <1>4, <1>5, <1>6, <1>7, <1>8, <1>9, <1>10, <1>11, <1>12
     DEF Next, Acquire

\* What the invariant says of a holder rules out everybody else.
LEMMA Exclusion ==
    ASSUME IInv, NEW p \in Procs, pc[p] = "held"
    PROVE  /\ Exists
           /\ \A q \in Procs : pc[q] \in {"write", "held"} => q = p
           /\ \A q \in Procs : pc[q] \notin {"remove", "recreate"}
  BY ProcsAssumption DEF IInv, KeepersKeep, Keeps, ReclaimsTheDead, TypeOK, Exists, NoFile

\* Every step keeps the invariant, if starts are serialised.
LEMMA IInvStep == ASSUME Serial, IInv, [Next]_vars PROVE IInv'
<1>t. TypeOK /\ TypeOK'
  BY TypeStep DEF IInv
<1> USE ProcsAssumption, ClockAssumption, <1>t
<1> DEFINE Others == OneStarter /\ KeepersKeep /\ JudgesTheHolder /\ ReclaimsTheDead
<1>0. Others
  BY DEF IInv
<1> HIDE DEF Others
<1>1. ASSUME NEW p \in Procs, Start(p) PROVE Others'
  BY <1>0, <1>1 DEF Others, Start, OneStarter, KeepersKeep, Keeps, JudgesTheHolder,
     ReclaimsTheDead, Acquiring, TypeOK
<1>2. ASSUME NEW p \in Procs, Create(p) PROVE Others'
  <2>1. CASE Exists
    BY <1>0, <1>2, <2>1 DEF Others, Create, Open, OneStarter, KeepersKeep, Keeps,
       JudgesTheHolder, ReclaimsTheDead, Acquiring, TypeOK
  <2>2. CASE ~Exists
    <3>1. \A q \in Procs : pc[q] # "held"
      BY <2>2, Exclusion
    <3>2. /\ pc' = [pc EXCEPT ![p] = "write"] /\ UNCHANGED <<pid, seen>>
          /\ file' = [by |-> p, written |-> FALSE, pid |-> pid[p], age |-> 0]
      BY <1>2, <2>2 DEF Create, Open
    <3> QED
      BY <1>0, <1>2, <3>1, <3>2 DEF Others, Create, OneStarter, KeepersKeep, Keeps,
         JudgesTheHolder, ReclaimsTheDead, Acquiring, TypeOK
  <2> QED
    BY <2>1, <2>2
<1>3. ASSUME NEW p \in Procs, Write(p) PROVE Others'
  BY <1>0, <1>3 DEF Others, Write, OneStarter, KeepersKeep, Keeps, JudgesTheHolder,
     ReclaimsTheDead, Acquiring, TypeOK
<1>4. ASSUME NEW p \in Procs, Read(p) PROVE Others'
  BY <1>0, <1>4 DEF Others, Read, OneStarter, KeepersKeep, Keeps, JudgesTheHolder,
     ReclaimsTheDead, Acquiring, TypeOK
<1>5. ASSUME NEW p \in Procs, Judge(p) PROVE Others'
  <2>1. ASSUME NEW q \in Procs, pc[q] = "held" PROVE HolderAlive(p)
    <3>1. seen[p] = [by |-> q, pid |-> pid[q]] /\ Keeps(q) /\ Exists
      BY <1>0, <1>5, <2>1, Exclusion DEF Others, Judge, JudgesTheHolder, KeepersKeep
    <3>2. CASE HostOf[q] = HostOf[p]
      BY <3>1, <3>2 DEF HolderAlive, SameHost, IsAlive, Blank
    <3>3. CASE HostOf[q] # HostOf[p]
      <4>1. file.age < Stale
        BY <3>1 DEF Keeps, TypeOK, Files, NoFile
      <4> QED
        BY <3>1, <3>3, <4>1 DEF HolderAlive, SameHost
    <3> QED
      BY <3>2, <3>3
  <2> QED
    BY <1>0, <1>5, <2>1 DEF Others, Judge, OneStarter, KeepersKeep, Keeps, JudgesTheHolder,
       ReclaimsTheDead, Acquiring, TypeOK
<1>6. ASSUME NEW p \in Procs, Remove(p) PROVE Others'
  BY <1>0, <1>6 DEF Others, Remove, OneStarter, KeepersKeep, Keeps, JudgesTheHolder,
     ReclaimsTheDead, Acquiring, TypeOK
<1>7. ASSUME NEW p \in Procs, Recreate(p) PROVE Others'
  BY <1>0, <1>7 DEF Others, Recreate, Open, Exists, OneStarter, KeepersKeep, Keeps, JudgesTheHolder,
     ReclaimsTheDead, Acquiring, TypeOK
<1>8. ASSUME NEW p \in Procs, Heartbeat(p) PROVE Others'
  BY <1>0, <1>8 DEF Others, Heartbeat, OneStarter, KeepersKeep, Keeps, JudgesTheHolder,
     ReclaimsTheDead, Acquiring, TypeOK
<1>9. ASSUME NEW p \in Procs, Release(p) PROVE Others'
  BY <1>0, <1>9 DEF Others, Release, OneStarter, KeepersKeep, Keeps, JudgesTheHolder,
     ReclaimsTheDead, Acquiring, TypeOK
<1>10. ASSUME NEW p \in Procs, Crash(p) PROVE Others'
  BY <1>0, <1>10 DEF Others, Crash, OneStarter, KeepersKeep, Keeps, JudgesTheHolder,
     ReclaimsTheDead, Acquiring, TypeOK
<1>11. ASSUME Tick PROVE Others'
  <2>1. file' = [file EXCEPT !.age = @ + 1] /\ file \in [by: Procs, written: BOOLEAN,
                                                         pid: Pids, age: 0 .. Stale]
    BY <1>11 DEF Tick, Exists, TypeOK, Files
  <2>2. file'.by = file.by /\ file'.pid = file.pid /\ file'.written = file.written
    BY <2>1
  <2>3. file.age < Beat => file'.age <= Beat
    BY <2>1
  <2> QED
    BY <1>0, <1>11, <2>2, <2>3 DEF Others, Tick, OneStarter, KeepersKeep, Keeps, JudgesTheHolder,
       ReclaimsTheDead, Acquiring
<1>12. ASSUME UNCHANGED vars PROVE Others'
  BY <1>0, <1>12 DEF Others, vars, OneStarter, KeepersKeep, Keeps, JudgesTheHolder,
     ReclaimsTheDead
<1> QED
  BY <1>1, <1>2, <1>3, <1>4, <1>5, <1>6, <1>7, <1>8, <1>9, <1>10, <1>11, <1>12
     DEF Next, Acquire, IInv, Others

\* Every variable keeps its type, serialised or not.
THEOREM TypeCorrect == Spec => []TypeOK
<1>1. Init => TypeOK
  BY InitIInv DEF IInv
<1>2. TypeOK /\ [Next]_vars => TypeOK'
  BY TypeStep
<1> QED
  BY <1>1, <1>2, PTL DEF Spec

LEMMA Invariance == ASSUME Serial PROVE Spec => []IInv
<1>1. IInv /\ [Next]_vars => IInv'
  BY IInvStep
<1> QED
  BY InitIInv, <1>1, PTL DEF Spec

\* At most one process holds the volume, whoever crashes and whenever.
THEOREM MutualExclusion == ASSUME Serial PROVE Spec => []OneHolder
<1>1. IInv => OneHolder
  BY Exclusion DEF OneHolder
<1> QED
  BY Invariance, <1>1, PTL

\* The file a live holder touches, and removes on release, is its own.
THEOREM HolderOwnership == ASSUME Serial PROVE Spec => []HolderOwnsFile
<1>1. IInv => HolderOwnsFile
  BY Exclusion DEF HolderOwnsFile, IInv, KeepersKeep, Keeps
<1> QED
  BY Invariance, <1>1, PTL
=============================================================================
