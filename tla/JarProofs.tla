------------------------------- MODULE JarProofs -------------------------------
(***************************************************************************)
(* Theorems about Jar, for any number of releases and wherever the command *)
(* is renamed.                                                             *)
(*                                                                         *)
(* RunFits is about the end of a run; it follows from what the volume is   *)
(* like between any two steps of any process (a jar lies there whole or    *)
(* not at all, one under a release's own name is that release, a sidecar   *)
(* names the jar beside it) and from what a process has seen of it.        *)
(***************************************************************************)
EXTENDS Jar, TLAPS

\* What the volume holds, whoever was killed while writing to it.
JarsAreWhole  == \A p \in Paths : IsFile(p) => jar[p].whole
NamedAfterTag == \A t \in Tags : IsFile(t) => jar[t].tag = t
SidecarsAgree == \A p \in Paths : sidecar[p] # 0 => IsFile(p) /\ jar[p].tag = sidecar[p]

VolumeOK == JarsAreWhole /\ NamedAfterTag /\ SidecarsAgree

\* What a process knows of it.
StartsAfresh  == pc \in {"off", "ensure"} => path = 0 /\ found = 0
Located       == pc \in {"idle", "check", "probe", "running", "sidecar"} => IsFile(path)
Fetched       == /\ pc \in Fetching => asset # 0
                 /\ pc = "rename" => part = Whole(asset)
                 /\ pc = "sidecar" => IsFile(asset)
FoundIsUsed   == found # 0 => pc \in {"probe", "running"} /\ jar[path].tag = found
FullPassIsRun == pc = "running" => command = FullPass(jar[path].tag)
PinStays      == pin # 0 => /\ path = 0
                            /\ pc \in Fetching => ~IsFile(path)

ProcessOK ==
    StartsAfresh /\ Located /\ Fetched /\ FoundIsUsed /\ FullPassIsRun /\ PinStays

IInv == TypeOK /\ VolumeOK /\ ProcessOK
-----------------------------------------------------------------------------

\* No release has the number that stands for none.
LEMMA TagFacts == 0 \notin Tags /\ Tags \subseteq Paths /\ 0 \in Paths /\ Paths \subseteq Nat
  BY TagAssumption DEF Tags, Paths

\* The initial state satisfies the invariant.
LEMMA InitIInv == Init => IInv
<1> SUFFICES ASSUME Init PROVE IInv
  OBVIOUS
<1> USE TagAssumption DEF Tags, Paths, IsFile
<1>1. PICK t \in 0 .. latest, tagged \in BOOLEAN :
          /\ jar = [p \in Paths |-> IF p = 0 /\ t # 0 THEN Whole(t) ELSE NoJar]
          /\ sidecar = [p \in Paths |-> IF p = 0 /\ tagged THEN t ELSE 0]
  BY DEF Init
<1>2. latest \in 1 .. MaxTag /\ t \in 0 .. MaxTag
  BY <1>1 DEF Init
<1>3. NoJar \in Jars /\ Whole(t) \in Jars
  BY <1>2 DEF Jars, NoJar, Whole
<1>4. jar \in [Paths -> Jars]
  BY <1>1, <1>3
<1>5. \A p \in Paths : jar[p].tag <= latest
  BY <1>1, <1>2 DEF NoJar, Whole
<1>6. sidecar \in [Paths -> 0 .. latest]
  BY <1>1, <1>2
<1>7. TypeOK
  BY <1>2, <1>3, <1>4, <1>5, <1>6 DEF Init, TypeOK
<1>8. \A p \in Paths : p # 0 => jar[p] = NoJar /\ sidecar[p] = 0
  BY <1>1
<1>9. jar[0] = (IF t # 0 THEN Whole(t) ELSE NoJar) /\ sidecar[0] = (IF tagged THEN t ELSE 0)
  BY <1>1
<1>10. Whole(t).whole /\ Whole(t).tag = t
  BY DEF Whole
<1>11. Whole(t) # NoJar
  BY DEF Whole, NoJar
<1>12. VolumeOK
  BY <1>8, <1>9, <1>10, <1>11 DEF VolumeOK, JarsAreWhole, NamedAfterTag, SidecarsAgree
<1> QED
  BY <1>7, <1>12
     DEF Init, IInv, ProcessOK, StartsAfresh, Located, Fetched, FoundIsUsed, FullPassIsRun,
         PinStays, Fetching

\* A whole jar shows the markers of its release, and Detect reads them right.
LEMMA DetectsFullPass == \A t : Detect(Markers(t)) = FullPass(t)
  BY DEF Detect, Markers, FullPass

\* The jar being written is a jar.
LEMMA JarTypes ==
    TypeOK => Whole(asset) \in Jars /\ [tag |-> asset, whole |-> FALSE] \in Jars
  BY TagAssumption DEF TypeOK, Whole, Jars, Tags

\* What is being fetched is a release.
LEMMA AssetIsTag == TypeOK /\ ProcessOK /\ pc \in Fetching => asset \in Tags
  BY TagAssumption DEF TypeOK, ProcessOK, Fetched, Tags

\* A step that leaves the volume alone keeps what is said of it.
LEMMA VolumeKept == VolumeOK /\ UNCHANGED volume => VolumeOK'
  BY DEF VolumeOK, JarsAreWhole, NamedAfterTag, SidecarsAgree, IsFile, volume

\* The end of a process.
LEMMA OffStep == IInv /\ Off /\ UNCHANGED <<latest, volume, part>> => IInv'
<1> SUFFICES ASSUME IInv, Off, UNCHANGED <<latest, volume, part>> PROVE IInv'
  OBVIOUS
<1>1. VolumeOK'
  BY VolumeKept DEF IInv
<1>2. TypeOK'
  BY TagFacts DEF IInv, Off, TypeOK, volume, IsFile, Tags, Fetching
<1>3. ProcessOK'
  BY
     DEF IInv, Off, ProcessOK, StartsAfresh, Located, Fetched, FoundIsUsed, FullPassIsRun,
         PinStays, Fetching
<1> QED
  BY <1>1, <1>2, <1>3 DEF IInv

\* Every step of the program and of its environment preserves the invariant.
LEMMA StepIInv == IInv /\ [Next]_vars => IInv'
<1> SUFFICES ASSUME IInv, [Next]_vars PROVE IInv'
  OBVIOUS
<1> USE TagFacts
   DEF IInv, ProcessOK, StartsAfresh, Located, Fetched, FoundIsUsed, FullPassIsRun,
                     PinStays, Fetching
<1>1. CASE Start
  <2>1. VolumeOK'
    BY <1>1, VolumeKept DEF Start, volume
  <2>2. TypeOK'
    BY <1>1 DEF Start, TypeOK, volume, IsFile, Tags
  <2>3. ProcessOK'
    BY <1>1 DEF TypeOK, Start, volume, IsFile, Tags
  <2> QED
    BY <2>1, <2>2, <2>3
<1>2. CASE Resolve
  <2>1. VolumeOK'
    BY <1>2, VolumeKept DEF Resolve, volume
  <2>2. TypeOK'
    BY <1>2 DEF Resolve, Ready, TypeOK, volume, IsFile, Tags
  <2>3. ProcessOK'
    BY <1>2 DEF TypeOK, Resolve, Ready, volume, IsFile, Tags
  <2> QED
    BY <2>1, <2>2, <2>3
<1>3. CASE FindForBoot
  <2>1. VolumeOK'
    BY <1>3, VolumeKept DEF FindForBoot, volume
  <2>2. TypeOK'
    BY <1>3 DEF FindForBoot, TypeOK, volume, IsFile, Tags
  <2>3. ProcessOK'
    BY <1>3 DEF TypeOK, FindForBoot, volume, IsFile, Tags
  <2> QED
    BY <2>1, <2>2, <2>3
<1>4. CASE Trigger
  <2>1. VolumeOK'
    BY <1>4, VolumeKept DEF Trigger, volume
  <2>2. TypeOK'
    BY <1>4 DEF Trigger, TypeOK, volume, IsFile, Tags
  <2>3. ProcessOK'
    BY <1>4 DEF TypeOK, Trigger, volume, IsFile, Tags
  <2> QED
    BY <2>1, <2>2, <2>3
<1>5. CASE KeepJar
  <2>1. VolumeOK'
    BY <1>5, VolumeKept DEF KeepJar, volume
  <2>2. TypeOK'
    BY <1>5 DEF KeepJar, TypeOK, volume, IsFile, Tags
  <2>3. ProcessOK'
    BY <1>5 DEF TypeOK, KeepJar, volume, IsFile, Tags
  <2> QED
    BY <2>1, <2>2, <2>3
<1>6. CASE AlreadyCurrent
  <2>1. VolumeOK'
    BY <1>6, VolumeKept DEF AlreadyCurrent, volume
  <2>2. TypeOK'
    BY <1>6 DEF AlreadyCurrent, UpToDate, TypeOK, volume, IsFile, Tags
  <2>3. ProcessOK'
    BY <1>6
       DEF TypeOK, AlreadyCurrent, UpToDate, volume, IsFile, Tags, VolumeOK, SidecarsAgree
  <2> QED
    BY <2>1, <2>2, <2>3
<1>7. CASE FindForRun
  <2>1. VolumeOK'
    BY <1>7, VolumeKept DEF FindForRun, volume
  <2>2. TypeOK'
    BY <1>7 DEF FindForRun, TypeOK, volume, IsFile, Tags
  <2>3. ProcessOK'
    BY <1>7 DEF TypeOK, FindForRun, volume, IsFile, Tags
  <2> QED
    BY <2>1, <2>2, <2>3
<1>8. CASE Open
  <2>1. VolumeOK'
    BY <1>8, VolumeKept DEF Open, volume
  <2>2. TypeOK'
    BY <1>8, JarTypes DEF Open, TypeOK, volume, IsFile, Tags
  <2>3. ProcessOK'
    BY <1>8 DEF TypeOK, Open, volume, IsFile, Tags
  <2> QED
    BY <2>1, <2>2, <2>3
<1>9. CASE Write
  <2>1. VolumeOK'
    BY <1>9, VolumeKept DEF Write, volume
  <2>2. TypeOK'
    BY <1>9, JarTypes DEF Write, TypeOK, volume, IsFile, Tags
  <2>3. ProcessOK'
    BY <1>9 DEF TypeOK, Write, volume, IsFile, Tags
  <2> QED
    BY <2>1, <2>2, <2>3
<1>10. CASE CannotFind
  <2>1. CASE proc = "cli"
    BY <1>10, <2>1, OffStep DEF CannotFind, Unavailable
  <2>2. CASE proc # "cli"
    <3>1. VolumeOK'
      BY <1>10, VolumeKept DEF CannotFind
    <3>2. TypeOK'
      BY <1>10, <2>2 DEF CannotFind, Unavailable, TypeOK, volume, IsFile, Tags
    <3>3. ProcessOK'
      BY <1>10, <2>2 DEF CannotFind, Unavailable, TypeOK, volume, IsFile, Tags
    <3> QED
      BY <3>1, <3>2, <3>3
  <2> QED
    BY <2>1, <2>2
<1>11. CASE FetchFails
  <2>1. CASE proc = "cli" /\ ~ForRun
    BY <1>11, <2>1, OffStep DEF FetchFails, Unavailable
  <2>2. CASE ForRun \/ proc # "cli"
    <3>1. VolumeOK'
      BY <1>11, VolumeKept DEF FetchFails
    <3>2. TypeOK'
      BY <1>11, <2>2 DEF FetchFails, Unavailable, ForRun, TypeOK, volume, IsFile, Tags
    <3>3. ProcessOK'
      BY <1>11, <2>2 DEF FetchFails, Unavailable, ForRun, TypeOK, volume, IsFile, Tags
    <3> QED
      BY <3>1, <3>2, <3>3
  <2> QED
    BY <2>1, <2>2
<1>12. CASE AlreadyFetched
  <2> USE <1>12 DEF AlreadyFetched
  <2>1. latest \in Tags /\ IsFile(latest) /\ jar[latest].tag = latest
    BY DEF TypeOK, VolumeOK, NamedAfterTag
  <2>2. sidecar' = [sidecar EXCEPT ![latest] = latest] /\ jar' = jar
    OBVIOUS
  <2>3. VolumeOK'
    BY <2>1, <2>2 DEF VolumeOK, JarsAreWhole, NamedAfterTag, SidecarsAgree, TypeOK, IsFile
  <2>4. TypeOK'
    BY <2>1, <2>2 DEF TypeOK, volume, IsFile, Tags
  <2>5. ProcessOK'
    BY <2>1, <2>2 DEF TypeOK, volume, IsFile, Tags
  <2> QED
    BY <2>3, <2>4, <2>5
<1>13. CASE Rename
  <2> USE <1>13 DEF Rename
  <2>1. part = Whole(asset) /\ asset \in Tags /\ Dest \in Paths
    BY AssetIsTag DEF Dest
  <2>2. Whole(asset).tag = asset /\ Whole(asset).whole /\ Whole(asset) # NoJar
    BY DEF Whole, NoJar
  <2>3. jar' = [jar EXCEPT ![Dest] = Whole(asset)] /\ jar'[Dest] = Whole(asset)
        /\ \A p \in Paths : p # Dest => jar'[p] = jar[p]
    BY <2>1 DEF TypeOK
  <2>4. ForRun => Dest = asset
    BY DEF Dest
  <2>5. ~ForRun => path = 0 /\ Dest = 0 /\ sidecar[0] = 0
    BY DEF Dest, ForRun, TypeOK, VolumeOK, SidecarsAgree
  <2>6. JarsAreWhole' /\ NamedAfterTag'
    BY <2>1, <2>2, <2>3, <2>4, <2>5 DEF VolumeOK, JarsAreWhole, NamedAfterTag, IsFile
  <2>7. SidecarsAgree'
    <3> SUFFICES ASSUME NEW p \in Paths, sidecar[p] # 0
                 PROVE  jar'[p] # NoJar /\ jar'[p].tag = sidecar[p]
      BY DEF SidecarsAgree, IsFile
    <3>1. IsFile(p) /\ jar[p].tag = sidecar[p]
      BY DEF VolumeOK, SidecarsAgree
    <3>2. CASE p # Dest
      BY <2>3, <3>1, <3>2 DEF IsFile
    <3>3. CASE p = Dest
      <4>1. p = asset
        BY <2>4, <2>5, <3>3
      <4>2. jar[p].tag = asset
        BY <2>1, <3>1, <4>1 DEF VolumeOK, NamedAfterTag
      <4> QED
        BY <2>2, <2>3, <3>1, <3>3, <4>2
    <3> QED
      BY <3>2, <3>3
  <2>8. IsFile(path)' /\ (ForRun => IsFile(asset)')
    BY <2>1, <2>2, <2>3, <2>4, <2>5 DEF ForRun, IsFile, TypeOK
  <2>9. TypeOK'
    <3>1. jar' \in [Paths -> Jars]
      BY <2>1, <2>3, JarTypes DEF TypeOK
    <3>2. \A p \in Paths : jar'[p].tag <= latest
      BY <2>1, <2>2, <2>3 DEF TypeOK
    <3>3. NoJar \in Jars
      BY TagAssumption DEF NoJar, Jars
    <3> QED
      BY <3>1, <3>2, <3>3, <2>8 DEF TypeOK, Ready
  <2>10. ProcessOK'
    BY <2>5, <2>8 DEF ForRun, Ready, TypeOK
  <2> QED
    BY <2>6, <2>7, <2>9, <2>10 DEF VolumeOK
<1>14. CASE TagJar
  <2> USE <1>14 DEF TagJar
  <2>1. asset \in Tags /\ IsFile(asset) /\ jar[asset].tag = asset
    BY AssetIsTag DEF VolumeOK, NamedAfterTag
  <2>5. pin = 0
    OBVIOUS
  <2>2. VolumeOK'
    BY <2>1 DEF VolumeOK, JarsAreWhole, NamedAfterTag, SidecarsAgree, TypeOK, IsFile
  <2>3. TypeOK'
    BY <2>1 DEF TypeOK, volume, IsFile, Tags
  <2>4. ProcessOK'
    BY <2>1, <2>5 DEF TypeOK, volume, IsFile, Tags
  <2> QED
    BY <2>2, <2>3, <2>4
<1>15. CASE Probe
  <2>1. VolumeOK'
    BY <1>15, VolumeKept DEF Probe
  <2>2. jar[path].whole
    BY <1>15 DEF Probe, TypeOK, VolumeOK, JarsAreWhole
  <2>3. command' = FullPass(jar[path].tag)
    BY <1>15, <2>2, DetectsFullPass DEF Probe
  <2>4. TypeOK'
    BY <1>15, <2>3 DEF Probe, FullPass, TypeOK, volume, IsFile, Tags
  <2>5. ProcessOK'
    BY <1>15, <2>3 DEF Probe, TypeOK, volume, IsFile, Tags
  <2> QED
    BY <2>1, <2>4, <2>5
<1>16. CASE RunOver
  <2>1. CASE proc = "server"
    <3>1. VolumeOK'
      BY <1>16, VolumeKept DEF RunOver
    <3>2. TypeOK'
      BY <1>16, <2>1 DEF RunOver, TypeOK, volume, IsFile, Tags
    <3>3. ProcessOK'
      BY <1>16, <2>1 DEF RunOver, TypeOK, volume, IsFile, Tags
    <3> QED
      BY <3>1, <3>2, <3>3
  <2>2. CASE proc # "server"
    BY <1>16, <2>2, OffStep DEF RunOver
  <2> QED
    BY <2>1, <2>2
<1>17. CASE Crash
  BY <1>17, OffStep DEF Crash
<1>18. CASE Release
  <2>1. VolumeOK'
    BY <1>18, VolumeKept DEF Release
  <2>2. latest' \in Tags /\ latest' = latest + 1 /\ 0 .. latest \subseteq 0 .. latest'
    BY <1>18, TagAssumption DEF Release, TypeOK, Tags
  <2>3. \A p \in Paths : jar[p].tag <= latest'
    BY <2>2, TagAssumption DEF TypeOK, Jars, Tags
  <2>4. sidecar \in [Paths -> 0 .. latest']
    BY <2>2 DEF TypeOK
  <2>5. TypeOK'
    BY <1>18, <2>2, <2>3, <2>4 DEF Release, TypeOK, volume, IsFile
  <2>6. ProcessOK'
    BY <1>18 DEF Release, volume, IsFile
  <2> QED
    BY <2>1, <2>5, <2>6
<1>19. CASE UNCHANGED vars
  <2>1. VolumeOK'
    BY <1>19, VolumeKept DEF vars, volume
  <2> QED
    BY <1>19, <2>1 DEF vars, TypeOK, volume, IsFile, Tags
<1> QED
  BY <1>1, <1>2, <1>3, <1>4, <1>5, <1>6, <1>7, <1>8, <1>9, <1>10, <1>11, <1>12, <1>13, <1>14,
     <1>15, <1>16, <1>17, <1>18, <1>19 DEF Next

\* The invariant holds in every reachable state.
LEMMA Invariance == Spec => []IInv
  BY InitIInv, StepIInv, PTL DEF Spec
-----------------------------------------------------------------------------

\* Every reachable state has its type; in particular the configured path of a
\* process is never moved to a jar that is not there.
THEOREM TypeCorrect == Spec => []TypeOK
<1>1. IInv => TypeOK
  BY DEF IInv
<1> QED
  BY <1>1, Invariance, PTL

\* Every run drives a whole jar with that release's command for a full pass, and the
\* release its check found, whatever was killed or refused before.
THEOREM EveryRunFits == Spec => []RunFits
<1>1. IInv => RunFits
  BY
     DEF IInv, RunFits, TypeOK, VolumeOK, JarsAreWhole, ProcessOK, Located, FoundIsUsed,
         FullPassIsRun
<1> QED
  BY <1>1, Invariance, PTL

\* A pinned process never leaves the configured jar.
THEOREM PinIsHonoured == Spec => []PinHonoured
<1>1. IInv => PinHonoured
  BY DEF IInv, PinHonoured, ProcessOK, PinStays
<1> QED
  BY <1>1, Invariance, PTL
=============================================================================
