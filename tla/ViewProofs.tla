----------------------------- MODULE ViewProofs -----------------------------
(***************************************************************************)
(* What the row of a permutation shows, for every number of items and      *)
(* every announce step: the reducer folds the lines into the row by other  *)
(* rules than the tracker's, and both come to the same phase and the same  *)
(* count, because the script is read in the order it was told.             *)
(***************************************************************************)
EXTENDS View, RunOneProofs

\* The row folds the lines by rules of its own, and tells the tracker's story.
Shows ==
    row = "introspecting" =>
        /\ shown.phase = IF tracker.phase = "cafe" THEN "cafe" ELSE "items"
        /\ shown.done = IF tracker.phase = "cafe" THEN 0 ELSE tracker.items
        /\ Heard >= 0

ViewInv == Typed /\ Quiet /\ InOrder /\ OnlyAnnounced /\ Reporting /\ Shows

\* Only a line read brings a row to introspecting or changes what it shows there.
LEMMA OnlyReadingShows ==
    ASSUME Typed, Quiet, Reporting, [ViewNext]_viewVars, ~Consume, row' = "introspecting"
    PROVE  row = "introspecting" /\ UNCHANGED <<tracker, shown>>
<1> USE DEF control, process, files, Worker
<1>1. CASE UNCHANGED viewVars
  BY <1>1 DEF viewVars, vars
<1>2. CASE ViewNext
  <2>1. Next
    BY <1>2 DEF ViewNext
  <2>2. row = "introspecting"
    <3>1. ~(GiveUpBeforeAttempt \/ Seed \/ GiveUpBeforeSpawn \/ Spawn \/ Collect \/ BackoffOver
            \/ BackoffAborted \/ StallTimeout \/ Escalate \/ Close \/ ChildError \/ Abort \/ Jvm
            \/ Returned) \/ row' = row
      BY DEF GiveUpBeforeAttempt, Seed, GiveUpBeforeSpawn, Spawn, Collect, CollectFrom, BackoffOver,
             BackoffAborted, StallTimeout, Escalate, Close, ChildError, Abort, Jvm, JvmTrouble,
             JvmRefused, JvmStart, JvmIntrospect, JvmCafe, JvmSave, JvmExit, DescendantExit,
             Returned, vars
    <3>2. ~(BeginAttempt \/ Succeed \/ Judge \/ HardTimeout)
      BY DEF BeginAttempt, Succeed, Judge, Threw, HardTimeout
    <3>3. ~LoginTimeout \/ row' = row
      BY DEF LoginTimeout
    <3> QED
      BY <2>1, <3>1, <3>2, <3>3 DEF Next, Continue
  <2>3. ~Spawn
    BY <2>2 DEF Spawn, Reporting
  <2>4. tracker' = tracker
    BY <2>1, <2>3
       DEF Next, Continue, Returned, vars, GiveUpBeforeAttempt, BeginAttempt, Seed,
           GiveUpBeforeSpawn, Collect, CollectFrom, Succeed, Judge, BackoffOver, BackoffAborted,
           HardTimeout, LoginTimeout, StallTimeout, Escalate, Close, ChildError, Abort, Jvm,
           JvmTrouble, JvmRefused, JvmStart, JvmIntrospect, JvmCafe, JvmSave, JvmExit, DescendantExit
  <2>5. ~Reads
    <3>1. pipe \in Seq(Lines) /\ Total \in Nat /\ jvm.items \in 0 .. Total
      BY ItemsAssumption DEF Typed, TypeOK
    <3>2. /\ \A line \in Lines : Says(line) => ~Reads
          /\ UNCHANGED pipe => ~Reads
      BY <3>1, SaysAppends DEF Reads
    <3>3. CASE Silence \/ Launches
      BY <3>2, <3>3 DEF Silence, Launches
    <3>4. CASE \E line \in Lines : Noise(line)
      BY <3>2, <3>4 DEF Noise
    <3>5. CASE JvmStart \/ JvmCafe
      <4>1. Line("items") \in Lines /\ Line("cafe") \in Lines
        BY <3>1 DEF Line, Lines
      <4> QED
        BY <3>2, <3>5, <4>1 DEF JvmStart, JvmCafe
    <3>6. CASE JvmIntrospect
      <4>1. Progress(jvm.items + 1) \in Lines
        BY <3>1, <3>6 DEF JvmIntrospect, Progress, Lines
      <4> QED
        BY <3>2, <3>6, <4>1 DEF JvmIntrospect
    <3> QED
      BY <2>1, <3>3, <3>4, <3>5, <3>6, Conversation
  <2>6. shown' = shown
    BY <1>2, <2>5 DEF ViewNext
  <2> QED
    BY <2>2, <2>4, <2>6
<1> QED
  BY <1>1, <1>2

\* A line read moves the row and the tracker alike, and neither back.
LEMMA ReadingShows ==
    ASSUME ViewInv, ViewNext, Consume, row' = "introspecting"
    PROVE  /\ Shows'
           /\ row = "introspecting" /\ tracker.phase = "cafe" => tracker'.phase = "cafe"
<1>1. /\ pipe \in Seq(Lines) /\ pipe # <<>> /\ pipe' = Tail(pipe)
      /\ tracker' = Accept(tracker, pipe[1]) /\ jvm' = jvm
  BY ConsumeMoves DEF ViewInv
<1>2. /\ Len(pipe) \in Nat \ {0} /\ Len(pipe') = Len(pipe) - 1 /\ Head(pipe) = pipe[1]
      /\ pipe[1] \in Lines /\ 1 \in 1 .. Len(pipe)
  BY <1>1, ReadsHead
<1> DEFINE line == pipe[1]
<1>3. shown' = Folded(line)
  BY <1>2 DEF ViewNext, Reads
<1>4. row' = RowAfter(line)
  BY <1>2 DEF Consume
<1>5. /\ line.kind \in {"transient", "notInTcrs", "items", "cafe", "progress"}
      /\ line.done \in 0 .. Total
      /\ line.kind = "progress" => line.done > 0
  BY <1>2 DEF Lines, ViewInv, OnlyAnnounced
<1>6. /\ tracker \in [phase: {"none", "items", "cafe"}, items: 0 .. Total,
                      started: BOOLEAN, sawTransient: BOOLEAN, notInTcrs: BOOLEAN]
      /\ Total \in Nat
  BY ItemsAssumption DEF ViewInv, Typed, TypeOK
<1>7. Tells(line) => Heard < Mark(line)
  BY <1>2 DEF ViewInv, InOrder
<1>8. tracker' = Accept(tracker, line)
  BY <1>1
<1>9. /\ line.kind = "progress" =>
              tracker'.items = line.done /\ tracker'.phase = tracker.phase /\ tracker.phase # "cafe"
      /\ line.kind # "progress" => tracker'.items = tracker.items
  BY ConsumeCounts DEF ViewInv
<1> HIDE DEF line
<1>10. CASE line.kind \in {"transient", "notInTcrs"}
  <2>1. row = "introspecting" /\ shown' = shown
    BY <1>3, <1>4, <1>10 DEF RowAfter, Folded
  <2>2. tracker'.phase = tracker.phase /\ tracker'.items = tracker.items
    BY <1>6, <1>8, <1>10 DEF Accept
  <2>3. Heard' = Heard
    BY <2>2 DEF Heard
  <2> QED
    BY <2>1, <2>2, <2>3 DEF ViewInv, Shows
<1>11. ~(line.kind \in {"transient", "notInTcrs"}) => ~Settled(row)
  BY <1>4 DEF RowAfter, Settled
<1>12. CASE line.kind = "items"
  <2>1. shown' = [phase |-> "items", done |-> 0]
    BY <1>3, <1>11, <1>12 DEF Folded
  <2>2. tracker'.phase = "items"
    BY <1>6, <1>8, <1>12 DEF Accept
  <2>3. Heard < 0
    BY <1>7, <1>12 DEF Tells, Mark
  <2>4. tracker.items = 0 /\ tracker.phase # "cafe"
    BY <1>6, <2>3 DEF Heard
  <2>5. Heard' = 0
    BY <1>9, <1>12, <2>2, <2>4 DEF Heard
  <2> QED
    BY <1>9, <1>12, <2>1, <2>2, <2>4, <2>5 DEF Shows
<1>13. CASE line.kind = "cafe"
  <2>1. shown' = [phase |-> "cafe", done |-> 0]
    BY <1>3, <1>11, <1>13 DEF Folded
  <2>2. tracker'.phase = "cafe"
    BY <1>6, <1>8, <1>13 DEF Accept
  <2>3. Heard' = Total + 1
    BY <2>2 DEF Heard
  <2> QED
    BY <1>6, <2>1, <2>2, <2>3 DEF Shows
<1>14. CASE line.kind = "progress"
  <2>1. shown' = [phase |-> IF row = "introspecting" THEN shown.phase ELSE "items", done |-> line.done]
    BY <1>3, <1>11, <1>14 DEF Folded
  <2>2. row = "introspecting" => shown.phase = "items"
    BY <1>9, <1>14 DEF ViewInv, Shows
  <2>3. Heard' = line.done
    BY <1>5, <1>9, <1>14 DEF Heard
  <2> QED
    BY <1>5, <1>9, <1>14, <2>1, <2>2, <2>3 DEF Shows
<1> QED
  BY <1>5, <1>10, <1>12, <1>13, <1>14

LEMMA ViewStep == ViewInv /\ [ViewNext]_viewVars => ViewInv'
<1> SUFFICES ASSUME ViewInv, [ViewNext]_viewVars PROVE ViewInv'
  OBVIOUS
<1>1. [Next]_vars
  BY DEF ViewNext, viewVars
<1>2. Typed' /\ Quiet' /\ InOrder' /\ OnlyAnnounced' /\ Reporting'
  BY <1>1, TypeStep, QuietStep, InOrderStep, OnlyAnnouncedStep, ReportingStep DEF ViewInv
<1>3. Shows'
  <2>1. CASE row' # "introspecting"
    BY <2>1 DEF Shows
  <2>2. CASE row' = "introspecting" /\ ~Consume
    <3>1. row = "introspecting" /\ UNCHANGED <<tracker, shown>>
      BY <2>2, OnlyReadingShows DEF ViewInv
    <3> QED
      BY <3>1 DEF ViewInv, Shows, Heard
  <2>3. CASE row' = "introspecting" /\ Consume
    <3>1. ViewNext
      <4>1. pipe' # pipe
        <5>1. pipe \in Seq(Lines) /\ pipe # <<>> /\ pipe' = Tail(pipe)
          BY <2>3, ConsumeMoves DEF ViewInv
        <5> QED
          BY <5>1
      <4> QED
        BY <4>1 DEF viewVars, vars
    <3> QED
      BY <2>3, <3>1, ReadingShows
  <2> QED
    BY <2>1, <2>2, <2>3
<1> QED
  BY <1>2, <1>3 DEF ViewInv

LEMMA InitView == ViewInit => ViewInv
<1> SUFFICES ASSUME ViewInit PROVE ViewInv
  OBVIOUS
<1>1. Init
  BY DEF ViewInit
<1>2. Typed /\ Quiet /\ InOrder /\ OnlyAnnounced /\ Reporting
  BY <1>1, InitIInv, InitInOrder, InitReport DEF IInv, ReportInv
<1>3. Shows
  BY <1>1 DEF Init, Shows
<1> QED
  BY <1>2, <1>3 DEF ViewInv

LEMMA Quotients ==
    ASSUME NEW a \in Nat, NEW b \in Nat \ {0}
    PROVE  /\ a \div b \in Nat
           /\ b * (a \div b) <= a /\ a < b * (a \div b) + b
  OBVIOUS

\* A count's percentage rises with it, and is 100 only at the end.
LEMMA Percents ==
    ASSUME NEW d \in 0 .. Total, NEW e \in 0 .. Total, d <= e
    PROVE  /\ PercentFor(d) \in Nat /\ PercentFor(e) \in Nat
           /\ PercentFor(d) <= PercentFor(e)
           /\ e # Total => PercentFor(e) < 100
<1> DEFINE p == PercentFor(d)
           q == PercentFor(e)
<1>1. Total \in Nat \ {0} /\ d * 100 \in Nat /\ e * 100 \in Nat /\ d * 100 <= e * 100
  BY ItemsAssumption
<1>2. /\ p \in Nat /\ Total * p <= d * 100
      /\ q \in Nat /\ Total * q <= e * 100 /\ e * 100 < Total * q + Total
  BY <1>1, Quotients DEF PercentFor
<1> HIDE DEF p, q
<1>3. p <= q
  <2> SUFFICES ASSUME q + 1 <= p PROVE FALSE
    BY <1>2
  <2>1. Total * (q + 1) <= Total * p
    BY <1>1, <1>2
  <2>2. Total * (q + 1) = Total * q + Total
    BY <1>1, <1>2
  <2>3. Total * p \in Int /\ Total * q \in Int
    BY <1>1, <1>2
  <2> QED
    BY <1>1, <1>2, <2>1, <2>2, <2>3
<1>4. ASSUME e # Total PROVE q < 100
  <2> SUFFICES ASSUME 100 <= q PROVE FALSE
    BY <1>2
  <2>1. Total * 100 <= Total * q
    BY <1>1, <1>2
  <2>2. e * 100 < Total * 100
    BY <1>1, <1>4
  <2>3. Total * q \in Int
    BY <1>1, <1>2
  <2> QED
    BY <1>1, <1>2, <2>1, <2>2, <2>3
<1> QED
  BY <1>2, <1>3, <1>4 DEF p, q

LEMMA Fillings ==
    ASSUME NEW p \in 0 .. 100, NEW q \in 0 .. 100, p <= q
    PROVE  FilledCells(p) \in Int /\ FilledCells(q) \in Int /\ FilledCells(p) <= FilledCells(q)
  BY DEF FilledCells, BarWidth

LEMMA ShownCounts ==
    ASSUME ViewInv, ~Announced(Total)
    PROVE  /\ tracker.items \in 0 .. Total - 1
           /\ row = "introspecting" =>
                /\ ProgressPercent = IF tracker.phase = "cafe" THEN 99 ELSE PercentFor(tracker.items)
                /\ RowPercent = IF tracker.phase = "cafe" THEN 100 ELSE PercentFor(tracker.items)
<1>1. tracker.items \in 0 .. Total - 1
  BY ItemsAssumption DEF ViewInv, Typed, TypeOK, OnlyAnnounced
<1> QED
  BY <1>1 DEF ViewInv, Shows, ProgressPercent, RowPercent, CafePercent

\* The row's phase and count are those its introspect will be judged by, and a
\* full cell means an end, if the last item is none that is announced (12070 of
\* every 100th): a bar that counted it would be full before the cafe phases.
THEOREM BarsAreHonest ==
    ASSUME ~Announced(Total)
    PROVE  ViewSpec => []BarIsHonest
<1>1. ViewInv => BarIsHonest
  <2> SUFFICES ASSUME ViewInv PROVE BarIsHonest
    OBVIOUS
  <2>1. ASSUME row = "introspecting" PROVE ProgressPercent # 100
    <3>1. tracker.items \in 0 .. Total - 1 /\ Total \in Nat
      BY ShownCounts, ItemsAssumption
    <3>2. PercentFor(tracker.items) \in Nat /\ PercentFor(tracker.items) < 100
      BY <3>1, Percents
    <3> QED
      BY <2>1, <3>2, ShownCounts
  <2>2. row \notin {"introspecting", "done", "failed"} => ProgressPercent = 0
    BY DEF ProgressPercent
  <2> QED
    BY <2>1, <2>2 DEF BarIsHonest, ViewInv, Shows
<1> QED
  BY <1>1, InitView, ViewStep, PTL DEF ViewSpec

\* A bar never moves back while its introspect is shown, nor at the turn to the
\* cafe phases, under the same condition.
THEOREM BarsNeverFallBack ==
    ASSUME ~Announced(Total)
    PROVE  ViewSpec => BarNeverFallsBack
<1>1. ViewInv /\ ViewInv' /\ [ViewNext]_viewVars =>
         [row = "introspecting" /\ row' = "introspecting" =>
             /\ ProgressPercent' >= ProgressPercent
             /\ FilledCells(RowPercent') >= FilledCells(RowPercent)]_viewVars
  <2> SUFFICES ASSUME ViewInv, ViewInv', ViewNext, row = "introspecting", row' = "introspecting"
               PROVE  /\ ProgressPercent' >= ProgressPercent
                      /\ FilledCells(RowPercent') >= FilledCells(RowPercent)
    OBVIOUS
  <2> DEFINE d == tracker.items
             e == tracker'.items
  <2>1. /\ d \in 0 .. Total - 1 /\ Total \in Nat
        /\ ProgressPercent = IF tracker.phase = "cafe" THEN 99 ELSE PercentFor(d)
        /\ RowPercent = IF tracker.phase = "cafe" THEN 100 ELSE PercentFor(d)
    BY ShownCounts, ItemsAssumption
  <2>2. /\ e \in 0 .. Total - 1
        /\ ProgressPercent' = IF tracker'.phase = "cafe" THEN 99 ELSE PercentFor(e)
        /\ RowPercent' = IF tracker'.phase = "cafe" THEN 100 ELSE PercentFor(e)
    <3>1. e \in 0 .. Total - 1
      BY ItemsAssumption DEF ViewInv, Typed, TypeOK, OnlyAnnounced, Announced
    <3>2. /\ shown'.phase = IF tracker'.phase = "cafe" THEN "cafe" ELSE "items"
          /\ shown'.done = IF tracker'.phase = "cafe" THEN 0 ELSE e
      BY DEF ViewInv, Shows
    <3> QED
      BY <3>1, <3>2 DEF ProgressPercent, RowPercent, CafePercent, PercentFor
  <2>3. d <= e /\ (tracker.phase = "cafe" => tracker'.phase = "cafe")
    <3>1. CASE Consume
      BY <3>1, <2>1, <2>2, ConsumeCounts, ReadingShows DEF ViewInv
    <3>2. CASE ~Consume
      <4>1. tracker' = tracker
        BY <3>2, OnlyReadingShows DEF ViewInv
      <4> QED
        BY <2>1, <4>1
    <3> QED
      BY <3>1, <3>2
  <2> HIDE DEF d, e
  <2>4. /\ PercentFor(d) \in 0 .. 99 /\ PercentFor(e) \in 0 .. 99
        /\ PercentFor(d) <= PercentFor(e)
    <3>1. d \in 0 .. Total /\ e \in 0 .. Total /\ d # Total /\ e # Total
      BY <2>1, <2>2
    <3>2. /\ PercentFor(d) \in Nat /\ PercentFor(e) \in Nat /\ PercentFor(d) <= PercentFor(e)
          /\ PercentFor(e) < 100
      BY <2>3, <3>1, Percents
    <3> QED
      BY <3>2
  <2>5. ProgressPercent' >= ProgressPercent
    BY <2>1, <2>2, <2>3, <2>4
  <2>6. RowPercent \in 0 .. 100 /\ RowPercent' \in 0 .. 100 /\ RowPercent <= RowPercent'
    BY <2>1, <2>2, <2>3, <2>4
  <2>7. /\ FilledCells(RowPercent) \in Int /\ FilledCells(RowPercent') \in Int
        /\ FilledCells(RowPercent) <= FilledCells(RowPercent')
    BY <2>6, Fillings
  <2> QED
    BY <2>5, <2>7
<1> QED
  BY <1>1, InitView, ViewStep, PTL DEF ViewSpec, BarNeverFallsBack
=============================================================================
