---------------------------- MODULE StreamProofs ----------------------------
(***************************************************************************)
(* What the live stream promises, for any number of clients, runs, events, *)
(* frames on their way and lost connections: by induction over the frames, *)
(* what folding them gives; then, that a listening page is in step with    *)
(* the server and shows no mixture of two runs.                            *)
(***************************************************************************)
EXTENDS Stream, WellFoundedInduction, TLAPS

-----------------------------------------------------------------------------
(* Folding frames into a status *)

\* A set of natural numbers has a least element.
LEMMA LeastNumber ==
    ASSUME NEW S, S \subseteq Nat, S # {}
    PROVE  \E n \in S : \A m \in S : n <= m
<1>1. IsWellFoundedOn(OpToRel(<, Nat), Nat)
  BY NatLessThanWellFounded
<1>2. PICK n \in S : \A m \in S : ~(<<m, n>> \in OpToRel(<, Nat))
  BY <1>1, WFMin, Zenon
<1>3. \A m \in S : ~(m < n)
  BY <1>2, Zenon DEF OpToRel
<1> QED
  BY <1>3

\* What holds of 0 and of each number's successor holds up to any bound.
LEMMA ToTheBound ==
    ASSUME NEW N \in Nat, NEW S, 0 \in S, \A n \in 0 .. N : n \in S /\ n < N => n + 1 \in S
    PROVE  0 .. N \subseteq S
<1> DEFINE Out == (0 .. N) \ S
<1> SUFFICES ASSUME Out # {} PROVE FALSE
  OBVIOUS
<1>0. Out \subseteq Nat
  OBVIOUS
<1>1. PICK n \in Out : \A m \in Out : n <= m
  <2> HIDE DEF Out
  <2> QED
    BY <1>0, LeastNumber
<1>2. n # 0 /\ n \in 0 .. N
  OBVIOUS
<1>3. n - 1 \in 0 .. N /\ n - 1 \in S /\ n - 1 < N
  BY <1>1, <1>2
<1> QED
  BY <1>1, <1>2, <1>3

\* f gives the status after each of the first n frames.
Folds(f, status, frames, n) ==
    f = [i \in 0 .. n |-> IF i = 0 THEN status ELSE Reduce(f[i - 1], frames[i])]

\* A fold starts at the status and takes frame after frame.
LEMMA FoldsBy ==
    ASSUME NEW f, NEW status, NEW frames, NEW n \in Nat, Folds(f, status, frames, n)
    PROVE  f[0] = status /\ \A i \in 1 .. n : f[i] = Reduce(f[i - 1], frames[i])
<1>1. \A i \in 0 .. n : f[i] = IF i = 0 THEN status ELSE Reduce(f[i - 1], frames[i])
  BY Zenon DEF Folds
<1>2. 0 \in 0 .. n /\ \A i \in 1 .. n : i \in 0 .. n /\ i # 0
  OBVIOUS
<1> QED
  BY <1>1, <1>2, Zenon

\* Frames can be folded up to any bound.
LEMMA FoldsExist ==
    ASSUME NEW N \in Nat, NEW status, NEW frames
    PROVE  \E f : Folds(f, status, frames, N)
<1> DEFINE Defined == {n \in 0 .. N : \E f : Folds(f, status, frames, n)}
<1>1. 0 \in Defined
  <2>1. Folds([i \in 0 .. 0 |-> status], status, frames, 0)
    BY DEF Folds
  <2> QED
    BY <2>1
<1>2. ASSUME NEW n \in 0 .. N, n \in Defined, n < N PROVE n + 1 \in Defined
  <2>1. PICK f : Folds(f, status, frames, n)
    BY <1>2
  <2> DEFINE g == [i \in 0 .. n + 1 |-> IF i \in 0 .. n THEN f[i] ELSE Reduce(f[i - 1], frames[i])]
  <2>2. \A i \in 0 .. n : f[i] = IF i = 0 THEN status ELSE Reduce(f[i - 1], frames[i])
    BY <2>1, Zenon DEF Folds
  <2>3. \A i \in 0 .. n + 1 : g[i] = IF i \in 0 .. n THEN f[i] ELSE Reduce(f[i - 1], frames[i])
    BY Zenon
  <2>4. \A i \in 0 .. n + 1 : i # 0 => i - 1 \in 0 .. n /\ i - 1 \in 0 .. n + 1
    OBVIOUS
  <2>5. 0 \in 0 .. n
    OBVIOUS
  <2> HIDE DEF g
  <2>6. \A i \in 0 .. n + 1 : g[i] = IF i = 0 THEN status ELSE Reduce(g[i - 1], frames[i])
    <3> TAKE i \in 0 .. n + 1
    <3>1. CASE i = 0
      BY <3>1, <2>2, <2>3, <2>5, Zenon
    <3>2. CASE i # 0
      <4>1. g[i - 1] = f[i - 1]
        BY <3>2, <2>3, <2>4, Zenon
      <4>2. g[i] = Reduce(f[i - 1], frames[i])
        BY <3>2, <2>2, <2>3, Zenon
      <4> QED
        BY <3>2, <4>1, <4>2, Zenon
    <3> QED
      BY <3>1, <3>2
  <2>7. g = [i \in 0 .. n + 1 |-> g[i]]
    BY Zenon DEF g
  <2>8. Folds(g, status, frames, n + 1)
    BY <2>6, <2>7, Zenon DEF Folds
  <2>9. n + 1 \in 0 .. N
    BY <1>2
  <2> QED
    BY <2>8, <2>9, Zenon
<1> HIDE DEF Defined
<1>3. N \in Defined
  BY <1>1, <1>2, ToTheBound
<1> QED
  BY <1>3 DEF Defined

\* Each of the first n frames is folded after those before it.
Chain(f, frames, n) == \A i \in 1 .. n : f[i] = Reduce(f[i - 1], frames[i])

\* Two folds of the same frames are the same.
LEMMA FoldsAgree ==
    ASSUME NEW n \in Nat, NEW fs, NEW f, NEW g, f[0] = g[0], Chain(f, fs, n), Chain(g, fs, n)
    PROVE  f[n] = g[n]
<1> DEFINE Same == {i \in 0 .. n : f[i] = g[i]}
<1>1. 0 \in Same
  OBVIOUS
<1>2. ASSUME NEW i \in 0 .. n, i \in Same, i < n PROVE i + 1 \in Same
  <2>1. i + 1 \in 1 .. n /\ i + 1 \in 0 .. n /\ (i + 1) - 1 = i
    BY <1>2
  <2>2. f[i + 1] = Reduce(f[(i + 1) - 1], fs[i + 1]) /\ g[i + 1] = Reduce(g[(i + 1) - 1], fs[i + 1])
    BY <2>1, Zenon DEF Chain
  <2>3. f[i] = g[i]
    BY <1>2
  <2>4. f[i + 1] = g[i + 1]
    BY <2>1, <2>2, <2>3, Zenon
  <2> QED
    BY <2>1, <2>4
<1> HIDE DEF Same
<1>3. n \in Same
  BY <1>1, <1>2, ToTheBound
<1> QED
  BY <1>3 DEF Same

\* The fold that Folded is the end of.
LEMMA FoldedIs ==
    ASSUME NEW status, NEW frames, Len(frames) \in Nat
    PROVE  \E f : /\ Folded(status, frames) = f[Len(frames)] /\ f[0] = status
                  /\ \A i \in 1 .. Len(frames) : f[i] = Reduce(f[i - 1], frames[i])
<1> DEFINE upTo == CHOOSE f : Folds(f, status, frames, Len(frames))
<1>1. Folded(status, frames) = upTo[Len(frames)]
  BY Zenon DEF Folded, Folds
<1>2. Folds(upTo, status, frames, Len(frames))
  BY FoldsExist, Zenon
<1> HIDE DEF upTo
<1>3. upTo[0] = status /\ \A i \in 1 .. Len(frames) : upTo[i] = Reduce(upTo[i - 1], frames[i])
  BY <1>2, FoldsBy
<1> QED
  BY <1>1, <1>3

\* No frame leaves the status as it is.
LEMMA FoldEmpty == ASSUME NEW status PROVE Folded(status, <<>>) = status
<1>1. Len(<<>>) = 0
  OBVIOUS
<1> QED
  BY <1>1, FoldedIs

\* The last frame is folded last.
LEMMA FoldAppend ==
    ASSUME NEW status, NEW T, NEW frames \in Seq(T), NEW frame \in T
    PROVE  Folded(status, Append(frames, frame)) = Reduce(Folded(status, frames), frame)
<1> DEFINE more == Append(frames, frame)
<1>1. /\ Len(frames) \in Nat /\ Len(more) = Len(frames) + 1
      /\ more[Len(frames) + 1] = frame /\ \A i \in 1 .. Len(frames) : more[i] = frames[i]
  OBVIOUS
<1> HIDE DEF more
<1>2. PICK f : /\ Folded(status, frames) = f[Len(frames)] /\ f[0] = status
               /\ \A i \in 1 .. Len(frames) : f[i] = Reduce(f[i - 1], frames[i])
  BY <1>1, FoldedIs
<1>3. PICK g : /\ Folded(status, more) = g[Len(more)] /\ g[0] = status
               /\ \A i \in 1 .. Len(more) : g[i] = Reduce(g[i - 1], more[i])
  BY <1>1, FoldedIs
<1>4. Chain(f, frames, Len(frames)) /\ Chain(g, frames, Len(frames))
  BY <1>1, <1>2, <1>3 DEF Chain
<1>5. g[Len(frames)] = f[Len(frames)]
  BY <1>1, <1>2, <1>3, <1>4, FoldsAgree
<1>6. Len(more) \in 1 .. Len(more) /\ Len(more) - 1 = Len(frames)
  BY <1>1
<1>7. g[Len(more)] = Reduce(g[Len(frames)], frame)
  BY <1>1, <1>3, <1>6
<1>8. Folded(status, more) = Reduce(Folded(status, frames), frame)
  BY <1>2, <1>3, <1>5, <1>7, Zenon
<1> QED
  BY <1>8 DEF more

\* The first frame is folded first.
LEMMA FoldHead ==
    ASSUME NEW status, NEW T, NEW frames \in Seq(T), frames # <<>>
    PROVE  Folded(status, frames) = Folded(Reduce(status, Head(frames)), Tail(frames))
<1> DEFINE rest == Tail(frames)
<1>1. /\ Len(frames) \in Nat /\ Len(frames) >= 1 /\ Len(rest) = Len(frames) - 1
      /\ Head(frames) = frames[1] /\ \A i \in 1 .. Len(rest) : rest[i] = frames[i + 1]
  OBVIOUS
<1> HIDE DEF rest
<1>2. PICK f : /\ Folded(status, frames) = f[Len(frames)] /\ f[0] = status
               /\ \A i \in 1 .. Len(frames) : f[i] = Reduce(f[i - 1], frames[i])
  BY <1>1, FoldedIs
<1>3. PICK g : /\ Folded(Reduce(status, Head(frames)), rest) = g[Len(rest)]
               /\ g[0] = Reduce(status, Head(frames))
               /\ \A i \in 1 .. Len(rest) : g[i] = Reduce(g[i - 1], rest[i])
  BY <1>1, FoldedIs
<1> DEFINE h == [i \in 0 .. Len(rest) |-> f[i + 1]]
<1>4. h[0] = g[0]
  <2>1. h[0] = f[1] /\ 1 \in 1 .. Len(frames) /\ 1 - 1 = 0
    BY <1>1
  <2>2. f[1] = Reduce(f[0], frames[1])
    BY <1>2, <2>1
  <2> QED
    BY <1>1, <1>2, <1>3, <2>1, <2>2
<1>5. ASSUME NEW i \in 1 .. Len(rest) PROVE h[i] = Reduce(h[i - 1], rest[i])
  <2>1. /\ i \in 0 .. Len(rest) /\ i - 1 \in 0 .. Len(rest) /\ (i - 1) + 1 = i
        /\ i + 1 \in 1 .. Len(frames) /\ (i + 1) - 1 = i
    BY <1>1, <1>5
  <2>2. h[i] = f[i + 1] /\ h[i - 1] = f[i]
    BY <2>1
  <2>3. f[i + 1] = Reduce(f[(i + 1) - 1], frames[i + 1])
    BY <1>2, <2>1
  <2> QED
    BY <1>1, <1>5, <2>1, <2>2, <2>3
<1>6. h[Len(rest)] = f[Len(frames)]
  BY <1>1
<1> HIDE DEF h
<1>7. h[Len(rest)] = g[Len(rest)]
  <2>1. Chain(h, rest, Len(rest)) /\ Chain(g, rest, Len(rest))
    BY <1>3, <1>5 DEF Chain
  <2>2. Len(rest) \in Nat
    BY <1>1
  <2> QED
    BY <1>4, <2>1, <2>2, FoldsAgree
<1>8. Folded(status, frames) = Folded(Reduce(status, Head(frames)), rest)
  BY <1>2, <1>3, <1>6, <1>7, Zenon
<1> QED
  BY <1>8 DEF rest

\* What every frame keeps, the fold keeps.
LEMMA FoldKeeps ==
    ASSUME NEW Good, NEW T, NEW status \in Good, NEW frames \in Seq(T),
           \A s \in Good, frame \in T : Reduce(s, frame) \in Good
    PROVE  Folded(status, frames) \in Good
<1>1. Len(frames) \in Nat /\ \A i \in 1 .. Len(frames) : frames[i] \in T
  OBVIOUS
<1>2. PICK f : /\ Folded(status, frames) = f[Len(frames)] /\ f[0] = status
               /\ \A i \in 1 .. Len(frames) : f[i] = Reduce(f[i - 1], frames[i])
  BY <1>1, FoldedIs
<1> DEFINE Kept == {i \in 0 .. Len(frames) : f[i] \in Good}
<1>3. 0 \in Kept
  BY <1>1, <1>2
<1>4. ASSUME NEW i \in 0 .. Len(frames), i \in Kept, i < Len(frames) PROVE i + 1 \in Kept
  <2>1. i + 1 \in 1 .. Len(frames) /\ i + 1 \in 0 .. Len(frames) /\ (i + 1) - 1 = i
    BY <1>1, <1>4
  <2>2. f[i + 1] = Reduce(f[(i + 1) - 1], frames[i + 1])
    BY <1>2, <2>1
  <2>3. Reduce(f[i], frames[i + 1]) \in Good
    BY <1>1, <1>4, <2>1, Zenon
  <2> QED
    BY <2>1, <2>2, <2>3
<1> HIDE DEF Kept
<1>5. Len(frames) \in Kept
  <2>1. 0 .. Len(frames) \subseteq Kept
    BY <1>1, <1>3, <1>4, ToTheBound, Zenon
  <2> QED
    BY <1>1, <2>1
<1> QED
  BY <1>2, <1>5 DEF Kept

-----------------------------------------------------------------------------
(* What is on its way is of one run, and in step *)

\* A status whose events are all of its run.
Pure == {s \in Status : \A i \in DOMAIN s.state : s.state[i][1] = s.run}

\* A frame with such a status, or a patch with an event.
Frames == {f \in [kind: {"snapshot", "run-started", "run-finished", "patch"}, status: Pure, event: Nat \X Nat] :
              f.kind = "patch" => f.event \in Events}

Link == [open: BOOLEAN, listening: BOOLEAN, frames: Seq(Frames)]

\* Everything that was sent, received or shown is of one run each.
Sent ==
    /\ active \in Pure /\ (active # NoRun => active.run \in Runs)
    /\ runs \in 0 .. MaxRuns
    /\ casts \subseteq {"run-started", "run-finished"} \X Runs
    /\ link \in [Clients -> Link] /\ stale \subseteq Stale
    /\ pending \in Seq(Frames) /\ reply \subseteq Pure /\ shown \in Pure

\* The page polls after its last failure and reconnects no more; what is
\* subscribed is open.
Connected ==
    /\ faults \in 0 .. MaxFaults /\ failures \in 0 .. Patience
    /\ {ended, polling} \subseteq BOOLEAN /\ (polling <=> failures = Patience)
    /\ polling => ~link["page"].open
    /\ reply # {} => polling
    /\ \A c \in Clients : link[c].listening => link[c].open

StreamInv == Sent /\ Connected /\ NoLeak /\ InStep

LEMMA Constants ==
    /\ "page" \in Clients /\ MaxRuns \in Nat /\ MaxEvents \in Nat /\ MaxFaults \in Nat /\ MaxQueue \in Nat
    /\ Patience \in Nat \ {0}
BY StreamAssumption

\* A run's status as it begins is pure, and so is the next event's.
LEMMA PureStatus ==
    /\ NoRun \in Pure
    /\ \A run \in Runs : [run |-> run, state |-> <<>>] \in Pure
    /\ \A s \in Pure, e \in Events : e[1] = s.run => [s EXCEPT !.state = Append(@, e)] \in Pure
<1>1. \A run \in 0 .. MaxRuns : [run |-> run, state |-> <<>>] \in Pure
  BY DEF Pure, Status
<1>2. NoRun \in Pure
  BY <1>1, Constants DEF NoRun
<1>3. ASSUME NEW s \in Pure, NEW e \in Events, e[1] = s.run
      PROVE  [s EXCEPT !.state = Append(@, e)] \in Pure
  <2> DEFINE t == [s EXCEPT !.state = Append(@, e)]
  <2>1. s \in Status /\ s.state \in Seq(Events) /\ \A i \in 1 .. Len(s.state) : s.state[i][1] = s.run
    BY DEF Pure, Status
  <2>2. Append(s.state, e) \in Seq(Events)
    BY <2>1
  <2>3. t \in Status /\ t.run = s.run /\ t.state = Append(s.state, e)
    BY <2>1, <2>2 DEF Status
  <2>4. \A i \in 1 .. Len(Append(s.state, e)) : Append(s.state, e)[i][1] = s.run
    BY <1>3, <2>1
  <2>5. \A i \in DOMAIN t.state : t.state[i][1] = t.run
    BY <2>2, <2>3, <2>4
  <2> HIDE DEF t
  <2>6. t \in Pure
    BY <2>3, <2>5 DEF Pure
  <2> QED
    BY <2>6 DEF t
<1> QED
  BY <1>1, <1>2, <1>3 DEF Runs

\* The frames the manager sends, and what the page makes of them.
LEMMA FramesSent ==
    /\ \A kind \in {"snapshot", "run-started", "run-finished"}, s \in Pure :
          Frame(kind, s) \in Frames /\ \A any : Reduce(any, Frame(kind, s)) = s
    /\ \A run \in Runs, seq \in 1 .. MaxEvents : Patch(run, seq) \in Frames
    /\ \A run \in Runs, seq \in 1 .. MaxEvents : \A s : s.run = run =>
          Reduce(s, Patch(run, seq)) = [s EXCEPT !.state = Append(@, <<run, seq>>)]
<1>1. ASSUME NEW kind \in {"snapshot", "run-started", "run-finished"}, NEW s \in Pure
      PROVE  Frame(kind, s) \in Frames /\ \A any : Reduce(any, Frame(kind, s)) = s
  BY DEF Frame, Frames, Reduce
<1>2. ASSUME NEW run \in Runs, NEW seq \in 1 .. MaxEvents
      PROVE  Patch(run, seq) \in Frames
  BY PureStatus, Constants DEF Patch, Frames, Events, Runs
<1>3. ASSUME NEW run \in Runs, NEW seq \in 1 .. MaxEvents, NEW s, s.run = run
      PROVE  Reduce(s, Patch(run, seq)) = [s EXCEPT !.state = Append(@, <<run, seq>>)]
  BY <1>3, Constants DEF Patch, Reduce, Runs
<1> QED
  BY <1>1, <1>2, <1>3

\* A patch of another run does not get into a status.
LEMMA ReduceKeepsPure ==
    ASSUME NEW s \in Pure, NEW frame \in Frames
    PROVE  Reduce(s, frame) \in Pure
<1>1. CASE frame.kind # "patch"
  BY <1>1 DEF Reduce, Frames
<1>2. CASE frame.kind = "patch" /\ s.run # 0 /\ s.run = frame.event[1]
  <2>1. frame.event \in Events
    BY <1>2 DEF Frames
  <2>2. Reduce(s, frame) = [s EXCEPT !.state = Append(@, frame.event)]
    BY <1>2 DEF Reduce
  <2> QED
    BY <1>2, <2>1, <2>2, PureStatus
<1>3. CASE frame.kind = "patch" /\ ~(s.run # 0 /\ s.run = frame.event[1])
  BY <1>3 DEF Reduce
<1> QED
  BY <1>1, <1>2, <1>3

LEMMA FoldedIsPure ==
    ASSUME NEW s \in Pure, NEW frames \in Seq(Frames)
    PROVE  Folded(s, frames) \in Pure
BY FoldKeeps, ReduceKeepsPure

LEMMA InitStreamInv == Init => StreamInv
<1> SUFFICES ASSUME Init PROVE StreamInv
  OBVIOUS
<1>1. NoLink \in Link /\ ~NoLink.listening /\ ~NoLink.open
  BY DEF NoLink, Link
<1>2. Sent
  BY <1>1, PureStatus, Constants DEF Init, Sent
<1>3. Connected
  <2>1. link["page"] = NoLink /\ \A c \in Clients : link[c] = NoLink
    BY Constants DEF Init
  <2>2. failures = 0 /\ faults = 0 /\ polling = FALSE /\ ended = FALSE /\ reply = {}
    BY DEF Init
  <2>3. 0 \in 0 .. MaxFaults /\ 0 \in 0 .. Patience /\ 0 # Patience
    BY Constants
  <2> QED
    BY <1>1, <2>1, <2>2, <2>3 DEF Connected
<1>4. NoLeak /\ InStep
  BY <1>1, Constants DEF Init, NoLeak, InStep
<1> QED
  BY <1>2, <1>3, <1>4 DEF StreamInv

\* What the manager sends reaches every listener, behind what it was sent.
LEMMA SendAdds ==
    ASSUME Sent, NEW frame \in Frames, Send(frame)
    PROVE  /\ link' \in [Clients -> Link]
           /\ \A c \in Clients : /\ link'[c].open = link[c].open /\ link'[c].listening = link[c].listening
                                 /\ link[c].listening => link'[c].frames = Append(link[c].frames, frame)
<1>1. \A c \in Clients : link[c] \in Link
  BY DEF Sent
<1>2. \A c \in Clients : link'[c] = IF link[c].listening THEN [link[c] EXCEPT !.frames = Append(@, frame)] ELSE link[c]
  BY DEF Send
<1>3. ASSUME NEW c \in Clients
      PROVE  /\ link'[c] \in Link
             /\ link'[c].open = link[c].open /\ link'[c].listening = link[c].listening
             /\ link[c].listening => link'[c].frames = Append(link[c].frames, frame)
  <2>1. link[c] \in Link /\ link[c].frames \in Seq(Frames)
    BY <1>1 DEF Link
  <2>2. Append(link[c].frames, frame) \in Seq(Frames)
    BY <2>1
  <2> QED
    BY <1>2, <2>1, <2>2 DEF Link
<1>4. link' = [c \in Clients |-> link'[c]]
  BY DEF Send
<1> QED
  BY <1>3, <1>4

\* A frame that brings the page's last status to the server's keeps it in step.
LEMMA SendInStep ==
    ASSUME Sent, NEW frame \in Frames, Send(frame), UNCHANGED <<shown, pending>>,
           casts' = {} /\ link["page"].listening =>
               \A s : s = active \/ frame.kind # "patch" => Reduce(s, frame) = active',
           frame.kind = "patch" => (casts' = {} => casts = {}), InStep
    PROVE  InStep'
<1> SUFFICES ASSUME link'["page"].listening, casts' = {}
             PROVE  Folded(Folded(shown, pending), link'["page"].frames) = active'
  BY DEF InStep
<1> DEFINE s == Folded(shown, pending)
<1>1. link["page"].listening /\ link'["page"].frames = Append(link["page"].frames, frame)
  BY SendAdds, Constants
<1>2. link["page"].frames \in Seq(Frames)
  BY Constants DEF Sent, Link
<1>3. Folded(s, link'["page"].frames) = Reduce(Folded(s, link["page"].frames), frame)
  BY <1>1, <1>2, FoldAppend
<1>4. frame.kind = "patch" => Folded(s, link["page"].frames) = active
  BY <1>1 DEF InStep
<1> HIDE DEF s
<1>5. Reduce(Folded(s, link["page"].frames), frame) = active'
  BY <1>1, <1>4
<1> QED
  BY <1>3, <1>5 DEF s

\* A failure counts up to where the page polls.
LEMMA OnErrorCounts ==
    ASSUME Connected, ~polling, OnError
    PROVE  failures' \in 0 .. Patience /\ polling' \in BOOLEAN /\ (polling' <=> failures' = Patience)
<1>1. failures \in 0 .. Patience /\ failures # Patience /\ Patience \in Nat \ {0}
  BY Constants DEF Connected
<1>2. failures' = failures + 1 /\ polling' = (failures' >= Patience)
  BY DEF OnError
<1>3. failures' \in 0 .. Patience /\ (failures' >= Patience <=> failures' = Patience)
  BY <1>1, <1>2
<1>4. polling' \in BOOLEAN
  BY <1>2
<1>5. polling' <=> failures' >= Patience
  BY <1>2, Zenon
<1> QED
  BY <1>3, <1>4, <1>5

LEMMA ManagerStep ==
    ASSUME StreamInv, Trigger \/ Emit \/ Release \/ Broadcast
    PROVE  StreamInv'
<1> USE DEF StreamInv, source
<1>0. active \in Pure /\ active.run \in 0 .. MaxRuns /\ active.state \in Seq(Events) /\ runs \in 0 .. MaxRuns
  BY DEF Sent, Pure, Status
<1>1. CASE Trigger
  <2>1. runs' \in Runs /\ runs' \in 0 .. MaxRuns
    BY <1>0, <1>1, Constants DEF Trigger, Runs
  <2>2. active' \in Pure /\ active'.run = runs'
    BY <1>1, <2>1, PureStatus DEF Trigger
  <2>3. UNCHANGED <<hub, faults, page>> /\ casts' # {} /\ casts' \subseteq {"run-started", "run-finished"} \X Runs
    <3>1. casts' = casts \cup {<<"run-started", runs'>>}
      BY <1>1 DEF Trigger
    <3>2. <<"run-started", runs'>> \in casts'
      BY <3>1
    <3>3. <<"run-started", runs'>> \in {"run-started", "run-finished"} \X Runs
      BY <2>1
    <3>4. casts \subseteq {"run-started", "run-finished"} \X Runs
      BY DEF Sent
    <3>5. casts' \subseteq {"run-started", "run-finished"} \X Runs
      BY <3>1, <3>3, <3>4, Zenon
    <3>6. casts' # {}
      BY <3>2, Zenon
    <3>7. UNCHANGED <<hub, faults, page>>
      BY <1>1 DEF Trigger
    <3> QED
      BY <3>5, <3>6, <3>7
  <2>4. Sent'
    BY <2>1, <2>2, <2>3 DEF Sent, hub, page
  <2>5. Connected'
    BY <2>3 DEF Connected, hub, page
  <2>6. NoLeak' /\ InStep'
    BY <2>3 DEF NoLeak, InStep, hub, page
  <2> QED
    BY <2>4, <2>5, <2>6
<1>2. CASE Emit
  <2> DEFINE seq == Len(active.state) + 1
             frame == Patch(active.run, seq)
  <2>1. active.run \in Runs /\ seq \in 1 .. MaxEvents
    BY <1>0, <1>2, Constants DEF Emit, Sent
  <2>2. /\ active' = [active EXCEPT !.state = Append(@, <<active.run, seq>>)] /\ Send(frame)
        /\ UNCHANGED <<runs, casts, stale, faults, page>>
    BY <1>2 DEF Emit
  <2>3. frame \in Frames /\ frame.kind = "patch"
    BY <2>1, FramesSent DEF Patch
  <2>4. Reduce(active, frame) = active'
    BY <2>1, <2>2, FramesSent
  <2>5. <<active.run, seq>> \in Events
    BY <2>1 DEF Events
  <2>6. active' \in Pure
    BY <1>0, <2>2, <2>5, PureStatus
  <2>7. active'.run = active.run
    BY <1>0, <2>2 DEF Pure, Status
  <2> HIDE DEF frame
  <2>8. Sent'
    BY <2>1, <2>2, <2>3, <2>6, <2>7, SendAdds DEF Sent, page
  <2>9. Connected'
    BY <2>2, <2>3, SendAdds, Constants DEF Connected, page
  <2>10. InStep'
    BY <2>2, <2>3, <2>4, SendInStep DEF page
  <2>11. NoLeak'
    BY <2>2 DEF NoLeak
  <2> QED
    BY <2>8, <2>9, <2>10, <2>11
<1>3. CASE Release
  <2>1. active' = NoRun /\ UNCHANGED <<runs, hub, faults, page>>
    BY <1>3 DEF Release
  <2>2. casts' # {} /\ casts' \subseteq {"run-started", "run-finished"} \X Runs
    <3>1. casts' = casts \cup {<<"run-finished", active.run>>} /\ active.run \in Runs
      BY <1>3 DEF Release, Sent
    <3>2. <<"run-finished", active.run>> \in casts'
      BY <3>1
    <3>3. <<"run-finished", active.run>> \in {"run-started", "run-finished"} \X Runs
      BY <3>1
    <3>4. casts \subseteq {"run-started", "run-finished"} \X Runs
      BY DEF Sent
    <3>5. casts' \subseteq {"run-started", "run-finished"} \X Runs
      BY <3>1, <3>3, <3>4, Zenon
    <3>6. casts' # {}
      BY <3>2, Zenon
    <3> QED
      BY <3>5, <3>6
  <2>3. Sent'
    BY <2>1, <2>2, PureStatus DEF Sent, hub, page
  <2>4. Connected'
    BY <2>1 DEF Connected, hub, page
  <2>5. NoLeak' /\ InStep'
    BY <2>1, <2>2 DEF NoLeak, InStep, hub, page
  <2> QED
    BY <2>3, <2>4, <2>5
<1>4. CASE Broadcast
  <2> PICK cast \in casts : Send(Frame(cast[1], active)) /\ casts' = casts \ {cast}
                            /\ UNCHANGED <<active, runs, stale, faults, page>>
    BY <1>4 DEF Broadcast
  <2> DEFINE frame == Frame(cast[1], active)
  <2>1. cast[1] \in {"run-started", "run-finished"}
    BY DEF Sent
  <2>2. frame \in Frames /\ frame.kind # "patch" /\ \A s : Reduce(s, frame) = active'
    BY <1>0, <2>1, FramesSent DEF Frame
  <2>3. Send(frame)
    OBVIOUS
  <2> HIDE DEF frame
  <2>4. Sent'
    BY <2>2, <2>3, SendAdds DEF Sent, page
  <2>5. Connected'
    BY <2>2, <2>3, SendAdds, Constants DEF Connected, page
  <2>6. InStep'
    BY <2>2, <2>3, SendInStep DEF page
  <2>7. NoLeak'
    BY DEF NoLeak
  <2> QED
    BY <2>4, <2>5, <2>6, <2>7
<1> QED
  BY <1>1, <1>2, <1>3, <1>4

LEMMA HubStep ==
    ASSUME StreamInv,
           (\E client \in Clients : Snapshot(client)) \/ (\E c \in stale : LateSnapshot(c) \/ Cleanup(c))
    PROVE  StreamInv'
<1> USE DEF StreamInv, source, manager, page
<1>1. CASE \E client \in Clients : Snapshot(client)
  <2> PICK client \in Clients : Snapshot(client)
    BY <1>1
  <2> DEFINE frame == Frame("snapshot", active)
  <2>1. frame \in Frames /\ \A s : Reduce(s, frame) = active
    BY FramesSent DEF Sent
  <2>2. link[client] \in Link /\ link[client].open
    BY DEF Sent, Snapshot
  <2>3. UNCHANGED <<manager, stale, faults, page>>
        /\ link' = [link EXCEPT ![client].listening = TRUE, ![client].frames = <<frame>>]
    BY DEF Snapshot
  <2> HIDE DEF frame
  <2>4. /\ link'[client].open /\ link'[client].open = link[client].open
        /\ link'[client].listening /\ link'[client].frames = <<frame>> /\ link'[client] \in Link
        /\ \A c \in Clients : c # client => link'[c] = link[c]
        /\ link' \in [Clients -> Link]
    <3>1. link \in [Clients -> Link]
      BY DEF Sent
    <3>2. <<frame>> \in Seq(Frames)
      BY <2>1
    <3> QED
      BY <2>2, <2>3, <3>1, <3>2 DEF Link
  <2>5. Sent'
    BY <2>3, <2>4 DEF Sent
  <2>6. Connected'
    <3>1. link'["page"].open = link["page"].open
      BY <2>4, Constants
    <3>2. \A c \in Clients : link'[c].listening => link'[c].open
      BY <2>4 DEF Connected
    <3> QED
      BY <2>3, <3>1, <3>2 DEF Connected
  <2>7. InStep'
    <3>1. CASE client = "page"
      <4>1. <<frame>> = Append(<<>>, frame) /\ <<>> \in Seq(Frames)
        OBVIOUS
      <4>2. \A s : Folded(s, <<frame>>) = Reduce(Folded(s, <<>>), frame)
        <5> DEFINE none == <<>>
        <5>1. none \in Seq(Frames) /\ frame \in Frames
          BY <2>1
        <5> HIDE DEF none
        <5>2. \A s : Folded(s, Append(none, frame)) = Reduce(Folded(s, none), frame)
          BY <5>1, FoldAppend
        <5> QED
          BY <4>1, <5>2, Zenon DEF none
      <4> QED
        BY <2>1, <2>3, <2>4, <3>1, <4>2 DEF InStep
    <3>2. CASE client # "page"
      BY <2>3, <2>4, <3>2, Constants DEF InStep
    <3> QED
      BY <3>1, <3>2
  <2>8. NoLeak'
    BY <2>3 DEF NoLeak
  <2> QED
    BY <2>5, <2>6, <2>7, <2>8
<1>2. ASSUME NEW c \in stale, LateSnapshot(c) \/ Cleanup(c)
      PROVE  StreamInv'
  <2>1. c \in Stale /\ (c.gone => ~c.listening)
    BY DEF Sent, NoLeak
  <2>2. UNCHANGED <<manager, link, faults, page>>
    BY <1>2 DEF LateSnapshot, Cleanup
  <2>3. \A x \in stale' : x \in stale \/ (x \in Stale /\ (x.gone => ~x.listening))
    <3>1. CASE LateSnapshot(c)
      <4>1. ~c.gone => [c EXCEPT !.listening = TRUE] \in Stale /\ ~[c EXCEPT !.listening = TRUE].gone
        BY <2>1 DEF Stale
      <4> QED
        BY <3>1, <4>1 DEF LateSnapshot
    <3>2. CASE Cleanup(c)
      <4>1. ~c.listening => [c EXCEPT !.gone = TRUE] \in Stale /\ ~[c EXCEPT !.gone = TRUE].listening
        BY <2>1 DEF Stale
      <4> QED
        BY <3>2, <4>1 DEF Cleanup
    <3> QED
      BY <1>2, <3>1, <3>2
  <2>4. stale' \subseteq Stale /\ NoLeak'
    BY <2>3 DEF Sent, NoLeak
  <2>5. Sent'
    BY <2>2, <2>4 DEF Sent
  <2>6. Connected' /\ InStep'
    BY <2>2 DEF Connected, InStep
  <2> QED
    BY <2>4, <2>5, <2>6
<1> QED
  BY <1>1, <1>2

LEMMA PageStep ==
    ASSUME StreamInv, PageOpen \/ PageReceive \/ Flush \/ PageLost \/ PageRefused \/ PollAsk \/ PollAnswer
    PROVE  StreamInv'
<1> USE DEF StreamInv, source, manager, hub, page
<1>0. /\ "page" \in Clients /\ link \in [Clients -> Link] /\ link["page"] \in Link
      /\ link["page"].frames \in Seq(Frames) /\ pending \in Seq(Frames) /\ shown \in Pure
      /\ link["page"].open \in BOOLEAN /\ link["page"].listening \in BOOLEAN
  BY Constants DEF Sent, Link
<1>1. CASE PageOpen
  <2>1. /\ ~polling /\ ~link["page"].open /\ failures' = 0 /\ link' = [link EXCEPT !["page"].open = TRUE]
        /\ UNCHANGED <<stale, manager, faults, polling, ended, reply, pending, shown>>
    BY <1>1 DEF PageOpen, Accept
  <2>2. /\ link' \in [Clients -> Link] /\ link'["page"].listening = link["page"].listening
        /\ link'["page"].frames = link["page"].frames /\ link'["page"].open
        /\ \A c \in Clients : c # "page" => link'[c] = link[c]
    BY <1>0, <2>1 DEF Link
  <2>3. Sent'
    BY <2>1, <2>2 DEF Sent
  <2>4. Connected'
    BY <2>1, <2>2, Constants DEF Connected
  <2>5. NoLeak' /\ InStep'
    BY <2>1, <2>2 DEF NoLeak, InStep
  <2> QED
    BY <2>3, <2>4, <2>5
<1>2. CASE PageReceive
  <2> DEFINE frame == Head(link["page"].frames)
             rest  == Tail(link["page"].frames)
  <2>1. /\ link["page"].frames # <<>> /\ link' = [link EXCEPT !["page"].frames = rest]
        /\ pending' = Append(pending, frame)
        /\ UNCHANGED <<manager, stale, faults, source, reply, shown>>
    BY <1>2, <1>0 DEF PageReceive, Received
  <2>2. frame \in Frames /\ rest \in Seq(Frames)
    BY <1>0, <2>1
  <2>3. \A s : Folded(Folded(s, pending'), rest) = Folded(Folded(s, pending), link["page"].frames)
    <3> TAKE s
    <3>1. Folded(s, pending') = Reduce(Folded(s, pending), frame)
      BY <1>0, <2>1, <2>2, FoldAppend
    <3>2. Folded(Folded(s, pending), link["page"].frames) = Folded(Reduce(Folded(s, pending), frame), rest)
      BY <1>0, <2>1, FoldHead
    <3> QED
      BY <3>1, <3>2
  <2> HIDE DEF frame, rest
  <2>4. /\ link' \in [Clients -> Link] /\ link'["page"].frames = rest
        /\ \A c \in Clients : link'[c].open = link[c].open /\ link'[c].listening = link[c].listening
    <3>1. link'["page"] = [link["page"] EXCEPT !.frames = rest] /\ \A c \in Clients : c # "page" => link'[c] = link[c]
      BY <1>0, <2>1
    <3>2. [link["page"] EXCEPT !.frames = rest] \in Link
      BY <1>0, <2>2 DEF Link
    <3> QED
      BY <1>0, <2>1, <2>2, <3>1, <3>2 DEF Link
  <2>5. Sent'
    BY <1>0, <2>1, <2>2, <2>4 DEF Sent
  <2>6. Connected'
    BY <1>0, <2>1, <2>4 DEF Connected
  <2>7. InStep'
    BY <1>0, <2>1, <2>3, <2>4 DEF InStep
  <2>8. NoLeak'
    BY <2>1 DEF NoLeak
  <2> QED
    BY <2>5, <2>6, <2>7, <2>8
<1>3. CASE Flush
  <2>1. shown' = Folded(shown, pending) /\ pending' = <<>> /\ UNCHANGED <<manager, hub, faults, source, reply>>
    BY <1>3 DEF Flush
  <2>2. shown' \in Pure
    BY <1>0, <2>1, FoldedIsPure
  <2>3. Folded(shown', pending') = Folded(shown, pending)
    BY <2>1, FoldEmpty
  <2>4. Sent'
    BY <2>1, <2>2 DEF Sent
  <2>5. Connected'
    BY <2>1 DEF Connected
  <2>6. NoLeak' /\ InStep'
    BY <2>1, <2>3 DEF NoLeak, InStep
  <2> QED
    BY <2>4, <2>5, <2>6
<1>4. CASE PageLost
  <2>1. /\ link["page"].open /\ faults < MaxFaults /\ faults' = faults + 1
        /\ stale' = stale \cup {[listening |-> link["page"].listening, gone |-> FALSE]}
        /\ link' = [link EXCEPT !["page"] = NoLink]
        /\ OnError /\ UNCHANGED <<manager, ended, reply, pending, shown>>
    BY <1>4 DEF PageLost, Lost
  <2>2. NoLink \in Link /\ ~NoLink.listening /\ ~NoLink.open
    BY DEF NoLink, Link
  <2>3. /\ link' \in [Clients -> Link] /\ ~link'["page"].listening /\ ~link'["page"].open
        /\ \A c \in Clients : c # "page" => link'[c] = link[c]
    BY <1>0, <2>1, <2>2
  <2>4. \A x \in stale' : x \in stale \/ (x \in Stale /\ ~x.gone)
    <3> DEFINE lost == [listening |-> link["page"].listening, gone |-> FALSE]
    <3>1. lost \in Stale /\ lost.gone = FALSE
      BY <1>0 DEF Stale
    <3>2. stale' = stale \cup {lost}
      BY <2>1
    <3> HIDE DEF lost
    <3> QED
      BY <3>1, <3>2
  <2>5. ~polling
    BY <2>1 DEF Connected
  <2>6. Sent'
    BY <2>1, <2>3, <2>4 DEF Sent
  <2>7. failures' \in 0 .. Patience /\ polling' \in BOOLEAN /\ (polling' <=> failures' = Patience)
    BY <2>1, <2>5, OnErrorCounts
  <2>8. faults' \in 0 .. MaxFaults
    BY <2>1, Constants DEF Connected
  <2>9. Connected'
    BY <2>1, <2>3, <2>5, <2>7, <2>8 DEF Connected
  <2>10. NoLeak' /\ InStep'
    BY <2>3, <2>4 DEF NoLeak, InStep
  <2> QED
    BY <2>6, <2>9, <2>10
<1>5. CASE PageRefused
  <2>1. /\ ~polling /\ ~link["page"].open /\ faults < MaxFaults /\ faults' = faults + 1 /\ ended' \in BOOLEAN
        /\ OnError /\ UNCHANGED <<manager, hub, reply, pending, shown>>
    BY <1>5 DEF PageRefused
  <2>2. failures' \in 0 .. Patience /\ polling' \in BOOLEAN /\ (polling' <=> failures' = Patience)
    BY <2>1, OnErrorCounts
  <2>3. faults' \in 0 .. MaxFaults
    BY <2>1, Constants DEF Connected
  <2>4. Connected'
    BY <2>1, <2>2, <2>3 DEF Connected
  <2>5. Sent'
    BY <2>1 DEF Sent
  <2>6. NoLeak' /\ InStep'
    BY <2>1 DEF NoLeak, InStep
  <2> QED
    BY <2>4, <2>5, <2>6
<1>6. CASE PollAsk
  <2>1. polling /\ reply' = {active} /\ UNCHANGED <<manager, hub, faults, source, pending, shown>>
    BY <1>6 DEF PollAsk
  <2>2. Sent'
    BY <2>1 DEF Sent
  <2>3. Connected'
    BY <2>1 DEF Connected
  <2>4. NoLeak' /\ InStep'
    BY <2>1 DEF NoLeak, InStep
  <2> QED
    BY <2>2, <2>3, <2>4
<1>7. CASE PollAnswer
  <2>1. reply # {} /\ shown' \in reply /\ reply' = {} /\ UNCHANGED <<manager, hub, faults, source, pending>>
    BY <1>7 DEF PollAnswer
  <2>2. ~link["page"].listening
    BY <1>0, <2>1 DEF Connected
  <2>3. Sent'
    BY <2>1 DEF Sent
  <2>4. Connected'
    BY <2>1 DEF Connected
  <2>5. NoLeak' /\ InStep'
    BY <2>1, <2>2 DEF NoLeak, InStep
  <2> QED
    BY <2>3, <2>4, <2>5
<1> QED
  BY <1>1, <1>2, <1>3, <1>4, <1>5, <1>6, <1>7

\* The invariant of the stream holds throughout.
LEMMA StreamInvariance == Spec => []StreamInv
<1>1. ASSUME StreamInv, [Next]_vars PROVE StreamInv'
  <2>1. CASE Next
    BY <1>1, <2>1, ManagerStep, HubStep, PageStep DEF Next
  <2>2. CASE UNCHANGED vars
    BY <1>1, <2>2 DEF vars, manager, hub, page, source, StreamInv, Sent, Connected, NoLeak, InStep
  <2> QED
    BY <1>1, <2>1, <2>2
<1> QED
  BY InitStreamInv, <1>1, PTL DEF Spec

\* Every variable of the stream keeps its type.
THEOREM TypesKept == Spec => []TypeOK
<1>1. ASSUME StreamInv PROVE TypeOK
  <2> USE DEF StreamInv
  <2>1. \A fs \in Seq(Frames) : AreFrames(fs)
    BY DEF AreFrames, Frames, Pure
  <2>2. Pure \subseteq Status
    BY DEF Pure
  <2>3. \A c \in Clients : link[c] \in Link
    BY <1>1 DEF Sent
  <2>4. \A c \in Clients : {link[c].open, link[c].listening} \subseteq BOOLEAN /\ AreFrames(link[c].frames)
    BY <2>1, <2>3 DEF Link
  <2>5. polling = (failures = Patience)
    BY <1>1 DEF Connected
  <2> QED
    BY <1>1, <2>1, <2>2, <2>4, <2>5 DEF Sent, Connected, TypeOK
<1> QED
  BY StreamInvariance, <1>1, PTL

\* No connection the server knows to be closed stays subscribed, whenever it
\* was lost and however late "close" comes.
THEOREM NothingLeaks == Spec => []NoLeak
<1>1. StreamInv => NoLeak
  BY DEF StreamInv
<1> QED
  BY StreamInvariance, <1>1, PTL

\* For any number of clients, runs, events, frames on their way and lost
\* connections: a listening page has or will get exactly the server's events.
THEOREM PageIsInStep == Spec => []InStep
<1>1. StreamInv => InStep
  BY DEF StreamInv
<1> QED
  BY StreamInvariance, <1>1, PTL

\* A page shows no event of another run than the one it names.
THEOREM RunsAreUnmixed == Spec => []RunUnmixed
<1>1. StreamInv => RunUnmixed
  BY DEF StreamInv, Sent, Pure, RunUnmixed
<1> QED
  BY StreamInvariance, <1>1, PTL
=============================================================================
