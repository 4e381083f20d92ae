----------------------------- MODULE BatchProofs -----------------------------
(***************************************************************************)
(* What a batch promises, for any number of permutations, attempts and     *)
(* workers and any faults: what a cancelled one and an ending process      *)
(* leave behind, for which no type is needed; that --resume leaves each    *)
(* permutation once; and that one not cancelled accounts for each.         *)
(***************************************************************************)
EXTENDS Batch, FiniteSetTheorems, TLAPS

\* Every JVM is one the reaper tracks, or the warm-up's.
Tracked == jvms \subseteq live \cup {WarmUp}

\* Whoever is told to end is told to stop, and whoever is told to stop has no
\* warm-up any more.
StopsWarmUp == /\ signalled => aborted
               /\ aborted => WarmUp \notin jvms

\* From the index on: without an abort so far, what was produced is indexed.
IndexedSoFar ==
    /\ pc \in {"end", "closing"} /\ ~aborted => indexed
    /\ pc = "closing" /\ ~aborted => ~said.cancelled

IInv == Tracked /\ StopsWarmUp /\ IndexedSoFar /\ NothingOrphaned /\ UncancelledIsIndexed

USE DEF At, Working, execution, pool, warmup, reaper, process

\* The initial state satisfies the invariant.
LEMMA InitIInv == Init => IInv
  BY DEF Init, IInv, Tracked, StopsWarmUp, IndexedSoFar, NothingOrphaned, UncancelledIsIndexed

\* No step of a worker starts a JVM the reaper does not know, or any after an
\* abort.
LEMMA WorkerStep ==
    ASSUME IInv, NEW w \in Workers, Worker(w)
    PROVE  /\ Tracked' /\ StopsWarmUp'
           /\ aborted => jvms' \subseteq jvms
           /\ pc = "pool" /\ UNCHANGED <<execution, process, aborted>>
<1> USE DEF IInv, Tracked, StopsWarmUp
<1>1. CASE Admit(w)
  BY <1>1 DEF Admit
<1>2. CASE Retire(w)
  BY <1>2 DEF Retire
<1>3. CASE Try(w)
  BY <1>3 DEF Try
<1>4. CASE Launch(w)
  BY <1>4 DEF Launch
<1>5. CASE Close(w)
  BY <1>5 DEF Close
<1>6. CASE RetryWait(w)
  BY <1>6 DEF RetryWait
<1>7. CASE WorkerDone(w)
  BY <1>7 DEF WorkerDone, Settle
<1> QED
  BY <1>1, <1>2, <1>3, <1>4, <1>5, <1>6, <1>7 DEF Worker

\* No step breaks the invariant or starts a JVM after an abort.
LEMMA Step ==
    ASSUME IInv, [Next]_vars
    PROVE  IInv' /\ (aborted => jvms' \subseteq jvms)
<1> USE DEF IInv, Tracked, StopsWarmUp, IndexedSoFar, NothingOrphaned, UncancelledIsIndexed
<1>1. CASE \E w \in Workers : Worker(w)
  <2> PICK w \in Workers : Worker(w)
    BY <1>1
  <2>1. Tracked' /\ StopsWarmUp' /\ (aborted => jvms' \subseteq jvms)
    BY WorkerStep
  <2>2. pc = "pool" /\ UNCHANGED <<execution, process, aborted>>
    BY WorkerStep
  <2>3. proc = "up"
    BY DEF Worker, Admit, Retire, Try, Launch, Close, RetryWait, WorkerDone
  <2> QED
    BY <2>1, <2>2, <2>3
<1>2. CASE CreateStaging \/ Resume \/ FindJar \/ SkipWarmUp
  BY <1>2 DEF CreateStaging, Resume, FindJar, SkipWarmUp
<1>3. CASE WarmUpBegin \/ WarmUpClose \/ Fan \/ Join
  BY <1>3 DEF WarmUpBegin, WarmUpClose, Fan, Join
<1>4. CASE WarmUpSpawn
  BY <1>4 DEF WarmUpSpawn
<1>5. CASE WarmUpTimeout
  BY <1>5 DEF WarmUpTimeout
<1>6. CASE Index
  BY <1>6 DEF Index
<1>7. CASE BatchEnd
  BY <1>7 DEF BatchEnd
<1>8. CASE Return
  BY <1>8 DEF Return
<1>9. CASE Rejects("staging", "staging") \/ Rejects("wiping", "template") \/ Rejects("index", "index")
  BY <1>9 DEF Rejects
<1>10. CASE Cancel
  BY <1>10 DEF Cancel, Abort
<1>11. CASE Signal
  BY <1>11 DEF Signal, Abort
<1>12. CASE Reap
  BY <1>12 DEF Reap
<1>13. CASE ProcessExit
  BY <1>13 DEF ProcessExit
<1>14. CASE \E p \in Perms : JvmEnds(p)
  BY <1>14 DEF JvmEnds
<1>15. CASE WarmUpEnds
  BY <1>15 DEF WarmUpEnds
<1>16. CASE UNCHANGED vars
  BY <1>16 DEF vars
<1> QED
  BY <1>1, <1>2, <1>3, <1>4, <1>5, <1>6, <1>7, <1>8, <1>9, <1>10, <1>11, <1>12, <1>13, <1>14,
     <1>15, <1>16 DEF Next

\* The invariant holds throughout.
LEMMA Invariance == Spec => []IInv
<1>1. IInv /\ [Next]_vars => IInv'
  BY Step
<1> QED
  BY InitIInv, <1>1, PTL DEF Spec

\* The reaper of reaper.server.ts is complete: a process that ends by its exit
\* handlers leaves no JVM but a warm-up's, and none if it was told to end.
THEOREM ReapsAll == Spec => []NothingOrphaned
<1>1. IInv => NothingOrphaned
  BY DEF IInv
<1> QED
  BY Invariance, <1>1, PTL

\* Whenever the cancel comes between the three reads of the signal at the end
\* of execute, a result that says it was not cancelled has its index.
THEOREM ResultsAreIndexed == Spec => []UncancelledIsIndexed
<1>1. IInv => UncancelledIsIndexed
  BY DEF IInv
<1> QED
  BY Invariance, <1>1, PTL

\* No worker and no warm-up launches a JVM after the run was told to stop.
THEOREM StopsLaunching == Spec => NeverLaunchesAborted
<1>1. IInv /\ [Next]_vars => [aborted => jvms' \subseteq jvms]_vars
  BY Step
<1> QED
  BY Invariance, <1>1, PTL DEF Spec, NeverLaunchesAborted

-----------------------------------------------------------------------------
(* Sets of numbers and the selection *)

\* A set of natural numbers has a least element.
LEMMA LeastElement ==
    ASSUME NEW S, S \subseteq Nat, S # {}
    PROVE  \E n \in S : \A m \in S : n <= m
<1>1. IsWellFoundedOn(OpToRel(<, Nat), Nat)
  BY NatLessThanWellFounded
<1>2. PICK n \in S : \A m \in S : ~(<<m, n>> \in OpToRel(<, Nat))
  BY <1>1, WFMin, Zenon
<1>3. \A m \in S : ~(m < n)
  BY <1>2, Zenon DEF OpToRel
<1> QED
  BY <1>3

\* What holds of 0 and of each number's successor holds up to any bound.
LEMMA UpToBound ==
    ASSUME NEW N \in Nat, NEW S, 0 \in S, \A n \in 0 .. N : n \in S /\ n < N => n + 1 \in S
    PROVE  0 .. N \subseteq S
<1> DEFINE Out == (0 .. N) \ S
<1> SUFFICES ASSUME Out # {} PROVE FALSE
  OBVIOUS
<1>0. Out \subseteq Nat
  OBVIOUS
<1>1. PICK n \in Out : \A m \in Out : n <= m
  <2> HIDE DEF Out
  <2> QED
    BY <1>0, LeastElement
<1>2. n # 0 /\ n \in 0 .. N
  OBVIOUS
<1>3. n - 1 \in 0 .. N /\ n - 1 \in S /\ n - 1 < N
  BY <1>1, <1>2
<1> QED
  BY <1>1, <1>2, <1>3

\* s lists the permutations up to n that are not in skipped, each once.
ListsUpTo(s, skipped, n) ==
    /\ s \in Seq(Perms)
    /\ \A i \in 1 .. Len(s) : s[i] <= n /\ s[i] \notin skipped
    /\ \A i, j \in 1 .. Len(s) : s[i] = s[j] => i = j
    /\ \A p \in 1 .. n : p \notin skipped => \E i \in 1 .. Len(s) : s[i] = p
    /\ IsFiniteSet(skipped \cap (1 .. n))
    /\ Len(s) + Cardinality(skipped \cap (1 .. n)) = n

\* The empty list is the list up to 0, and one more permutation is skipped or
\* appended.
LEMMA ListsStep ==
    ASSUME NEW skipped \in SUBSET Perms
    PROVE  /\ ListsUpTo(<<>>, skipped, 0)
           /\ \A n \in 0 .. Size : \A s : n < Size /\ ListsUpTo(s, skipped, n) =>
                  ListsUpTo(IF n + 1 \in skipped THEN s ELSE Append(s, n + 1), skipped, n + 1)
<1> Size \in Nat
  BY BatchAssumption
<1>1. ListsUpTo(<<>>, skipped, 0)
  <2>1. skipped \cap (1 .. 0) = {}
    OBVIOUS
  <2> QED
    BY <2>1, FS_EmptySet DEF ListsUpTo
<1>2. ASSUME NEW n \in 0 .. Size, n < Size, NEW s, ListsUpTo(s, skipped, n), n + 1 \in skipped
      PROVE  ListsUpTo(s, skipped, n + 1)
  <2>1. skipped \cap (1 .. n + 1) = (skipped \cap (1 .. n)) \cup {n + 1}
    BY <1>2
  <2>2. n + 1 \notin skipped \cap (1 .. n)
    OBVIOUS
  <2>3. IsFiniteSet(skipped \cap (1 .. n + 1))
        /\ Cardinality(skipped \cap (1 .. n + 1)) = Cardinality(skipped \cap (1 .. n)) + 1
    <3> DEFINE before == skipped \cap (1 .. n)
    <3>1. IsFiniteSet(before) /\ n + 1 \notin before
      BY <1>2 DEF ListsUpTo
    <3> HIDE DEF before
    <3>2. IsFiniteSet(before \cup {n + 1}) /\ Cardinality(before \cup {n + 1}) = Cardinality(before) + 1
      BY <3>1, FS_AddElement
    <3> QED
      BY <2>1, <3>2, Zenon DEF before
  <2>4. Cardinality(skipped \cap (1 .. n)) \in Nat
    BY <1>2, FS_CardinalityType DEF ListsUpTo
  <2>5. \A i \in 1 .. Len(s) : s[i] <= n + 1
    BY <1>2 DEF ListsUpTo, Perms
  <2>6. Len(s) \in Nat /\ Len(s) + Cardinality(skipped \cap (1 .. n + 1)) = n + 1
    BY <1>2, <2>3, <2>4 DEF ListsUpTo
  <2>7. \A p \in 1 .. n + 1 : p \notin skipped => \E i \in 1 .. Len(s) : s[i] = p
    BY <1>2 DEF ListsUpTo
  <2> QED
    BY <1>2, <2>3, <2>5, <2>6, <2>7 DEF ListsUpTo
<1>3. ASSUME NEW n \in 0 .. Size, n < Size, NEW s, ListsUpTo(s, skipped, n), n + 1 \notin skipped
      PROVE  ListsUpTo(Append(s, n + 1), skipped, n + 1)
  <2> DEFINE t == Append(s, n + 1)
  <2>1. skipped \cap (1 .. n + 1) = skipped \cap (1 .. n)
    BY <1>3
  <2>2. s \in Seq(Perms) /\ n + 1 \in Perms
    BY <1>3 DEF ListsUpTo, Perms
  <2>3. t \in Seq(Perms) /\ Len(t) = Len(s) + 1 /\ Len(s) \in Nat
    BY <2>2
  <2>4. t[Len(s) + 1] = n + 1 /\ \A i \in 1 .. Len(s) : t[i] = s[i]
    BY <2>2
  <2>5. \A i \in 1 .. Len(s) : s[i] \in Nat /\ s[i] <= n /\ s[i] \notin skipped
    BY <1>3, <2>2 DEF ListsUpTo, Perms
  <2> HIDE DEF t
  <2>6. \A i \in 1 .. Len(t) : t[i] <= n + 1 /\ t[i] \notin skipped
    BY <1>3, <2>3, <2>4, <2>5
  <2>7. ASSUME NEW i \in 1 .. Len(t), NEW j \in 1 .. Len(t), t[i] = t[j]
        PROVE  i = j
    <3>1. CASE i = Len(s) + 1 \/ j = Len(s) + 1
      BY <3>1, <2>7, <2>3, <2>4, <2>5
    <3>2. CASE i \in 1 .. Len(s) /\ j \in 1 .. Len(s)
      BY <3>2, <2>7, <1>3, <2>4 DEF ListsUpTo
    <3> QED
      BY <3>1, <3>2, <2>3
  <2>8. \A p \in 1 .. n + 1 : p \notin skipped => \E i \in 1 .. Len(t) : t[i] = p
    <3> TAKE p \in 1 .. n + 1
    <3>1. CASE p = n + 1
      BY <3>1, <2>3, <2>4
    <3>2. CASE p \in 1 .. n
      <4> SUFFICES ASSUME p \notin skipped PROVE \E i \in 1 .. Len(t) : t[i] = p
        OBVIOUS
      <4>1. PICK i \in 1 .. Len(s) : s[i] = p
        BY <1>3, <3>2 DEF ListsUpTo
      <4> QED
        BY <4>1, <2>3, <2>4
    <3> QED
      BY <3>1, <3>2
  <2>9. IsFiniteSet(skipped \cap (1 .. n)) /\ Len(s) + Cardinality(skipped \cap (1 .. n)) = n
    BY <1>3 DEF ListsUpTo
  <2>10. Cardinality(skipped \cap (1 .. n)) \in Nat
    BY <2>9, FS_CardinalityType
  <2>11. Len(t) + Cardinality(skipped \cap (1 .. n + 1)) = n + 1
    <3>1. Cardinality(skipped \cap (1 .. n + 1)) = Cardinality(skipped \cap (1 .. n))
      BY <2>1, Zenon
    <3> QED
      BY <3>1, <2>3, <2>9, <2>10
  <2>12. IsFiniteSet(skipped \cap (1 .. n + 1))
    BY <2>1, <2>9
  <2>13. ListsUpTo(t, skipped, n + 1)
    BY <2>3, <2>6, <2>7, <2>8, <2>11, <2>12 DEF ListsUpTo
  <2> QED
    BY <2>13 DEF t
<1> QED
  BY <1>1, <1>2, <1>3

\* The recursion of SelectedBut, as a predicate of the function it defines.
Recurs(f, skipped, n) ==
    f = [i \in 0 .. n |-> IF i = 0 THEN <<>> ELSE IF i \in skipped THEN f[i - 1] ELSE Append(f[i - 1], i)]

\* The recursion is defined up to any bound.
LEMMA RecursionExists ==
    ASSUME NEW N \in Nat, NEW skipped
    PROVE  \E f : Recurs(f, skipped, N)
<1> DEFINE Defined == {n \in 0 .. N : \E f : Recurs(f, skipped, n)}
<1>1. 0 \in Defined
  <2>1. Recurs([i \in 0 .. 0 |-> <<>>], skipped, 0)
    BY DEF Recurs
  <2> QED
    BY <2>1
<1>2. ASSUME NEW n \in 0 .. N, n \in Defined, n < N PROVE n + 1 \in Defined
  <2>1. PICK f : Recurs(f, skipped, n)
    BY <1>2
  <2> DEFINE g == [i \in 0 .. n + 1 |-> IF i \in 0 .. n THEN f[i]
                                        ELSE IF i \in skipped THEN f[i - 1] ELSE Append(f[i - 1], i)]
  <2>2. \A i \in 0 .. n : f[i] = IF i = 0 THEN <<>> ELSE IF i \in skipped THEN f[i - 1] ELSE Append(f[i - 1], i)
    BY <2>1, Zenon DEF Recurs
  <2>3. \A i \in 0 .. n + 1 : g[i] = IF i \in 0 .. n THEN f[i]
                                        ELSE IF i \in skipped THEN f[i - 1] ELSE Append(f[i - 1], i)
    OBVIOUS
  <2>4. \A i \in 0 .. n + 1 : i # 0 => i - 1 \in 0 .. n /\ g[i - 1] = f[i - 1]
    BY <2>3
  <2>5. \A i \in 0 .. n + 1 : g[i] = IF i = 0 THEN <<>> ELSE IF i \in skipped THEN g[i - 1] ELSE Append(g[i - 1], i)
    <3> TAKE i \in 0 .. n + 1
    <3>1. CASE i = 0
      <4>1. i \in 0 .. n
        BY <3>1
      <4> QED
        BY <3>1, <4>1, <2>2, <2>3, Zenon
    <3>2. CASE i # 0
      <4>1. g[i - 1] = f[i - 1]
        BY <3>2, <2>4
      <4>2. g[i] = IF i \in skipped THEN f[i - 1] ELSE Append(f[i - 1], i)
        BY <3>2, <2>2, <2>3, Zenon
      <4> QED
        BY <3>2, <4>1, <4>2, Zenon
    <3> QED
      BY <3>1, <3>2
  <2>6. g = [i \in 0 .. n + 1 |-> g[i]]
    BY Zenon
  <2> HIDE DEF g
  <2>7. Recurs(g, skipped, n + 1)
    BY <2>5, <2>6, Zenon DEF Recurs
  <2>8. n + 1 \in 0 .. N
    BY <1>2
  <2> QED
    BY <2>7, <2>8, Zenon
<1> HIDE DEF Defined
<1>3. N \in Defined
  BY <1>1, <1>2, UpToBound
<1> QED
  BY <1>3 DEF Defined

\* s lists the permutations not in skipped, each once.
Lists(s, skipped) == ListsUpTo(s, skipped, Size)

\* What is left of the selection is what was not skipped, each once.
LEMMA SelectedLists ==
    ASSUME NEW skipped \in SUBSET Perms
    PROVE  Lists(SelectedBut(skipped), skipped)
<1> DEFINE upTo == CHOOSE f : Recurs(f, skipped, Size)
<1>1. Size \in Nat
  BY BatchAssumption
<1>2. SelectedBut(skipped) = upTo[Size]
  BY Zenon DEF SelectedBut, Recurs
<1>3. Recurs(upTo, skipped, Size)
  BY <1>1, RecursionExists, Zenon
<1> HIDE DEF upTo
<1>4. \A i \in 0 .. Size : upTo[i] = IF i = 0 THEN <<>> ELSE IF i \in skipped THEN upTo[i - 1] ELSE Append(upTo[i - 1], i)
  BY <1>3, Zenon DEF Recurs
<1> DEFINE Good == {n \in 0 .. Size : ListsUpTo(upTo[n], skipped, n)}
<1>5. 0 \in Good
  BY <1>1, <1>4, ListsStep
<1>6. ASSUME NEW n \in 0 .. Size, n \in Good, n < Size PROVE n + 1 \in Good
  <2>1. n + 1 \in 0 .. Size /\ n + 1 # 0 /\ (n + 1) - 1 = n /\ n \in Nat
    BY <1>1, <1>6
  <2>2. upTo[n + 1] = IF n + 1 \in skipped THEN upTo[n] ELSE Append(upTo[n], n + 1)
    BY <2>1, <1>4
  <2>3. ListsUpTo(upTo[n], skipped, n)
    BY <1>6
  <2> QED
    BY <2>1, <2>2, <2>3, <1>6, ListsStep
<1> HIDE DEF Good
<1>7. Size \in Good
  BY <1>1, <1>5, <1>6, UpToBound
<1> QED
  BY <1>2, <1>7 DEF Good, Lists

-----------------------------------------------------------------------------
(* The permutations a batch runs *)

Skipped   == {p \in Perms : row[p] = "skipped"}
InHand(w) == slot[w].at \in {"loop", "seeding", "running", "closed"}
Chosen    == pc \notin {"staging", "resume", "rejected"}
Joined    == pc \in {"index", "end", "closing", "over"}

\* What is left of the selection is what was not skipped, from --resume on.
Ordered ==
    /\ Chosen => Lists(todo, Skipped)
    /\ pc \notin {"pool", "rejected"} /\ ~Joined => next = 0
    /\ pc \in {"staging", "resume"} => \A p \in Perms : results[p] = "none" /\ row[p] = "queued"

\* Nobody works but in the pool, and the first worker stays for the whole list.
Slots ==
    /\ pc # "pool" => \A w \in Workers : ~InHand(w)
    /\ pc = "pool" /\ 1 \in Workers /\ slot[1].at = "over" => aborted \/ next = Len(todo)
    /\ Joined => aborted \/ next = Len(todo)

\* What a worker has in hand was admitted, has no result, and is its alone.
Holding ==
    \A w \in Workers : InHand(w) =>
        /\ \E i \in 1 .. next : slot[w].perm = todo[i]
        /\ results[slot[w].perm] = "none"
        /\ row[slot[w].perm] \in IF slot[w].at = "loop" THEN {"queued", "retrying"} ELSE {"login"}
        /\ \A v \in Workers : InHand(v) /\ slot[v].perm = slot[w].perm => v = w

\* What was not admitted is untouched, and what was and has no result is in hand.
Waiting ==
    Chosen => \A i \in 1 .. Len(todo) :
        /\ i > next => results[todo[i]] = "none" /\ row[todo[i]] = "queued"
        /\ i <= next /\ results[todo[i]] = "none" => \E w \in Workers : InHand(w) /\ slot[w].perm = todo[i]

\* The results and the rows agree, but for what has no work directory.
Booked ==
    \A p \in Perms :
        /\ row[p] = "skipped" => results[p] = "none"
        /\ results[p] = "ok" <=> row[p] = "done"
        /\ row[p] = "failed" => results[p] = "failed"
        /\ results[p] = "failed" /\ ~aborted => row[p] = "failed" \/ (row[p] = "login" /\ "seed" \in Faults)

\* The template is whole where a permutation is seeded with it, and where the
\* warm-up's exit code will say it is.
Warm ==
    /\ WarmUp \in jvms => pc = "warming" /\ ~seeding
    /\ pc = "wiping" => ~warm /\ ~seeding
    /\ pc = "warming" => (warm /\ ~aborted /\ WarmUp \notin jvms => template = "whole") /\ ~seeding
    /\ pc \in {"staging", "resume", "jar", "warmup"} => ~seeding /\ ~warm
    /\ NoTornTemplate

PoolInv  == Ordered /\ Slots /\ Holding /\ Waiting /\ Booked
BatchInv == TypeOK /\ PoolInv /\ Warm /\ Accounted

Slot == [at: {"free", "loop", "seeding", "running", "closed", "over"}, perm: 0 .. Size, tries: 0 .. MaxAttempts]

\* The selection and the pool's books have their types.
Books ==
    /\ todo \in Seq(Perms) /\ next \in 0 .. Len(todo)
    /\ slot \in [Workers -> Slot]
    /\ results \in [Perms -> {"none", "ok", "failed"}]
    /\ row \in [Perms -> {"queued", "skipped", "login", "retrying", "done", "failed"}]

\* And so has everything else.
Others ==
    /\ pc \in {"staging", "resume", "jar", "warmup", "wiping", "warming", "fan", "pool",
               "index", "end", "closing", "over", "rejected"}
    /\ {aborted, indexed, cancelled, seeding, warm, reaping, signalled} \subseteq BOOLEAN
    /\ said \in [ok: 0 .. Size, failed: 0 .. Size, skipped: 0 .. Size, cancelled: BOOLEAN]
    /\ template \in {"empty", "torn", "whole"}
    /\ jvms \subseteq Perms \cup {WarmUp} /\ live \subseteq Perms
    /\ proc \in {"up", "gone"}

LEMMA Types == /\ TypeOK <=> Books /\ Others
               /\ TypeOK' <=> Books' /\ Others'
<1>1. TypeOK <=> Books /\ Others
  BY Zenon DEF TypeOK, Books, Others, Slot
<1>2. TypeOK' <=> Books' /\ Others'
  BY Zenon DEF TypeOK, Books, Others, Slot
<1> QED
  BY <1>1, <1>2

\* The four things a step of a worker can be for the pool's books.
Admits(w, s) ==
    /\ slot[w].at = "free" /\ ~aborted /\ next < Len(todo)
    /\ next' = next + 1 /\ s = [at |-> "loop", perm |-> todo[next + 1], tries |-> 0]
    /\ UNCHANGED <<results, row>>

Retires(w, s) ==
    /\ slot[w].at = "free" /\ (aborted \/ next = Len(todo)) /\ s = Over
    /\ UNCHANGED <<next, results, row>>

Carries(w, s, v) ==
    /\ InHand(w) /\ s.at \in {"loop", "seeding", "running", "closed"} /\ s.perm = slot[w].perm
    /\ v \in IF s.at = "loop" THEN {"queued", "retrying"} ELSE {"login"}
    /\ row' = [row EXCEPT ![slot[w].perm] = v]
    /\ UNCHANGED <<next, results>>

Settles(w, s, r, v) ==
    /\ InHand(w) /\ s = Free
    /\ \/ r = "ok" /\ v = "done"
       \/ r = "failed" /\ v = "failed"
       \/ r = "failed" /\ v = row[slot[w].perm] /\ aborted
       \/ r = "failed" /\ v = row[slot[w].perm] /\ v = "login" /\ "seed" \in Faults
    /\ results' = [results EXCEPT ![slot[w].perm] = r]
    /\ row' = [row EXCEPT ![slot[w].perm] = v]
    /\ UNCHANGED next

Statuses == {"queued", "skipped", "login", "retrying", "done", "failed"}

WorkerBooks(w) ==
    /\ UNCHANGED <<pc, todo, aborted>> /\ pc = "pool"
    /\ \E s \in Slot : /\ slot' = [slot EXCEPT ![w] = s]
                       /\ \/ Admits(w, s)
                          \/ Retires(w, s)
                          \/ \E v \in Statuses : Carries(w, s, v)
                          \/ \E v \in Statuses, r \in {"ok", "failed"} : Settles(w, s, r, v)

\* What a worker has in hand is a permutation, with no result and no final row.
LEMMA InHandIs ==
    ASSUME Books, Holding, NEW w \in Workers, InHand(w)
    PROVE  /\ slot[w].perm \in Perms
           /\ results[slot[w].perm] = "none"
           /\ row[slot[w].perm] \in {"queued", "retrying", "login"}
           /\ slot[w].at # "loop" => row[slot[w].perm] = "login"
<1>1. PICK i \in 1 .. next : slot[w].perm = todo[i]
  BY DEF Holding
<1>2. i \in 1 .. Len(todo) /\ todo \in Seq(Perms)
  BY DEF Books
<1>3. todo[i] \in Perms
  BY <1>2
<1> QED
  BY <1>1, <1>3 DEF Holding

\* A step of a worker is one of the four.
LEMMA WorkerStepBooks ==
    ASSUME Books, Holding, NEW w \in Workers, Worker(w)
    PROVE  WorkerBooks(w)
<1>0. Size \in Nat /\ MaxAttempts \in Nat \ {0}
  BY BatchAssumption
<1>1. slot[w] \in Slot /\ w \in Perms
  BY DEF Books, Workers
<1>2. slot[w] = [at |-> slot[w].at, perm |-> slot[w].perm, tries |-> slot[w].tries]
      /\ slot[w].perm \in 0 .. Size /\ slot[w].tries \in 0 .. MaxAttempts
      /\ slot[w].at \in {"free", "loop", "seeding", "running", "closed", "over"}
  BY <1>1 DEF Slot
<1>3. ASSUME NEW at \in {"free", "loop", "seeding", "running", "closed", "over"}
      PROVE  /\ [slot[w] EXCEPT !.at = at] = [at |-> at, perm |-> slot[w].perm, tries |-> slot[w].tries]
             /\ [slot[w] EXCEPT !.at = at] \in Slot
  BY <1>1, <1>2 DEF Slot
<1>4. [slot EXCEPT ![w] = slot[w]] = slot
  BY DEF Books
<1>5. CASE Admit(w)
  <2> DEFINE s == [at |-> "loop", perm |-> todo[next + 1], tries |-> 0]
  <2>1. next + 1 \in 1 .. Len(todo)
    BY <1>5 DEF Admit, Books
  <2>2. todo[next + 1] \in Perms
    BY <2>1 DEF Books
  <2>3. s \in Slot
    BY <1>0, <2>2 DEF Slot, Perms
  <2>4. slot' = [slot EXCEPT ![w] = s] /\ Admits(w, s) /\ UNCHANGED <<pc, todo, aborted>> /\ pc = "pool"
    BY <1>5 DEF Admit, Admits
  <2> QED
    BY <2>3, <2>4 DEF WorkerBooks
<1>6. CASE Retire(w)
  <2>1. Over \in Slot
    BY <1>0 DEF Over, Slot
  <2>2. slot' = [slot EXCEPT ![w] = Over] /\ Retires(w, Over) /\ UNCHANGED <<pc, todo, aborted>> /\ pc = "pool"
    BY <1>6 DEF Retire, Retires
  <2> QED
    BY <2>1, <2>2 DEF WorkerBooks
<1>7. CASE Try(w)
  <2> DEFINE s == [at |-> "seeding", perm |-> slot[w].perm, tries |-> slot[w].tries + 1]
  <2>1. slot[w].tries + 1 \in 0 .. MaxAttempts
    BY <1>0, <1>2, <1>7 DEF Try
  <2>2. s \in Slot
    BY <1>2, <2>1 DEF Slot
  <2>3. [slot[w] EXCEPT !.at = "seeding", !.tries = @ + 1] = s
    <3>1. [slot[w] EXCEPT !.at = "seeding", !.tries = @ + 1]
            = [[slot[w] EXCEPT !.at = "seeding"] EXCEPT !.tries = slot[w].tries + 1]
      BY <1>1 DEF Slot
    <3>2. \A n : [[at |-> "seeding", perm |-> slot[w].perm, tries |-> slot[w].tries] EXCEPT !.tries = n]
                   = [at |-> "seeding", perm |-> slot[w].perm, tries |-> n]
      OBVIOUS
    <3> QED
      BY <1>3, <3>1, <3>2, Zenon
  <2>4. slot' = [slot EXCEPT ![w] = [slot[w] EXCEPT !.at = "seeding", !.tries = @ + 1]]
    BY <1>7, <1>1 DEF Try, Books
  <2>5. slot' = [slot EXCEPT ![w] = s]
    BY <2>3, <2>4
  <2>6. InHand(w) /\ s.at = "seeding" /\ s.perm = slot[w].perm
    BY <1>7 DEF Try, InHand
  <2> HIDE DEF s
  <2>7. Carries(w, s, "login") /\ UNCHANGED <<pc, todo, aborted>> /\ pc = "pool"
    BY <1>7, <2>6 DEF Try, Carries, Apply
  <2> QED
    BY <2>2, <2>5, <2>7 DEF WorkerBooks, Statuses
<1>8. CASE Launch(w)
  <2> DEFINE s == [slot[w] EXCEPT !.at = "running"]
  <2>1. s \in Slot /\ s.at = "running" /\ s.perm = slot[w].perm
    BY <1>3
  <2>2. slot' = [slot EXCEPT ![w] = s]
    BY <1>8, <1>1 DEF Launch, Books
  <2>3. InHand(w) /\ slot[w].at # "loop"
    BY <1>8 DEF Launch, InHand
  <2>4. row[slot[w].perm] = "login"
    BY <2>3, InHandIs
  <2>5. row = [row EXCEPT ![slot[w].perm] = "login"]
    BY <2>4 DEF Books
  <2> HIDE DEF s
  <2>6. Carries(w, s, "login") /\ UNCHANGED <<pc, todo, aborted>> /\ pc = "pool"
    BY <1>8, <2>1, <2>3, <2>5 DEF Launch, Carries
  <2> QED
    BY <2>1, <2>2, <2>6 DEF WorkerBooks, Statuses
<1>9. CASE Close(w)
  <2> DEFINE s == [slot[w] EXCEPT !.at = "closed"]
  <2>1. s \in Slot /\ s.at = "closed" /\ s.perm = slot[w].perm
    BY <1>3
  <2>2. slot' = [slot EXCEPT ![w] = s]
    BY <1>9, <1>1 DEF Close, Books
  <2>3. InHand(w) /\ slot[w].at # "loop"
    BY <1>9 DEF Close, InHand
  <2>4. row[slot[w].perm] = "login"
    BY <2>3, InHandIs
  <2>5. row = [row EXCEPT ![slot[w].perm] = "login"]
    BY <2>4 DEF Books
  <2> HIDE DEF s
  <2>6. Carries(w, s, "login") /\ UNCHANGED <<pc, todo, aborted>> /\ pc = "pool"
    BY <1>9, <2>1, <2>3, <2>5 DEF Close, Carries
  <2> QED
    BY <2>1, <2>2, <2>6 DEF WorkerBooks, Statuses
<1>10. CASE RetryWait(w)
  <2> DEFINE s == [slot[w] EXCEPT !.at = "loop"]
  <2>1. s \in Slot /\ s.at = "loop" /\ s.perm = slot[w].perm
    BY <1>3
  <2>2. slot' = [slot EXCEPT ![w] = s]
    BY <1>10, <1>1 DEF RetryWait, Books
  <2>3. InHand(w)
    BY <1>10 DEF RetryWait, InHand
  <2> HIDE DEF s
  <2>4. Carries(w, s, "retrying") /\ UNCHANGED <<pc, todo, aborted>> /\ pc = "pool"
    BY <1>10, <2>1, <2>3 DEF RetryWait, Carries, Apply
  <2> QED
    BY <2>1, <2>2, <2>4 DEF WorkerBooks, Statuses
<1>11. CASE WorkerDone(w)
  <2>1. InHand(w)
    BY <1>11 DEF WorkerDone, InHand
  <2>2. /\ row[slot[w].perm] \in {"queued", "retrying", "login"}
        /\ slot[w].at # "loop" => row[slot[w].perm] = "login"
    BY <2>1, InHandIs
  <2>3. Free \in Slot
    BY <1>0 DEF Free, Slot
  <2>4. \E r \in {"ok", "failed"}, v \in Statuses :
            /\ Settle(w, r, v)
            /\ \/ r = "ok" /\ v = "done"
               \/ r = "failed" /\ v = "failed"
               \/ r = "failed" /\ v = row[slot[w].perm] /\ aborted
               \/ r = "failed" /\ v = row[slot[w].perm] /\ v = "login" /\ "seed" \in Faults
    BY <1>11, <2>2 DEF WorkerDone, Apply, Statuses
  <2>5. pc = "pool"
    BY <1>11 DEF WorkerDone
  <2>6. PICK r \in {"ok", "failed"}, v \in Statuses :
            /\ Settle(w, r, v)
            /\ \/ r = "ok" /\ v = "done"
               \/ r = "failed" /\ v = "failed"
               \/ r = "failed" /\ v = row[slot[w].perm] /\ aborted
               \/ r = "failed" /\ v = row[slot[w].perm] /\ v = "login" /\ "seed" \in Faults
    BY <2>4
  <2>7. slot' = [slot EXCEPT ![w] = Free] /\ Settles(w, Free, r, v) /\ UNCHANGED <<pc, todo, aborted>>
    BY <2>1, <2>6 DEF Settle, Settles
  <2> QED
    BY <2>3, <2>5, <2>7 DEF WorkerBooks
<1> QED
  BY <1>5, <1>6, <1>7, <1>8, <1>9, <1>10, <1>11 DEF Worker

\* A permutation in hand is one of those admitted.
LEMMA InHandAdmitted ==
    ASSUME Books, Holding, NEW w \in Workers, InHand(w)
    PROVE  \E i \in 1 .. Len(todo) : i <= next /\ todo[i] = slot[w].perm
<1>1. PICK i \in 1 .. next : slot[w].perm = todo[i]
  BY DEF Holding
<1>2. i \in 1 .. Len(todo) /\ i <= next
  BY DEF Books
<1> QED
  BY <1>1, <1>2

\* The selection is listed without repetition.
LEMMA NoRepetition ==
    ASSUME Books, Ordered, Chosen, NEW i \in 1 .. Len(todo), NEW j \in 1 .. Len(todo), todo[i] = todo[j]
    PROVE  i = j /\ todo[i] \in Perms /\ todo[i] \notin Skipped
BY DEF Books, Ordered, Lists, ListsUpTo

\* The types survive a step of a worker, and so does what was skipped.
LEMMA WorkerKeepsBooks ==
    ASSUME Books, PoolInv, NEW w \in Workers, WorkerBooks(w)
    PROVE  Books' /\ Skipped' = Skipped
<1> USE DEF PoolInv
<1>1. PICK s \in Slot : /\ slot' = [slot EXCEPT ![w] = s]
                        /\ \/ Admits(w, s)
                           \/ Retires(w, s)
                           \/ \E v \in Statuses : Carries(w, s, v)
                           \/ \E v \in Statuses, r \in {"ok", "failed"} : Settles(w, s, r, v)
  BY DEF WorkerBooks
<1>2. todo' = todo
  BY DEF WorkerBooks
<1>3. slot' \in [Workers -> Slot]
  BY <1>1 DEF Books
<1>4. CASE UNCHANGED <<results, row>> /\ next' \in 0 .. Len(todo)
  BY <1>2, <1>3, <1>4 DEF Books, Skipped
<1>5. CASE Admits(w, s) \/ Retires(w, s)
  BY <1>4, <1>5 DEF Admits, Retires, Books
<1>6. ASSUME NEW v \in Statuses, v # "skipped", InHand(w), row' = [row EXCEPT ![slot[w].perm] = v], UNCHANGED next,
             UNCHANGED results \/ \E r \in {"ok", "failed"} : results' = [results EXCEPT ![slot[w].perm] = r]
      PROVE  Books' /\ Skipped' = Skipped
  <2>1. slot[w].perm \in Perms /\ row[slot[w].perm] # "skipped"
    BY <1>6, InHandIs
  <2>2. row' \in [Perms -> Statuses]
    BY <1>6 DEF Books, Statuses
  <2>3. results' \in [Perms -> {"none", "ok", "failed"}]
    BY <1>6 DEF Books
  <2>4. \A p \in Perms : row'[p] = "skipped" <=> row[p] = "skipped"
    BY <1>6, <2>1 DEF Books
  <2>5. next' \in 0 .. Len(todo')
    BY <1>2, <1>6 DEF Books
  <2> QED
    BY <1>2, <1>3, <2>2, <2>3, <2>4, <2>5 DEF Books, Skipped, Statuses
<1>7. CASE \E v \in Statuses : Carries(w, s, v)
  <2> PICK v \in Statuses : Carries(w, s, v)
    BY <1>7
  <2> QED
    BY <1>6 DEF Carries
<1>8. CASE \E v \in Statuses, r \in {"ok", "failed"} : Settles(w, s, r, v)
  <2> PICK v \in Statuses, r \in {"ok", "failed"} : Settles(w, s, r, v)
    BY <1>8
  <2>1. v # "skipped"
    BY InHandIs DEF Settles
  <2> QED
    BY <1>6, <2>1 DEF Settles
<1> QED
  BY <1>1, <1>5, <1>7, <1>8

\* Admitting, retiring, carrying on and settling keep the pool's books.
LEMMA AdmitsKeeps ==
    ASSUME Books, PoolInv, pc = "pool", UNCHANGED <<pc, todo, aborted>>, Books', Skipped' = Skipped,
           NEW w \in Workers, NEW s \in Slot, slot' = [slot EXCEPT ![w] = s], Admits(w, s)
    PROVE  PoolInv'
<1> USE DEF PoolInv
<1>1. Chosen /\ ~Joined /\ Chosen' /\ ~Joined'
  BY DEF Chosen, Joined
<1>2. next + 1 \in 1 .. Len(todo) /\ next \in Nat /\ next' = next + 1 /\ UNCHANGED <<results, row>> /\ ~aborted
  BY DEF Books, Admits
<1>3. results[todo[next + 1]] = "none" /\ row[todo[next + 1]] = "queued"
  BY <1>1, <1>2 DEF Waiting
<1>4. s.at = "loop" /\ s.perm = todo[next + 1]
  BY DEF Admits
<1>5. slot'[w] = s /\ \A v \in Workers : v # w => slot'[v] = slot[v]
  BY DEF Books
<1>6. ~InHand(w) /\ InHand(w)' /\ \A v \in Workers : v # w => (InHand(v)' <=> InHand(v))
  BY <1>4, <1>5 DEF InHand, Admits
<1>7. \A v \in Workers : InHand(v) => slot[v].perm # todo[next + 1]
  <2> SUFFICES ASSUME NEW v \in Workers, InHand(v), slot[v].perm = todo[next + 1] PROVE FALSE
    OBVIOUS
  <2>1. PICK i \in 1 .. Len(todo) : i <= next /\ todo[i] = todo[next + 1]
    BY InHandAdmitted
  <2>2. i = next + 1
    BY <1>1, <1>2, <2>1, NoRepetition
  <2> QED
    BY <1>2, <2>1, <2>2
<1>8. Ordered'
  BY <1>1 DEF Ordered, Lists, ListsUpTo
<1>9. Slots'
  BY <1>1, <1>2, <1>4, <1>5 DEF Slots, Admits
<1>10. Holding'
  <2> SUFFICES ASSUME NEW u \in Workers, InHand(u)'
               PROVE  (/\ \E i \in 1 .. next : slot[u].perm = todo[i]
                       /\ results[slot[u].perm] = "none"
                       /\ row[slot[u].perm] \in IF slot[u].at = "loop" THEN {"queued", "retrying"} ELSE {"login"}
                       /\ \A v \in Workers : InHand(v) /\ slot[v].perm = slot[u].perm => v = u)'
    BY DEF Holding
  <2>1. CASE u = w
    BY <2>1, <1>2, <1>3, <1>4, <1>5, <1>6, <1>7
  <2>2. CASE u # w
    <3>1. slot'[u] = slot[u] /\ InHand(u) /\ slot[u].perm # todo[next + 1]
      BY <2>2, <1>5, <1>6, <1>7
    <3>2. \E i \in 1 .. next' : slot[u].perm = todo'[i]
      BY <3>1, <1>2 DEF Holding
    <3>3. \A v \in Workers : InHand(v)' /\ slot'[v].perm = slot[u].perm => v = u
      BY <3>1, <1>4, <1>5, <1>6 DEF Holding
    <3>4. /\ results[slot[u].perm] = "none"
          /\ row[slot[u].perm] \in IF slot[u].at = "loop" THEN {"queued", "retrying"} ELSE {"login"}
      BY <3>1 DEF Holding
    <3> QED
      BY <3>1, <3>2, <3>3, <3>4, <1>2
  <2> QED
    BY <2>1, <2>2
<1>11. Waiting'
  <2> SUFFICES ASSUME NEW i \in 1 .. Len(todo)
               PROVE  /\ i > next' => results'[todo[i]] = "none" /\ row'[todo[i]] = "queued"
                      /\ i <= next' /\ results'[todo[i]] = "none" => \E v \in Workers : InHand(v)' /\ slot'[v].perm = todo[i]
    BY DEF Waiting
  <2>1. i > next' => results'[todo[i]] = "none" /\ row'[todo[i]] = "queued"
    BY <1>1, <1>2 DEF Waiting
  <2>2. ASSUME i <= next', results'[todo[i]] = "none" PROVE \E v \in Workers : InHand(v)' /\ slot'[v].perm = todo[i]
    <3>1. CASE i = next + 1
      BY <3>1, <1>4, <1>5, <1>6
    <3>2. CASE i # next + 1
      <4>1. i <= next /\ results[todo[i]] = "none"
        BY <3>2, <2>2, <1>2
      <4>2. PICK v \in Workers : InHand(v) /\ slot[v].perm = todo[i]
        BY <4>1, <1>1 DEF Waiting
      <4> QED
        BY <4>2, <1>5, <1>6
    <3> QED
      BY <3>1, <3>2
  <2> QED
    BY <2>1, <2>2
<1>12. Booked'
  BY <1>2 DEF Booked
<1> QED
  BY <1>8, <1>9, <1>10, <1>11, <1>12

LEMMA RetiresKeeps ==
    ASSUME Books, PoolInv, pc = "pool", UNCHANGED <<pc, todo, aborted>>, Books', Skipped' = Skipped,
           NEW w \in Workers, NEW s \in Slot, slot' = [slot EXCEPT ![w] = s], Retires(w, s)
    PROVE  PoolInv'
<1> USE DEF PoolInv
<1>1. Chosen /\ ~Joined /\ Chosen' /\ ~Joined'
  BY DEF Chosen, Joined
<1>2. UNCHANGED <<next, results, row>>
  BY DEF Retires
<1>3. slot'[w] = s /\ \A v \in Workers : v # w => slot'[v] = slot[v]
  BY DEF Books
<1>4. ~InHand(w) /\ ~InHand(w)'
  BY <1>3 DEF InHand, Retires, Over
<1>5. \A v \in Workers : InHand(v)' => InHand(v) /\ slot'[v] = slot[v]
  BY <1>3, <1>4 DEF InHand
<1>6. \A v \in Workers : InHand(v) => InHand(v)' /\ slot'[v] = slot[v]
  BY <1>3, <1>4 DEF InHand
<1>7. Ordered'
  BY <1>1 DEF Ordered, Lists, ListsUpTo
<1>8. Slots'
  BY <1>1, <1>2, <1>3 DEF Slots, Retires
<1>9. Holding'
  <2> SUFFICES ASSUME NEW u \in Workers, InHand(u)'
               PROVE  (/\ \E i \in 1 .. next : slot[u].perm = todo[i]
                       /\ results[slot[u].perm] = "none"
                       /\ row[slot[u].perm] \in IF slot[u].at = "loop" THEN {"queued", "retrying"} ELSE {"login"}
                       /\ \A y \in Workers : InHand(y) /\ slot[y].perm = slot[u].perm => y = u)'
    BY DEF Holding
  <2>1. InHand(u) /\ slot'[u] = slot[u]
    BY <1>5
  <2>2. \A y \in Workers : InHand(y)' /\ slot'[y].perm = slot'[u].perm => y = u
    BY <2>1, <1>5 DEF Holding
  <2> QED
    BY <2>1, <2>2, <1>2 DEF Holding
<1>10. Waiting'
  BY <1>1, <1>2, <1>6 DEF Waiting
<1>11. Booked'
  BY <1>2 DEF Booked
<1> QED
  BY <1>7, <1>8, <1>9, <1>10, <1>11

LEMMA CarriesKeeps ==
    ASSUME Books, PoolInv, pc = "pool", UNCHANGED <<pc, todo, aborted>>, Books', Skipped' = Skipped,
           NEW w \in Workers, NEW s \in Slot, slot' = [slot EXCEPT ![w] = s],
           NEW v \in Statuses, Carries(w, s, v)
    PROVE  PoolInv'
<1> USE DEF PoolInv
<1> DEFINE p == slot[w].perm
<1>1. Chosen /\ ~Joined /\ Chosen' /\ ~Joined'
  BY DEF Chosen, Joined
<1>2. UNCHANGED <<next, results>> /\ row' = [row EXCEPT ![p] = v]
  BY DEF Carries
<1>3. slot'[w] = s /\ \A u \in Workers : u # w => slot'[u] = slot[u]
  BY DEF Books
<1>4. InHand(w) /\ InHand(w)' /\ s.perm = p
  BY <1>3 DEF InHand, Carries
<1>5. \A u \in Workers : (InHand(u)' <=> InHand(u)) /\ (InHand(u) => slot'[u].perm = slot[u].perm)
  BY <1>3, <1>4 DEF InHand
<1>6. p \in Perms /\ results[p] = "none" /\ v \in {"queued", "retrying", "login"}
  BY <1>4, InHandIs DEF Carries
<1>7. row'[p] = v /\ \A q \in Perms : q # p => row'[q] = row[q]
  BY <1>2, <1>6 DEF Books
<1>8. Ordered'
  BY <1>1 DEF Ordered, Lists, ListsUpTo
<1>9. Slots'
  BY <1>1, <1>2, <1>3, <1>4 DEF Slots, InHand
<1>10. Holding'
  <2> SUFFICES ASSUME NEW u \in Workers, InHand(u)'
               PROVE  (/\ \E i \in 1 .. next : slot[u].perm = todo[i]
                       /\ results[slot[u].perm] = "none"
                       /\ row[slot[u].perm] \in IF slot[u].at = "loop" THEN {"queued", "retrying"} ELSE {"login"}
                       /\ \A y \in Workers : InHand(y) /\ slot[y].perm = slot[u].perm => y = u)'
    BY DEF Holding
  <2>1. InHand(u) /\ slot'[u].perm = slot[u].perm
    BY <1>5
  <2>2. \E i \in 1 .. next' : slot'[u].perm = todo'[i]
    BY <2>1, <1>2 DEF Holding
  <2>3. results'[slot'[u].perm] = "none"
    BY <2>1, <1>2 DEF Holding
  <2>4. \A y \in Workers : InHand(y)' /\ slot'[y].perm = slot'[u].perm => y = u
    BY <2>1, <1>5 DEF Holding
  <2>5. row'[slot'[u].perm] \in IF slot'[u].at = "loop" THEN {"queued", "retrying"} ELSE {"login"}
    <3>1. CASE u = w
      BY <3>1, <1>3, <1>4, <1>7 DEF Carries
    <3>2. CASE u # w
      <4>1. slot[u].perm # p /\ slot[u].perm \in Perms
        BY <3>2, <2>1, <1>4, InHandIs DEF Holding
      <4>2. row[slot[u].perm] \in IF slot[u].at = "loop" THEN {"queued", "retrying"} ELSE {"login"}
        BY <2>1 DEF Holding
      <4> QED
        BY <3>2, <4>1, <4>2, <1>3, <1>7
    <3> QED
      BY <3>1, <3>2
  <2> QED
    BY <2>2, <2>3, <2>4, <2>5
<1>11. Waiting'
  <2> SUFFICES ASSUME NEW i \in 1 .. Len(todo)
               PROVE  /\ i > next' => results'[todo[i]] = "none" /\ row'[todo[i]] = "queued"
                      /\ i <= next' /\ results'[todo[i]] = "none" => \E y \in Workers : InHand(y)' /\ slot'[y].perm = todo[i]
    BY DEF Waiting
  <2>1. ASSUME i > next PROVE row'[todo[i]] = row[todo[i]]
    <3>1. PICK j \in 1 .. Len(todo) : j <= next /\ todo[j] = p
      BY <1>4, InHandAdmitted
    <3>2. todo[i] \in Perms
      BY <1>1, NoRepetition
    <3>3. next \in Nat
      BY DEF Books
    <3>4. todo[i] # p
      BY <2>1, <3>1, <3>3, <1>1, NoRepetition
    <3> QED
      BY <3>2, <3>4, <1>7
  <2>2. i > next' => results'[todo[i]] = "none" /\ row'[todo[i]] = "queued"
    BY <2>1, <1>1, <1>2 DEF Waiting
  <2>3. i <= next' /\ results'[todo[i]] = "none" => \E y \in Workers : InHand(y)' /\ slot'[y].perm = todo[i]
    BY <1>1, <1>2, <1>5 DEF Waiting
  <2> QED
    BY <2>2, <2>3
<1>12. Booked'
  <2> SUFFICES ASSUME NEW q \in Perms
               PROVE  (/\ row[q] = "skipped" => results[q] = "none"
                       /\ results[q] = "ok" <=> row[q] = "done"
                       /\ row[q] = "failed" => results[q] = "failed"
                       /\ results[q] = "failed" /\ ~aborted
                              => row[q] = "failed" \/ (row[q] = "login" /\ "seed" \in Faults))'
    BY DEF Booked
  <2>1. CASE q = p
    BY <2>1, <1>2, <1>6, <1>7
  <2>2. CASE q # p
    BY <2>2, <1>2, <1>7 DEF Booked
  <2> QED
    BY <2>1, <2>2
<1> QED
  BY <1>8, <1>9, <1>10, <1>11, <1>12

LEMMA SettlesKeeps ==
    ASSUME Books, PoolInv, pc = "pool", UNCHANGED <<pc, todo, aborted>>, Books', Skipped' = Skipped,
           NEW w \in Workers, NEW s \in Slot, slot' = [slot EXCEPT ![w] = s],
           NEW v \in Statuses, NEW r \in {"ok", "failed"}, Settles(w, s, r, v)
    PROVE  PoolInv'
<1> USE DEF PoolInv
<1> DEFINE p == slot[w].perm
<1>1. Chosen /\ ~Joined /\ Chosen' /\ ~Joined'
  BY DEF Chosen, Joined
<1>2. UNCHANGED next /\ results' = [results EXCEPT ![p] = r] /\ row' = [row EXCEPT ![p] = v] /\ s = Free
  BY DEF Settles
<1>3. slot'[w] = s /\ \A u \in Workers : u # w => slot'[u] = slot[u]
  BY DEF Books
<1>4. InHand(w) /\ ~InHand(w)'
  BY <1>2, <1>3 DEF InHand, Settles, Free
<1>5. \A u \in Workers : u # w => (InHand(u)' <=> InHand(u))
  BY <1>3 DEF InHand
<1>6. p \in Perms /\ row[p] \in {"queued", "retrying", "login"}
  BY <1>4, InHandIs
<1>7. /\ row'[p] = v /\ results'[p] = r
      /\ \A q \in Perms : q # p => row'[q] = row[q] /\ results'[q] = results[q]
  BY <1>2, <1>6 DEF Books
<1>8. \A u \in Workers : u # w /\ InHand(u) => slot[u].perm # p
  BY <1>4 DEF Holding
<1>9. Ordered'
  BY <1>1 DEF Ordered, Lists, ListsUpTo
<1>10. Slots'
  <2>1. s.at # "over"
    BY <1>2 DEF Free
  <2> QED
    BY <2>1, <1>1, <1>2, <1>3 DEF Slots
<1>11. Holding'
  <2> SUFFICES ASSUME NEW u \in Workers, InHand(u)'
               PROVE  (/\ \E i \in 1 .. next : slot[u].perm = todo[i]
                       /\ results[slot[u].perm] = "none"
                       /\ row[slot[u].perm] \in IF slot[u].at = "loop" THEN {"queued", "retrying"} ELSE {"login"}
                       /\ \A y \in Workers : InHand(y) /\ slot[y].perm = slot[u].perm => y = u)'
    BY DEF Holding
  <2>1. u # w /\ InHand(u) /\ slot'[u] = slot[u] /\ slot[u].perm # p /\ slot[u].perm \in Perms
    BY <1>3, <1>4, <1>5, <1>8, InHandIs
  <2>2. \E i \in 1 .. next' : slot'[u].perm = todo'[i]
    BY <2>1, <1>2 DEF Holding
  <2>3. \A y \in Workers : InHand(y)' /\ slot'[y].perm = slot'[u].perm => y = u
    BY <2>1, <1>3, <1>4, <1>5 DEF Holding
  <2>4. /\ results[slot[u].perm] = "none"
        /\ row[slot[u].perm] \in IF slot[u].at = "loop" THEN {"queued", "retrying"} ELSE {"login"}
    BY <2>1 DEF Holding
  <2> QED
    BY <2>1, <2>2, <2>3, <2>4, <1>7
<1>12. Waiting'
  <2> SUFFICES ASSUME NEW i \in 1 .. Len(todo)
               PROVE  /\ i > next' => results'[todo[i]] = "none" /\ row'[todo[i]] = "queued"
                      /\ i <= next' /\ results'[todo[i]] = "none" => \E y \in Workers : InHand(y)' /\ slot'[y].perm = todo[i]
    BY DEF Waiting
  <2>0. todo[i] \in Perms
    BY <1>1, NoRepetition
  <2>1. ASSUME i > next PROVE row'[todo[i]] = row[todo[i]] /\ results'[todo[i]] = results[todo[i]]
    <3>1. PICK j \in 1 .. Len(todo) : j <= next /\ todo[j] = p
      BY <1>4, InHandAdmitted
    <3>2. next \in Nat
      BY DEF Books
    <3>3. todo[i] # p
      BY <2>1, <3>1, <3>2, <1>1, NoRepetition
    <3> QED
      BY <2>0, <3>3, <1>7
  <2>2. i > next' => results'[todo[i]] = "none" /\ row'[todo[i]] = "queued"
    BY <2>1, <1>1, <1>2 DEF Waiting
  <2>3. ASSUME i <= next', results'[todo[i]] = "none" PROVE \E y \in Workers : InHand(y)' /\ slot'[y].perm = todo[i]
    <3>1. todo[i] # p
      BY <2>3, <1>7
    <3>2. PICK y \in Workers : InHand(y) /\ slot[y].perm = todo[i]
      BY <2>0, <2>3, <3>1, <1>1, <1>2, <1>7 DEF Waiting
    <3> QED
      BY <3>1, <3>2, <1>3, <1>5
  <2> QED
    BY <2>2, <2>3
<1>13. Booked'
  <2> SUFFICES ASSUME NEW q \in Perms
               PROVE  (/\ row[q] = "skipped" => results[q] = "none"
                       /\ results[q] = "ok" <=> row[q] = "done"
                       /\ row[q] = "failed" => results[q] = "failed"
                       /\ results[q] = "failed" /\ ~aborted
                              => row[q] = "failed" \/ (row[q] = "login" /\ "seed" \in Faults))'
    BY DEF Booked
  <2>1. CASE q = p
    BY <2>1, <1>6, <1>7 DEF Settles
  <2>2. CASE q # p
    BY <2>2, <1>7 DEF Booked
  <2> QED
    BY <2>1, <2>2
<1> QED
  BY <1>9, <1>10, <1>11, <1>12, <1>13

LEMMA WorkerKeepsPool ==
    ASSUME Books, PoolInv, NEW w \in Workers, Worker(w)
    PROVE  Books' /\ PoolInv'
<1>1. WorkerBooks(w)
  BY WorkerStepBooks DEF PoolInv
<1>2. Books' /\ Skipped' = Skipped
  BY <1>1, WorkerKeepsBooks
<1>3. PICK s \in Slot : /\ slot' = [slot EXCEPT ![w] = s]
                        /\ \/ Admits(w, s)
                           \/ Retires(w, s)
                           \/ \E v \in Statuses : Carries(w, s, v)
                           \/ \E v \in Statuses, r \in {"ok", "failed"} : Settles(w, s, r, v)
  BY <1>1 DEF WorkerBooks
<1>4. pc = "pool" /\ UNCHANGED <<pc, todo, aborted>>
  BY <1>1 DEF WorkerBooks
<1> QED
  BY <1>2, <1>3, <1>4, AdmitsKeeps, RetiresKeeps, CarriesKeeps, SettlesKeeps

-----------------------------------------------------------------------------
(* The steps of execute, of the run and of the process *)

Early  == {"staging", "resume"}
Middle == {"jar", "warmup", "wiping", "warming", "fan"}
After  == {"index", "end", "closing", "over"}

\* What any other step leaves of the pool, and how execute moves meanwhile.
Moves ==
    /\ UNCHANGED <<todo, pool>> /\ (aborted => aborted')
    /\ \/ pc' = pc
       \/ pc' = "rejected" /\ pc # "pool"
       \/ {pc, pc'} \subseteq Early
       \/ {pc, pc'} \subseteq Middle
       \/ {pc, pc'} \subseteq After
       \/ pc = "pool" /\ pc' = "index" /\ \A w \in Workers : slot[w].at = "over"

LEMMA Quiet ==
    ASSUME \/ CreateStaging \/ FindJar \/ SkipWarmUp
           \/ WarmUpBegin \/ WarmUpSpawn \/ WarmUpTimeout \/ WarmUpClose
           \/ Join \/ Index \/ BatchEnd \/ Return
           \/ Rejects("staging", "staging") \/ Rejects("wiping", "template") \/ Rejects("index", "index")
           \/ Cancel \/ Signal \/ Reap \/ ProcessExit \/ \E p \in Perms : JvmEnds(p)
           \/ WarmUpEnds
    PROVE  Moves
<1> USE DEF Moves, Early, Middle, After
<1>1. CASE CreateStaging \/ FindJar \/ SkipWarmUp
  BY <1>1 DEF CreateStaging, FindJar, SkipWarmUp
<1>2. CASE WarmUpBegin \/ WarmUpSpawn \/ WarmUpTimeout \/ WarmUpClose
  BY <1>2 DEF WarmUpBegin, WarmUpSpawn, WarmUpTimeout, WarmUpClose
<1>3. CASE Join \/ Index \/ BatchEnd \/ Return
  BY <1>3 DEF Join, Index, BatchEnd, Return
<1>4. CASE Rejects("staging", "staging") \/ Rejects("wiping", "template") \/ Rejects("index", "index")
  BY <1>4 DEF Rejects
<1>5. CASE Cancel \/ Signal
  BY <1>5 DEF Cancel, Signal, Abort
<1>6. CASE Reap \/ ProcessExit \/ WarmUpEnds \/ \E p \in Perms : JvmEnds(p)
  BY <1>6 DEF Reap, ProcessExit, WarmUpEnds, JvmEnds
<1> QED
  BY <1>1, <1>2, <1>3, <1>4, <1>5, <1>6

LEMMA QuietKeepsPool ==
    ASSUME Books, Others, Others', PoolInv, Moves
    PROVE  Books' /\ PoolInv'
<1> USE DEF Moves, PoolInv
<1>0. Size \in Nat
  BY BatchAssumption
<1>1. Books'
  BY DEF Books
<1>2. \A w \in Workers : InHand(w)' <=> InHand(w)
  BY DEF InHand
<1>3. Chosen' => Chosen
  BY DEF Others, Chosen, Early, Middle, After
<1>4. Skipped' = Skipped
  BY DEF Skipped
<1>5. Ordered'
  <2>1. Chosen' => Lists(todo', Skipped')
    BY <1>3, <1>4 DEF Ordered, Lists, ListsUpTo
  <2>2. (pc \notin {"pool", "rejected"} /\ ~Joined => next = 0)'
    BY DEF Others, Ordered, Joined, Early, Middle, After
  <2>3. (pc \in {"staging", "resume"} => \A p \in Perms : results[p] = "none" /\ row[p] = "queued")'
    BY DEF Others, Ordered, Early, Middle, After
  <2> QED
    BY <2>1, <2>2, <2>3 DEF Ordered
<1>6. Slots'
  <2>1. (pc # "pool" => \A w \in Workers : ~InHand(w))'
    BY <1>2 DEF Slots, InHand, Early, Middle, After
  <2>2. (pc = "pool" /\ 1 \in Workers /\ slot[1].at = "over" => aborted \/ next = Len(todo))'
    BY DEF Slots, Early, Middle, After
  <2>3. (Joined => aborted \/ next = Len(todo))'
    <3>1. CASE Joined
      BY <3>1 DEF Slots
    <3>2. CASE pc = "pool" /\ \A w \in Workers : slot[w].at = "over"
      <4>1. CASE 1 \in Workers
        BY <3>2, <4>1 DEF Slots
      <4>2. CASE 1 \notin Workers
        <5>1. Size = 0 /\ Perms = {}
          BY <4>2, <1>0 DEF Workers, Perms
        <5>2. todo \in Seq({}) /\ Len(todo) = 0 /\ next = 0
          BY <5>1 DEF Books
        <5> QED
          BY <5>2
      <4> QED
        BY <4>1, <4>2
    <3>3. CASE ~Joined /\ ~(pc = "pool" /\ \A w \in Workers : slot[w].at = "over")
      BY <3>3 DEF Joined, Early, Middle, After
    <3> QED
      BY <3>1, <3>2, <3>3
  <2> QED
    BY <2>1, <2>2, <2>3 DEF Slots
<1>7. Holding'
  BY <1>2 DEF Holding
<1>8. Waiting'
  BY <1>2, <1>3 DEF Waiting
<1>9. Booked'
  BY DEF Booked
<1> QED
  BY <1>1, <1>5, <1>6, <1>7, <1>8, <1>9

\* --resume chooses what is left, and skips the rest.
LEMMA ResumeKeepsPool ==
    ASSUME Books, PoolInv, Resume
    PROVE  Books' /\ PoolInv'
<1> USE DEF PoolInv
<1>1. PICK manifest \in Manifests :
          /\ todo' = SelectedBut(Resumable(manifest))
          /\ row' = [p \in Perms |-> IF p \in Resumable(manifest) THEN Apply.skipped ELSE Apply.queued]
  BY DEF Resume
<1>2. pc = "resume" /\ pc' = "jar" /\ UNCHANGED <<aborted, next, slot, results>>
  BY DEF Resume
<1> DEFINE left == Resumable(manifest)
<1>3. left \in SUBSET Perms
  BY DEF Resumable
<1> HIDE DEF left
<1>4. row' = [p \in Perms |-> IF p \in left THEN "skipped" ELSE "queued"]
  BY <1>1 DEF Apply, left
<1>5. Skipped' = left
  BY <1>3, <1>4 DEF Skipped
<1>6. Lists(todo', left)
  BY <1>1, <1>3, SelectedLists DEF left
<1>7. todo' \in Seq(Perms) /\ Len(todo') \in Nat /\ next' = 0
  BY <1>2, <1>6 DEF Lists, ListsUpTo, Ordered, Joined
<1>8. Books'
  BY <1>2, <1>4, <1>7 DEF Books
<1>9. \A p \in Perms : results'[p] = "none"
  BY <1>2 DEF Ordered
<1>10. \A w \in Workers : ~InHand(w)'
  BY <1>2 DEF Slots, InHand
<1>11. Ordered'
  BY <1>2, <1>5, <1>6, <1>7 DEF Ordered
<1>12. Slots'
  BY <1>2, <1>10 DEF Slots, Joined
<1>13. Holding'
  BY <1>10 DEF Holding
<1>14. ASSUME NEW i \in 1 .. Len(todo') PROVE results'[todo'[i]] = "none" /\ row'[todo'[i]] = "queued"
  <2>1. todo'[i] \in Perms /\ todo'[i] \notin left
    BY <1>6, <1>7 DEF Lists, ListsUpTo
  <2> QED
    BY <2>1, <1>4, <1>9
<1>15. Waiting'
  BY <1>7, <1>14 DEF Waiting
<1>16. Booked'
  BY <1>4, <1>9 DEF Booked
<1> QED
  BY <1>8, <1>11, <1>12, <1>13, <1>15, <1>16

\* The pool begins with free workers, the first always among them.
LEMMA FanKeepsPool ==
    ASSUME Books, PoolInv, Fan
    PROVE  Books' /\ PoolInv'
<1> USE DEF PoolInv
<1>0. Size \in Nat /\ MaxAttempts \in Nat \ {0} /\ Limit \in Nat
  BY BatchAssumption
<1>1. pc = "fan" /\ pc' = "pool" /\ UNCHANGED <<aborted, todo, next, results, row>>
      /\ slot' = [w \in Workers |-> IF w <= Width THEN Free ELSE Over]
  BY DEF Fan
<1>2. Free \in Slot /\ Over \in Slot /\ Free.at = "free" /\ Over.at = "over"
  BY <1>0 DEF Free, Over, Slot
<1>3. Books'
  BY <1>1, <1>2 DEF Books
<1>4. Len(todo) \in Nat
  BY DEF Books
<1>5. 1 <= Width
  BY <1>0, <1>4 DEF Width, AtLeast, AtMost
<1>6. 1 \in Workers => slot'[1].at = "free"
  BY <1>1, <1>2, <1>5
<1>7. \A w \in Workers : ~InHand(w)' /\ ~InHand(w)
  BY <1>1, <1>2 DEF InHand, Slots
<1>8. Chosen /\ Skipped' = Skipped
  BY <1>1 DEF Chosen, Skipped
<1>9. Ordered'
  BY <1>1, <1>8 DEF Ordered, Lists, ListsUpTo
<1>10. Slots'
  BY <1>1, <1>6, <1>7 DEF Slots, Joined
<1>11. Holding'
  BY <1>7 DEF Holding
<1>12. Waiting'
  BY <1>1, <1>7, <1>8 DEF Waiting
<1>13. Booked'
  BY <1>1 DEF Booked
<1> QED
  BY <1>3, <1>9, <1>10, <1>11, <1>12, <1>13

-----------------------------------------------------------------------------
(* The counts of the end *)

\* A set of permutations has at most as many as were selected.
LEMMA Counts ==
    ASSUME NEW S \in SUBSET Perms
    PROVE  IsFiniteSet(S) /\ Cardinality(S) \in 0 .. Size
<1>1. Size \in Nat
  BY BatchAssumption
<1>2. IsFiniteSet(Perms) /\ Cardinality(Perms) = Size
  BY <1>1, FS_Interval DEF Perms
<1>3. IsFiniteSet(S) /\ Cardinality(S) <= Cardinality(Perms)
  BY <1>2, FS_Subset
<1>4. Cardinality(S) \in Nat
  BY <1>3, FS_CardinalityType
<1> QED
  BY <1>1, <1>2, <1>3, <1>4

\* What is left and what was skipped are the selection.
LEMMA LeftAndSkipped ==
    ASSUME Books, Ordered, Chosen
    PROVE  Len(todo) \in 0 .. Size /\ Size - Len(todo) = Cardinality(Skipped)
<1>1. Size \in Nat /\ Len(todo) \in Nat
  BY BatchAssumption DEF Books
<1>2. Skipped \in SUBSET Perms /\ Skipped \cap (1 .. Size) = Skipped
  BY DEF Skipped, Perms
<1>3. Len(todo) + Cardinality(Skipped \cap (1 .. Size)) = Size
  BY DEF Ordered, Lists, ListsUpTo
<1>4. Len(todo) + Cardinality(Skipped) = Size
  BY <1>2, <1>3, Zenon
<1>5. Cardinality(Skipped) \in 0 .. Size
  BY <1>2, Counts
<1> QED
  BY <1>1, <1>4, <1>5

LEMMA EndCounts ==
    ASSUME Books, PoolInv, BatchEnd
    PROVE  said' \in [ok: 0 .. Size, failed: 0 .. Size, skipped: 0 .. Size, cancelled: {aborted}] /\ Accounted'
<1> USE DEF PoolInv
<1> DEFINE okay == {p \in Perms : results[p] = "ok"}
           bad  == {p \in Perms : results[p] = "failed"}
           count(kinds) == {p \in Perms : row[p] \in kinds}
<1>1. pc = "end" /\ pc' = "closing" /\ UNCHANGED <<todo, aborted, next, slot, results, row>>
  BY DEF BatchEnd
<1>2. said' = [ok |-> Cardinality(okay), failed |-> Cardinality(bad), skipped |-> Size - Len(todo), cancelled |-> aborted]
  BY DEF BatchEnd
<1>3. Chosen /\ Joined
  BY <1>1 DEF Chosen, Joined
<1>4. okay \in SUBSET Perms /\ bad \in SUBSET Perms /\ \A kinds : count(kinds) \in SUBSET Perms
  OBVIOUS
<1>5. Size - Len(todo) = Cardinality(Skipped) /\ Size - Len(todo) \in 0 .. Size
  BY <1>3, LeftAndSkipped, BatchAssumption
<1>6. said' \in [ok: 0 .. Size, failed: 0 .. Size, skipped: 0 .. Size, cancelled: {aborted}]
  <2>1. Cardinality(okay) \in 0 .. Size /\ Cardinality(bad) \in 0 .. Size
    BY <1>4, Counts
  <2> HIDE DEF okay, bad
  <2> QED
    BY <1>2, <1>5, <2>1
<1>7. ASSUME ~said'.cancelled PROVE
        /\ \A p \in Perms : /\ results[p] = "none" <=> row[p] = "skipped"
                            /\ results[p] = "ok" <=> row[p] = "done"
        /\ Recount.queued = 0 /\ said'.skipped = Recount.skipped
        /\ said'.ok = Recount.done /\ said'.failed = Recount.failed + Recount.running
        /\ Recount.running > 0 => "seed" \in Faults
  <2>1. ~aborted
    BY <1>7, <1>2
  <2>2. next = Len(todo) /\ \A w \in Workers : ~InHand(w)
    BY <2>1, <1>1, <1>3 DEF Slots
  <2>3. ASSUME NEW p \in Perms, row[p] # "skipped" PROVE results[p] # "none"
    <3>1. PICK i \in 1 .. Len(todo) : todo[i] = p
      BY <2>3, <1>3 DEF Ordered, Lists, ListsUpTo, Skipped, Perms
    <3>2. i <= next
      BY <2>2 DEF Books
    <3> QED
      BY <3>1, <3>2, <2>2, <1>3 DEF Waiting
  <2>4. \A p \in Perms : /\ results[p] = "none" <=> row[p] = "skipped"
                         /\ results[p] = "ok" <=> row[p] = "done"
    BY <2>3 DEF Booked
  <2>5. \A p \in Perms : results[p] = "failed" <=> row[p] \in {"failed", "login"}
    BY <2>1, <2>4 DEF Booked, Books
  <2>6. \A p \in Perms : row[p] \notin {"queued", "retrying"}
    BY <2>4, <2>5 DEF Books
  <2>7. /\ count({"queued"}) = {} /\ count({"skipped"}) = Skipped /\ count({"done"}) = okay
        /\ bad = count({"failed"}) \cup count({"login", "retrying"})
        /\ count({"failed"}) \cap count({"login", "retrying"}) = {}
    BY <2>4, <2>5, <2>6 DEF Skipped
  <2>8. count({"login", "retrying"}) # {} => "seed" \in Faults
    BY <2>1, <2>4, <2>5, <2>6 DEF Booked
  <2>9. /\ Recount.queued = Cardinality(count({"queued"})) /\ Recount.skipped = Cardinality(count({"skipped"}))
        /\ Recount.done = Cardinality(count({"done"})) /\ Recount.failed = Cardinality(count({"failed"}))
        /\ Recount.running = Cardinality(count({"login", "retrying"}))
    BY DEF Recount
  <2>10. \A kinds : IsFiniteSet(count(kinds)) /\ Cardinality(count(kinds)) \in Nat
    BY <1>4, Counts
  <2> HIDE DEF count, okay, bad
  <2>11. Recount.queued = 0
    BY <2>7, <2>9, FS_EmptySet
  <2>12. said'.skipped = Recount.skipped /\ said'.ok = Recount.done
    BY <1>2, <1>5, <2>7, <2>9
  <2>13. Cardinality(bad) = Recount.failed + Recount.running
    <3>1. Cardinality(count({"failed"}) \cup count({"login", "retrying"}))
            = Cardinality(count({"failed"})) + Cardinality(count({"login", "retrying"}))
                - Cardinality(count({"failed"}) \cap count({"login", "retrying"}))
      BY <2>10, FS_Union
    <3>2. Cardinality(count({"failed"}) \cap count({"login", "retrying"})) = 0
      BY <2>7, FS_EmptySet
    <3>3. Cardinality(bad) = Cardinality(count({"failed"}) \cup count({"login", "retrying"}))
      BY <2>7
    <3> QED
      BY <3>1, <3>2, <3>3, <2>9, <2>10
  <2>14. Recount.running > 0 => "seed" \in Faults
    BY <2>8, <2>9, FS_EmptySet
  <2> QED
    BY <1>2, <2>4, <2>11, <2>12, <2>13, <2>14
<1>8. Recount' = Recount
  BY <1>1 DEF Recount
<1>9. Accounted'
  BY <1>1, <1>7, <1>8 DEF Accounted
<1> QED
  BY <1>6, <1>9

-----------------------------------------------------------------------------
(* The types, the template and the account hold throughout *)

\* What a step of a worker changes beside the pool's books.
LEMMA WorkerOthers ==
    ASSUME Books, Holding, Others, NEW w \in Workers, Worker(w)
    PROVE  /\ Others' /\ UNCHANGED <<pc, aborted, said, warmup>> /\ pc = "pool"
           /\ WarmUp \in jvms' => WarmUp \in jvms
<1>0. WarmUp \notin Perms
  BY DEF WarmUp, Perms
<1>1. CASE Launch(w)
  <2>1. slot[w].perm \in Perms
    BY <1>1, InHandIs DEF Launch, InHand
  <2> QED
    BY <1>0, <1>1, <2>1 DEF Launch, Others
<1>2. CASE Close(w)
  BY <1>2 DEF Close, Others
<1>3. CASE Admit(w) \/ Retire(w) \/ Try(w) \/ RetryWait(w) \/ WorkerDone(w)
  <2>1. UNCHANGED <<execution, aborted, warmup, jvms, reaper, process>> /\ pc = "pool"
    BY <1>3 DEF Admit, Retire, Try, RetryWait, WorkerDone, Settle
  <2> QED
    BY <2>1 DEF Others
<1> QED
  BY <1>1, <1>2, <1>3 DEF Worker

LEMMA InitBatchInv == Init => BatchInv
<1> SUFFICES ASSUME Init PROVE BatchInv
  OBVIOUS
<1>0. Size \in Nat /\ MaxAttempts \in Nat \ {0}
  BY BatchAssumption
<1>1. Over \in Slot /\ Over.at = "over"
  BY <1>0 DEF Over, Slot
<1>2. Books
  BY <1>0, <1>1 DEF Init, Books, InitialRunState
<1>3. Unsaid \in [ok: 0 .. Size, failed: 0 .. Size, skipped: 0 .. Size, cancelled: BOOLEAN]
  BY <1>0 DEF Unsaid
<1>4. Others
  BY <1>3 DEF Init, Others
<1>5. PoolInv
  BY <1>1 DEF Init, PoolInv, Ordered, Slots, Holding, Waiting, Booked, Chosen, Joined, InHand, InitialRunState
<1>6. Warm /\ Accounted
  BY DEF Init, Warm, NoTornTemplate, Accounted
<1> QED
  BY <1>2, <1>4, <1>5, <1>6, Types DEF BatchInv

\* The types, but of what the end says.
LEMMA QuietOthers ==
    ASSUME Others,
           \/ CreateStaging \/ Resume \/ FindJar \/ SkipWarmUp \/ Fan
           \/ WarmUpBegin \/ WarmUpSpawn \/ WarmUpTimeout \/ WarmUpClose
           \/ Join \/ Index \/ Return
           \/ Rejects("staging", "staging") \/ Rejects("wiping", "template") \/ Rejects("index", "index")
           \/ Cancel \/ Signal \/ Reap \/ ProcessExit \/ \E p \in Perms : JvmEnds(p)
           \/ WarmUpEnds
    PROVE  Others' /\ UNCHANGED said
<1> USE DEF Others
<1>1. CASE CreateStaging \/ Resume \/ FindJar \/ SkipWarmUp \/ Fan
  BY <1>1 DEF CreateStaging, Resume, FindJar, SkipWarmUp, Fan
<1>2. CASE WarmUpBegin \/ WarmUpSpawn
  BY <1>2 DEF WarmUpBegin, WarmUpSpawn
<1>3. CASE WarmUpTimeout \/ WarmUpClose
  BY <1>3 DEF WarmUpTimeout, WarmUpClose
<1>4. CASE Join \/ Index \/ Return
  BY <1>4 DEF Join, Index, Return
<1>5. CASE Rejects("staging", "staging") \/ Rejects("wiping", "template") \/ Rejects("index", "index")
  BY <1>5 DEF Rejects
<1>6. CASE Cancel \/ Signal
  BY <1>6 DEF Cancel, Signal, Abort
<1>7. CASE Reap \/ ProcessExit \/ \E p \in Perms : JvmEnds(p)
  BY <1>7 DEF Reap, ProcessExit, JvmEnds
<1>8. CASE WarmUpEnds
  BY <1>8 DEF WarmUpEnds
<1> QED
  BY <1>1, <1>2, <1>3, <1>4, <1>5, <1>6, <1>7, <1>8

\* The warm-up's JVM is alive only while execute waits for it, and only what
\* it left with code 0 is a template.
LEMMA WarmKeeps ==
    ASSUME Others, Warm, Books, Holding, Next
    PROVE  Warm'
<1> USE DEF Warm, NoTornTemplate
<1>0. WarmUp \notin Perms /\ live \subseteq Perms
  BY DEF WarmUp, Perms, Others
<1>1. CASE CreateStaging \/ Resume \/ FindJar \/ SkipWarmUp \/ Fan
  BY <1>1 DEF CreateStaging, Resume, FindJar, SkipWarmUp, Fan
<1>2. CASE WarmUpBegin \/ WarmUpSpawn
  BY <1>2 DEF WarmUpBegin, WarmUpSpawn
<1>3. CASE WarmUpTimeout
  BY <1>3 DEF WarmUpTimeout
<1>10. CASE WarmUpClose
  <2>1. pc = "warming" /\ pc' = "fan" /\ WarmUp \notin jvms /\ UNCHANGED <<jvms, template, warm, aborted>>
    BY <1>10 DEF WarmUpClose
  <2>2. seeding' = (warm /\ ~aborted)
    BY <1>10 DEF WarmUpClose
  <2>3. seeding' => warm /\ ~aborted
    BY <2>2, Zenon
  <2> QED
    BY <2>1, <2>3
<1>4. CASE Join \/ Index \/ BatchEnd \/ Return
  BY <1>4 DEF Join, Index, BatchEnd, Return
<1>5. CASE Rejects("staging", "staging") \/ Rejects("wiping", "template") \/ Rejects("index", "index")
  BY <1>5 DEF Rejects
<1>6. CASE \E w \in Workers : Worker(w)
  <2> PICK w \in Workers : Worker(w)
    BY <1>6
  <2>1. UNCHANGED <<pc, aborted, warmup>> /\ pc = "pool" /\ (WarmUp \in jvms' => WarmUp \in jvms)
    BY WorkerOthers
  <2> QED
    BY <2>1
<1>7. CASE Cancel \/ Signal
  BY <1>7 DEF Cancel, Signal, Abort
<1>8. CASE Reap \/ ProcessExit \/ \E p \in Perms : JvmEnds(p)
  BY <1>0, <1>8 DEF Reap, ProcessExit, JvmEnds
<1>9. CASE WarmUpEnds
  BY <1>9 DEF WarmUpEnds
<1> QED
  BY <1>1, <1>2, <1>3, <1>4, <1>5, <1>6, <1>7, <1>8, <1>9, <1>10 DEF Next

LEMMA BatchStep ==
    ASSUME BatchInv, Next
    PROVE  BatchInv'
<1> USE DEF BatchInv
<1>0. Books /\ Others
  BY Types
<1>1. Warm'
  BY <1>0, WarmKeeps DEF PoolInv
<1>2. ASSUME UNCHANGED <<row, results, said>>,
             pc' = pc \/ pc' \notin {"closing", "over"} \/ (pc = "closing" /\ pc' = "over")
      PROVE  Accounted'
  BY <1>2 DEF Accounted, Recount
<1>3. CASE \E w \in Workers : Worker(w)
  <2> PICK w \in Workers : Worker(w)
    BY <1>3
  <2>1. Books' /\ PoolInv'
    BY <1>0, WorkerKeepsPool
  <2>2. Others' /\ UNCHANGED pc /\ pc = "pool"
    BY <1>0, WorkerOthers DEF PoolInv
  <2>3. Accounted'
    BY <2>2 DEF Accounted
  <2> QED
    BY <1>1, <2>1, <2>2, <2>3, Types
<1>4. CASE Resume \/ Fan
  <2>1. Books' /\ PoolInv'
    BY <1>0, <1>4, ResumeKeepsPool, FanKeepsPool
  <2>2. Others'
    BY <1>0, <1>4, QuietOthers
  <2>3. Accounted'
    BY <1>4 DEF Resume, Fan, Accounted
  <2> QED
    BY <1>1, <2>1, <2>2, <2>3, Types
<1>5. CASE BatchEnd
  <2>1. said' \in [ok: 0 .. Size, failed: 0 .. Size, skipped: 0 .. Size, cancelled: {aborted}] /\ Accounted'
    BY <1>0, <1>5, EndCounts
  <2>2. Others'
    BY <1>0, <1>5, <2>1 DEF BatchEnd, Others
  <2>3. Books' /\ PoolInv'
    BY <1>0, <1>5, <2>2, Quiet, QuietKeepsPool
  <2> QED
    BY <1>1, <2>1, <2>2, <2>3, Types
<1>6. CASE \/ CreateStaging \/ FindJar \/ SkipWarmUp
           \/ WarmUpBegin \/ WarmUpSpawn \/ WarmUpTimeout \/ WarmUpClose
           \/ Join \/ Index \/ Return
           \/ Rejects("staging", "staging") \/ Rejects("wiping", "template") \/ Rejects("index", "index")
           \/ Cancel \/ Signal \/ Reap \/ ProcessExit \/ \E p \in Perms : JvmEnds(p)
           \/ WarmUpEnds
  <2>1. Others' /\ UNCHANGED said
    BY <1>0, <1>6, QuietOthers
  <2>2. Moves
    BY <1>6, Quiet
  <2>3. Books' /\ PoolInv'
    BY <1>0, <2>1, <2>2, QuietKeepsPool
  <2>4. pc' = pc \/ pc' \notin {"closing", "over"} \/ (pc = "closing" /\ pc' = "over")
    BY <1>6 DEF CreateStaging, FindJar, SkipWarmUp, WarmUpBegin, WarmUpSpawn, WarmUpTimeout, WarmUpClose,
                Join, Index, Return, Rejects, Cancel, Signal, Reap, ProcessExit, JvmEnds, WarmUpEnds
  <2>5. UNCHANGED <<row, results>>
    BY <2>2 DEF Moves
  <2>6. Accounted'
    BY <1>2, <2>1, <2>4, <2>5
  <2> QED
    BY <1>1, <2>1, <2>3, <2>6, Types
<1> QED
  BY <1>3, <1>4, <1>5, <1>6 DEF Next

\* The invariant of the pool holds throughout.
LEMMA BatchInvariance == Spec => []BatchInv
<1>1. BatchInv /\ UNCHANGED vars => BatchInv'
  BY DEF vars, BatchInv, TypeOK, PoolInv, Ordered, Slots, Holding, Waiting, Booked, Warm, NoTornTemplate,
         Accounted, Recount, Chosen, Joined, InHand, Skipped, Lists, ListsUpTo
<1>2. BatchInv /\ [Next]_vars => BatchInv'
  BY <1>1, BatchStep
<1> QED
  BY InitBatchInv, <1>2, PTL DEF Spec

\* Every variable keeps its type, the counts of batch:end among them.
THEOREM TypeCorrect == Spec => []TypeOK
<1>1. BatchInv => TypeOK
  BY DEF BatchInv
<1> QED
  BY BatchInvariance, <1>1, PTL

\* Whatever the timeout of the warm-up, a cancel during it and its exit code do
\* to each other, no permutation is seeded with half a template.
THEOREM NeverSeedsTorn == Spec => []NoTornTemplate
<1>1. BatchInv => NoTornTemplate
  BY DEF BatchInv, Warm
<1> QED
  BY BatchInvariance, <1>1, PTL

\* For any selection, any number of workers, attempts and faults: a batch that
\* was not cancelled has a result for each permutation it did not skip, and its
\* counts are those of the views.
THEOREM BatchAccounts == Spec => []Accounted
<1>1. BatchInv => Accounted
  BY DEF BatchInv
<1> QED
  BY BatchInvariance, <1>1, PTL
=============================================================================
