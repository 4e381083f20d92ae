---------------------------------- MODULE View ---------------------------------
(***************************************************************************)
(* What a permutation's row shows while RunOne works on it: the phase and  *)
(* the progress the reducer (src/src/core/state.ts) keeps in the           *)
(* introspecting status, and the percentage the presenter                  *)
(* (src/src/core/present.ts) makes of them for the grid and the terminal.  *)
(* The worker judges an introspect by its own tracker; the row is folded   *)
(* from the same lines by other rules, and must not tell another story.    *)
(***************************************************************************)
EXTENDS RunOne

VARIABLE shown    \* [phase, done] of the introspecting status

viewVars == <<vars, shown>>

\* progress null is done = 0.
Blank == [phase |-> "none", done |-> 0]

\* Mutant of Folded: the progress of the items outlives the phase.
FoldedKeeping(line) ==
    CASE Settled(row) \/ line.kind \in {"transient", "notInTcrs"} -> shown
      [] ~Settled(row) /\ line.kind \in {"items", "cafe"} -> [shown EXCEPT !.phase = line.kind]
      [] ~Settled(row) /\ line.kind = "progress" ->
            [phase |-> IF row = "introspecting" THEN shown.phase ELSE "items", done |-> line.done]

\* A phase header clears the progress; a progress line before any belongs to items.
Folded(line) ==
    CASE Settled(row) \/ line.kind \in {"transient", "notInTcrs"} -> shown
      [] ~Settled(row) /\ line.kind \in {"items", "cafe"} -> [phase |-> line.kind, done |-> 0]
      [] ~Settled(row) /\ line.kind = "progress" ->
            [phase |-> IF row = "introspecting" THEN shown.phase ELSE "items", done |-> line.done]

ViewInit == Init /\ shown = Blank

\* The reducer runs inside the emitting step; only Consume reads a line.
Reads == Len(pipe') < Len(pipe)

ViewNext ==
    /\ Next
    /\ shown' = CASE row' # "introspecting" -> Blank
                  [] row' = "introspecting" /\ Reads -> Folded(Head(pipe))
                  [] OTHER -> shown

ViewSpec == ViewInit /\ [][ViewNext]_viewVars /\ Fairness
-----------------------------------------------------------------------------
(* The presenter *)

\* percentFor, of mafia's own count over its own total.
PercentFor(done) == (done * 100) \div Total

CafePercent == 99

\* Mutant of ProgressPercent: a phase without progress is at 0.
ProgressPercentCafeless ==
    CASE row \in {"done", "failed"} -> 100
      [] row = "introspecting" -> PercentFor(shown.done)
      [] OTHER -> 0

\* The cell of the web grid, its gradient and its label.
ProgressPercent ==
    CASE row \in {"done", "failed"} -> 100
      [] row = "introspecting" /\ shown.phase # "items" -> CafePercent
      [] row = "introspecting" /\ shown.phase = "items" -> PercentFor(shown.done)
      [] OTHER -> 0

\* The terminal's row: a full bar, labelled with the phase, in the cafe phases.
RowPercent ==
    IF row = "introspecting" /\ shown.phase # "items" THEN 100 ELSE ProgressPercent

BarWidth == 10
FilledCells(pct) ==
    LET cells == (pct * BarWidth) \div 100 IN IF cells > BarWidth THEN BarWidth ELSE cells
-----------------------------------------------------------------------------
(* Properties *)

\* What the row shows of an introspect is what its completeness will be judged
\* by: the tracker's phase and, in the items phase, its count; a cafe phase
\* carries no stale percentage (state.ts, lines 248-250, present.ts, lines
\* 100-104), and a full cell means the permutation is over ("A bar that reaches
\* 100% and then sits there through both cafe phases is a worse lie than 99%").
BarIsHonest ==
    /\ row = "introspecting" =>
          /\ shown.phase = "cafe" <=> tracker.phase = "cafe"
          /\ shown.done = IF shown.phase = "items" THEN tracker.items ELSE 0
    /\ ProgressPercent = 100 => row \in {"done", "failed"}

\* A bar moves only forward while its introspect is shown, in the grid and in the
\* terminal: the items phase stops below where the cafe phases park, whatever is
\* read after a watchdog has fired.
BarNeverFallsBack ==
    [][row = "introspecting" /\ row' = "introspecting" =>
          /\ ProgressPercent' >= ProgressPercent
          /\ FilledCells(RowPercent') >= FilledCells(RowPercent)]_viewVars
=============================================================================
