------------------------------ MODULE Dataset ------------------------------
(***************************************************************************)
(* What a consumer of the published dataset may rely on: every file it has *)
(* ever been offered stays on offer, and is only ever replaced by the file *)
(* of a newer run, all the files of one publication changing at once.      *)
(***************************************************************************)
EXTENDS Naturals

CONSTANTS Names, MaxRuns

VARIABLE published  \* name -> the run that introspected the file on offer, 0 for none

\* Nothing yet, or all of one run.
Init == \E r \in 0 .. MaxRuns : published = [n \in Names |-> r]

Publish(r) ==
    /\ \A n \in Names : published[n] < r
    /\ published' \in [Names -> 0 .. MaxRuns]
    /\ \A n \in Names : published'[n] \in {published[n], r}
    /\ \E n \in Names : published'[n] = r

Next == \E r \in 1 .. MaxRuns : Publish(r)

Spec == Init /\ [][Next]_published
=============================================================================
