--------------------------- MODULE WorkerContract ---------------------------
(***************************************************************************)
(* What runOne promises to the batch that calls it, with nothing said of   *)
(* how: at most MaxAttempts attempts, at most one JVM at a time, none      *)
(* launched once the run is told to stop and none left when it returns;    *)
(* "ok" only with every file in place, and never the file of an introspect *)
(* that bailed left behind.  RunOne implements it.                         *)
(***************************************************************************)
EXTENDS Naturals

CONSTANTS MaxAttempts, Files, Contents

VARIABLES
    verdict,   \* "pending" until runOne returns
    attempts,
    aborted,
    live,      \* a JVM is running
    output     \* the permutation's files in the staging directory

vars == <<verdict, attempts, aborted, live, output>>

Init ==
    /\ verdict = "pending" /\ attempts = 0 /\ aborted \in BOOLEAN /\ live = FALSE
    /\ output = [f \in Files |-> "absent"]

Idle == verdict = "pending" /\ ~live

Try ==
    /\ Idle /\ ~aborted /\ attempts < MaxAttempts
    /\ attempts' = attempts + 1
    /\ UNCHANGED <<verdict, aborted, live, output>>

Launch ==
    /\ Idle /\ ~aborted /\ attempts > 0
    /\ live' = TRUE
    /\ UNCHANGED <<verdict, attempts, aborted, output>>

Die ==
    /\ live
    /\ live' = FALSE
    /\ UNCHANGED <<verdict, attempts, aborted, output>>

Write ==
    /\ Idle
    /\ output' \in [Files -> Contents]
    /\ UNCHANGED <<verdict, attempts, aborted, live>>

Settle ==
    /\ Idle
    /\ verdict' \in {"ok", "failed", "cancelled"}
    /\ output' \in [Files -> Contents \ {"short"}]
    /\ verdict' = "ok" => \A f \in Files : output'[f] \notin {"absent", "empty"}
    /\ verdict' = "cancelled" => aborted
    /\ UNCHANGED <<attempts, aborted, live>>

\* Told to stop; a running JVM is killed in the same breath, if it is ours to kill.
Abort ==
    /\ ~aborted
    /\ aborted' = TRUE
    /\ live' \in {live, FALSE}
    /\ UNCHANGED <<verdict, attempts, output>>

Next == Try \/ Launch \/ Die \/ Write \/ Settle \/ Abort

Spec == Init /\ [][Next]_vars
=============================================================================
