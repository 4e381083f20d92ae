------------------------------- MODULE MCLock -------------------------------
(***************************************************************************)
(* Two processes of one container, and one of another.                     *)
(***************************************************************************)
EXTENDS Lock

MCHostOf == [p \in Procs |-> IF p = "other" THEN "h2" ELSE "h1"]
=============================================================================
