------------------------------ MODULE MCServer ------------------------------
(***************************************************************************)
(* Two permutations: the files of A are fa1 and fa2, that of B is fb.      *)
(***************************************************************************)
EXTENDS Server, TLC

CONSTANTS A, B, fa1, fa2, fb

MCUserOf == [n \in Names |-> IF n = fb THEN B ELSE A]

\* The two files of A are treated alike by everything but their names.
MCSymmetry == Permutations({fa1, fa2})
=============================================================================
