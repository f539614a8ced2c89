------------------------------- MODULE MCReport -------------------------------
(***************************************************************************)
(* Instance of ReportRevisions: the findings are interchangeable, and what *)
(* follows a rollback that took back another thread's doing, of which      *)
(* nothing is claimed, is not explored.                                    *)
(***************************************************************************)
EXTENDS ReportRevisions, TLC

Symmetry == Permutations(Findings)
NothingUndone == ~undone
=============================================================================
