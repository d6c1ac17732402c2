------------------------------ MODULE MCStudyFile ------------------------------
(* Small instances of StudyFile for TLC. *)
EXTENDS StudyFile, TLC

\* The studies the runs start from.
Blank == Empty

\* A study delineated before the first call.
Delineated(b) == [Empty EXCEPT !.leaf["watershed"] = [of |-> b, stamp |-> b]]
AtGauge == Delineated(CHOOSE b \in Gauged : TRUE)
Drawn == AtGauge.leaf["watershed"].of

AnyCall == Permutations(Calls)
=============================================================================
