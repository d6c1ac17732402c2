------------------------------ MODULE MCJobs ------------------------------
(* The instance of Jobs that is model-checked: model values for jobs and     *)
(* studies, one benchmark score. *)
EXTENDS Jobs

CONSTANTS j1, j2, s1, s2, csi

=============================================================================
