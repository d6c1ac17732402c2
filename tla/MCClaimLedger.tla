----------------------------- MODULE MCClaimLedger -----------------------------
(* Small instances of ClaimLedger for TLC. *)
EXTENDS ClaimLedger, TLC

\* Named limits on evidence changes, out-of-band edits and dead calls.
Calm      == [change |-> 1, edit |-> 0, abort |-> 0]
Crashes   == [change |-> 1, edit |-> 0, abort |-> 1]
Twice     == [change |-> 2, edit |-> 0, abort |-> 0]
Restored  == [change |-> 2, edit |-> 1, abort |-> 0]

CiteOne  == {{"a"}}
CiteEach == {{"a"}, {"b"}}

\* Processes are interchangeable; so are claims when MetricClaims is empty.
AnyProc  == Permutations(Procs)
AnyClaim == Permutations(Claims)
=============================================================================
