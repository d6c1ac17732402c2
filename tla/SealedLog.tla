------------------------------- MODULE SealedLog -------------------------------
(***************************************************************************)
(* What the run log promises of its rows: a row may be written over while it   *)
(* is open, a mark being one way to write; a record closes it, over the very    *)
(* body that is there, for good; a row marked unsealable is not closed.         *)
(***************************************************************************)
CONSTANTS Runs, Bodies, Records, NoRow, NoRecord

VARIABLE rows       \* run id -> [body, record], or NoRow

Open(r) == rows[r] # NoRow /\ rows[r].record = NoRecord
Vacant(r) == rows[r] = NoRow

Init == rows = [r \in Runs |-> NoRow]

Write(r) ==
    /\ Open(r) \/ Vacant(r)
    /\ rows'[r] \in [body : Bodies, record : {NoRecord}]

Seal(r) ==
    /\ rows'[r] \in [body : Bodies, record : Records]
    /\ rows'[r].record.call = r.call
    /\ rows'[r].record.body = rows'[r].body
    /\ ~rows'[r].body.unsealable
    /\ Vacant(r) \/ (Open(r) /\ rows'[r].body = rows[r].body)

Next == \E r \in Runs :
    /\ rows' = [rows EXCEPT ![r] = rows'[r]]
    /\ Write(r) \/ Seal(r)

Spec == Init /\ [][Next]_rows
=============================================================================
