-------------------------- MODULE PromotionAuthority --------------------------
(***************************************************************************)
(* What the approval store and the global claim registry promise together, *)
(* without saying how: a researcher grants approvals for exact claim        *)
(* revisions, a grant is spent by at most one registry row, a row asserts   *)
(* the revision its grant was given for, and afterwards the row may only be *)
(* withdrawn (promoted -> stale -> retracted).                              *)
(*                                                                         *)
(* The contract is the one written in ai_hydro/approval/records.py          *)
(* ("Single use") and ai_hydro/registry/store.py; ClaimLedger implements it.*)
(***************************************************************************)
EXTENDS Naturals, Sequences

CONSTANTS
    Claims,      \* claim ids of the study
    Revisions,   \* revision digests, kept as the digested fields themselves
    RowIds       \* registry ids; each names the claim it was built from

VARIABLES
    granted,     \* sequence of [claim, rev]: the approvals, in the order given
    rows         \* partial function RowIds -> [rev, approval, status]

authorityVars == <<granted, rows>>

AuthorityInit ==
    /\ granted = << >>
    /\ rows = << >>          \* the function with an empty domain

Spent == {rows[id].approval : id \in DOMAIN rows}

\* A human approves one revision of one claim.
Grant ==
    /\ \E c \in Claims, v \in Revisions :
          granted' = Append(granted, [claim |-> c, rev |-> v])
    /\ UNCHANGED rows

\* A row appears under a new id, spending a grant given for its claim and revision.
Publish ==
    \E id \in DOMAIN rows' \ DOMAIN rows, a \in DOMAIN granted \ Spent :
        /\ id \in RowIds
        /\ granted[a].claim = id.claim
        /\ rows' = [x \in DOMAIN rows \union {id} |->
                      IF x = id
                        THEN [rev |-> granted[a].rev, approval |-> a, status |-> "promoted"]
                        ELSE rows[x]]
        /\ UNCHANGED granted

\* A row's status drops; nothing else about it changes.
MarkStale ==
    \E id \in DOMAIN rows :
        /\ rows[id].status = "promoted"
        /\ rows' = [rows EXCEPT ![id].status = "stale"]
        /\ UNCHANGED granted

Retract ==
    \E id \in DOMAIN rows :
        /\ rows[id].status # "retracted"
        /\ rows' = [rows EXCEPT ![id].status = "retracted"]
        /\ UNCHANGED granted

AuthorityNext == Grant \/ Publish \/ MarkStale \/ Retract

AuthoritySpec == AuthorityInit /\ [][AuthorityNext]_authorityVars

-----------------------------------------------------------------------------
\* One approval stands behind at most one registry row (records.py:45-48).
GrantSpentOnce ==
    \A x, y \in DOMAIN rows : rows[x].approval = rows[y].approval => x = y

\* Every row rests on an approval for its own claim and exactly its revision.
RowsGranted ==
    \A id \in DOMAIN rows :
        /\ rows[id].approval \in DOMAIN granted
        /\ granted[rows[id].approval] = [claim |-> id.claim, rev |-> rows[id].rev]
=============================================================================
