------------------------------ MODULE ClaimLedger ------------------------------
(***************************************************************************)
(* The claim ledger of one study and the stores it writes to:               *)
(*                                                                         *)
(*   saved      the claims of the session JSON file                         *)
(*   chain      the insert-only claim revision store (SQLite)               *)
(*   approvals  the append-only approvals.jsonl, written by aihydro-approve *)
(*   registry   the global claims.jsonl, rewritten under its own lock       *)
(*                                                                         *)
(* Ledger tools (mcp/tools_ledger.py) run under the study's write guard     *)
(* from load to save, but each writes its stores one after another, so a    *)
(* call that dies leaves the later ones behind.  The researcher's approval  *)
(* terminal, key revocation and the evidence itself move without the guard. *)
(*                                                                         *)
(* Abstractions.  A digest is the record it digests.  `text` stands for     *)
(* statement, confidence, scope, limitations and the other wording fields   *)
(* of a claim; "tested" stands for every status that neither supports nor   *)
(* withdraws.  Rows of other studies share only the registry file: no       *)
(* lookup of this study matches them, so they are left out.                 *)
(***************************************************************************)
EXTENDS Integers, Sequences, FiniteSets

CONSTANTS
    Procs,          \* threads or server processes running ledger tools
    Terminals,      \* shells running aihydro-approve
    Claims,         \* claim ids of the study
    MetricClaims,   \* the metric-scoped empirical claims among them
    Texts,          \* wordings of a claim
    Sources,        \* evidence sources: runs, datasets, papers
    RunSources,     \* the runs among them
    Contents,       \* retained contents a fingerprint tells apart
    Keys,           \* enrolled signing keys
    Missing, NoClaim, None,
    CiteSets,       \* the evidence spans add_claim is called with
    StatusInputs,   \* the statuses the tools are called with
    MaxRevisions,   \* bound: revisions of one claim before calls stop
    MaxApprovals,   \* bound: approvals given
    MaxDay,         \* bound: days that pass
    MaxRevoked,     \* bound: keys revoked
    Limit           \* bound: evidence changes, out-of-band edits, dead calls

Supporting == {"supported", "weakly_supported"}
Statuses == Supporting \union {"tested", "retracted", "stale"}
Faults == {"change", "edit", "abort"}

ASSUME InputsAssumption ==
    /\ MetricClaims \subseteq Claims
    /\ RunSources \subseteq Sources
    /\ CiteSets \subseteq SUBSET Sources
    /\ StatusInputs \subseteq Statuses
    /\ Missing \notin Contents
    /\ Limit \in [Faults -> Nat]
    /\ MaxRevisions \in Nat /\ MaxApprovals \in Nat /\ MaxDay \in Nat /\ MaxRevoked \in Nat

VARIABLES
    saved,       \* [Claims -> claim record or NoClaim]: the session file
    chain,       \* [Claims -> Seq(revision rows)]
    approvals,   \* sequence of [claim, rev, key]; its index is the record digest
    registry,    \* partial function registry id -> row
    revoked,     \* revoked signing keys
    content,     \* [Sources -> retained content or Missing]
    guard,       \* the process holding the study's write guard, or None
    op,          \* [Procs -> the call in progress: what lives in its memory]
    human,       \* [Terminals -> the revision on screen, or None]
    day,         \* calendar day, part of a registry id
    used         \* [Faults -> Nat], counted against Limit

stores == <<saved, chain, approvals, registry>>
world  == <<revoked, content, day, used>>
vars   == <<stores, revoked, content, guard, op, human, day, used>>

-----------------------------------------------------------------------------
(* Types *)

Versions == [Sources -> Contents \union {Missing}]

\* claim_revision_fields: what a revision digest and an approval bind.
Revs == [text : Texts, status : Statuses, cites : SUBSET Sources,
         verified : BOOLEAN, versions : Versions]

RegIds == [claim : Claims,
           print : [text : Texts, cites : SUBSET Sources, versions : Versions],
           day : Nat, attempt : Nat]

ASSUME AbsentAssumption == None \notin Procs \union Claims /\ None \notin RegIds

ClaimRecords == [text : Texts, status : Statuses, cites : SUBSET Sources,
                 verified : BOOLEAN, rid : RegIds \union {None}, moved : SUBSET Sources]

ASSUME NoClaimAssumption == NoClaim \notin ClaimRecords

Ledgers == [Claims -> ClaimRecords \union {NoClaim}]

RevisionRows == [fields : Revs, reason : {"baseline", "change", "promotion"},
                 rid : RegIds \union {None}, approval : Nat]

Rows == [rev : Revs, revno : Nat, approval : Nat,
         status : {"promoted", "stale", "retracted"}, moved : SUBSET Sources]

Approvals == [claim : Claims, rev : Revs, key : Keys]

Calls == [pc : {"idle", "save", "retract", "append", "record", "scan", "note"},
          claim : Claims \union {None}, mem : Ledgers,
          rid : RegIds \union {None}, row : Rows \union {None},
          todo : SUBSET RegIds, withdraw : SUBSET RegIds, dirty : BOOLEAN]

TypeOK ==
    /\ saved \in Ledgers
    /\ chain \in [Claims -> Seq(RevisionRows)]
    /\ approvals \in Seq(Approvals)
    /\ DOMAIN registry \subseteq RegIds
    /\ \A r \in DOMAIN registry : registry[r] \in Rows
    /\ revoked \subseteq Keys
    /\ content \in Versions
    /\ guard \in Procs \union {None}
    /\ op \in [Procs -> Calls]
    /\ human \in [Terminals -> [claim : Claims, rev : Revs] \union {None}]
    /\ day \in Nat
    /\ used \in [Faults -> Nat]

-----------------------------------------------------------------------------
(* Claims, revisions and registry rows *)

\* Fingerprints of the cited evidence as it is retained now.
Fingerprints(cites) ==
    [s \in Sources |-> IF s \in cites THEN content[s] ELSE Missing]

Fields(claim) ==
    [text |-> claim.text, status |-> claim.status, cites |-> claim.cites,
     verified |-> claim.verified, versions |-> Fingerprints(claim.cites)]

Revision(fields, reason, rid, approval) ==
    [fields |-> fields, reason |-> reason, rid |-> rid, approval |-> approval]

\* Altered form: a claim with no history always gets a baseline.
RecordChangeAlwaysBased(rows, before, after) ==
    LET base == IF rows = << >> THEN <<Revision(before, "baseline", None, 0)>> ELSE rows
    IN  IF base[Len(base)].fields = after
          THEN base
          ELSE Append(base, Revision(after, "change", None, 0))

\* record_change without bookkeeping: a baseline for a claim with no history
\* when its previous state is known, then one row unless nothing bound moved.
RecordChange(rows, before, after) ==
    LET base == IF rows = << >> /\ before # None
                  THEN <<Revision(before, "baseline", None, 0)>>
                  ELSE rows
    IN  IF base # << >> /\ base[Len(base)].fields = after
          THEN base
          ELSE Append(base, Revision(after, "change", None, 0))

RowsOf(c, claim) ==
    {r \in DOMAIN registry : r.claim = c}
        \union (IF claim = NoClaim THEN {} ELSE {claim.rid} \intersect DOMAIN registry)

LiveRows(c, claim) ==
    {r \in RowsOf(c, claim) : registry[r].status \in {"promoted", "stale"}}

\* check_evidence_staleness: the cited sources whose fingerprint is not the stored one.
ChangedSources(r) ==
    {s \in registry[r].rev.cites : content[s] # registry[r].rev.versions[s]}

\* What a stale claim must drop: the recorded changed sources, else all its old spans.
StaleBasis(c) ==
    LET recorded == saved[c].moved \union
                    UNION {registry[r].moved : r \in {x \in RowsOf(c, saved[c]) :
                                                        registry[x].status = "stale"}}
    IN  IF recorded = {} THEN saved[c].cites ELSE recorded

-----------------------------------------------------------------------------
(* The gates on a claim's status *)

StatusGate(c, status, cites, verified) ==
    /\ status = "supported" /\ c \in MetricClaims => verified
    /\ status \in Supporting =>
          /\ cites # {}
          /\ \A s \in cites \intersect RunSources : content[s] # Missing

\* Altered form: the gate looks at stale rows only.
GateIgnoringRetraction(c, status, cites) ==
    status \in Supporting /\ saved[c] # NoClaim =>
        \/ \E r \in RowsOf(c, saved[c]) : registry[r].status = "promoted"
        \/ /\ saved[c].status # "stale"
           /\ \A r \in RowsOf(c, saved[c]) : registry[r].status # "stale"
        \/ cites # {} /\ cites \intersect StaleBasis(c) = {}

\* Altered form: the gate looks at retracted rows only.
GateIgnoringStaleness(c, status, cites) ==
    status \in Supporting /\ saved[c] # NoClaim =>
        \/ \E r \in RowsOf(c, saved[c]) : registry[r].status = "promoted"
        \/ \A r \in RowsOf(c, saved[c]) : registry[r].status # "retracted"

ReinstatementGate(c, status, cites) ==
    status \in Supporting /\ saved[c] # NoClaim =>
        \/ \E r \in RowsOf(c, saved[c]) : registry[r].status = "promoted"
        \/ /\ \A r \in RowsOf(c, saved[c]) : registry[r].status # "retracted"
           /\ \/ /\ saved[c].status # "stale"
                 /\ \A r \in RowsOf(c, saved[c]) : registry[r].status # "stale"
              \/ /\ cites # {}
                 /\ cites \intersect StaleBasis(c) = {}

-----------------------------------------------------------------------------
(* Calls under the write guard *)

IdleCall == [pc |-> "idle", claim |-> None, mem |-> [c \in Claims |-> NoClaim],
             rid |-> None, row |-> None, todo |-> {}, withdraw |-> {}, dirty |-> FALSE]

Init ==
    /\ saved = [c \in Claims |-> NoClaim]
    /\ chain = [c \in Claims |-> << >>]
    /\ approvals = << >>
    /\ registry = << >>
    /\ revoked = {}
    /\ content \in [Sources -> Contents]
    /\ guard = None
    /\ op = [p \in Procs |-> IdleCall]
    /\ human = [t \in Terminals |-> None]
    /\ day = 0
    /\ used = [f \in Faults |-> 0]

\* Altered form: nobody waits for the write guard.
FreeWithoutGuard(p) == op[p].pc = "idle"

\* The study is free and p has nothing in progress.
Free(p) == guard = None /\ op[p].pc = "idle"

\* Bound: a call starts only while the chain has room for the rows it may write.
Room(c) == Len(chain[c]) + 2 =< MaxRevisions

Finish(p) ==
    /\ op' = [op EXCEPT ![p] = IdleCall]
    /\ guard' = None

\* The revision is written before the session is saved, so a change that
\* cannot be recorded is never persisted.
Stage(p, c, claim) ==
    /\ chain' = [chain EXCEPT ![c] =
                    RecordChange(@, IF saved[c] = NoClaim THEN None ELSE Fields(saved[c]),
                                 Fields(claim))]
    /\ op' = [op EXCEPT ![p] = [IdleCall EXCEPT !.pc = "save", !.claim = c,
                                                !.mem = [saved EXCEPT ![c] = claim]]]
    /\ guard' = p
    /\ UNCHANGED <<saved, approvals, registry, human, world>>

\* add_claim: creates or redefines; a redefinition keeps the registry link and
\* the recorded stale sources, and forgets the uncertainty confirmation.
AddClaim(p, c, text, cites, status) ==
    /\ Free(p) /\ Room(c)
    /\ StatusGate(c, status, cites, FALSE)
    /\ ReinstatementGate(c, status, cites)
    /\ Stage(p, c, [text |-> text, status |-> status, cites |-> cites, verified |-> FALSE,
                    rid   |-> IF saved[c] = NoClaim THEN None ELSE saved[c].rid,
                    moved |-> IF saved[c] = NoClaim THEN {} ELSE saved[c].moved])

UpdateClaimStatus(p, c, status, text, verified) ==
    /\ Free(p) /\ Room(c)
    /\ saved[c] # NoClaim
    /\ StatusGate(c, status, saved[c].cites, verified)
    /\ ReinstatementGate(c, status, saved[c].cites)
    /\ Stage(p, c, [saved[c] EXCEPT !.status = status, !.text = text,
                                    !.verified = @ \/ verified])

\* Altered form: the retraction stays in the study.
SaveSessionOnly(p) ==
    /\ op[p].pc = "save"
    /\ saved' = op[p].mem
    /\ Finish(p)
    /\ UNCHANGED <<chain, approvals, registry, human, world>>

\* session.save(); a retraction then goes on to the claim's live registry rows.
SaveSession(p) ==
    /\ op[p].pc = "save"
    /\ saved' = op[p].mem
    /\ LET claim == op[p].mem[op[p].claim]
           live  == LiveRows(op[p].claim, claim)
       IN  IF claim.status = "retracted" /\ live # {}
             THEN /\ op' = [op EXCEPT ![p] = [@ EXCEPT !.pc = "retract", !.withdraw = live]]
                  /\ UNCHANGED guard
             ELSE Finish(p)
    /\ UNCHANGED <<chain, approvals, registry, human, world>>

\* Altered form: the loop over the rows never gets past the first.
RetractRowForever(p) ==
    /\ op[p].pc \in {"retract", "scan"}
    /\ \E r \in op[p].withdraw : registry' = [registry EXCEPT ![r].status = "retracted"]
    /\ UNCHANGED <<saved, chain, approvals, guard, op, human, world>>

\* mark_retracted on one of the rows propagate_retraction listed.
RetractRow(p) ==
    /\ op[p].pc \in {"retract", "scan"}
    /\ \E r \in op[p].withdraw :
          /\ registry' = [registry EXCEPT ![r].status = "retracted"]
          /\ IF op[p].pc = "retract" /\ op[p].withdraw = {r}
               THEN Finish(p)
               ELSE /\ op' = [op EXCEPT ![p] = [@ EXCEPT !.withdraw = op[p].withdraw \ {r}]]
                    /\ UNCHANGED guard
    /\ UNCHANGED <<saved, chain, approvals, human, world>>

-----------------------------------------------------------------------------
(* promote_claim_to_registry *)

\* The promotion policy on the claim as saved and its retained evidence.
Promotable(c) ==
    /\ saved[c] # NoClaim
    /\ saved[c].cites # {}
    /\ saved[c].status \in Supporting
    /\ c \in MetricClaims => saved[c].verified
    /\ \A s \in saved[c].cites : content[s] # Missing

\* Altered form: what drifted since the last revision is not recorded.
ObserveBaselineOnly(rows, now) ==
    IF rows = << >> THEN <<Revision(now, "baseline", None, 0)>> ELSE rows

\* ensure_baseline, then record_change: the chain as promotion leaves it before
\* it looks for an approval, even when it goes on to refuse.
Observe(rows, now) ==
    LET base == IF rows = << >> THEN <<Revision(now, "baseline", None, 0)>> ELSE rows
    IN  IF base[Len(base)].fields = now
          THEN base
          ELSE Append(base, Revision(now, "change", None, 0))

\* Altered form: no row counts as a use of its approval.
ConsumedByNone == {}

Consumed == {registry[r].approval : r \in DOMAIN registry}

\* find_approval(unconsumed_only=True) returns the latest of these.
Usable(c, now) ==
    {i \in DOMAIN approvals \ Consumed :
        /\ approvals[i].claim = c
        /\ approvals[i].rev = now
        /\ approvals[i].key \notin revoked}

\* build_registry_id: status and uncertainty flag are not part of the fingerprint.
RegistryId(c, now, n) ==
    [claim |-> c,
     print |-> [text |-> now.text, cites |-> now.cites, versions |-> now.versions],
     day |-> day, attempt |-> n]

Withdrawn(id) == id \in DOMAIN registry /\ registry[id].status # "promoted"

\* Altered form: the id is used whatever became of its row.
IsFirstId(id) == id.attempt = 0

\* The first of id, id.r1, id.r2, ... that is no stale or retracted row.
IsFreshId(id) ==
    /\ ~ Withdrawn(id)
    /\ \A m \in 0 .. id.attempt - 1 : Withdrawn([id EXCEPT !.attempt = m])

PromoteClaim(p, c) ==
    /\ Free(p) /\ Room(c) /\ Promotable(c)
    /\ LET now == Fields(saved[c])
           rows == Observe(chain[c], now)
       IN  /\ chain' = [chain EXCEPT ![c] = rows]
           /\ \E i \in Usable(c, now), n \in 0 .. Cardinality(DOMAIN registry) :
                /\ \A j \in Usable(c, now) : j =< i
                /\ IsFreshId(RegistryId(c, now, n))
                /\ op' = [op EXCEPT ![p] =
                     [IdleCall EXCEPT !.pc = "append", !.claim = c, !.mem = saved,
                        !.rid = RegistryId(c, now, n),
                        !.row = [rev |-> now, revno |-> Len(rows), approval |-> i,
                                 status |-> "promoted", moved |-> {}]]]
    /\ guard' = p
    /\ UNCHANGED <<saved, approvals, registry, human, world>>

\* APPROVAL_REQUIRED: what was observed stays recorded.
RefusePromotion(p, c) ==
    /\ Free(p) /\ Room(c) /\ Promotable(c)
    /\ Usable(c, Fields(saved[c])) = {}
    /\ chain' = [chain EXCEPT ![c] = Observe(@, Fields(saved[c]))]
    /\ UNCHANGED <<saved, approvals, registry, guard, op, human, world>>

\* Altered form: a row with the same id is replaced.
AppendRowReplacing(p) ==
    /\ op[p].pc = "append"
    /\ registry' = [r \in DOMAIN registry \union {op[p].rid} |->
                       IF r = op[p].rid THEN op[p].row ELSE registry[r]]
    /\ op' = [op EXCEPT ![p] = [@ EXCEPT !.pc = "record"]]
    /\ UNCHANGED <<saved, chain, approvals, guard, human, world>>

\* append(): the same id is a silent no-op; an approval another row cites is refused.
AppendRow(p) ==
    /\ op[p].pc = "append"
    /\ IF op[p].rid \in DOMAIN registry
         THEN /\ op' = [op EXCEPT ![p] = [@ EXCEPT !.pc = "record"]]
              /\ UNCHANGED <<registry, guard>>
         ELSE IF op[p].row.approval \in Consumed
         THEN Finish(p) /\ UNCHANGED registry
         ELSE /\ registry' = [r \in DOMAIN registry \union {op[p].rid} |->
                                IF r = op[p].rid THEN op[p].row ELSE registry[r]]
              /\ op' = [op EXCEPT ![p] = [@ EXCEPT !.pc = "record"]]
              /\ UNCHANGED guard
    /\ UNCHANGED <<saved, chain, approvals, human, world>>

\* The bookkeeping revision of a promotion, and the claim's link to its row.
RecordPromotion(p) ==
    /\ op[p].pc = "record"
    /\ chain' = [chain EXCEPT ![op[p].claim] =
                    Append(@, Revision(op[p].row.rev, "promotion", op[p].rid, op[p].row.approval))]
    /\ op' = [op EXCEPT ![p] = [@ EXCEPT !.pc = "save", !.mem[op[p].claim].rid = op[p].rid]]
    /\ UNCHANGED <<saved, approvals, registry, guard, human, world>>

-----------------------------------------------------------------------------
(* check_registry_staleness *)

CheckStaleness(p) ==
    /\ Free(p)
    /\ LET promoted == {r \in DOMAIN registry : registry[r].status = "promoted"}
       IN  /\ promoted # {}
           /\ \A r \in promoted : Room(r.claim)
           /\ op' = [op EXCEPT ![p] = [IdleCall EXCEPT !.pc = "scan", !.mem = saved,
                                                       !.todo = promoted]]
    /\ guard' = p
    /\ UNCHANGED <<stores, human, world>>

\* Altered form: the pass looks at evidence only.
ScanRowEvidenceOnly(p) ==
    /\ op[p].pc = "scan"
    /\ op[p].withdraw = {}
    /\ \E r \in op[p].todo :
         /\ ChangedSources(r) = {}
         /\ op' = [op EXCEPT ![p] = [@ EXCEPT !.todo = @ \ {r}]]
    /\ UNCHANGED <<saved, chain, approvals, registry, guard, human, world>>

\* One row of the pass: retract the rows of a claim withdrawn in the study, mark
\* a row whose evidence moved, or leave a fresh one.
ScanRow(p) ==
    /\ op[p].pc = "scan"
    /\ op[p].withdraw = {}
    /\ \E r \in op[p].todo :
         LET c == r.claim
             mine == op[p].mem[c]
             next == [op[p] EXCEPT !.todo = @ \ {r}]
         IN  IF mine # NoClaim /\ mine.status = "retracted"
               THEN /\ op' = [op EXCEPT ![p] = [next EXCEPT !.withdraw = LiveRows(c, mine)]]
                    /\ UNCHANGED registry
             ELSE IF ChangedSources(r) = {}
               THEN /\ op' = [op EXCEPT ![p] = next]
                    /\ UNCHANGED registry
             ELSE /\ registry' = [registry EXCEPT ![r] =
                                    [@ EXCEPT !.status = "stale", !.moved = ChangedSources(r)]]
                  /\ op' = [op EXCEPT ![p] =
                       IF mine # NoClaim /\ mine.rid \in {None, r}
                         THEN [next EXCEPT !.pc = "note", !.claim = c, !.rid = r, !.dirty = TRUE]
                         ELSE [next EXCEPT !.dirty = TRUE]]
    /\ UNCHANGED <<saved, chain, approvals, guard, human, world>>

\* Altered form: the claim goes stale without a revision.
NoteStaleUnrecorded(p) ==
    /\ op[p].pc = "note"
    /\ LET c == op[p].claim
       IN  op' = [op EXCEPT ![p] = [@ EXCEPT !.pc = "scan", !.claim = None, !.rid = None,
                                             !.mem[c].status = "stale",
                                             !.mem[c].moved = registry[op[p].rid].moved]]
    /\ UNCHANGED <<stores, guard, human, world>>

\* The study's claim follows its row: status, stale sources and a revision.
NoteStale(p) ==
    /\ op[p].pc = "note"
    /\ LET c == op[p].claim
           old == op[p].mem[c]
           new == [old EXCEPT !.status = "stale", !.moved = registry[op[p].rid].moved]
       IN  /\ chain' = [chain EXCEPT ![c] = RecordChange(@, Fields(old), Fields(new))]
           /\ op' = [op EXCEPT ![p] = [@ EXCEPT !.pc = "scan", !.claim = None, !.rid = None,
                                                !.mem[c] = new]]
    /\ UNCHANGED <<saved, approvals, registry, guard, human, world>>

\* One save at the end of the pass, only if some row went stale.
FinishCheck(p) ==
    /\ op[p].pc = "scan"
    /\ op[p].todo = {} /\ op[p].withdraw = {}
    /\ saved' = IF op[p].dirty THEN op[p].mem ELSE saved
    /\ Finish(p)
    /\ UNCHANGED <<chain, approvals, registry, human, world>>

-----------------------------------------------------------------------------
(* The researcher's terminal: aihydro-approve *)

\* Load, render and ask for the digest prefix, unless an unused approval exists.
ReviewClaim(t, c) ==
    /\ human[t] = None
    /\ saved[c] # NoClaim
    /\ Usable(c, Fields(saved[c])) = {}
    /\ human' = [human EXCEPT ![t] = [claim |-> c, rev |-> Fields(saved[c])]]
    /\ UNCHANGED <<stores, guard, op, world>>

\* The prefix typed, the record for the revision on screen is signed and appended.
Approve(t) ==
    /\ human[t] # None
    /\ Len(approvals) < MaxApprovals
    /\ \E k \in Keys \ revoked :
          approvals' = Append(approvals, [claim |-> human[t].claim, rev |-> human[t].rev,
                                          key |-> k])
    /\ human' = [human EXCEPT ![t] = None]
    /\ UNCHANGED <<saved, chain, registry, guard, op, world>>

\* Wrong prefix, closed terminal, or no key that would verify.
Decline(t) ==
    /\ human[t] # None
    /\ human' = [human EXCEPT ![t] = None]
    /\ UNCHANGED <<stores, guard, op, world>>

Revoke(k) ==
    /\ k \notin revoked
    /\ Cardinality(revoked) < MaxRevoked
    /\ revoked' = revoked \union {k}
    /\ UNCHANGED <<stores, content, guard, op, human, day, used>>

-----------------------------------------------------------------------------
(* Faults and the passing of time *)

\* Bound: f happens at most Limit[f] times.
Use(f) ==
    /\ used[f] < Limit[f]
    /\ used' = [used EXCEPT ![f] = @ + 1]

\* A retained record is replaced, removed or restored by something other than the ledger.
ChangeEvidence(s, v) ==
    /\ Use("change")
    /\ content[s] # v
    /\ content' = [content EXCEPT ![s] = v]
    /\ UNCHANGED <<stores, revoked, guard, op, human, day>>

\* The call raises, is cancelled or its process dies: its memory and the guard
\* go, what its earlier steps wrote stays.
Abort(p) ==
    /\ op[p].pc # "idle"
    /\ Use("abort")
    /\ Finish(p)
    /\ UNCHANGED <<stores, human, revoked, content, day>>

\* The session file written between calls without the chain: by hand or by a
\* build that predates the revision store.
EditOutOfBand(c, text, cites, status) ==
    /\ guard = None
    /\ Use("edit")
    /\ saved' = [saved EXCEPT ![c] =
          IF @ = NoClaim
            THEN [text |-> text, status |-> status, cites |-> cites, verified |-> FALSE,
                  rid |-> None, moved |-> {}]
            ELSE [@ EXCEPT !.text = text, !.cites = cites, !.status = status]]
    /\ UNCHANGED <<chain, approvals, registry, revoked, content, guard, op, human, day>>

NextDay ==
    /\ day < MaxDay
    /\ day' = day + 1
    /\ UNCHANGED <<stores, revoked, content, guard, op, human, used>>

-----------------------------------------------------------------------------
Step(p) ==
    \/ SaveSession(p) \/ RetractRow(p)
    \/ AppendRow(p) \/ RecordPromotion(p)
    \/ ScanRow(p) \/ NoteStale(p) \/ FinishCheck(p)

Call(p) ==
    \/ \E c \in Claims, text \in Texts, cites \in CiteSets, status \in StatusInputs :
          AddClaim(p, c, text, cites, status)
    \/ \E c \in Claims, status \in StatusInputs, text \in Texts, verified \in BOOLEAN :
          UpdateClaimStatus(p, c, status, text, verified)
    \/ \E c \in Claims : PromoteClaim(p, c)
    \/ \E c \in Claims : RefusePromotion(p, c)
    \/ CheckStaleness(p)

Terminal(t) == (\E c \in Claims : ReviewClaim(t, c)) \/ Approve(t) \/ Decline(t)

Environment ==
    \/ \E k \in Keys : Revoke(k)
    \/ \E s \in Sources, v \in Contents \union {Missing} : ChangeEvidence(s, v)
    \/ \E c \in Claims, text \in Texts, cites \in CiteSets, status \in StatusInputs :
          EditOutOfBand(c, text, cites, status)
    \/ NextDay

Next ==
    \/ \E p \in Procs : Call(p) \/ Step(p) \/ Abort(p)
    \/ \E t \in Terminals : Terminal(t)
    \/ Environment

Spec == Init /\ [][Next]_vars

\* A call that has started keeps running until it returns; nothing obliges
\* anybody to start one.
FairSpec == Spec /\ \A p \in Procs : WF_vars(Step(p))

-----------------------------------------------------------------------------
(* Properties *)

AtRest == guard = None

\* No hand wrote the session file and no call died half way.
Undisturbed == used["edit"] = 0 /\ used["abort"] = 0

Body(claim) == [text |-> claim.text, status |-> claim.status, cites |-> claim.cites,
                verified |-> claim.verified]

\* Two registry rows never cite the same approval record: what one human
\* decision authorised cannot be spread over several rows (records.py:45-48).
ApprovalSingleUse ==
    \A r, s \in DOMAIN registry : registry[r].approval = registry[s].approval => r = s

\* The row rests on an approval for its claim and revision, recorded in the chain.
Backed(r, row) ==
    /\ row.approval \in DOMAIN approvals
    /\ approvals[row.approval].claim = r.claim
    /\ approvals[row.approval].rev = row.rev
    /\ row.revno \in DOMAIN chain[r.claim]
    /\ chain[r.claim][row.revno].fields = row.rev

\* A registry row asserts the revision a human approved for this very claim, and
\* that revision is still the one its chain holds under the row's number, however
\* the claim, its evidence or the approving key moved meanwhile
\* (tools_ledger.py:832-892, the anchor check at 1064-1084).
RowsApproved == \A r \in DOMAIN registry : Backed(r, registry[r])

\* The write guard excludes: at most one call of the study is between its load
\* and its save, and it is the one the guard names (tools_ledger.py:42-67).
GuardExcludes ==
    \A p \in Procs : op[p].pc # "idle" <=> guard = p

\* Whatever call died where, a claim that reached the session file is in its
\* revision chain: a change that cannot be recorded is never persisted
\* (tools_ledger.py:136-140).
SavedIsRecorded ==
    used["edit"] = 0 =>
        \A c \in Claims : saved[c] # NoClaim =>
            \E i \in DOMAIN chain[c] : Body(chain[c][i].fields) = Body(saved[c])

\* With every call run to its end, the chain's latest revision is the saved claim.
ChainIsCurrent ==
    AtRest /\ Undisturbed =>
        \A c \in Claims : saved[c] # NoClaim =>
            /\ chain[c] # << >>
            /\ Body(chain[c][Len(chain[c])].fields) = Body(saved[c])

\* A withdrawal made in the study has reached the registry by the time the call
\* returns (lifecycle.py:8-9).
WithdrawalReachesRegistry ==
    AtRest /\ Undisturbed =>
        \A c \in Claims : saved[c] # NoClaim /\ saved[c].status = "retracted" =>
            LiveRows(c, saved[c]) = {}

Unsupported(c) ==
    /\ saved[c] # NoClaim /\ saved[c].status \in Supporting
    /\ RowsOf(c, saved[c]) # {}
    /\ \A r \in RowsOf(c, saved[c]) : registry[r].status # "promoted"

\* Between calls a study never supports a claim all of whose rows are withdrawn:
\* they are stale, none retracted, and a single row moved away from nothing the
\* claim still cites (lifecycle.py:3-16).  A claim with several rows follows the
\* one it is linked to, see NeverAssertsMoreOfAny.
NeverAssertsMore ==
    AtRest /\ Undisturbed =>
        \A c \in Claims : Unsupported(c) =>
            \A r \in RowsOf(c, saved[c]) :
                /\ registry[r].status = "stale"
                /\ \/ saved[c].cites \intersect registry[r].moved = {}
                   \/ \E s \in RowsOf(c, saved[c]) : s # r

\* The same for every row, which a claim promoted twice refutes: once its newer row
\* went stale the older one readmits it, and goes stale itself without the claim.
NeverAssertsMoreOfAny ==
    AtRest /\ Undisturbed =>
        \A c \in Claims : Unsupported(c) =>
            \A r \in RowsOf(c, saved[c]) : saved[c].cites \intersect registry[r].moved = {}

\* A claim whose registry rows are withdrawn does not come back from "retracted" to
\* a supporting status through any tool (lifecycle.py:10-11).  A call that died
\* between its save and the registry leaves a live row, which readmits the claim.
RetractedStaysRetracted ==
    [][used'["edit"] = used["edit"] =>
          \A c \in Claims :
              /\ saved[c] # NoClaim /\ saved[c].status = "retracted"
              /\ RowsOf(c, saved[c]) # {}
              /\ Undisturbed' \/ LiveRows(c, saved[c]) = {}
              => saved'[c].status \notin Supporting]_vars

\* A staleness pass that runs to its end leaves no promoted row of a claim the
\* study holds as retracted, whatever call died between the study's save and the
\* registry: the failure is reported and "check_registry_staleness repeats the
\* propagation" (tools_ledger.py:406-408, 1031-1036).  A row that went stale
\* before the retraction is not visited by a pass, so only promoted ones are meant.
PassWithdrawsRetracted ==
    [][\A p \in Procs :
          op[p].pc = "scan" /\ op'[p].pc = "idle" /\ used' = used
              => \A r \in DOMAIN registry :
                    /\ saved[r.claim] # NoClaim
                    /\ saved[r.claim].status = "retracted"
                    => registry'[r].status # "promoted"]_vars

\* No tool takes a claim out of "stale" to a supporting status while it cites a
\* source recorded as moved, unless another row of it is live (lifecycle.py:70-95).
StaleNeedsRebinding ==
    [][used'["edit"] = used["edit"] =>
          \A c \in Claims :
              /\ saved[c] # NoClaim /\ saved[c].status = "stale"
              /\ saved'[c].status \in Supporting
              => \/ saved'[c].cites \intersect saved[c].moved = {}
                 \/ \E r \in RowsOf(c, saved[c]) : registry[r].status = "promoted"]_vars

\* The same without the exception, as lifecycle.py:12-14 states it.
StaleAlwaysNeedsRebinding ==
    [][\A c \in Claims :
          /\ saved[c] # NoClaim /\ saved[c].status = "stale"
          /\ saved'[c].status \in Supporting
          => saved'[c].cites \intersect saved[c].moved = {}]_vars

\* A promotion is only ever reported over a live row: a fresh approval does not
\* silently reuse a stale or retracted entry, also when the restored evidence
\* gives back the withdrawn row's id (tools_ledger.py:901-906).
PromotionIsLive ==
    [][\A c \in Claims :
          /\ Len(chain'[c]) > Len(chain[c])
          /\ chain'[c][Len(chain'[c])].reason = "promotion"
          => registry[chain'[c][Len(chain'[c])].rid].status = "promoted"]_vars

\* What the two stores promise together (PromotionAuthority): grants are spent
\* once and rows are only ever withdrawn, never restored or rewritten.
Authority == INSTANCE PromotionAuthority WITH
    Revisions <- Revs,
    RowIds    <- RegIds,
    granted   <- [i \in 1 .. Len(approvals) |->
                     [claim |-> approvals[i].claim, rev |-> approvals[i].rev]],
    rows      <- [r \in DOMAIN registry |->
                     [rev |-> registry[r].rev, approval |-> registry[r].approval,
                      status |-> registry[r].status]]

ImplementsAuthority == Authority!AuthoritySpec

\* A retraction that was saved ends with no live row, or is superseded: the rest
\* of the call that saved it does the work.
RetractionCompletes ==
    \A c \in Claims :
        saved[c] # NoClaim /\ saved[c].status = "retracted"
            ~> \/ LiveRows(c, saved[c]) = {}
               \/ saved[c].status # "retracted"

\* Every call gives the guard back, however many rows it has to visit.
CallsReturn == \A p \in Procs : guard = p ~> guard # p
=============================================================================
