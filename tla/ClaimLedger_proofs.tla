--------------------------- MODULE ClaimLedger_proofs ---------------------------
(***************************************************************************)
(* What holds of the claim ledger for any number of processes, terminals,   *)
(* claims, keys, dead calls and out-of-band edits: the types, one call at a *)
(* time, one row per approval, and rows that assert what was approved.      *)
(*                                                                         *)
(* A row is backed by two stores that only grow (HistoryKept), and a row    *)
(* once published keeps what it asserts (RowsKept), so it is enough that    *)
(* the call about to publish is backed when it starts (PendingBacked).      *)
(***************************************************************************)
EXTENDS ClaimLedger, SequenceTheorems, TLAPS

\* The chain store is insert-only: a new chain starts with the old one.
Extends(new, old) ==
    /\ new \in Seq(RevisionRows)
    /\ Len(old) =< Len(new)
    /\ \A i \in 1 .. Len(old) : new[i] = old[i]

\* A chain row built by _make is a revision row.
LEMMA RevisionType ==
    ASSUME NEW fields \in Revs, NEW reason \in {"baseline", "change", "promotion"},
           NEW rid \in RegIds \union {None}, NEW approval \in Nat
    PROVE  Revision(fields, reason, rid, approval) \in RevisionRows
BY DEF Revision, RevisionRows

\* _insert_sealed leaves the earlier revisions as they were.
LEMMA AppendExtends ==
    ASSUME NEW rows \in Seq(RevisionRows), NEW row \in RevisionRows
    PROVE  Extends(Append(rows, row), rows)
BY DEF Extends

\* record_change only adds revisions.
LEMMA RecordChangeExtends ==
    ASSUME NEW rows \in Seq(RevisionRows), NEW before \in Revs \union {None}, NEW after \in Revs
    PROVE  Extends(RecordChange(rows, before, after), rows)
<1> DEFINE base == IF rows = << >> /\ before # None
                     THEN <<Revision(before, "baseline", None, 0)>>
                     ELSE rows
           last == Revision(after, "change", None, 0)
<1>1. last \in RevisionRows
  BY RevisionType
<1>2. Extends(base, rows)
  <2>1. CASE rows = << >> /\ before # None
    <3>1. Revision(before, "baseline", None, 0) \in RevisionRows
      BY <2>1, RevisionType
    <3> QED BY <2>1, <3>1 DEF Extends
  <2>2. CASE ~ (rows = << >> /\ before # None)
    BY <2>2 DEF Extends
  <2> QED BY <2>1, <2>2
<1>3. Extends(Append(base, last), base)
  BY <1>1, <1>2, AppendExtends DEF Extends
<1>4. Extends(Append(base, last), rows)
  BY <1>2, <1>3 DEF Extends
<1> HIDE DEF base, last
<1>5. RecordChange(rows, before, after) \in {base, Append(base, last)}
  BY DEF RecordChange, base, last
<1> QED BY <1>2, <1>4, <1>5

\* Promotion only adds revisions, and leaves the observed one last.
LEMMA ObserveExtends ==
    ASSUME NEW rows \in Seq(RevisionRows), NEW now \in Revs
    PROVE  /\ Extends(Observe(rows, now), rows)
           /\ Len(Observe(rows, now)) \in DOMAIN Observe(rows, now)
           /\ Observe(rows, now)[Len(Observe(rows, now))].fields = now
<1> DEFINE base == IF rows = << >> THEN <<Revision(now, "baseline", None, 0)>> ELSE rows
           last == Revision(now, "change", None, 0)
<1>1. /\ last \in RevisionRows /\ last.fields = now
      /\ Revision(now, "baseline", None, 0) \in RevisionRows
  BY RevisionType DEF Revision
<1>2. Extends(base, rows) /\ base # << >>
  BY <1>1 DEF Extends
<1>3. Extends(Append(base, last), base)
  BY <1>1, <1>2, AppendExtends DEF Extends
<1>4. Extends(Append(base, last), rows)
  BY <1>2, <1>3 DEF Extends
<1> HIDE DEF base, last
<1>5. CASE base[Len(base)].fields = now
  <2>1. Observe(rows, now) = base
    BY <1>5 DEF Observe, base
  <2> QED BY <1>2, <1>5, <2>1 DEF Extends
<1>6. CASE base[Len(base)].fields # now
  <2>1. Observe(rows, now) = Append(base, last)
    BY <1>6 DEF Observe, base, last
  <2> QED BY <1>1, <1>2, <1>4, <2>1 DEF Extends
<1> QED BY <1>5, <1>6

-----------------------------------------------------------------------------
\* What an approval binds of a claim is a revision, whatever evidence is retained.
LEMMA FieldsType ==
    ASSUME content \in Versions, NEW claim \in ClaimRecords
    PROVE  Fields(claim) \in Revs
<1>1. Fingerprints(claim.cites) \in Versions
  BY DEF Fingerprints, Versions, ClaimRecords
<1> QED BY <1>1 DEF Fields, Revs, ClaimRecords

\* registry_rows returns rows that are in the registry.
LEMMA RowsOfRegistry ==
    ASSUME NEW c, NEW claim
    PROVE  RowsOf(c, claim) \subseteq DOMAIN registry /\ LiveRows(c, claim) \subseteq DOMAIN registry
BY DEF RowsOf, LiveRows

\* A call that has returned carries nothing.
LEMMA IdleCallType == IdleCall \in Calls
BY DEF IdleCall, Calls, Ledgers

\* What a call in progress carries, beyond its type.
Shaped(call) ==
    /\ call.pc \in {"save", "retract", "append", "record", "note"} =>
           call.claim \in Claims /\ call.mem[call.claim] \in ClaimRecords
    /\ call.pc \in {"append", "record"} => call.rid \in RegIds /\ call.row \in Rows
    /\ call.pc = "note" => call.rid \in DOMAIN registry
    /\ call.todo \subseteq DOMAIN registry
    /\ call.withdraw \subseteq DOMAIN registry

CallShape == \A p \in Procs : Shaped(op[p])

TypeInv == TypeOK /\ CallShape

\* Nor does it point at a row or a claim.
LEMMA IdleShaped == Shaped(IdleCall) /\ Shaped(IdleCall)'
BY DEF IdleCall, Shaped

\* An empty study is well typed.
LEMMA TypeInit == Init => TypeInv
<1> SUFFICES ASSUME Init PROVE TypeInv
  OBVIOUS
<1>1. content \in Versions
  BY DEF Init, Versions
<1>2. op \in [Procs -> Calls] /\ CallShape
  BY IdleCallType, IdleShaped DEF Init, CallShape
<1>3. saved \in Ledgers /\ chain \in [Claims -> Seq(RevisionRows)]
  BY DEF Init, Ledgers
<1>4. DOMAIN registry = {}
  BY DEF Init
<1> QED BY <1>1, <1>2, <1>3, <1>4 DEF Init, TypeInv, TypeOK

\* A step of one call leaves the others as they are; rows never leave the registry.
LEMMA CallStep ==
    ASSUME TypeInv, NEW p \in Procs, NEW call \in Calls,
           op' = [op EXCEPT ![p] = call], Shaped(call),
           DOMAIN registry \subseteq DOMAIN registry'
    PROVE  op' \in [Procs -> Calls] /\ CallShape'
<1>1. op' \in [Procs -> Calls]
  BY DEF TypeInv, TypeOK
<1>2. ASSUME NEW q \in Procs PROVE Shaped(op[q])'
  <2>1. CASE q = p
    <3>1. op'[q] = call
      BY <2>1 DEF TypeInv, TypeOK
    <3> QED BY <3>1 DEF Shaped
  <2>2. CASE q # p
    <3>1. op'[q] = op[q] /\ Shaped(op[q])
      BY <2>2 DEF TypeInv, TypeOK, CallShape
    <3> QED BY <3>1 DEF Shaped
  <2> QED BY <2>1, <2>2
<1> QED BY <1>1, <1>2 DEF CallShape

\* A call that returns leaves the types alone.
LEMMA FinishType ==
    ASSUME TypeInv, NEW p \in Procs, Finish(p), DOMAIN registry \subseteq DOMAIN registry'
    PROVE  /\ op' \in [Procs -> Calls]
           /\ guard' \in Procs \union {None}
           /\ CallShape'
BY IdleCallType, IdleShaped, CallStep DEF Finish

\* Both claim tools stage a well-typed claim behind a well-typed revision.
LEMMA StageType ==
    ASSUME TypeInv, NEW p \in Procs, NEW c \in Claims, NEW claim \in ClaimRecords,
           Stage(p, c, claim)
    PROVE  TypeInv'
<1> USE DEF TypeInv, TypeOK
<1>1. Fields(claim) \in Revs
  BY FieldsType
<1>2. (IF saved[c] = NoClaim THEN None ELSE Fields(saved[c])) \in Revs \union {None}
  BY FieldsType DEF Ledgers
<1>3. chain' \in [Claims -> Seq(RevisionRows)]
  <2>1. RecordChange(chain[c], IF saved[c] = NoClaim THEN None ELSE Fields(saved[c]),
                     Fields(claim)) \in Seq(RevisionRows)
    BY <1>1, <1>2, RecordChangeExtends DEF Extends
  <2> QED BY <2>1 DEF Stage
<1> DEFINE call == [IdleCall EXCEPT !.pc = "save", !.claim = c,
                                    !.mem = [saved EXCEPT ![c] = claim]]
<1>4. /\ call \in Calls /\ call.claim = c /\ call.mem[c] = claim /\ call.pc = "save"
      /\ call.todo = {} /\ call.withdraw = {}
  BY DEF IdleCall, Calls, Ledgers
<1>5. op' = [op EXCEPT ![p] = call] /\ guard' = p
  BY DEF Stage
<1> HIDE DEF call
<1>6. Shaped(call)
  BY <1>4 DEF Shaped
<1>7. op' \in [Procs -> Calls] /\ CallShape'
  BY <1>4, <1>5, <1>6, CallStep DEF Stage
<1> QED BY <1>3, <1>5, <1>7 DEF Stage, world

\* add_claim keeps the types.
LEMMA AddClaimType ==
    ASSUME TypeInv, NEW p \in Procs, NEW c \in Claims, NEW text \in Texts,
           NEW cites \in CiteSets, NEW status \in StatusInputs,
           AddClaim(p, c, text, cites, status)
    PROVE  TypeInv'
<1> DEFINE claim == [text |-> text, status |-> status, cites |-> cites, verified |-> FALSE,
                     rid   |-> IF saved[c] = NoClaim THEN None ELSE saved[c].rid,
                     moved |-> IF saved[c] = NoClaim THEN {} ELSE saved[c].moved]
<1>1. claim \in ClaimRecords
  BY InputsAssumption DEF ClaimRecords, TypeInv, TypeOK, Ledgers
<1>2. Stage(p, c, claim)
  BY DEF AddClaim
<1> QED BY <1>1, <1>2, StageType

\* update_claim_status keeps the types.
LEMMA UpdateClaimStatusType ==
    ASSUME TypeInv, NEW p \in Procs, NEW c \in Claims, NEW text \in Texts,
           NEW status \in StatusInputs, NEW verified \in BOOLEAN,
           UpdateClaimStatus(p, c, status, text, verified)
    PROVE  TypeInv'
<1> DEFINE claim == [saved[c] EXCEPT !.status = status, !.text = text,
                                     !.verified = @ \/ verified]
<1>0. saved[c] \in ClaimRecords
  BY DEF UpdateClaimStatus, TypeInv, TypeOK, Ledgers
<1>1. claim \in ClaimRecords
  BY <1>0, InputsAssumption DEF ClaimRecords
<1>2. Stage(p, c, claim)
  BY DEF UpdateClaimStatus
<1> QED BY <1>1, <1>2, StageType

\* session.save and the retraction it starts keep the types.
LEMMA SaveSessionType ==
    ASSUME TypeInv, NEW p \in Procs, SaveSession(p)
    PROVE  TypeInv'
<1> USE DEF TypeInv, TypeOK
<1>1. saved' \in Ledgers
  BY DEF SaveSession, Calls
<1> DEFINE live == LiveRows(op[p].claim, op[p].mem[op[p].claim])
<1>2. live \subseteq DOMAIN registry
  BY RowsOfRegistry
<1>3. CASE Finish(p)
  BY <1>1, <1>3, FinishType DEF SaveSession, world
<1>4. CASE op' = [op EXCEPT ![p] = [@ EXCEPT !.pc = "retract", !.withdraw = live]]
           /\ guard' = guard
  <2> DEFINE call == [op[p] EXCEPT !.pc = "retract", !.withdraw = live]
  <2>1. call \in Calls /\ Shaped(call)
    BY <1>2 DEF Calls, SaveSession, CallShape, Shaped
  <2> HIDE DEF live
  <2>2. op' \in [Procs -> Calls] /\ CallShape'
    BY <1>4, <2>1, CallStep DEF SaveSession
  <2> QED BY <1>1, <1>4, <2>2 DEF SaveSession, world
<1> QED BY <1>3, <1>4 DEF SaveSession

\* Dropping a row from the work left keeps a call well shaped.
LEMMA RowVisited ==
    ASSUME NEW call \in Calls, Shaped(call), NEW r
    PROVE  /\ [call EXCEPT !.withdraw = call.withdraw \ {r}] \in Calls
           /\ Shaped([call EXCEPT !.withdraw = call.withdraw \ {r}])
BY DEF Calls, Shaped

\* mark_retracted keeps the types.
LEMMA RetractRowType ==
    ASSUME TypeInv, NEW p \in Procs, RetractRow(p)
    PROVE  TypeInv'
<1> USE DEF TypeInv, TypeOK
<1> PICK r \in op[p].withdraw :
        /\ registry' = [registry EXCEPT ![r].status = "retracted"]
        /\ IF op[p].pc = "retract" /\ op[p].withdraw = {r}
             THEN Finish(p)
             ELSE /\ op' = [op EXCEPT ![p] = [@ EXCEPT !.withdraw = op[p].withdraw \ {r}]]
                  /\ UNCHANGED guard
  BY DEF RetractRow
<1>1. DOMAIN registry' = DOMAIN registry
  OBVIOUS
<1>2. \A x \in DOMAIN registry' : registry'[x] \in Rows
  BY DEF Rows
<1>3. CASE Finish(p)
  BY <1>1, <1>2, <1>3, FinishType DEF RetractRow, world
<1>4. CASE op' = [op EXCEPT ![p] = [@ EXCEPT !.withdraw = op[p].withdraw \ {r}]] /\ guard' = guard
  <2> DEFINE call == [op[p] EXCEPT !.withdraw = @ \ {r}]
  <2>1. op[p] \in Calls /\ Shaped(op[p])
    BY DEF CallShape
  <2>3. call \in Calls /\ Shaped(call)
    BY <2>1, RowVisited
  <2> HIDE DEF call
  <2>4. op' \in [Procs -> Calls] /\ CallShape'
    BY <1>1, <1>4, <2>3, CallStep DEF call
  <2> QED BY <1>1, <1>2, <1>4, <2>4 DEF RetractRow, world
<1> QED BY <1>3, <1>4

\* The call a promotion starts is well shaped.
LEMMA FreshCall ==
    ASSUME NEW c \in Claims, NEW mem \in Ledgers, mem[c] \in ClaimRecords,
           NEW rid \in RegIds, NEW row \in Rows
    PROVE  LET call == [IdleCall EXCEPT !.pc = "append", !.claim = c, !.mem = mem,
                                        !.rid = rid, !.row = row]
           IN  call \in Calls /\ Shaped(call)
BY DEF IdleCall, Calls, Shaped

\* promote_claim_to_registry keeps the types up to its append.
LEMMA PromoteClaimType ==
    ASSUME TypeInv, NEW p \in Procs, NEW c \in Claims, PromoteClaim(p, c)
    PROVE  TypeInv'
<1> USE DEF TypeInv, TypeOK
<1> DEFINE now == Fields(saved[c])
           rows == Observe(chain[c], now)
<1>1. now \in Revs
  BY FieldsType DEF PromoteClaim, Promotable, Ledgers
<1>2. rows \in Seq(RevisionRows)
  BY <1>1, ObserveExtends DEF Extends
<1> HIDE DEF now, rows
<1> PICK i \in Usable(c, now), n \in 0 .. Cardinality(DOMAIN registry) :
        op' = [op EXCEPT ![p] =
                 [IdleCall EXCEPT !.pc = "append", !.claim = c, !.mem = saved,
                    !.rid = RegistryId(c, now, n),
                    !.row = [rev |-> now, revno |-> Len(rows), approval |-> i,
                             status |-> "promoted", moved |-> {}]]]
  BY Zenon DEF PromoteClaim, now, rows
<1> DEFINE row == [rev |-> now, revno |-> Len(rows), approval |-> i,
                   status |-> "promoted", moved |-> {}]
           call == [IdleCall EXCEPT !.pc = "append", !.claim = c, !.mem = saved,
                                    !.rid = RegistryId(c, now, n), !.row = row]
<1>3. RegistryId(c, now, n) \in RegIds
  BY <1>1 DEF RegistryId, RegIds, Revs
<1>4. row \in Rows
  BY <1>1, <1>2 DEF Rows, Usable
<1> HIDE DEF row
<1>5. call \in Calls /\ Shaped(call)
  <2>1. saved[c] \in ClaimRecords
    BY DEF Ledgers, PromoteClaim, Promotable
  <2>2. saved \in Ledgers
    OBVIOUS
  <2> QED BY Zenon, <1>3, <1>4, <2>1, <2>2, FreshCall
<1>6. op' = [op EXCEPT ![p] = call]
  BY DEF row
<1> HIDE DEF call
<1>7. op' \in [Procs -> Calls] /\ CallShape'
  BY <1>5, <1>6, CallStep DEF PromoteClaim
<1>9. chain' \in [Claims -> Seq(RevisionRows)]
  BY <1>2 DEF PromoteClaim, now, rows
<1> QED BY <1>7, <1>9 DEF PromoteClaim, world

\* append keeps the types.
LEMMA AppendRowType ==
    ASSUME TypeInv, NEW p \in Procs, AppendRow(p)
    PROVE  TypeInv'
<1>1. op[p] \in Calls /\ Shaped(op[p]) /\ op[p].rid \in RegIds /\ op[p].row \in Rows
  BY DEF TypeInv, TypeOK, CallShape, Shaped, AppendRow
<1>2. /\ DOMAIN registry \subseteq DOMAIN registry'
      /\ DOMAIN registry' \subseteq RegIds
      /\ \A r \in DOMAIN registry' : registry'[r] \in Rows
  <2>1. CASE registry' = registry
    BY <2>1 DEF TypeInv, TypeOK
  <2>2. CASE registry' = [r \in DOMAIN registry \union {op[p].rid} |->
                            IF r = op[p].rid THEN op[p].row ELSE registry[r]]
    BY <1>1, <2>2 DEF TypeInv, TypeOK
  <2> QED BY <2>1, <2>2 DEF AppendRow
<1>3. CASE Finish(p)
  BY <1>2, <1>3, FinishType DEF AppendRow, TypeInv, TypeOK, world
<1>4. CASE op' = [op EXCEPT ![p] = [@ EXCEPT !.pc = "record"]] /\ guard' = guard
  <2>1. [op[p] EXCEPT !.pc = "record"] \in Calls
    BY <1>1 DEF Calls
  <2>2. Shaped([op[p] EXCEPT !.pc = "record"])
    BY <1>1 DEF Calls, Shaped, AppendRow
  <2>3. op' \in [Procs -> Calls] /\ CallShape'
    BY <1>2, <1>4, <2>1, <2>2, CallStep
  <2> QED BY <1>2, <1>4, <2>3 DEF AppendRow, TypeInv, TypeOK, world
<1> QED BY <1>3, <1>4 DEF AppendRow

\* The bookkeeping of a promotion keeps the types.
LEMMA RecordPromotionType ==
    ASSUME TypeInv, NEW p \in Procs, RecordPromotion(p)
    PROVE  TypeInv'
<1>1. /\ op[p] \in Calls /\ Shaped(op[p]) /\ op[p].rid \in RegIds /\ op[p].row \in Rows
      /\ op[p].claim \in Claims /\ op[p].mem[op[p].claim] \in ClaimRecords
  BY DEF TypeInv, TypeOK, CallShape, Shaped, RecordPromotion
<1>2. chain' \in [Claims -> Seq(RevisionRows)]
  <2>1. Revision(op[p].row.rev, "promotion", op[p].rid, op[p].row.approval) \in RevisionRows
    BY <1>1, RevisionType DEF Rows
  <2> QED BY <1>1, <2>1 DEF RecordPromotion, TypeInv, TypeOK
<1> DEFINE call == [op[p] EXCEPT !.pc = "save", !.mem[op[p].claim].rid = op[p].rid]
<1>3. call \in Calls
  <2>1. [op[p].mem[op[p].claim] EXCEPT !.rid = op[p].rid] \in ClaimRecords
    BY <1>1 DEF ClaimRecords
  <2>2. [op[p].mem EXCEPT ![op[p].claim].rid = op[p].rid] \in Ledgers
    BY <1>1, <2>1 DEF Ledgers, Calls
  <2> QED BY <1>1, <2>2 DEF Calls
<1>4. Shaped(call)
  <2>1. [op[p].mem[op[p].claim] EXCEPT !.rid = op[p].rid] \in ClaimRecords
    BY <1>1 DEF ClaimRecords
  <2>2. call.claim = op[p].claim /\ call.todo = op[p].todo /\ call.withdraw = op[p].withdraw
        /\ call.pc = "save"
        /\ call.mem[call.claim] = [op[p].mem[op[p].claim] EXCEPT !.rid = op[p].rid]
    BY <1>1 DEF Calls, Ledgers
  <2> QED BY <1>1, <2>1, <2>2 DEF Shaped
<1>5. op' = [op EXCEPT ![p] = call] /\ UNCHANGED registry
  BY DEF RecordPromotion
<1> HIDE DEF call
<1>6. op' \in [Procs -> Calls] /\ CallShape'
  BY <1>3, <1>4, <1>5, CallStep
<1> QED BY <1>2, <1>6 DEF RecordPromotion, TypeInv, TypeOK, world

\* The snapshot of a staleness pass lists rows that exist.
LEMMA CheckStalenessType ==
    ASSUME TypeInv, NEW p \in Procs, CheckStaleness(p)
    PROVE  TypeInv'
<1> DEFINE promoted == {r \in DOMAIN registry : registry[r].status = "promoted"}
           call == [IdleCall EXCEPT !.pc = "scan", !.mem = saved, !.todo = promoted]
<1>1. saved \in Ledgers /\ promoted \in SUBSET RegIds /\ promoted \subseteq DOMAIN registry
  BY DEF TypeInv, TypeOK
<1> HIDE DEF promoted
<1>2. call \in Calls /\ Shaped(call)
  BY <1>1 DEF IdleCall, Calls, Shaped
<1>3. op' = [op EXCEPT ![p] = call] /\ UNCHANGED stores
  BY DEF CheckStaleness, promoted
<1> HIDE DEF call
<1>4. op' \in [Procs -> Calls] /\ CallShape'
  BY <1>2, <1>3, CallStep DEF stores
<1> QED BY <1>3, <1>4 DEF CheckStaleness, TypeInv, TypeOK, stores, world

\* A visited row stays a row, stale or not.
LEMMA ScanRowType ==
    ASSUME TypeInv, NEW p \in Procs, ScanRow(p)
    PROVE  TypeInv'
<1>1. op[p] \in Calls /\ Shaped(op[p]) /\ op[p].pc = "scan"
  BY DEF TypeInv, TypeOK, CallShape, ScanRow
<1> PICK r \in op[p].todo :
      LET c == r.claim
          mine == op[p].mem[c]
          next == [op[p] EXCEPT !.todo = @ \ {r}]
      IN  IF mine # NoClaim /\ mine.status = "retracted"
            THEN /\ op' = [op EXCEPT ![p] = [next EXCEPT !.withdraw = LiveRows(c, mine)]]
                 /\ UNCHANGED registry
          ELSE IF ChangedSources(r) = {}
            THEN /\ op' = [op EXCEPT ![p] = next]
                 /\ UNCHANGED registry
          ELSE /\ registry' = [registry EXCEPT ![r] =
                                 [@ EXCEPT !.status = "stale", !.moved = ChangedSources(r)]]
               /\ op' = [op EXCEPT ![p] =
                    IF mine # NoClaim /\ mine.rid \in {None, r}
                      THEN [next EXCEPT !.pc = "note", !.claim = c, !.rid = r, !.dirty = TRUE]
                      ELSE [next EXCEPT !.dirty = TRUE]]
  BY Zenon DEF ScanRow
<1> DEFINE c == r.claim
           mine == op[p].mem[c]
           next == [op[p] EXCEPT !.todo = @ \ {r}]
<1>2. r \in DOMAIN registry /\ r \in RegIds /\ c \in Claims /\ mine \in ClaimRecords \union {NoClaim}
  BY <1>1 DEF Shaped, TypeInv, TypeOK, RegIds, Calls, Ledgers
<1>3. next \in Calls /\ Shaped(next) /\ next.pc = "scan" /\ next.mem = op[p].mem
  BY <1>1 DEF Calls, Shaped
<1> HIDE DEF next
<1>4. ASSUME NEW call \in Calls, Shaped(call), op' = [op EXCEPT ![p] = call],
             DOMAIN registry' = DOMAIN registry,
             \A x \in DOMAIN registry' : registry'[x] \in Rows
      PROVE  TypeInv'
  <2>1. op' \in [Procs -> Calls] /\ CallShape'
    BY <1>4, CallStep
  <2> QED BY <1>4, <2>1 DEF ScanRow, TypeInv, TypeOK, world
<1>5. CASE mine # NoClaim /\ mine.status = "retracted"
  <2> DEFINE live == LiveRows(c, mine)
             call == [next EXCEPT !.withdraw = live]
  <2>1. live \subseteq DOMAIN registry /\ DOMAIN registry \subseteq RegIds
    BY RowsOfRegistry DEF TypeInv, TypeOK
  <2> HIDE DEF live
  <2>2. call \in Calls /\ Shaped(call)
    BY <1>3, <2>1 DEF Calls, Shaped
  <2>3. op' = [op EXCEPT ![p] = call] /\ UNCHANGED registry
    BY <1>5 DEF next, live
  <2> HIDE DEF call
  <2> QED BY <1>4, <2>2, <2>3 DEF TypeInv, TypeOK
<1>6. CASE ~ (mine # NoClaim /\ mine.status = "retracted") /\ ChangedSources(r) = {}
  <2>1. op' = [op EXCEPT ![p] = next] /\ UNCHANGED registry
    BY <1>6 DEF next
  <2> QED BY <1>3, <1>4, <2>1 DEF TypeInv, TypeOK
<1>7. CASE ~ (mine # NoClaim /\ mine.status = "retracted") /\ ChangedSources(r) # {}
  <2> DEFINE noted == [next EXCEPT !.pc = "note", !.claim = c, !.rid = r, !.dirty = TRUE]
             kept == [next EXCEPT !.dirty = TRUE]
  <2>1. /\ registry' = [registry EXCEPT ![r] =
                           [@ EXCEPT !.status = "stale", !.moved = ChangedSources(r)]]
        /\ op' = [op EXCEPT ![p] = IF mine # NoClaim /\ mine.rid \in {None, r} THEN noted ELSE kept]
    BY <1>7 DEF next
  <2>2. /\ DOMAIN registry' = DOMAIN registry
        /\ \A x \in DOMAIN registry' : registry'[x] \in Rows
    <3>1. ChangedSources(r) \in SUBSET Sources /\ registry[r] \in Rows
      BY <1>2 DEF ChangedSources, TypeInv, TypeOK, Rows, Revs
    <3>2. [registry[r] EXCEPT !.status = "stale", !.moved = ChangedSources(r)] \in Rows
      BY <3>1 DEF Rows
    <3> QED BY <2>1, <3>2 DEF TypeInv, TypeOK
  <2>3. kept \in Calls /\ Shaped(kept)
    BY <1>3 DEF Calls, Shaped
  <2>4. ASSUME mine # NoClaim PROVE noted \in Calls /\ Shaped(noted)
    BY <1>2, <1>3, <2>4 DEF Calls, Shaped
  <2> HIDE DEF noted, kept
  <2> QED BY <1>4, <2>1, <2>2, <2>3, <2>4
<1> QED BY <1>5, <1>6, <1>7

\* A claim that follows its stale row keeps its type.
LEMMA NoteStaleType ==
    ASSUME TypeInv, NEW p \in Procs, NoteStale(p)
    PROVE  TypeInv'
<1> DEFINE c == op[p].claim
           old == op[p].mem[c]
           new == [old EXCEPT !.status = "stale", !.moved = registry[op[p].rid].moved]
           call == [op[p] EXCEPT !.pc = "scan", !.claim = None, !.rid = None, !.mem[c] = new]
<1>1. /\ op[p] \in Calls /\ Shaped(op[p]) /\ c \in Claims /\ old \in ClaimRecords
      /\ registry[op[p].rid] \in Rows
  BY DEF TypeInv, TypeOK, CallShape, Shaped, NoteStale
<1>2. new \in ClaimRecords
  BY <1>1 DEF ClaimRecords, Rows, Statuses
<1>3. RecordChange(chain[c], Fields(old), Fields(new)) \in Seq(RevisionRows)
  BY <1>1, <1>2, FieldsType, RecordChangeExtends DEF Extends, TypeInv, TypeOK
<1>4. /\ chain' = [chain EXCEPT ![c] = RecordChange(@, Fields(old), Fields(new))]
      /\ op' = [op EXCEPT ![p] = call] /\ UNCHANGED registry
  BY DEF NoteStale
<1> HIDE DEF new
<1>5. call \in Calls /\ Shaped(call)
  <2>1. [op[p].mem EXCEPT ![c] = new] \in Ledgers
    BY <1>1, <1>2 DEF Ledgers, Calls
  <2> QED BY <1>1, <2>1 DEF Calls, Shaped
<1> HIDE DEF call
<1>6. op' \in [Procs -> Calls] /\ CallShape'
  BY <1>4, <1>5, CallStep
<1>7. chain' \in [Claims -> Seq(RevisionRows)]
  BY <1>1, <1>3, <1>4 DEF TypeInv, TypeOK
<1> QED BY <1>6, <1>7 DEF NoteStale, TypeInv, TypeOK, world

\* A refused promotion keeps the types.
LEMMA RefusePromotionType ==
    ASSUME TypeInv, NEW p \in Procs, NEW c \in Claims, RefusePromotion(p, c)
    PROVE  TypeInv'
<1>1. Observe(chain[c], Fields(saved[c])) \in Seq(RevisionRows)
  <2>1. saved[c] \in ClaimRecords
    BY DEF RefusePromotion, Promotable, TypeInv, TypeOK, Ledgers
  <2> QED BY <2>1, FieldsType, ObserveExtends DEF Extends, TypeInv, TypeOK
<1>2. CallShape'
  BY DEF RefusePromotion, TypeInv, CallShape, Shaped
<1> QED BY <1>1, <1>2 DEF RefusePromotion, TypeInv, TypeOK, world

\* Steps that touch neither a call nor the registry.
LEMMA BystanderType ==
    ASSUME TypeInv, UNCHANGED <<op, registry>>
    PROVE  CallShape'
BY DEF TypeInv, CallShape, Shaped

\* The approval terminal keeps the types.
LEMMA TerminalType ==
    ASSUME TypeInv, NEW t \in Terminals, Terminal(t)
    PROVE  TypeInv'
<1>1. CASE \E c \in Claims : ReviewClaim(t, c)
  <2> PICK c \in Claims : ReviewClaim(t, c)
    BY <1>1
  <2>1. Fields(saved[c]) \in Revs
    BY FieldsType DEF ReviewClaim, TypeInv, TypeOK, Ledgers
  <2> QED BY <2>1, BystanderType DEF ReviewClaim, TypeInv, TypeOK, stores, world
<1>2. CASE Approve(t)
  <2>1. human[t] \in [claim : Claims, rev : Revs]
    BY <1>2 DEF Approve, TypeInv, TypeOK
  <2> QED BY <1>2, <2>1, BystanderType DEF Approve, TypeInv, TypeOK, Approvals, world
<1>3. CASE Decline(t)
  BY <1>3, BystanderType DEF Decline, TypeInv, TypeOK, stores, world
<1> QED BY <1>1, <1>2, <1>3 DEF Terminal

\* Revocation, evidence, hand edits and the calendar keep the types.
LEMMA EnvironmentType ==
    ASSUME TypeInv, Environment
    PROVE  TypeInv'
<1>1. ASSUME NEW k \in Keys, Revoke(k) PROVE TypeInv'
  BY <1>1, BystanderType DEF Revoke, TypeInv, TypeOK, stores
<1>2. ASSUME NEW s \in Sources, NEW v \in Contents \union {Missing}, ChangeEvidence(s, v)
      PROVE  TypeInv'
  <2>1. content' \in Versions
    BY <1>2 DEF ChangeEvidence, TypeInv, TypeOK, Versions
  <2> QED BY <1>2, <2>1, BystanderType DEF ChangeEvidence, Use, TypeInv, TypeOK, stores, Faults
<1>3. ASSUME NEW c \in Claims, NEW text \in Texts, NEW cites \in CiteSets,
             NEW status \in StatusInputs, EditOutOfBand(c, text, cites, status)
      PROVE  TypeInv'
  <2>1. cites \in SUBSET Sources /\ status \in Statuses
    BY InputsAssumption
  <2>2. /\ [text |-> text, status |-> status, cites |-> cites, verified |-> FALSE,
            rid |-> None, moved |-> {}] \in ClaimRecords
        /\ saved[c] \in ClaimRecords =>
              [saved[c] EXCEPT !.text = text, !.cites = cites, !.status = status] \in ClaimRecords
    BY <2>1 DEF ClaimRecords
  <2>3. saved' \in Ledgers
    BY <1>3, <2>2 DEF EditOutOfBand, TypeInv, TypeOK, Ledgers
  <2> QED BY <1>3, <2>3, BystanderType DEF EditOutOfBand, Use, TypeInv, TypeOK, Faults
<1>4. ASSUME NextDay PROVE TypeInv'
  BY <1>4, BystanderType DEF NextDay, TypeInv, TypeOK, stores
<1> QED BY <1>1, <1>2, <1>3, <1>4 DEF Environment

\* Ledger calls keep the types, also when they die.
LEMMA ProcessType ==
    ASSUME TypeInv, NEW p \in Procs, Call(p) \/ Step(p) \/ Abort(p)
    PROVE  TypeInv'
<1>1. CASE Call(p)
  BY <1>1, AddClaimType, UpdateClaimStatusType, PromoteClaimType, RefusePromotionType,
     CheckStalenessType DEF Call
<1>2. CASE Step(p)
  <2>1. ASSUME FinishCheck(p) PROVE TypeInv'
    <3>1. saved' \in Ledgers
      BY <2>1 DEF FinishCheck, TypeInv, TypeOK, Calls
    <3> QED BY <2>1, <3>1, FinishType DEF FinishCheck, TypeInv, TypeOK, world
  <2> QED BY <1>2, <2>1, SaveSessionType, RetractRowType, AppendRowType, RecordPromotionType,
             ScanRowType, NoteStaleType DEF Step
<1>3. CASE Abort(p)
  BY <1>3, FinishType DEF Abort, Use, TypeInv, TypeOK, stores, Faults
<1> QED BY <1>1, <1>2, <1>3

\* TypeInv is inductive.
LEMMA TypeStep == TypeInv /\ [Next]_vars => TypeInv'
<1> SUFFICES ASSUME TypeInv, [Next]_vars PROVE TypeInv'
  OBVIOUS
<1>1. CASE UNCHANGED vars
  BY <1>1, BystanderType DEF vars, stores, TypeInv, TypeOK
<1> QED BY <1>1, ProcessType, TerminalType, EnvironmentType DEF Next

\* Every state of the four stores, of the calls in progress and of the terminals has
\* its type: no handler reads a claim, row or revision that is not there.
THEOREM Typing == Spec => []TypeOK
<1>1. TypeInv => TypeOK
  BY DEF TypeInv
<1> QED BY <1>1, TypeInit, TypeStep, PTL DEF Spec

-----------------------------------------------------------------------------
\* Neither the chains nor the approvals ever lose or alter an entry.
HistoryKept ==
    /\ \A c \in Claims : Extends(chain'[c], chain[c])
    /\ DOMAIN approvals \subseteq DOMAIN approvals'
    /\ \A i \in DOMAIN approvals : approvals'[i] = approvals[i]

\* Extending one chain extends every chain.
LEMMA ChainKept ==
    ASSUME TypeInv, NEW c \in Claims, NEW rows, Extends(rows, chain[c]),
           chain' = [chain EXCEPT ![c] = rows], UNCHANGED approvals
    PROVE  HistoryKept
<1>1. ASSUME NEW d \in Claims PROVE Extends(chain'[d], chain[d])
  <2>1. chain[d] \in Seq(RevisionRows)
    BY DEF TypeInv, TypeOK
  <2> QED BY <2>1 DEF Extends, TypeInv, TypeOK
<1> QED BY <1>1 DEF HistoryKept

\* A step that writes neither store keeps both histories.
LEMMA HistoryUntouched ==
    ASSUME TypeInv, UNCHANGED <<chain, approvals>>
    PROVE  HistoryKept
<1>1. \A d \in Claims : chain[d] \in Seq(RevisionRows)
  BY DEF TypeInv, TypeOK
<1> QED BY <1>1 DEF HistoryKept, Extends

\* No step of the system takes a revision or an approval back.
LEMMA HistoryStep ==
    ASSUME TypeInv, [Next]_vars
    PROVE  HistoryKept
<1>1. ASSUME NEW p \in Procs, NEW c \in Claims, NEW claim \in ClaimRecords, Stage(p, c, claim)
      PROVE  HistoryKept
  <2>1. Fields(claim) \in Revs
    BY FieldsType DEF TypeInv, TypeOK
  <2>2. (IF saved[c] = NoClaim THEN None ELSE Fields(saved[c])) \in Revs \union {None}
    BY FieldsType DEF TypeInv, TypeOK, Ledgers
  <2>3. Extends(RecordChange(chain[c], IF saved[c] = NoClaim THEN None ELSE Fields(saved[c]),
                             Fields(claim)), chain[c])
    BY <2>1, <2>2, RecordChangeExtends DEF TypeInv, TypeOK
  <2> QED BY <1>1, <2>3, ChainKept DEF Stage
<1>2. ASSUME NEW p \in Procs, NEW c \in Claims, NEW text \in Texts,
             NEW cites \in CiteSets, NEW status \in StatusInputs,
             AddClaim(p, c, text, cites, status)
      PROVE  HistoryKept
  <2> DEFINE claim == [text |-> text, status |-> status, cites |-> cites, verified |-> FALSE,
                       rid   |-> IF saved[c] = NoClaim THEN None ELSE saved[c].rid,
                       moved |-> IF saved[c] = NoClaim THEN {} ELSE saved[c].moved]
  <2>1. claim \in ClaimRecords
    BY InputsAssumption DEF ClaimRecords, TypeInv, TypeOK, Ledgers
  <2>2. Stage(p, c, claim)
    BY <1>2 DEF AddClaim
  <2> QED BY <1>1, <2>1, <2>2
<1>3. ASSUME NEW p \in Procs, NEW c \in Claims, NEW text \in Texts,
             NEW status \in StatusInputs, NEW verified \in BOOLEAN,
             UpdateClaimStatus(p, c, status, text, verified)
      PROVE  HistoryKept
  <2> DEFINE claim == [saved[c] EXCEPT !.status = status, !.text = text,
                                       !.verified = @ \/ verified]
  <2>1. saved[c] \in ClaimRecords
    BY <1>3 DEF UpdateClaimStatus, TypeInv, TypeOK, Ledgers
  <2>2. claim \in ClaimRecords
    BY <2>1, InputsAssumption DEF ClaimRecords
  <2>3. Stage(p, c, claim)
    BY <1>3 DEF UpdateClaimStatus
  <2> QED BY <1>1, <2>2, <2>3
<1>4. ASSUME NEW p \in Procs, NEW c \in Claims, PromoteClaim(p, c) \/ RefusePromotion(p, c)
      PROVE  HistoryKept
  <2>1. /\ Promotable(c)
        /\ chain' = [chain EXCEPT ![c] = Observe(chain[c], Fields(saved[c]))]
        /\ UNCHANGED approvals
    BY <1>4, Zenon DEF PromoteClaim, RefusePromotion
  <2>2. Extends(Observe(chain[c], Fields(saved[c])), chain[c])
    <3>1. saved[c] \in ClaimRecords
      BY <2>1 DEF Promotable, TypeInv, TypeOK, Ledgers
    <3> QED BY <3>1, FieldsType, ObserveExtends DEF TypeInv, TypeOK
  <2> QED BY <2>1, <2>2, ChainKept
<1>5. ASSUME NEW p \in Procs, RecordPromotion(p) PROVE HistoryKept
  <2> DEFINE row == Revision(op[p].row.rev, "promotion", op[p].rid, op[p].row.approval)
  <2>1. op[p].claim \in Claims /\ op[p].row \in Rows /\ op[p].rid \in RegIds
    BY <1>5 DEF RecordPromotion, TypeInv, CallShape, Shaped
  <2>2. row \in RevisionRows
    BY <2>1, RevisionType DEF Rows
  <2>3. Extends(Append(chain[op[p].claim], row), chain[op[p].claim])
    BY <2>1, <2>2, AppendExtends DEF TypeInv, TypeOK
  <2> QED BY <1>5, <2>1, <2>3, ChainKept DEF RecordPromotion
<1>6. ASSUME NEW p \in Procs, NoteStale(p) PROVE HistoryKept
  <2> DEFINE c == op[p].claim
             old == op[p].mem[c]
             new == [old EXCEPT !.status = "stale", !.moved = registry[op[p].rid].moved]
  <2>1. c \in Claims /\ old \in ClaimRecords /\ registry[op[p].rid] \in Rows
    BY <1>6 DEF TypeInv, TypeOK, CallShape, Shaped, NoteStale
  <2>2. new \in ClaimRecords
    BY <2>1 DEF ClaimRecords, Rows, Statuses
  <2>3. Extends(RecordChange(chain[c], Fields(old), Fields(new)), chain[c])
    BY <2>1, <2>2, FieldsType, RecordChangeExtends DEF TypeInv, TypeOK
  <2>4. chain' = [chain EXCEPT ![c] = RecordChange(@, Fields(old), Fields(new))]
    BY <1>6 DEF NoteStale
  <2>5. UNCHANGED approvals
    BY <1>6 DEF NoteStale
  <2> HIDE DEF old, new, c
  <2> QED BY <2>1, <2>3, <2>4, <2>5, ChainKept
<1>7. ASSUME NEW t \in Terminals, Approve(t) PROVE HistoryKept
  <2>1. \A d \in Claims : Extends(chain'[d], chain[d])
    BY <1>7 DEF Approve, Extends, TypeInv, TypeOK
  <2>2. approvals \in Seq(Approvals) /\ \E a : approvals' = Append(approvals, a)
    BY <1>7 DEF Approve, TypeInv, TypeOK
  <2> QED BY <2>1, <2>2 DEF HistoryKept
<1>8. ASSUME NEW p \in Procs,
             \/ SaveSession(p) \/ RetractRow(p) \/ AppendRow(p) \/ ScanRow(p)
             \/ FinishCheck(p) \/ CheckStaleness(p) \/ Abort(p)
      PROVE  HistoryKept
  <2>1. UNCHANGED <<chain, approvals>>
    BY <1>8, Zenon DEF SaveSession, RetractRow, AppendRow, ScanRow, FinishCheck,
       CheckStaleness, Abort, stores
  <2> QED BY <2>1, HistoryUntouched
<1>9. ASSUME NEW t \in Terminals, (\E c \in Claims : ReviewClaim(t, c)) \/ Decline(t)
      PROVE  HistoryKept
  BY <1>9, HistoryUntouched DEF ReviewClaim, Decline, stores
<1>10. ASSUME Environment \/ UNCHANGED vars PROVE HistoryKept
  <2>1. UNCHANGED <<chain, approvals>>
    BY <1>10, Zenon DEF Environment, Revoke, ChangeEvidence, EditOutOfBand, NextDay, stores, vars
  <2> QED BY <2>1, HistoryUntouched
<1> QED BY <1>2, <1>3, <1>4, <1>5, <1>6, <1>7, <1>8, <1>9, <1>10
        DEF Next, Call, Step, Terminal

\* Backed, with the two stores it reads as parameters.
Backing(given, recorded, r, row) ==
    /\ row.approval \in DOMAIN given
    /\ given[row.approval].claim = r.claim
    /\ given[row.approval].rev = row.rev
    /\ row.revno \in DOMAIN recorded[r.claim]
    /\ recorded[r.claim][row.revno].fields = row.rev

\* What rests on an approval and on a recorded revision keeps resting on them.
LEMMA BackingKept ==
    ASSUME TypeInv, HistoryKept, NEW r \in RegIds, NEW row, Backing(approvals, chain, r, row)
    PROVE  Backing(approvals', chain', r, row)
<1>1. r.claim \in Claims /\ chain[r.claim] \in Seq(RevisionRows)
  BY DEF RegIds, TypeInv, TypeOK
<1>2. row.revno \in 1 .. Len(chain[r.claim])
  BY <1>1 DEF Backing
<1>3. row.revno \in DOMAIN chain'[r.claim] /\ chain'[r.claim][row.revno] = chain[r.claim][row.revno]
  BY <1>1, <1>2 DEF HistoryKept, Extends
<1> QED BY <1>3 DEF HistoryKept, Backing

\* A row keeps what it was published with; only its status and moved sources change.
RowsKept ==
    /\ DOMAIN registry' = DOMAIN registry
    /\ \A r \in DOMAIN registry :
          /\ registry'[r].approval = registry[r].approval
          /\ registry'[r].rev = registry[r].rev
          /\ registry'[r].revno = registry[r].revno

Published(p) ==
    /\ op[p].pc = "append"
    /\ op[p].rid \notin DOMAIN registry
    /\ op[p].row.approval \notin Consumed
    /\ registry' = [r \in DOMAIN registry \union {op[p].rid} |->
                      IF r = op[p].rid THEN op[p].row ELSE registry[r]]

\* Writing a status over a row keeps what it asserts.
LEMMA MarkedRow ==
    ASSUME TypeInv, NEW r \in DOMAIN registry, NEW row \in Rows,
           registry' = [registry EXCEPT ![r] = row],
           row.approval = registry[r].approval, row.rev = registry[r].rev,
           row.revno = registry[r].revno
    PROVE  RowsKept
BY DEF RowsKept

\* The registry changes by marking rows or by one publication.
LEMMA RegistryStep ==
    ASSUME TypeInv, [Next]_vars
    PROVE  RowsKept \/ \E p \in Procs : Published(p)
<1>1. ASSUME NEW p \in Procs, RetractRow(p) PROVE RowsKept
  <2> PICK r \in op[p].withdraw : registry' = [registry EXCEPT ![r].status = "retracted"]
    BY <1>1 DEF RetractRow
  <2> DEFINE row == [registry[r] EXCEPT !.status = "retracted"]
  <2>1. r \in DOMAIN registry /\ registry[r] \in Rows
    BY DEF TypeInv, TypeOK, CallShape, Shaped
  <2>2. /\ row \in Rows /\ row.approval = registry[r].approval
        /\ row.rev = registry[r].rev /\ row.revno = registry[r].revno
    BY <2>1 DEF Rows
  <2> HIDE DEF row
  <2> QED BY <2>1, <2>2, MarkedRow DEF row
<1>2. ASSUME NEW p \in Procs, ScanRow(p) PROVE RowsKept
  <2> PICK r \in op[p].todo :
          \/ UNCHANGED registry
          \/ registry' = [registry EXCEPT ![r] =
                            [@ EXCEPT !.status = "stale", !.moved = ChangedSources(r)]]
    BY <1>2, Zenon DEF ScanRow
  <2> DEFINE row == [registry[r] EXCEPT !.status = "stale", !.moved = ChangedSources(r)]
  <2>1. r \in DOMAIN registry /\ registry[r] \in Rows
    BY DEF TypeInv, TypeOK, CallShape, Shaped
  <2>2. ChangedSources(r) \in SUBSET Sources
    BY <2>1 DEF ChangedSources, Rows, Revs
  <2>3. /\ row \in Rows /\ row.approval = registry[r].approval
        /\ row.rev = registry[r].rev /\ row.revno = registry[r].revno
    BY <2>1, <2>2 DEF Rows
  <2>4. UNCHANGED registry \/ registry' = [registry EXCEPT ![r] = row]
    OBVIOUS
  <2> HIDE DEF row
  <2> QED BY <2>1, <2>3, <2>4, MarkedRow DEF RowsKept
<1>3. ASSUME NEW p \in Procs, AppendRow(p) PROVE RowsKept \/ Published(p)
  BY <1>3, Zenon DEF AppendRow, RowsKept, Published
<1>4. ASSUME UNCHANGED registry PROVE RowsKept
  BY <1>4 DEF RowsKept
<1>5. ASSUME NEW p \in Procs, Call(p) \/ Step(p) \/ Abort(p)
      PROVE  RetractRow(p) \/ ScanRow(p) \/ AppendRow(p) \/ UNCHANGED registry
  <2>1. CASE Call(p)
    BY <2>1, Zenon DEF Call, AddClaim, UpdateClaimStatus, Stage, PromoteClaim, RefusePromotion,
       CheckStaleness, stores
  <2>2. CASE Step(p) \/ Abort(p)
    BY <2>2, Zenon DEF Step, SaveSession, RecordPromotion, NoteStale, FinishCheck, Abort, stores
  <2> QED BY <1>5, <2>1, <2>2
<1>6. ASSUME NEW t \in Terminals, Terminal(t) PROVE UNCHANGED registry
  BY <1>6, Zenon DEF Terminal, ReviewClaim, Approve, Decline, stores
<1>7. ASSUME Environment \/ UNCHANGED vars PROVE UNCHANGED registry
  BY <1>7, Zenon DEF Environment, Revoke, ChangeEvidence, EditOutOfBand, NextDay, stores, vars
<1> QED BY <1>1, <1>2, <1>3, <1>4, <1>5, <1>6, <1>7 DEF Next

-----------------------------------------------------------------------------
PendingBacked ==
    \A p \in Procs : op[p].pc = "append" => Backing(approvals, chain, op[p].rid, op[p].row)

SafetyInv == TypeInv /\ PendingBacked /\ RowsApproved /\ ApprovalSingleUse

\* The row a promotion is about to append is approved and recorded.
LEMMA PromoteBacked ==
    ASSUME TypeInv, NEW p \in Procs, NEW c \in Claims, PromoteClaim(p, c)
    PROVE  Backing(approvals', chain', op'[p].rid, op'[p].row)
<1> DEFINE now == Fields(saved[c])
           rows == Observe(chain[c], now)
<1>1. /\ Promotable(c) /\ UNCHANGED approvals
      /\ chain' = [chain EXCEPT ![c] = rows]
      /\ \E i \in Usable(c, now), n \in 0 .. Cardinality(DOMAIN registry) :
            op' = [op EXCEPT ![p] =
                     [IdleCall EXCEPT !.pc = "append", !.claim = c, !.mem = saved,
                        !.rid = RegistryId(c, now, n),
                        !.row = [rev |-> now, revno |-> Len(rows), approval |-> i,
                                 status |-> "promoted", moved |-> {}]]]
  BY Zenon DEF PromoteClaim
<1>2. /\ Len(rows) \in DOMAIN rows
      /\ rows[Len(rows)].fields = now
  <2>1. saved[c] \in ClaimRecords
    BY <1>1 DEF Promotable, TypeInv, TypeOK, Ledgers
  <2> QED BY <2>1, FieldsType, ObserveExtends DEF TypeInv, TypeOK
<1>3. chain'[c] = rows
  BY <1>1 DEF TypeInv, TypeOK
<1> HIDE DEF now, rows
<1> PICK i \in Usable(c, now), n \in 0 .. Cardinality(DOMAIN registry) :
        op' = [op EXCEPT ![p] =
                 [IdleCall EXCEPT !.pc = "append", !.claim = c, !.mem = saved,
                    !.rid = RegistryId(c, now, n),
                    !.row = [rev |-> now, revno |-> Len(rows), approval |-> i,
                             status |-> "promoted", moved |-> {}]]]
  BY Zenon, <1>1
<1>4. /\ op'[p].rid = RegistryId(c, now, n)
      /\ op'[p].row = [rev |-> now, revno |-> Len(rows), approval |-> i,
                       status |-> "promoted", moved |-> {}]
  BY DEF IdleCall, TypeInv, TypeOK
<1>5. RegistryId(c, now, n).claim = c
  BY DEF RegistryId
<1>6. i \in DOMAIN approvals /\ approvals[i].claim = c /\ approvals[i].rev = now
  BY DEF Usable
<1> QED BY <1>1, <1>2, <1>3, <1>4, <1>5, <1>6 DEF Backing

\* A step of a running call ends it or moves it on, never to the start of a publication.
LEMMA StepCall ==
    ASSUME TypeInv, NEW p \in Procs, Step(p)
    PROVE  \/ Finish(p)
           \/ /\ guard' = guard
              /\ \E call : op' = [op EXCEPT ![p] = call] /\ call.pc \notin {"idle", "append"}
<1>0. op[p] \in Calls
  BY DEF TypeInv, TypeOK
<1>8. ASSUME NEW call, op' = [op EXCEPT ![p] = call], call.pc \notin {"idle", "append"},
             guard' = guard
      PROVE  \/ Finish(p)
             \/ /\ guard' = guard
                /\ \E x : op' = [op EXCEPT ![p] = x] /\ x.pc \notin {"idle", "append"}
  BY <1>8
<1>1. CASE SaveSession(p)
  <2> DEFINE call == [op[p] EXCEPT !.pc = "retract",
                         !.withdraw = LiveRows(op[p].claim, op[p].mem[op[p].claim])]
  <2>1. Finish(p) \/ (op' = [op EXCEPT ![p] = call] /\ guard' = guard)
    BY <1>1 DEF SaveSession
  <2>2. call.pc \notin {"idle", "append"}
    BY <1>0 DEF Calls
  <2> HIDE DEF call
  <2> QED BY <1>8, <2>1, <2>2
<1>2. CASE RetractRow(p)
  <2> PICK r \in op[p].withdraw :
        \/ Finish(p)
        \/ op' = [op EXCEPT ![p] = [@ EXCEPT !.withdraw = op[p].withdraw \ {r}]] /\ guard' = guard
    BY <1>2, Zenon DEF RetractRow
  <2> DEFINE call == [op[p] EXCEPT !.withdraw = op[p].withdraw \ {r}]
  <2>1. Finish(p) \/ (op' = [op EXCEPT ![p] = call] /\ guard' = guard)
    OBVIOUS
  <2>2. call.pc \notin {"idle", "append"}
    BY <1>0, <1>2 DEF Calls, RetractRow
  <2> HIDE DEF call
  <2> QED BY <1>8, <2>1, <2>2
<1>3. CASE AppendRow(p)
  <2> DEFINE call == [op[p] EXCEPT !.pc = "record"]
  <2>1. Finish(p) \/ (op' = [op EXCEPT ![p] = call] /\ guard' = guard)
    BY <1>3 DEF AppendRow
  <2>2. call.pc \notin {"idle", "append"}
    BY <1>0 DEF Calls
  <2> HIDE DEF call
  <2> QED BY <1>8, <2>1, <2>2
<1>4. CASE RecordPromotion(p)
  <2> DEFINE call == [op[p] EXCEPT !.pc = "save", !.mem[op[p].claim].rid = op[p].rid]
  <2>1. op' = [op EXCEPT ![p] = call] /\ guard' = guard
    BY <1>4 DEF RecordPromotion
  <2>2. call.pc \notin {"idle", "append"}
    BY <1>0 DEF Calls
  <2> HIDE DEF call
  <2> QED BY <1>8, <2>1, <2>2
<1>5. CASE ScanRow(p)
  <2> PICK r \in op[p].todo :
        LET next == [op[p] EXCEPT !.todo = @ \ {r}]
        IN  \/ op' = [op EXCEPT ![p] =
                        [next EXCEPT !.withdraw = LiveRows(r.claim, op[p].mem[r.claim])]]
            \/ op' = [op EXCEPT ![p] = next]
            \/ op' = [op EXCEPT ![p] =
                  IF op[p].mem[r.claim] # NoClaim /\ op[p].mem[r.claim].rid \in {None, r}
                    THEN [next EXCEPT !.pc = "note", !.claim = r.claim, !.rid = r, !.dirty = TRUE]
                    ELSE [next EXCEPT !.dirty = TRUE]]
    BY <1>5, Zenon DEF ScanRow
  <2> DEFINE next == [op[p] EXCEPT !.todo = @ \ {r}]
             visit == [next EXCEPT !.withdraw = LiveRows(r.claim, op[p].mem[r.claim])]
             noted == [next EXCEPT !.pc = "note", !.claim = r.claim, !.rid = r, !.dirty = TRUE]
             kept == [next EXCEPT !.dirty = TRUE]
  <2>1. \/ op' = [op EXCEPT ![p] = visit] \/ op' = [op EXCEPT ![p] = next]
        \/ op' = [op EXCEPT ![p] = noted] \/ op' = [op EXCEPT ![p] = kept]
    OBVIOUS
  <2>4. guard' = guard
    BY <1>5 DEF ScanRow
  <2>2. next \in Calls /\ next.pc = "scan"
    BY <1>0, <1>5 DEF Calls, ScanRow
  <2> HIDE DEF next
  <2>3. \A call \in {visit, noted, kept, next} : call.pc \notin {"idle", "append"}
    BY <2>2 DEF Calls
  <2> HIDE DEF visit, noted, kept
  <2> QED BY <1>8, <2>1, <2>2, <2>3, <2>4
<1>6. CASE NoteStale(p)
  <2> DEFINE c == op[p].claim
             new == [op[p].mem[c] EXCEPT !.status = "stale", !.moved = registry[op[p].rid].moved]
             call == [op[p] EXCEPT !.pc = "scan", !.claim = None, !.rid = None, !.mem[c] = new]
  <2>1. op' = [op EXCEPT ![p] = call] /\ guard' = guard
    BY <1>6 DEF NoteStale
  <2> HIDE DEF new
  <2>2. call.pc \notin {"idle", "append"}
    BY <1>0 DEF Calls
  <2> HIDE DEF call
  <2> QED BY <1>8, <2>1, <2>2
<1>7. CASE FinishCheck(p)
  BY <1>7 DEF FinishCheck
<1> QED BY <1>1, <1>2, <1>3, <1>4, <1>5, <1>6, <1>7 DEF Step

\* A call about to publish was put there by this step, or was there before it.
LEMMA PendingStep ==
    ASSUME TypeInv, [Next]_vars, NEW q \in Procs, op'[q].pc = "append"
    PROVE  op'[q] = op[q] \/ Backing(approvals', chain', op'[q].rid, op'[q].row)
<1>1. ASSUME NEW p \in Procs, NEW c \in Claims, PromoteClaim(p, c)
      PROVE  op'[q] = op[q] \/ Backing(approvals', chain', op'[q].rid, op'[q].row)
  <2>1. p # q => op'[q] = op[q]
    BY <1>1, Zenon DEF PromoteClaim, TypeInv, TypeOK
  <2> QED BY <1>1, <2>1, PromoteBacked
<1>2. ASSUME NEW p \in Procs, NEW call, op' = [op EXCEPT ![p] = call], call.pc # "append"
      PROVE  op'[q] = op[q]
  BY <1>2 DEF TypeInv, TypeOK
<1>3. ASSUME NEW p \in Procs, Finish(p) PROVE op'[q] = op[q]
  BY <1>2, <1>3 DEF Finish, IdleCall
<1>4. ASSUME NEW p \in Procs, NEW c \in Claims, NEW claim, Stage(p, c, claim)
      PROVE  op'[q] = op[q]
  <2> DEFINE call == [IdleCall EXCEPT !.pc = "save", !.claim = c,
                                      !.mem = [saved EXCEPT ![c] = claim]]
  <2>1. call.pc # "append"
    BY DEF IdleCall
  <2> QED BY <1>2, <1>4, <2>1 DEF Stage
<1>5. ASSUME NEW p \in Procs, CheckStaleness(p) PROVE op'[q] = op[q]
  <2> DEFINE call == [IdleCall EXCEPT !.pc = "scan", !.mem = saved,
                         !.todo = {r \in DOMAIN registry : registry[r].status = "promoted"}]
  <2>1. call.pc # "append"
    BY DEF IdleCall
  <2>2. op' = [op EXCEPT ![p] = call]
    BY <1>5 DEF CheckStaleness
  <2> HIDE DEF call
  <2> QED BY <1>2, <2>1, <2>2
<1>6. ASSUME NEW p \in Procs, Step(p) PROVE op'[q] = op[q]
  BY <1>2, <1>3, <1>6, StepCall
<1>7. ASSUME NEW p \in Procs, Call(p)
      PROVE  op'[q] = op[q] \/ Backing(approvals', chain', op'[q].rid, op'[q].row)
  BY <1>1, <1>4, <1>5, <1>7, Zenon DEF Call, AddClaim, UpdateClaimStatus, RefusePromotion
<1>8. ASSUME NEW p \in Procs, Abort(p) PROVE op'[q] = op[q]
  BY <1>3, <1>8 DEF Abort
<1>9. ASSUME NEW t \in Terminals, Terminal(t) PROVE UNCHANGED op
  BY <1>9, Zenon DEF Terminal, ReviewClaim, Approve, Decline
<1>10. ASSUME Environment \/ UNCHANGED vars PROVE UNCHANGED op
  BY <1>10, Zenon DEF Environment, Revoke, ChangeEvidence, EditOutOfBand, NextDay, vars
<1> QED BY <1>6, <1>7, <1>8, <1>9, <1>10 DEF Next

\* SafetyInv is inductive.
LEMMA SafetyStep == SafetyInv /\ [Next]_vars => SafetyInv'
<1> SUFFICES ASSUME SafetyInv, [Next]_vars PROVE SafetyInv'
  OBVIOUS
<1>1. TypeInv /\ TypeInv'
  BY TypeStep DEF SafetyInv
<1>2. HistoryKept
  BY <1>1, HistoryStep
<1>3. PendingBacked'
  <2> SUFFICES ASSUME NEW q \in Procs, op'[q].pc = "append"
               PROVE  Backing(approvals', chain', op'[q].rid, op'[q].row)
    BY DEF PendingBacked
  <2>1. CASE op'[q] = op[q]
    <3>1. Backing(approvals, chain, op[q].rid, op[q].row) /\ op[q].rid \in RegIds
      BY <1>1, <2>1 DEF SafetyInv, PendingBacked, TypeInv, CallShape, Shaped
    <3>2. Backing(approvals', chain', op[q].rid, op[q].row)
      BY <1>1, <1>2, <3>1, BackingKept
    <3> QED BY <2>1, <3>2
  <2> QED BY <1>1, <2>1, PendingStep
<1>4. ASSUME NEW r \in DOMAIN registry
      PROVE  Backing(approvals', chain', r, registry[r])
  <2>1. r \in RegIds /\ Backing(approvals, chain, r, registry[r])
    BY <1>1 DEF SafetyInv, RowsApproved, TypeInv, TypeOK, Backed, Backing
  <2> QED BY <1>1, <1>2, <2>1, BackingKept
<1>5. CASE RowsKept
  <2>1. RowsApproved'
    BY <1>4, <1>5 DEF RowsKept, RowsApproved, Backed, Backing
  <2>2. ApprovalSingleUse'
    BY <1>5 DEF RowsKept, SafetyInv, ApprovalSingleUse
  <2> QED BY <1>1, <1>3, <2>1, <2>2 DEF SafetyInv
<1>6. ASSUME NEW p \in Procs, Published(p) PROVE SafetyInv'
  <2>1. Backing(approvals', chain', op[p].rid, op[p].row)
    <3>1. Backing(approvals, chain, op[p].rid, op[p].row) /\ op[p].rid \in RegIds
      BY <1>1, <1>6 DEF SafetyInv, PendingBacked, Published, TypeInv, CallShape, Shaped
    <3> QED BY <1>1, <1>2, <3>1, BackingKept
  <2>2. RowsApproved'
    <3> SUFFICES ASSUME NEW r \in DOMAIN registry'
                 PROVE  Backing(approvals', chain', r, registry'[r])
      BY DEF RowsApproved, Backed, Backing
    <3>1. CASE r = op[p].rid
      BY <1>6, <2>1, <3>1 DEF Published
    <3>2. CASE r # op[p].rid
      BY <1>4, <1>6, <3>2 DEF Published
    <3> QED BY <3>1, <3>2
  <2>3. ApprovalSingleUse'
    BY <1>6 DEF Published, Consumed, SafetyInv, ApprovalSingleUse
  <2> QED BY <1>1, <1>3, <2>2, <2>3 DEF SafetyInv
<1> QED BY <1>1, <1>5, <1>6, RegistryStep

\* It holds of an empty study.
LEMMA SafetyInit == Init => SafetyInv
<1> SUFFICES ASSUME Init PROVE SafetyInv
  OBVIOUS
<1>1. TypeInv
  BY TypeInit
<1>2. \A p \in Procs : op[p].pc = "idle"
  BY DEF Init, IdleCall
<1>3. DOMAIN registry = {}
  BY DEF Init
<1> QED BY <1>1, <1>2, <1>3 DEF SafetyInv, PendingBacked, RowsApproved, ApprovalSingleUse

\* An approval record stands behind at most one registry row, whatever calls die
\* half way and whatever is retracted, restored or approved again (store.py:132-138).
THEOREM ApprovalsSpentOnce == Spec => []ApprovalSingleUse
<1>1. SafetyInv => ApprovalSingleUse
  BY DEF SafetyInv
<1> QED BY <1>1, SafetyInit, SafetyStep, PTL DEF Spec

\* Every registry row asserts a revision a human approved for its own claim, and the
\* chain still holds that revision under the row's number (tools_ledger.py:832-943).
THEOREM PromotionsAreApproved == Spec => []RowsApproved
<1>1. SafetyInv => RowsApproved
  BY DEF SafetyInv
<1> QED BY <1>1, SafetyInit, SafetyStep, PTL DEF Spec

-----------------------------------------------------------------------------
\* A call that starts found the study free and takes the guard.
LEMMA CallStarts ==
    ASSUME TypeInv, NEW p \in Procs, Call(p)
    PROVE  \/ UNCHANGED <<op, guard>>
           \/ /\ Free(p) /\ guard' = p
              /\ \E call : op' = [op EXCEPT ![p] = call] /\ call.pc # "idle"
<1>1. ASSUME NEW call, op' = [op EXCEPT ![p] = call], call.pc # "idle", guard' = p, Free(p)
      PROVE  Free(p) /\ guard' = p /\ \E x : op' = [op EXCEPT ![p] = x] /\ x.pc # "idle"
  BY <1>1
<1>2. ASSUME NEW c \in Claims, NEW claim, Stage(p, c, claim), Free(p)
      PROVE  Free(p) /\ guard' = p /\ \E x : op' = [op EXCEPT ![p] = x] /\ x.pc # "idle"
  <2> DEFINE call == [IdleCall EXCEPT !.pc = "save", !.claim = c,
                                      !.mem = [saved EXCEPT ![c] = claim]]
  <2>1. call.pc # "idle"
    BY DEF IdleCall
  <2>2. op' = [op EXCEPT ![p] = call] /\ guard' = p
    BY <1>2 DEF Stage
  <2> HIDE DEF call
  <2> QED BY <1>1, <1>2, <2>1, <2>2
<1>3. ASSUME NEW c \in Claims, PromoteClaim(p, c)
      PROVE  Free(p) /\ guard' = p /\ \E x : op' = [op EXCEPT ![p] = x] /\ x.pc # "idle"
  <2>1. Free(p) /\ guard' = p
    BY <1>3 DEF PromoteClaim
  <2>2. \E now, rows, i, n :
          op' = [op EXCEPT ![p] =
                   [IdleCall EXCEPT !.pc = "append", !.claim = c, !.mem = saved,
                      !.rid = RegistryId(c, now, n),
                      !.row = [rev |-> now, revno |-> Len(rows), approval |-> i,
                               status |-> "promoted", moved |-> {}]]]
    BY <1>3, Zenon DEF PromoteClaim
  <2> PICK now, rows, i, n :
          op' = [op EXCEPT ![p] =
                   [IdleCall EXCEPT !.pc = "append", !.claim = c, !.mem = saved,
                      !.rid = RegistryId(c, now, n),
                      !.row = [rev |-> now, revno |-> Len(rows), approval |-> i,
                               status |-> "promoted", moved |-> {}]]]
    BY <2>2, Zenon
  <2> DEFINE call == [IdleCall EXCEPT !.pc = "append", !.claim = c, !.mem = saved,
                        !.rid = RegistryId(c, now, n),
                        !.row = [rev |-> now, revno |-> Len(rows), approval |-> i,
                                 status |-> "promoted", moved |-> {}]]
  <2>3. call.pc # "idle"
    BY DEF IdleCall
  <2>4. op' = [op EXCEPT ![p] = call]
    OBVIOUS
  <2> HIDE DEF call
  <2> QED BY <1>1, <2>1, <2>3, <2>4
<1>4. ASSUME CheckStaleness(p)
      PROVE  Free(p) /\ guard' = p /\ \E x : op' = [op EXCEPT ![p] = x] /\ x.pc # "idle"
  <2> DEFINE call == [IdleCall EXCEPT !.pc = "scan", !.mem = saved,
                         !.todo = {r \in DOMAIN registry : registry[r].status = "promoted"}]
  <2>1. call.pc # "idle"
    BY DEF IdleCall
  <2>2. op' = [op EXCEPT ![p] = call] /\ guard' = p /\ Free(p)
    BY <1>4 DEF CheckStaleness
  <2> HIDE DEF call
  <2> QED BY <1>1, <2>1, <2>2
<1> QED BY <1>2, <1>3, <1>4, Zenon DEF Call, AddClaim, UpdateClaimStatus, RefusePromotion

\* GuardExcludes is inductive relative to the types.
LEMMA GuardStep == TypeInv /\ GuardExcludes /\ [Next]_vars => GuardExcludes'
<1> SUFFICES ASSUME TypeInv, GuardExcludes, [Next]_vars PROVE GuardExcludes'
  OBVIOUS
<1>1. ASSUME UNCHANGED <<op, guard>> PROVE GuardExcludes'
  BY <1>1 DEF GuardExcludes
<1>2. ASSUME NEW p \in Procs, Finish(p), op[p].pc # "idle" PROVE GuardExcludes'
  BY <1>2, AbsentAssumption DEF Finish, IdleCall, GuardExcludes, TypeInv, TypeOK
<1>3. ASSUME NEW p \in Procs, NEW call, op' = [op EXCEPT ![p] = call], call.pc # "idle",
             guard' = p, Free(p) \/ op[p].pc # "idle"
      PROVE  GuardExcludes'
  BY <1>3, AbsentAssumption DEF Free, GuardExcludes, TypeInv, TypeOK
<1>4. ASSUME NEW p \in Procs, Call(p) PROVE GuardExcludes'
  BY <1>1, <1>3, <1>4, CallStarts
<1>5. ASSUME NEW p \in Procs, Step(p) PROVE GuardExcludes'
  <2>1. op[p].pc \in {"save", "retract", "append", "record", "scan", "note"}
    BY <1>5, Zenon DEF Step, SaveSession, RetractRow, AppendRow, RecordPromotion, ScanRow,
       NoteStale, FinishCheck
  <2>2. op[p].pc # "idle" /\ guard = p
    BY <2>1 DEF GuardExcludes
  <2> QED BY <1>2, <1>3, <1>5, <2>2, StepCall
<1>6. ASSUME NEW p \in Procs, Abort(p) PROVE GuardExcludes'
  BY <1>2, <1>6 DEF Abort
<1>7. ASSUME NEW t \in Terminals, Terminal(t) PROVE UNCHANGED <<op, guard>>
  BY <1>7, Zenon DEF Terminal, ReviewClaim, Approve, Decline
<1>8. ASSUME Environment \/ UNCHANGED vars PROVE UNCHANGED <<op, guard>>
  BY <1>8, Zenon DEF Environment, Revoke, ChangeEvidence, EditOutOfBand, NextDay, vars
<1> QED BY <1>1, <1>4, <1>5, <1>6, <1>7, <1>8 DEF Next

\* The ledger tools of one study never interleave between load and save: the call
\* under way is the one the write guard names (tools_ledger.py:42-67).
THEOREM OneCallAtATime == Spec => []GuardExcludes
<1>1. Init => GuardExcludes
  BY AbsentAssumption DEF Init, IdleCall, GuardExcludes
<1> QED BY <1>1, TypeInit, TypeStep, GuardStep, PTL DEF Spec

-----------------------------------------------------------------------------
(* What the write guard gives: nobody else touches the registry rows of this *)
(* study while a call is under way.  A promotion is therefore only ever      *)
(* reported over a live row, and the two stores implement PromotionAuthority. *)

Gone(ledger, c) == ledger[c] # NoClaim /\ ledger[c].status = "retracted"

\* A claim is only ever linked to a row built from it.
Linked(ledger) ==
    \A c \in Claims :
        ledger[c] # NoClaim /\ ledger[c].rid # None => ledger[c].rid.claim = c

\* What a call under way relies on in the registry.
Watchful(rows, call) ==
    call.pc # "idle" =>
        /\ Linked(call.mem)
        /\ call.pc = "append" =>
              /\ call.row.status = "promoted"
              /\ call.rid.claim = call.claim
              /\ call.rid \in DOMAIN rows => rows[call.rid].status = "promoted"
        /\ call.pc = "record" =>
              /\ call.rid.claim = call.claim
              /\ call.rid \in DOMAIN rows
              /\ rows[call.rid].status = "promoted"
        /\ call.pc = "note" =>
              /\ call.mem[call.claim] # NoClaim
              /\ ~ Gone(call.mem, call.claim)
        /\ call.pc \in {"scan", "note"} =>
              /\ \A r \in call.todo : rows[r].status = "promoted" \/ Gone(call.mem, r.claim)
              /\ \A r \in call.withdraw : Gone(call.mem, r.claim)

WatchInv ==
    /\ TypeInv
    /\ GuardExcludes
    /\ Linked(saved)
    /\ \A p \in Procs : Watchful(registry, op[p])

-----------------------------------------------------------------------------
\* The calls that start.
LEMMA StageWatchful ==
    ASSUME WatchInv, NEW p \in Procs, NEW c \in Claims, NEW claim \in ClaimRecords,
           claim.rid = None \/ claim.rid.claim = c, Stage(p, c, claim)
    PROVE  Linked(saved') /\ Watchful(registry', op'[p])
<1> DEFINE mem == [saved EXCEPT ![c] = claim]
           call == [IdleCall EXCEPT !.pc = "save", !.claim = c, !.mem = mem]
<1>1. saved' = saved /\ op'[p] = call
  BY DEF Stage, WatchInv, TypeInv, TypeOK
<1>2. Linked(saved) /\ saved \in Ledgers
  BY DEF WatchInv, TypeInv, TypeOK
<1>3. Linked(mem)
  BY <1>2 DEF Linked, Ledgers
<1> HIDE DEF mem
<1>4. call.pc = "save" /\ call.mem = mem
  BY DEF IdleCall
<1> HIDE DEF call
<1> QED BY <1>1, <1>2, <1>3, <1>4 DEF Watchful

\* promote_claim_to_registry picks an id that is new or names a live row.
LEMMA PromoteWatchful ==
    ASSUME WatchInv, NEW p \in Procs, NEW c \in Claims, PromoteClaim(p, c)
    PROVE  Linked(saved') /\ Watchful(registry', op'[p])
<1> DEFINE Target(i, n) ==
             [IdleCall EXCEPT !.pc = "append", !.claim = c, !.mem = saved,
                !.rid = RegistryId(c, Fields(saved[c]), n),
                !.row = [rev |-> Fields(saved[c]),
                         revno |-> Len(Observe(chain[c], Fields(saved[c]))),
                         approval |-> i, status |-> "promoted", moved |-> {}]]
<1>1. \E i, n : IsFreshId(RegistryId(c, Fields(saved[c]), n)) /\ op' = [op EXCEPT ![p] = Target(i, n)]
  BY Zenon DEF PromoteClaim
<1> PICK i, n : /\ IsFreshId(RegistryId(c, Fields(saved[c]), n))
                /\ op' = [op EXCEPT ![p] = Target(i, n)]
  BY <1>1, Zenon
<1> DEFINE rid == RegistryId(c, Fields(saved[c]), n)
<1>2. op'[p] = Target(i, n) /\ UNCHANGED <<saved, registry>>
  BY Zenon DEF PromoteClaim, WatchInv, TypeInv, TypeOK
<1>3. rid.claim = c /\ (rid \in DOMAIN registry => registry[rid].status = "promoted")
  BY DEF RegistryId, IsFreshId, Withdrawn
<1> HIDE DEF rid
<1>4. /\ Target(i, n).pc = "append" /\ Target(i, n).claim = c /\ Target(i, n).mem = saved
      /\ Target(i, n).rid = rid /\ Target(i, n).row.status = "promoted"
  BY DEF IdleCall, rid
<1> HIDE DEF Target
<1> QED BY <1>2, <1>3, <1>4 DEF WatchInv, Watchful

\* A staleness pass starts from the rows that are promoted.
LEMMA CheckWatchful ==
    ASSUME WatchInv, NEW p \in Procs, CheckStaleness(p)
    PROVE  Linked(saved') /\ Watchful(registry', op'[p])
<1> DEFINE promoted == {r \in DOMAIN registry : registry[r].status = "promoted"}
           call == [IdleCall EXCEPT !.pc = "scan", !.mem = saved, !.todo = promoted]
<1>1. op'[p] = call /\ UNCHANGED <<saved, registry>>
  BY DEF CheckStaleness, stores, WatchInv, TypeInv, TypeOK
<1>2. call.pc = "scan" /\ call.mem = saved /\ call.todo = promoted /\ call.withdraw = {}
  BY DEF IdleCall
<1> HIDE DEF call
<1> QED BY <1>1, <1>2 DEF WatchInv, Watchful

-----------------------------------------------------------------------------
\* The steps of a running call.
LEMMA FinishWatchful ==
    ASSUME WatchInv, NEW p \in Procs, Finish(p)
    PROVE  Watchful(registry', op'[p])
BY DEF WatchInv, TypeInv, TypeOK, Finish, IdleCall, Watchful

\* Saving leaves links as the call had them.
LEMMA SaveWatchful ==
    ASSUME WatchInv, NEW p \in Procs, SaveSession(p)
    PROVE  Linked(saved') /\ Watchful(registry', op'[p])
<1>1. op[p] \in Calls /\ Linked(op[p].mem) /\ saved' = op[p].mem /\ registry' = registry
  BY DEF SaveSession, WatchInv, TypeInv, TypeOK, Watchful
<1> DEFINE live == LiveRows(op[p].claim, op[p].mem[op[p].claim])
           call == [op[p] EXCEPT !.pc = "retract", !.withdraw = live]
<1>2. Finish(p) \/ op' = [op EXCEPT ![p] = call]
  BY DEF SaveSession
<1> HIDE DEF live
<1>3. call.pc = "retract" /\ call.mem = op[p].mem
  BY <1>1 DEF Calls
<1> HIDE DEF call
<1>4. CASE op' = [op EXCEPT ![p] = call]
  <2>1. op'[p] = call
    BY <1>4 DEF WatchInv, TypeInv, TypeOK
  <2> QED BY <1>1, <1>3, <2>1 DEF Watchful
<1> QED BY <1>1, <1>2, <1>4, FinishWatchful

\* Retracting a row retracts one of a withdrawn claim.
LEMMA RetractWatchful ==
    ASSUME WatchInv, NEW p \in Procs, RetractRow(p)
    PROVE  Linked(saved') /\ Watchful(registry', op'[p])
<1> PICK r \in op[p].withdraw :
        /\ registry' = [registry EXCEPT ![r].status = "retracted"]
        /\ \/ Finish(p)
           \/ op' = [op EXCEPT ![p] = [@ EXCEPT !.withdraw = op[p].withdraw \ {r}]]
  BY Zenon DEF RetractRow
<1>1. /\ op[p] \in Calls /\ Watchful(registry, op[p]) /\ op[p].pc \in {"retract", "scan"}
      /\ op[p].todo \subseteq DOMAIN registry /\ Linked(saved) /\ saved' = saved
  BY DEF RetractRow, WatchInv, TypeInv, TypeOK, CallShape, Shaped
<1> DEFINE call == [op[p] EXCEPT !.withdraw = op[p].withdraw \ {r}]
<1>2. /\ call.pc = op[p].pc /\ call.mem = op[p].mem /\ call.todo = op[p].todo
      /\ call.withdraw = op[p].withdraw \ {r}
  BY <1>1 DEF Calls
<1>3. Finish(p) \/ op' = [op EXCEPT ![p] = call]
  OBVIOUS
<1> HIDE DEF call
<1>4. CASE op' = [op EXCEPT ![p] = call]
  <2>1. op'[p] = call
    BY <1>4 DEF WatchInv, TypeInv, TypeOK
  <2>2. \A x \in op[p].todo : x # r => registry'[x] = registry[x]
    BY <1>1
  <2> QED BY <1>1, <1>2, <2>1, <2>2 DEF Watchful
<1> QED BY <1>1, <1>3, <1>4, FinishWatchful

\* After the append a promoted row stands under the id.
LEMMA AppendWatchful ==
    ASSUME WatchInv, NEW p \in Procs, AppendRow(p)
    PROVE  Linked(saved') /\ Watchful(registry', op'[p])
<1>1. /\ op[p] \in Calls /\ Watchful(registry, op[p]) /\ op[p].pc = "append"
      /\ Linked(saved) /\ saved' = saved
  BY DEF AppendRow, WatchInv, TypeInv, TypeOK
<1> DEFINE call == [op[p] EXCEPT !.pc = "record"]
<1>2. call.pc = "record" /\ call.mem = op[p].mem /\ call.rid = op[p].rid /\ call.claim = op[p].claim
  BY <1>1 DEF Calls
<1>3. \/ Finish(p)
      \/ /\ op' = [op EXCEPT ![p] = call]
         /\ \/ op[p].rid \in DOMAIN registry /\ registry' = registry
            \/ registry' = [r \in DOMAIN registry \union {op[p].rid} |->
                              IF r = op[p].rid THEN op[p].row ELSE registry[r]]
  BY DEF AppendRow
<1> HIDE DEF call
<1>4. CASE op' = [op EXCEPT ![p] = call]
  <2>1. op'[p] = call
    BY <1>4 DEF WatchInv, TypeInv, TypeOK
  <2>2. ~ Finish(p)
    BY <1>2, <2>1, <1>4 DEF Finish, IdleCall, WatchInv, TypeInv, TypeOK
  <2>3. op[p].rid \in DOMAIN registry' /\ registry'[op[p].rid].status = "promoted"
    BY <1>1, <1>3, <2>2 DEF Watchful
  <2> QED BY <1>1, <1>2, <2>1, <2>3 DEF Watchful
<1> QED BY <1>1, <1>3, <1>4, FinishWatchful

\* The claim is linked to the row of its own promotion.
LEMMA RecordWatchful ==
    ASSUME WatchInv, NEW p \in Procs, RecordPromotion(p)
    PROVE  Linked(saved') /\ Watchful(registry', op'[p])
<1>1. /\ op[p] \in Calls /\ Watchful(registry, op[p]) /\ op[p].pc = "record"
      /\ op[p].claim \in Claims /\ op[p].mem[op[p].claim] \in ClaimRecords
      /\ Linked(saved) /\ saved' = saved
  BY DEF RecordPromotion, WatchInv, TypeInv, TypeOK, CallShape, Shaped
<1> DEFINE mem == [op[p].mem EXCEPT ![op[p].claim].rid = op[p].rid]
           call == [op[p] EXCEPT !.pc = "save", !.mem[op[p].claim].rid = op[p].rid]
<1>2. Linked(mem)
  BY <1>1 DEF Watchful, Linked, Calls, Ledgers, ClaimRecords
<1>3. call.pc = "save" /\ call.mem = mem
  BY <1>1 DEF Calls
<1>4. op' = [op EXCEPT ![p] = call]
  BY DEF RecordPromotion
<1> HIDE DEF call, mem
<1>5. op'[p] = call
  BY <1>4 DEF WatchInv, TypeInv, TypeOK
<1> QED BY <1>1, <1>2, <1>3, <1>5 DEF Watchful

\* The claim that follows its row is not one that was withdrawn.
LEMMA NoteWatchful ==
    ASSUME WatchInv, NEW p \in Procs, NoteStale(p)
    PROVE  Linked(saved') /\ Watchful(registry', op'[p])
<1> DEFINE c == op[p].claim
           new == [op[p].mem[c] EXCEPT !.status = "stale", !.moved = registry[op[p].rid].moved]
           mem == [op[p].mem EXCEPT ![c] = new]
           call == [op[p] EXCEPT !.pc = "scan", !.claim = None, !.rid = None, !.mem[c] = new]
<1>1. /\ op[p] \in Calls /\ Watchful(registry, op[p]) /\ op[p].pc = "note"
      /\ c \in Claims /\ op[p].mem[c] \in ClaimRecords
      /\ Linked(saved) /\ saved' = saved /\ registry' = registry
  BY DEF NoteStale, WatchInv, TypeInv, TypeOK, CallShape, Shaped
<1>2. op' = [op EXCEPT ![p] = call]
  BY DEF NoteStale
<1>3. new.status = "stale" /\ new.rid = op[p].mem[c].rid
  BY <1>1 DEF ClaimRecords
<1> HIDE DEF new
<1>4. /\ call.pc = "scan" /\ call.mem = mem /\ call.todo = op[p].todo
      /\ call.withdraw = op[p].withdraw
  BY <1>1 DEF Calls
<1>5. mem[c] = new /\ \A d \in Claims : d # c => mem[d] = op[p].mem[d]
  BY <1>1 DEF Calls, Ledgers
<1> HIDE DEF call, mem
<1>6. op'[p] = call
  BY <1>2 DEF WatchInv, TypeInv, TypeOK
<1>7. op[p].mem[c] # NoClaim /\ Linked(op[p].mem) /\ ~ Gone(op[p].mem, c)
  BY <1>1 DEF Watchful
<1>8. Linked(mem)
  BY <1>1, <1>3, <1>5, <1>7 DEF Linked
<1>9. ASSUME NEW d \in Claims, Gone(op[p].mem, d) PROVE Gone(mem, d)
  BY <1>5, <1>7, <1>9 DEF Gone
<1>10. \A r \in op[p].todo \union op[p].withdraw : r.claim \in Claims
  BY <1>1 DEF Calls, RegIds
<1> QED BY <1>1, <1>4, <1>6, <1>8, <1>9, <1>10 DEF Watchful

\* The row p visits, and what becomes of it.
Visits(p, r) ==
    LET next == [op[p] EXCEPT !.todo = @ \ {r}]
        mine == op[p].mem[r.claim]
    IN  /\ op[p].pc = "scan" /\ op[p].withdraw = {} /\ r \in op[p].todo
        /\ UNCHANGED <<saved, guard>>
        /\ \/ /\ Gone(op[p].mem, r.claim)
              /\ op' = [op EXCEPT ![p] = [next EXCEPT !.withdraw = LiveRows(r.claim, mine)]]
              /\ UNCHANGED registry
           \/ /\ op' = [op EXCEPT ![p] = next]
              /\ UNCHANGED registry
           \/ /\ ~ Gone(op[p].mem, r.claim)
              /\ registry' = [registry EXCEPT ![r] =
                                [@ EXCEPT !.status = "stale", !.moved = ChangedSources(r)]]
              /\ \/ /\ mine # NoClaim
                    /\ op' = [op EXCEPT ![p] = [next EXCEPT !.pc = "note", !.claim = r.claim,
                                                            !.rid = r, !.dirty = TRUE]]
                 \/ op' = [op EXCEPT ![p] = [next EXCEPT !.dirty = TRUE]]

\* ScanRow, with the row it picks named.
LEMMA ScanVisits ==
    ASSUME NEW p \in Procs, ScanRow(p)
    PROVE  \E r \in op[p].todo : Visits(p, r)
BY Zenon DEF ScanRow, Visits, Gone

\* A visit leaves the other rows of the pass promoted.
LEMMA ScanWatchful ==
    ASSUME WatchInv, NEW p \in Procs, ScanRow(p)
    PROVE  Linked(saved') /\ Watchful(registry', op'[p])
<1> PICK r \in op[p].todo : Visits(p, r)
  BY ScanVisits
<1> DEFINE c == r.claim
           live == LiveRows(c, op[p].mem[c])
           next == [op[p] EXCEPT !.todo = @ \ {r}]
           visit == [next EXCEPT !.withdraw = live]
           noted == [next EXCEPT !.pc = "note", !.claim = c, !.rid = r, !.dirty = TRUE]
           kept == [next EXCEPT !.dirty = TRUE]
<1>1. /\ op[p] \in Calls /\ Watchful(registry, op[p]) /\ op[p].pc = "scan"
      /\ op[p].withdraw = {} /\ op[p].todo \subseteq DOMAIN registry
      /\ Linked(saved) /\ saved' = saved
  BY DEF Visits, WatchInv, TypeInv, TypeOK, CallShape, Shaped
<1>2. DOMAIN registry \subseteq RegIds /\ c \in Claims
  BY <1>1 DEF WatchInv, TypeInv, TypeOK, Calls, RegIds
<1>3. Gone(op[p].mem, c) => \A x \in live : Gone(op[p].mem, x.claim)
  <2>1. op[p].mem[c] # NoClaim /\ op[p].mem[c].rid # None => op[p].mem[c].rid.claim = c
    BY <1>1, <1>2 DEF Watchful, Linked
  <2>2. live \subseteq RowsOf(c, op[p].mem[c]) /\ RowsOf(c, op[p].mem[c]) \subseteq DOMAIN registry
    BY DEF LiveRows, RowsOf
  <2>3. \A x \in RowsOf(c, op[p].mem[c]) : x.claim = c
    BY <1>2, <2>1, AbsentAssumption DEF RowsOf
  <2> QED BY <2>2, <2>3
<1> HIDE DEF live, c
<1>4. /\ next \in Calls /\ next.pc = "scan" /\ next.mem = op[p].mem
      /\ next.todo = op[p].todo \ {r} /\ next.withdraw = {}
  BY <1>1 DEF Calls
<1> HIDE DEF next
<1>5. /\ visit.pc = "scan" /\ visit.mem = op[p].mem /\ visit.todo = op[p].todo \ {r}
      /\ visit.withdraw = live
  BY <1>4 DEF Calls
<1>6. /\ noted.pc = "note" /\ noted.mem = op[p].mem /\ noted.todo = op[p].todo \ {r}
      /\ noted.withdraw = {} /\ noted.claim = c
  BY <1>4 DEF Calls
<1>7. /\ kept.pc = "scan" /\ kept.mem = op[p].mem /\ kept.todo = op[p].todo \ {r}
      /\ kept.withdraw = {}
  BY <1>4 DEF Calls
<1>8. \/ Gone(op[p].mem, c) /\ op' = [op EXCEPT ![p] = visit] /\ registry' = registry
      \/ op' = [op EXCEPT ![p] = next] /\ registry' = registry
      \/ /\ ~ Gone(op[p].mem, c)
         /\ registry' = [registry EXCEPT ![r] =
                           [@ EXCEPT !.status = "stale", !.moved = ChangedSources(r)]]
         /\ \/ op[p].mem[c] # NoClaim /\ op' = [op EXCEPT ![p] = noted]
            \/ op' = [op EXCEPT ![p] = kept]
  BY Zenon DEF Visits, c, live, next
<1> HIDE DEF visit, noted, kept
<1>9. ASSUME NEW call, op' = [op EXCEPT ![p] = call] PROVE op'[p] = call
  BY <1>9 DEF WatchInv, TypeInv, TypeOK
<1>10. \A x \in op[p].todo \ {r} :
          registry'[x].status = "promoted" \/ Gone(op[p].mem, x.claim)
  <2>1. \A x \in op[p].todo \ {r} : registry'[x] = registry[x]
    BY <1>1, <1>8
  <2> QED BY <1>1, <2>1 DEF Watchful
<1>11. Linked(op[p].mem)
  BY <1>1 DEF Watchful
<1>12. CASE Gone(op[p].mem, c) /\ op' = [op EXCEPT ![p] = visit]
  BY <1>1, <1>3, <1>5, <1>9, <1>10, <1>11, <1>12 DEF Watchful
<1>13. CASE op' = [op EXCEPT ![p] = next]
  BY <1>1, <1>4, <1>9, <1>10, <1>11, <1>13 DEF Watchful
<1>14. CASE ~ Gone(op[p].mem, c) /\ op[p].mem[c] # NoClaim /\ op' = [op EXCEPT ![p] = noted]
  BY <1>1, <1>6, <1>9, <1>10, <1>11, <1>14 DEF Watchful
<1>15. CASE op' = [op EXCEPT ![p] = kept]
  BY <1>1, <1>7, <1>9, <1>10, <1>11, <1>15 DEF Watchful
<1> QED BY <1>8, <1>12, <1>13, <1>14, <1>15

-----------------------------------------------------------------------------
\* Any step by the one call under way, or by nobody.
LEMMA CallWatchful ==
    ASSUME WatchInv, NEW p \in Procs, Call(p)
    PROVE  Linked(saved') /\ (UNCHANGED <<op, registry>> \/ Watchful(registry', op'[p]))
<1>1. ASSUME NEW c \in Claims, NEW text \in Texts, NEW cites \in CiteSets,
             NEW status \in StatusInputs, AddClaim(p, c, text, cites, status)
      PROVE  Linked(saved') /\ Watchful(registry', op'[p])
  <2> DEFINE claim == [text |-> text, status |-> status, cites |-> cites, verified |-> FALSE,
                       rid   |-> IF saved[c] = NoClaim THEN None ELSE saved[c].rid,
                       moved |-> IF saved[c] = NoClaim THEN {} ELSE saved[c].moved]
  <2>1. saved[c] \in ClaimRecords \union {NoClaim} /\ Linked(saved)
    BY DEF WatchInv, TypeInv, TypeOK, Ledgers
  <2>2. claim \in ClaimRecords
    BY <2>1, InputsAssumption DEF ClaimRecords
  <2>3. claim.rid = None \/ claim.rid.claim = c
    BY <2>1 DEF Linked
  <2>4. Stage(p, c, claim)
    BY <1>1 DEF AddClaim
  <2> HIDE DEF claim
  <2> QED BY <2>2, <2>3, <2>4, StageWatchful
<1>2. ASSUME NEW c \in Claims, NEW status \in StatusInputs, NEW text \in Texts,
             NEW verified \in BOOLEAN, UpdateClaimStatus(p, c, status, text, verified)
      PROVE  Linked(saved') /\ Watchful(registry', op'[p])
  <2> DEFINE claim == [saved[c] EXCEPT !.status = status, !.text = text,
                                       !.verified = @ \/ verified]
  <2>1. saved[c] # NoClaim /\ saved[c] \in ClaimRecords /\ Linked(saved)
    BY <1>2 DEF UpdateClaimStatus, WatchInv, TypeInv, TypeOK, Ledgers
  <2>2. claim \in ClaimRecords /\ claim.rid = saved[c].rid
    <3>1. saved[c].verified \/ verified \in BOOLEAN
      BY <2>1, Zenon DEF ClaimRecords
    <3> QED BY <2>1, <3>1, InputsAssumption DEF ClaimRecords
  <2>3. claim.rid = None \/ claim.rid.claim = c
    BY <2>1, <2>2 DEF Linked
  <2>4. Stage(p, c, claim)
    BY <1>2, Zenon DEF UpdateClaimStatus
  <2> HIDE DEF claim
  <2> QED BY <2>2, <2>3, <2>4, StageWatchful
<1>3. ASSUME NEW c \in Claims, RefusePromotion(p, c)
      PROVE  Linked(saved') /\ UNCHANGED <<op, registry>>
  BY <1>3 DEF RefusePromotion, WatchInv
<1> QED BY <1>1, <1>2, <1>3, PromoteWatchful, CheckWatchful DEF Call

\* The steps of a call, and its death, keep it watchful.
LEMMA StepWatchful ==
    ASSUME WatchInv, NEW p \in Procs, Step(p) \/ Abort(p)
    PROVE  Linked(saved') /\ Watchful(registry', op'[p])
<1>1. CASE FinishCheck(p)
  <2>1. Linked(op[p].mem) /\ Linked(saved)
    BY <1>1 DEF FinishCheck, WatchInv, Watchful
  <2> QED BY <1>1, <2>1, FinishWatchful DEF FinishCheck
<1>2. CASE Abort(p)
  BY <1>2, FinishWatchful DEF Abort, stores, WatchInv
<1> QED BY <1>1, <1>2, SaveWatchful, RetractWatchful, AppendWatchful, RecordWatchful,
           ScanWatchful, NoteWatchful DEF Step

\* A hand edit of the session file leaves registry links alone.
LEMMA EditLinked ==
    ASSUME WatchInv, NEW c \in Claims, NEW text, NEW cites, NEW status,
           EditOutOfBand(c, text, cites, status)
    PROVE  Linked(saved')
<1> DEFINE claim == IF saved[c] = NoClaim
                      THEN [text |-> text, status |-> status, cites |-> cites,
                            verified |-> FALSE, rid |-> None, moved |-> {}]
                      ELSE [saved[c] EXCEPT !.text = text, !.cites = cites, !.status = status]
<1>1. /\ saved' = [saved EXCEPT ![c] = claim] /\ saved \in Ledgers /\ Linked(saved)
      /\ saved[c] \in ClaimRecords \union {NoClaim}
  BY DEF EditOutOfBand, WatchInv, TypeInv, TypeOK, Ledgers
<1>2. claim.rid = None \/ (saved[c] # NoClaim /\ claim.rid = saved[c].rid)
  BY <1>1 DEF ClaimRecords
<1> HIDE DEF claim
<1> QED BY <1>1, <1>2 DEF Linked, Ledgers

\* Whoever moves the calls or the rows finds every other process idle.
LEMMA ActingAlone ==
    ASSUME TypeInv, GuardExcludes, [Next]_vars
    PROVE  \/ UNCHANGED <<op, registry>>
           \/ \E p \in Procs :
                 /\ Call(p) \/ Step(p) \/ Abort(p)
                 /\ \A q \in Procs \ {p} : op[q].pc = "idle" /\ op'[q] = op[q]
<1>1. ASSUME NEW t \in Terminals, Terminal(t) PROVE UNCHANGED <<op, registry>>
  BY <1>1, Zenon DEF Terminal, ReviewClaim, Approve, Decline, stores
<1>2. ASSUME Environment \/ UNCHANGED vars PROVE UNCHANGED <<op, registry>>
  BY <1>2, Zenon DEF Environment, Revoke, ChangeEvidence, EditOutOfBand, NextDay, stores, vars
<1>3. ASSUME NEW p \in Procs, Free(p) \/ op[p].pc # "idle", NEW call,
             op' = [op EXCEPT ![p] = call], NEW q \in Procs \ {p}
      PROVE  op[q].pc = "idle" /\ op'[q] = op[q]
  BY <1>3, AbsentAssumption DEF Free, GuardExcludes, TypeInv, TypeOK
<1>4. ASSUME NEW p \in Procs, Call(p)
      PROVE  \/ UNCHANGED <<op, registry>>
             \/ \A q \in Procs \ {p} : op[q].pc = "idle" /\ op'[q] = op[q]
  <2>1. (\E c \in Claims : RefusePromotion(p, c)) => UNCHANGED <<op, registry>>
    BY DEF RefusePromotion
  <2>2. (\E c \in Claims : RefusePromotion(p, c)) \/ Free(p)
    BY <1>4, Zenon DEF Call, AddClaim, UpdateClaimStatus, PromoteClaim, CheckStaleness
  <2>3. UNCHANGED op \/ \E call : op' = [op EXCEPT ![p] = call]
    BY <1>4, CallStarts
  <2>4. Free(p) => \A q \in Procs \ {p} : op[q].pc = "idle"
    BY AbsentAssumption DEF Free, GuardExcludes
  <2>5. \A q \in Procs \ {p} : op'[q] = op[q]
    BY <2>3 DEF TypeInv, TypeOK
  <2> QED BY <2>1, <2>2, <2>4, <2>5
<1>5. ASSUME NEW p \in Procs, Step(p) \/ Abort(p), NEW q \in Procs \ {p}
      PROVE  op[q].pc = "idle" /\ op'[q] = op[q]
  <2>1. op[p].pc \in {"save", "retract", "append", "record", "scan", "note"} \/ op[p].pc # "idle"
    BY <1>5, Zenon DEF Step, SaveSession, RetractRow, AppendRow, RecordPromotion, ScanRow,
       NoteStale, FinishCheck, Abort
  <2>2. op[p].pc # "idle"
    BY <2>1
  <2>3. \E call : op' = [op EXCEPT ![p] = call]
    BY <1>5, StepCall DEF Abort, Finish
  <2> QED BY <1>3, <2>2, <2>3
<1> QED BY <1>1, <1>2, <1>4, <1>5 DEF Next

\* WatchInv is inductive.
LEMMA WatchStep == WatchInv /\ [Next]_vars => WatchInv'
<1> SUFFICES ASSUME WatchInv, [Next]_vars PROVE WatchInv'
  OBVIOUS
<1>1. TypeInv' /\ GuardExcludes'
  BY TypeStep, GuardStep DEF WatchInv
<1>2. Linked(saved')
  <2>1. ASSUME NEW t \in Terminals, Terminal(t) PROVE saved' = saved
    BY <2>1, Zenon DEF Terminal, ReviewClaim, Approve, Decline, stores
  <2>2. ASSUME Environment PROVE saved' = saved \/ Linked(saved')
    BY <2>2, EditLinked, Zenon DEF Environment, Revoke, ChangeEvidence, NextDay, stores
  <2>3. ASSUME UNCHANGED vars PROVE saved' = saved
    BY <2>3 DEF vars, stores
  <2> QED BY <2>1, <2>2, <2>3, CallWatchful, StepWatchful DEF Next, WatchInv
<1>3. ASSUME NEW q \in Procs PROVE Watchful(registry', op'[q])
  <2>1. CASE UNCHANGED <<op, registry>>
    BY <2>1 DEF WatchInv
  <2>2. ASSUME NEW p \in Procs, Call(p) \/ Step(p) \/ Abort(p),
               q # p => op[q].pc = "idle" /\ op'[q] = op[q]
        PROVE  Watchful(registry', op'[q])
    <3>1. CASE q = p
      <4>1. UNCHANGED <<op, registry>> \/ Watchful(registry', op'[p])
        BY <2>2, CallWatchful, StepWatchful
      <4> QED BY <2>1, <3>1, <4>1
    <3>2. CASE q # p
      BY <2>2, <3>2 DEF Watchful
    <3> QED BY <3>1, <3>2
  <2> QED BY <2>1, <2>2, ActingAlone DEF WatchInv
<1> QED BY <1>1, <1>2, <1>3 DEF WatchInv

\* It holds of an empty study.
LEMMA WatchInit == Init => WatchInv
<1> SUFFICES ASSUME Init PROVE WatchInv
  OBVIOUS
<1>1. TypeInv /\ GuardExcludes
  BY TypeInit, AbsentAssumption DEF Init, IdleCall, GuardExcludes
<1>2. Linked(saved)
  BY DEF Init, Linked
<1>3. \A p \in Procs : Watchful(registry, op[p])
  BY DEF Init, IdleCall, Watchful
<1> QED BY <1>1, <1>2, <1>3 DEF WatchInv

-----------------------------------------------------------------------------
\* Recording a change or an observation never looks like a promotion.
NotPromoted(new, old) ==
    Len(new) > Len(old) => new[Len(new)].reason # "promotion"

\* A change row after the base is no promotion either.
LEMMA AppendNotPromoted ==
    ASSUME NEW old \in Seq(RevisionRows), NEW base \in Seq(RevisionRows),
           NEW fields \in Revs, NEW new,
           NotPromoted(base, old),
           new \in {base, Append(base, Revision(fields, "change", None, 0))}
    PROVE  NotPromoted(new, old)
<1> DEFINE row == Revision(fields, "change", None, 0)
<1>1. row \in RevisionRows /\ row.reason = "change"
  BY RevisionType DEF Revision
<1> HIDE DEF row
<1>2. new = base \/ new = Append(base, row)
  BY DEF row
<1>3. CASE new = Append(base, row)
  <2>1. new[Len(new)] = row
    BY <1>1, <1>3
  <2> QED BY <1>1, <2>1 DEF NotPromoted
<1> QED BY <1>2, <1>3

\* record_change without bookkeeping never reports one.
LEMMA RecordChangeNotPromoted ==
    ASSUME NEW rows \in Seq(RevisionRows), NEW before \in Revs \union {None}, NEW after \in Revs
    PROVE  NotPromoted(RecordChange(rows, before, after), rows)
<1> DEFINE base == IF rows = << >> /\ before # None
                     THEN <<Revision(before, "baseline", None, 0)>>
                     ELSE rows
<1>1. base \in Seq(RevisionRows) /\ NotPromoted(base, rows)
  <2>1. CASE rows = << >> /\ before # None
    <3> DEFINE row == Revision(before, "baseline", None, 0)
    <3>1. row \in RevisionRows /\ row.reason = "baseline"
      BY <2>1, RevisionType DEF Revision
    <3> HIDE DEF row
    <3>2. base = <<row>>
      BY <2>1 DEF row
    <3> QED BY <3>1, <3>2 DEF NotPromoted
  <2>2. CASE ~ (rows = << >> /\ before # None)
    BY <2>2 DEF NotPromoted
  <2> QED BY <2>1, <2>2
<1> HIDE DEF base
<1>2. RecordChange(rows, before, after) \in {base, Append(base, Revision(after, "change", None, 0))}
  BY DEF RecordChange, base
<1> QED BY <1>1, <1>2, AppendNotPromoted

\* Nor does what promotion records before it looks for an approval.
LEMMA ObserveNotPromoted ==
    ASSUME NEW rows \in Seq(RevisionRows), NEW now \in Revs
    PROVE  NotPromoted(Observe(rows, now), rows)
<1> DEFINE base == IF rows = << >> THEN <<Revision(now, "baseline", None, 0)>> ELSE rows
           row == Revision(now, "baseline", None, 0)
<1>1. row \in RevisionRows /\ row.reason = "baseline"
  BY RevisionType DEF Revision
<1> HIDE DEF row
<1>2. base \in Seq(RevisionRows) /\ NotPromoted(base, rows)
  <2>1. CASE rows = << >>
    <3>1. base = <<row>>
      BY <2>1 DEF row
    <3> QED BY <1>1, <3>1 DEF NotPromoted
  <2>2. CASE rows # << >>
    BY <2>2 DEF NotPromoted
  <2> QED BY <2>1, <2>2
<1> HIDE DEF base
<1>3. Observe(rows, now) \in {base, Append(base, Revision(now, "change", None, 0))}
  BY DEF Observe, base
<1> QED BY <1>2, <1>3, AppendNotPromoted

\* A new last revision of c with reason "promotion" is the work of RecordPromotion.
PromotedNow(c) ==
    /\ Len(chain'[c]) > Len(chain[c])
    /\ chain'[c][Len(chain'[c])].reason = "promotion"

\* So only the bookkeeping of a promotion does.
LEMMA PromotionRecorded ==
    ASSUME TypeInv, [Next]_vars, NEW c \in Claims, PromotedNow(c)
    PROVE  \E p \in Procs : RecordPromotion(p) /\ op[p].claim = c
<1> USE DEF TypeInv
<1>1. ASSUME NEW d \in Claims, NEW rows, chain' = [chain EXCEPT ![d] = rows],
             NotPromoted(rows, chain[d])
      PROVE  FALSE
  BY <1>1 DEF PromotedNow, NotPromoted, TypeOK
<1>2. ASSUME UNCHANGED chain PROVE FALSE
  BY <1>2 DEF PromotedNow, TypeOK
<1>3. ASSUME NEW p \in Procs, NEW d \in Claims, NEW claim \in ClaimRecords, Stage(p, d, claim)
      PROVE  FALSE
  <2> DEFINE before == IF saved[d] = NoClaim THEN None ELSE Fields(saved[d])
  <2>1. before \in Revs \union {None} /\ Fields(claim) \in Revs /\ chain[d] \in Seq(RevisionRows)
    BY FieldsType DEF TypeOK, Ledgers
  <2>2. chain' = [chain EXCEPT ![d] = RecordChange(chain[d], before, Fields(claim))]
    BY <1>3 DEF Stage
  <2> HIDE DEF before
  <2> QED BY <1>1, <2>1, <2>2, RecordChangeNotPromoted
<1>4. ASSUME NEW p \in Procs, NEW d \in Claims, NEW text \in Texts, NEW cites \in CiteSets,
             NEW status \in StatusInputs, AddClaim(p, d, text, cites, status)
      PROVE  FALSE
  <2> DEFINE claim == [text |-> text, status |-> status, cites |-> cites, verified |-> FALSE,
                       rid   |-> IF saved[d] = NoClaim THEN None ELSE saved[d].rid,
                       moved |-> IF saved[d] = NoClaim THEN {} ELSE saved[d].moved]
  <2>1. claim \in ClaimRecords
    BY InputsAssumption DEF ClaimRecords, TypeOK, Ledgers
  <2>2. Stage(p, d, claim)
    BY <1>4 DEF AddClaim
  <2> HIDE DEF claim
  <2> QED BY <1>3, <2>1, <2>2
<1>5. ASSUME NEW p \in Procs, NEW d \in Claims, NEW status \in StatusInputs, NEW text \in Texts,
             NEW verified \in BOOLEAN, UpdateClaimStatus(p, d, status, text, verified)
      PROVE  FALSE
  <2> DEFINE claim == [saved[d] EXCEPT !.status = status, !.text = text,
                                       !.verified = @ \/ verified]
  <2>1. saved[d] \in ClaimRecords
    BY <1>5 DEF UpdateClaimStatus, TypeOK, Ledgers
  <2>2. saved[d].verified \/ verified \in BOOLEAN
    BY <2>1, Zenon DEF ClaimRecords
  <2>3. claim \in ClaimRecords
    BY <2>1, <2>2, InputsAssumption DEF ClaimRecords
  <2>4. Stage(p, d, claim)
    BY <1>5, Zenon DEF UpdateClaimStatus
  <2> HIDE DEF claim
  <2> QED BY <1>3, <2>3, <2>4
<1>6. ASSUME NEW p \in Procs, NEW d \in Claims, PromoteClaim(p, d) \/ RefusePromotion(p, d)
      PROVE  FALSE
  <2>1. /\ Promotable(d)
        /\ chain' = [chain EXCEPT ![d] = Observe(chain[d], Fields(saved[d]))]
    BY <1>6, Zenon DEF PromoteClaim, RefusePromotion
  <2>2. Fields(saved[d]) \in Revs /\ chain[d] \in Seq(RevisionRows)
    BY <2>1, FieldsType DEF Promotable, TypeOK, Ledgers
  <2> QED BY <1>1, <2>1, <2>2, ObserveNotPromoted
<1>7. ASSUME NEW p \in Procs, NoteStale(p) PROVE FALSE
  <2> DEFINE d == op[p].claim
             old == op[p].mem[d]
             new == [old EXCEPT !.status = "stale", !.moved = registry[op[p].rid].moved]
  <2>1. d \in Claims /\ old \in ClaimRecords /\ registry[op[p].rid] \in Rows
    BY <1>7 DEF TypeOK, CallShape, Shaped, NoteStale
  <2>2. new \in ClaimRecords
    BY <2>1 DEF ClaimRecords, Rows, Statuses
  <2>3. chain' = [chain EXCEPT ![d] = RecordChange(chain[d], Fields(old), Fields(new))]
    BY <1>7 DEF NoteStale
  <2> HIDE DEF old, new, d
  <2>4. Fields(old) \in Revs /\ Fields(new) \in Revs /\ chain[d] \in Seq(RevisionRows)
    BY <2>1, <2>2, FieldsType DEF TypeOK
  <2> QED BY <1>1, <2>1, <2>3, <2>4, RecordChangeNotPromoted
<1>8. ASSUME NEW p \in Procs, RecordPromotion(p) PROVE op[p].claim = c
  BY <1>8 DEF RecordPromotion, PromotedNow, TypeOK
<1>9. ASSUME NEW p \in Procs,
             \/ SaveSession(p) \/ RetractRow(p) \/ AppendRow(p) \/ ScanRow(p)
             \/ FinishCheck(p) \/ CheckStaleness(p) \/ Abort(p)
      PROVE  FALSE
  BY <1>2, <1>9, Zenon DEF SaveSession, RetractRow, AppendRow, ScanRow, FinishCheck,
     CheckStaleness, Abort, stores
<1>10. ASSUME NEW t \in Terminals, Terminal(t) PROVE FALSE
  BY <1>2, <1>10, Zenon DEF Terminal, ReviewClaim, Approve, Decline, stores
<1>11. ASSUME Environment \/ UNCHANGED vars PROVE FALSE
  BY <1>2, <1>11, Zenon DEF Environment, Revoke, ChangeEvidence, EditOutOfBand, NextDay, stores, vars
<1> QED BY <1>4, <1>5, <1>6, <1>7, <1>8, <1>9, <1>10, <1>11 DEF Next, Call, Step

\* A promotion is only ever reported over a live row of the registry: while a call
\* is about to record it, nobody withdraws the row it found or appended
\* (tools_ledger.py:894-956).
THEOREM ReportedOverLiveRow == Spec => PromotionIsLive
<1>1. ASSUME WatchInv, [Next]_vars, NEW c \in Claims, PromotedNow(c)
      PROVE  registry[chain'[c][Len(chain'[c])].rid].status = "promoted"
  <2> PICK p \in Procs : RecordPromotion(p) /\ op[p].claim = c
    BY <1>1, PromotionRecorded DEF WatchInv
  <2> DEFINE row == Revision(op[p].row.rev, "promotion", op[p].rid, op[p].row.approval)
  <2>1. chain'[c] = Append(chain[c], row) /\ row.rid = op[p].rid
    BY <1>1 DEF RecordPromotion, Revision, WatchInv, TypeInv, TypeOK
  <2>2. row \in RevisionRows
    <3>1. op[p].row \in Rows /\ op[p].rid \in RegIds
      BY <1>1 DEF RecordPromotion, WatchInv, TypeInv, CallShape, Shaped
    <3> QED BY <3>1, RevisionType DEF Rows
  <2> HIDE DEF row
  <2>3. chain'[c][Len(chain'[c])] = row
    BY <1>1, <2>1, <2>2 DEF WatchInv, TypeInv, TypeOK
  <2>4. registry[op[p].rid].status = "promoted"
    BY <1>1 DEF RecordPromotion, WatchInv, Watchful
  <2> QED BY <2>1, <2>3, <2>4
<1> DEFINE Reported ==
             \A c \in Claims :
                /\ Len(chain'[c]) > Len(chain[c])
                /\ chain'[c][Len(chain'[c])].reason = "promotion"
                => registry[chain'[c][Len(chain'[c])].rid].status = "promoted"
<1>2. WatchInv /\ [Next]_vars => Reported
  BY <1>1 DEF PromotedNow
<1>3. [][Reported]_vars => PromotionIsLive
  BY PTL DEF PromotionIsLive
<1> QED BY <1>2, <1>3, WatchInit, WatchStep, PTL DEF Spec

-----------------------------------------------------------------------------
(* ClaimLedger implements PromotionAuthority. *)

Granted == [i \in 1 .. Len(approvals) |->
               [claim |-> approvals[i].claim, rev |-> approvals[i].rev]]

PublicRow(row) == [rev |-> row.rev, approval |-> row.approval, status |-> row.status]

Public == [r \in DOMAIN registry |-> PublicRow(registry[r])]

\* The two stores of the contract are written by four steps only.
LEMMA AuthorityMoves ==
    ASSUME [Next]_vars
    PROVE  \/ \E t \in Terminals : Approve(t)
           \/ \E p \in Procs : RetractRow(p) \/ ScanRow(p) \/ AppendRow(p)
           \/ UNCHANGED <<approvals, registry>>
<1>1. ASSUME NEW p \in Procs, Call(p) PROVE UNCHANGED <<approvals, registry>>
  BY <1>1, Zenon DEF Call, AddClaim, UpdateClaimStatus, Stage, PromoteClaim, RefusePromotion,
     CheckStaleness, stores
<1>2. ASSUME NEW p \in Procs, Step(p) \/ Abort(p)
      PROVE  RetractRow(p) \/ ScanRow(p) \/ AppendRow(p) \/ UNCHANGED <<approvals, registry>>
  BY <1>2, Zenon DEF Step, SaveSession, RecordPromotion, NoteStale, FinishCheck, Abort, stores
<1>3. ASSUME NEW t \in Terminals, Terminal(t)
      PROVE  Approve(t) \/ UNCHANGED <<approvals, registry>>
  BY <1>3, Zenon DEF Terminal, ReviewClaim, Decline, stores
<1>4. ASSUME Environment \/ UNCHANGED vars PROVE UNCHANGED <<approvals, registry>>
  BY <1>4, Zenon DEF Environment, Revoke, ChangeEvidence, EditOutOfBand, NextDay, stores, vars
<1> QED BY <1>1, <1>2, <1>3, <1>4 DEF Next

\* aihydro-approve grants.
LEMMA ApproveGrants ==
    ASSUME TypeInv, NEW t \in Terminals, Approve(t)
    PROVE  Authority!Grant
<1> PICK k \in Keys : approvals' = Append(approvals, [claim |-> human[t].claim,
                                                      rev |-> human[t].rev, key |-> k])
  BY DEF Approve
<1> DEFINE c == human[t].claim
           v == human[t].rev
<1>1. c \in Claims /\ v \in Revs /\ approvals \in Seq(Approvals) /\ registry' = registry
  BY DEF Approve, TypeInv, TypeOK
<1>2. Granted' = Append(Granted, [claim |-> c, rev |-> v])
  <2> DEFINE entry == [claim |-> c, rev |-> v, key |-> k]
  <2>1. approvals' = Append(approvals, entry) /\ entry.claim = c /\ entry.rev = v
    OBVIOUS
  <2> HIDE DEF entry, c, v
  <2>2. Len(approvals') = Len(approvals) + 1 /\ approvals'[Len(approvals) + 1] = entry
        /\ \A i \in 1 .. Len(approvals) : approvals'[i] = approvals[i]
    BY <1>1, <2>1
  <2> DEFINE G == Granted
  <2>3. G \in Seq([claim : Claims, rev : Revs]) /\ Len(G) = Len(approvals)
    <3>1. Len(approvals) \in Nat /\ \A i \in 1 .. Len(approvals) : approvals[i] \in Approvals
      BY <1>1
    <3>2. G \in [1 .. Len(approvals) -> [claim : Claims, rev : Revs]]
      BY <3>1 DEF Granted, Approvals
    <3> HIDE DEF G
    <3>3. G \in Seq([claim : Claims, rev : Revs])
      BY <3>1, <3>2, SeqDef, Zenon
    <3>4. Len(G) \in Nat /\ 1 .. Len(G) = 1 .. Len(approvals)
      BY <3>2, <3>3, LenProperties
    <3> QED BY <3>1, <3>3, <3>4
  <2>4. Append(G, [claim |-> c, rev |-> v]) =
          [i \in 1 .. Len(approvals) + 1 |->
             IF i = Len(approvals) + 1 THEN [claim |-> c, rev |-> v] ELSE G[i]]
    BY <1>1, <2>3
  <2> QED BY <1>1, <2>1, <2>2, <2>4 DEF Granted
<1> HIDE DEF c, v
<1> QED BY <1>1, <1>2 DEF Authority!Grant, Granted

\* Marking a row changes the public face of that row alone.
LEMMA MarkedPublic ==
    ASSUME TypeInv, NEW r \in DOMAIN registry, NEW row,
           registry' = [registry EXCEPT ![r] = row],
           row.approval = registry[r].approval, row.rev = registry[r].rev
    PROVE  Public' = [Public EXCEPT ![r].status = row.status]
BY DEF Public, PublicRow

\* mark_retracted retracts, or finds the row retracted.
LEMMA RetractRetracts ==
    ASSUME TypeInv, NEW p \in Procs, RetractRow(p)
    PROVE  Authority!Retract \/ UNCHANGED Authority!authorityVars
<1> PICK r \in op[p].withdraw : registry' = [registry EXCEPT ![r].status = "retracted"]
  BY DEF RetractRow
<1> DEFINE row == [registry[r] EXCEPT !.status = "retracted"]
<1>1. r \in DOMAIN registry /\ registry[r] \in Rows /\ approvals' = approvals
  BY DEF TypeInv, TypeOK, CallShape, Shaped, RetractRow
<1>2. /\ row.approval = registry[r].approval /\ row.rev = registry[r].rev
      /\ row.status = "retracted" /\ registry' = [registry EXCEPT ![r] = row]
  BY <1>1 DEF Rows
<1> HIDE DEF row
<1>3. Public' = [Public EXCEPT ![r].status = "retracted"] /\ Granted' = Granted
  <2>1. Public' = [Public EXCEPT ![r].status = row.status]
    BY <1>1, <1>2, MarkedPublic
  <2>2. Granted' = Granted
    BY <1>1, Zenon DEF Granted
  <2> QED BY <1>2, <2>1, <2>2
<1>4. r \in DOMAIN Public /\ Public[r].status = registry[r].status
  BY <1>1 DEF Public, PublicRow
<1>5. CASE registry[r].status # "retracted"
  <2>1. \E id \in DOMAIN Public :
           /\ Public[id].status # "retracted"
           /\ Public' = [Public EXCEPT ![id].status = "retracted"]
           /\ Granted' = Granted
    BY <1>3, <1>4, <1>5
  <2> QED BY <2>1, Zenon DEF Authority!Retract, Public, PublicRow, Granted
<1>6. CASE registry[r].status = "retracted"
  <2>1. Public' = Public
    BY <1>3, <1>4, <1>6 DEF Public, PublicRow
  <2> QED BY <1>3, <2>1 DEF Authority!authorityVars, Public, PublicRow, Granted
<1> QED BY <1>5, <1>6

\* A staleness pass marks only rows that are still promoted.
LEMMA ScanMarks ==
    ASSUME WatchInv, NEW p \in Procs, ScanRow(p)
    PROVE  Authority!MarkStale \/ UNCHANGED Authority!authorityVars
<1> PICK r \in op[p].todo : Visits(p, r)
  BY ScanVisits
<1> DEFINE row == [registry[r] EXCEPT !.status = "stale", !.moved = ChangedSources(r)]
<1>1. /\ r \in DOMAIN registry /\ registry[r] \in Rows /\ approvals' = approvals
      /\ registry[r].status = "promoted" \/ Gone(op[p].mem, r.claim)
  BY DEF WatchInv, TypeInv, TypeOK, CallShape, Shaped, Visits, ScanRow, Watchful
<1>2. UNCHANGED registry \/ (registry[r].status = "promoted" /\ registry' = [registry EXCEPT ![r] = row])
  BY <1>1, Zenon DEF Visits
<1>3. row.approval = registry[r].approval /\ row.rev = registry[r].rev /\ row.status = "stale"
  BY <1>1 DEF Rows
<1> HIDE DEF row
<1>4. CASE UNCHANGED registry
  BY <1>1, <1>4 DEF Authority!authorityVars
<1>5. CASE registry[r].status = "promoted" /\ registry' = [registry EXCEPT ![r] = row]
  <2>1. Public' = [Public EXCEPT ![r].status = "stale"] /\ Granted' = Granted
    <3>1. Public' = [Public EXCEPT ![r].status = row.status]
      BY <1>1, <1>3, <1>5, MarkedPublic DEF WatchInv
    <3>2. Granted' = Granted
      BY <1>1, Zenon DEF Granted
    <3> QED BY <1>3, <3>1, <3>2
  <2>2. r \in DOMAIN Public /\ Public[r].status = "promoted"
    BY <1>1, <1>5 DEF Public, PublicRow
  <2>3. \E id \in DOMAIN Public :
           /\ Public[id].status = "promoted"
           /\ Public' = [Public EXCEPT ![id].status = "stale"]
           /\ Granted' = Granted
    BY <2>1, <2>2
  <2> QED BY <2>3, Zenon DEF Authority!MarkStale, Public, PublicRow, Granted
<1> QED BY <1>2, <1>4, <1>5

\* append publishes a row that spends an unspent grant, or does nothing.
LEMMA AppendPublishes ==
    ASSUME WatchInv, PendingBacked, NEW p \in Procs, AppendRow(p)
    PROVE  Authority!Publish \/ UNCHANGED Authority!authorityVars
<1>1. approvals' = approvals /\ op[p].pc = "append"
  BY DEF AppendRow
<1>2. UNCHANGED registry \/ Published(p)
  BY <1>1, Zenon DEF AppendRow, Published
<1>3. CASE UNCHANGED registry
  BY <1>1, <1>3 DEF Authority!authorityVars
<1>4. CASE Published(p)
  <2> DEFINE id == op[p].rid
             row == op[p].row
             a == row.approval
  <2>1. id \in RegIds /\ row.status = "promoted" /\ Backing(approvals, chain, id, row)
    BY <1>1 DEF WatchInv, Watchful, TypeInv, CallShape, Shaped, PendingBacked
  <2>2. /\ DOMAIN registry' = DOMAIN registry \union {id}
        /\ id \notin DOMAIN registry
        /\ registry'[id] = row
        /\ \A x \in DOMAIN registry : registry'[x] = registry[x]
    BY <1>4 DEF Published
  <2>3. a \notin {registry[x].approval : x \in DOMAIN registry}
    BY <1>4 DEF Published, Consumed
  <2> HIDE DEF id, row
  <2>4. /\ DOMAIN Public = DOMAIN registry /\ DOMAIN Public' = DOMAIN registry \union {id}
        /\ Public' = [x \in DOMAIN Public \union {id} |->
                        IF x = id THEN PublicRow(row) ELSE Public[x]]
    BY <2>2 DEF Public
  <2>5. /\ a \in DOMAIN Granted /\ Granted[a].claim = id.claim /\ Granted[a].rev = row.rev
        /\ Granted' = Granted
    <3>1. a \in 1 .. Len(approvals)
      BY <2>1 DEF Backing, WatchInv, TypeInv, TypeOK
    <3> QED BY <1>1, <2>1, <3>1 DEF Granted, Backing
  <2>6. a \notin {Public[x].approval : x \in DOMAIN Public}
    BY <2>3 DEF Public, PublicRow
  <2>7. PublicRow(row) = [rev |-> Granted[a].rev, approval |-> a, status |-> "promoted"]
    BY <2>1, <2>5 DEF PublicRow
  <2> HIDE DEF a
  <2> QED
    BY <2>1, <2>2, <2>4, <2>5, <2>6, <2>7
    DEF Authority!Publish, Authority!Spent, Public, PublicRow, Granted
<1> QED BY <1>2, <1>3, <1>4

\* The two stores together keep the contract of approval/records.py ("Single use")
\* and registry/store.py whatever the calls, terminals and failures around them do:
\* a row is published by spending an unspent grant for its own claim and revision,
\* and afterwards it can only be marked stale or retracted.
THEOREM LedgerImplementsAuthority == Spec => ImplementsAuthority
<1>1. Init => Authority!AuthorityInit
  BY DEF Init, Authority!AuthorityInit
<1>2. WatchInv /\ SafetyInv /\ [Next]_vars =>
        [Authority!AuthorityNext]_(Authority!authorityVars)
  <2> SUFFICES ASSUME WatchInv, SafetyInv, [Next]_vars
               PROVE  Authority!AuthorityNext \/ UNCHANGED Authority!authorityVars
    OBVIOUS
  <2>1. CASE UNCHANGED <<approvals, registry>>
    BY <2>1 DEF Authority!authorityVars
  <2> QED BY <2>1, AuthorityMoves, ApproveGrants, RetractRetracts, ScanMarks, AppendPublishes
          DEF Authority!AuthorityNext, WatchInv, SafetyInv
<1> QED BY <1>1, <1>2, WatchInit, WatchStep, SafetyInit, SafetyStep, PTL
        DEF Spec, ImplementsAuthority, Authority!AuthoritySpec

=============================================================================
