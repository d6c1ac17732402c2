-------------------------- MODULE ClaimLedger_agreement --------------------------
(***************************************************************************)
(* What ties the study to its two stores, for all values of the constants:  *)
(* the session file to the revision chain (what is saved is recorded, and   *)
(* is the latest record), and to the registry (a withdrawal reaches it, the *)
(* study asserts no more than it, a withdrawn claim does not come back).    *)
(*                                                                         *)
(* Effects states what each step does to the stores and to the memory of    *)
(* the call under way.  Three invariants rest on it: that memory departs    *)
(* from the session file only where its call says so (FollowInv), every     *)
(* claim in either is in its chain (RecordInv, CurrentInv), and the claims  *)
(* of the one that counts agree with their rows (AgreeInv).                 *)
(***************************************************************************)
EXTENDS ClaimLedger_proofs

Busy(p) == op[p].pc # "idle"

Supports(ledger, c) == ledger[c] # NoClaim /\ ledger[c].status \in Supporting

-----------------------------------------------------------------------------
(* What each step does, as far as the ledger and its stores are concerned. *)

\* A link is kept or forgotten, never made up.
LinkKept(c, claim) == claim.rid = None \/ (saved[c] # NoClaim /\ claim.rid = saved[c].rid)

Staged(p, c, claim) ==
    /\ Free(p)
    /\ UNCHANGED <<saved, registry>>
    /\ op'[p].pc = "save" /\ op'[p].claim = c /\ op'[p].mem = [saved EXCEPT ![c] = claim]
    /\ chain' = [chain EXCEPT ![c] =
                    RecordChange(chain[c], IF saved[c] = NoClaim THEN None ELSE Fields(saved[c]),
                                 Fields(claim))]
    /\ ReinstatementGate(c, claim.status, claim.cites)
    /\ LinkKept(c, claim)

Observed(p, c) ==
    /\ Free(p)
    /\ UNCHANGED <<saved, registry>>
    /\ Promotable(c)
    /\ chain' = [chain EXCEPT ![c] = Observe(chain[c], Fields(saved[c]))]
    /\ \/ UNCHANGED <<op, guard>>
       \/ /\ op'[p].pc = "append" /\ op'[p].claim = c /\ op'[p].mem = saved
          /\ op'[p].row.rev = Fields(saved[c])

Checked(p) ==
    /\ Free(p)
    /\ UNCHANGED <<saved, registry, chain>>
    /\ op'[p].pc = "scan" /\ op'[p].mem = saved /\ op'[p].withdraw = {}
    /\ op'[p].todo = {r \in DOMAIN registry : registry[r].status = "promoted"}

Persisted(p) ==
    LET c == op[p].claim
    IN  /\ op[p].pc = "save"
        /\ saved' = op[p].mem
        /\ UNCHANGED <<registry, chain>>
        /\ \/ Finish(p) /\ (Gone(op[p].mem, c) => LiveRows(c, op[p].mem[c]) = {})
           \/ /\ Gone(op[p].mem, c)
              /\ op'[p].pc = "retract" /\ op'[p].claim = c /\ op'[p].mem = op[p].mem
              /\ op'[p].withdraw = LiveRows(c, op[p].mem[c])

Retracted(p, r) ==
    /\ op[p].pc \in {"retract", "scan"} /\ r \in op[p].withdraw
    /\ UNCHANGED <<saved, chain>>
    /\ registry' = [registry EXCEPT ![r].status = "retracted"]
    /\ \/ op[p].pc = "retract" /\ op[p].withdraw = {r} /\ Finish(p)
       \/ /\ op'[p].pc = op[p].pc /\ op'[p].claim = op[p].claim /\ op'[p].mem = op[p].mem
          /\ op'[p].dirty = op[p].dirty /\ op'[p].withdraw = op[p].withdraw \ {r}
          /\ op'[p].todo = op[p].todo

Appended(p) ==
    /\ op[p].pc = "append"
    /\ UNCHANGED <<saved, chain>>
    /\ \/ Finish(p) /\ UNCHANGED registry
       \/ /\ op'[p].pc = "record" /\ op'[p].claim = op[p].claim /\ op'[p].mem = op[p].mem
          /\ op'[p].row = op[p].row
          /\ UNCHANGED registry \/ Published(p)

RecordedAs(p, mem) ==
    LET c == op[p].claim
    IN  /\ op[p].pc = "record"
        /\ UNCHANGED <<saved, registry>>
        /\ chain' = [chain EXCEPT ![c] =
                        Append(chain[c], Revision(op[p].row.rev, "promotion", op[p].rid,
                                                  op[p].row.approval))]
        /\ op'[p].pc = "save" /\ op'[p].claim = c /\ op'[p].mem = mem
        /\ mem = [op[p].mem EXCEPT ![c].rid = op[p].rid]

Scanned(p, r) ==
    LET c == r.claim
        mem == op[p].mem
    IN  /\ op[p].pc = "scan" /\ op[p].withdraw = {} /\ r \in op[p].todo
        /\ UNCHANGED <<saved, chain>>
        /\ op'[p].mem = mem /\ op'[p].todo = op[p].todo \ {r}
        /\ \/ /\ Gone(mem, c)
              /\ op'[p].pc = "scan" /\ op'[p].withdraw = LiveRows(c, mem[c])
              /\ op'[p].dirty = op[p].dirty
              /\ UNCHANGED registry
           \/ /\ ~ Gone(mem, c)
              /\ op'[p].pc = "scan" /\ op'[p].withdraw = {} /\ op'[p].dirty = op[p].dirty
              /\ UNCHANGED registry
           \/ /\ ~ Gone(mem, c)
              /\ registry' = [registry EXCEPT ![r] =
                                [@ EXCEPT !.status = "stale", !.moved = ChangedSources(r)]]
              /\ op'[p].withdraw = {} /\ op'[p].dirty = TRUE
              /\ \/ op'[p].pc = "note" /\ op'[p].claim = c
                 \/ op'[p].pc = "scan" /\ (mem[c] = NoClaim \/ mem[c].rid \notin {None, r})

Noted(p, new) ==
    LET c == op[p].claim
        old == op[p].mem[c]
    IN  /\ op[p].pc = "note"
        /\ UNCHANGED <<saved, registry>>
        /\ new = [old EXCEPT !.status = "stale", !.moved = registry[op[p].rid].moved]
        /\ chain' = [chain EXCEPT ![c] = RecordChange(chain[c], Fields(old), Fields(new))]
        /\ op'[p].pc = "scan" /\ op'[p].mem = [op[p].mem EXCEPT ![c] = new]
        /\ op'[p].withdraw = op[p].withdraw /\ op'[p].dirty = op[p].dirty
        /\ op'[p].todo = op[p].todo

PassEnded(p) ==
    /\ op[p].pc = "scan" /\ op[p].todo = {} /\ op[p].withdraw = {}
    /\ saved' = IF op[p].dirty THEN op[p].mem ELSE saved
    /\ UNCHANGED <<registry, chain>>
    /\ Finish(p)

\* p moves, and nobody else has a call under way.
Moved(p) ==
    /\ UNCHANGED used
    /\ \A q \in Procs \ {p} : op[q].pc = "idle" /\ op'[q].pc = "idle"
    /\ \/ \E c \in Claims, claim \in ClaimRecords : Staged(p, c, claim)
       \/ \E c \in Claims : Observed(p, c)
       \/ Checked(p)
       \/ Persisted(p) \/ (\E r \in DOMAIN registry : Retracted(p, r))
       \/ Appended(p) \/ (\E mem \in Ledgers : RecordedAs(p, mem))
       \/ (\E r \in DOMAIN registry : Scanned(p, r))
       \/ (\E new \in ClaimRecords : Noted(p, new)) \/ PassEnded(p)

Died(p) ==
    /\ UNCHANGED <<saved, chain, registry>>
    /\ Finish(p)
    /\ used' # used /\ used'["abort"] # 0 /\ used'["edit"] = used["edit"]
    /\ \A q \in Procs \ {p} : op'[q] = op[q]

Edited(c, claim) ==
    /\ guard = None
    /\ UNCHANGED <<chain, registry, op, guard>>
    /\ saved' = [saved EXCEPT ![c] = claim]
    /\ LinkKept(c, claim)
    /\ used'["edit"] = used["edit"] + 1

Untouched ==
    /\ UNCHANGED <<saved, chain, registry, op, guard>>
    /\ used'["edit"] = used["edit"] /\ used'["abort"] = used["abort"]

\* add_claim and update_claim_status stage a claim that passed the gate.
LEMMA StageEffect ==
    ASSUME WatchInv, NEW p \in Procs, NEW c \in Claims, NEW claim,
           Free(p), Stage(p, c, claim), LinkKept(c, claim),
           ReinstatementGate(c, claim.status, claim.cites)
    PROVE  Staged(p, c, claim) /\ UNCHANGED used
<1> DEFINE mem == [saved EXCEPT ![c] = claim]
           call == [IdleCall EXCEPT !.pc = "save", !.claim = c, !.mem = mem]
<1>1. op'[p] = call
  BY DEF Stage, WatchInv, TypeInv, TypeOK
<1> HIDE DEF mem
<1>2. call.pc = "save" /\ call.claim = c /\ call.mem = mem
  BY DEF IdleCall
<1> HIDE DEF call
<1> QED BY <1>1, <1>2 DEF mem, Staged, Stage, world

\* The calls that start, and a promotion that is refused.
LEMMA CallEffect ==
    ASSUME WatchInv, NEW p \in Procs, Call(p)
    PROVE  /\ UNCHANGED used
           /\ \/ \E c \in Claims, claim \in ClaimRecords : Staged(p, c, claim)
              \/ \E c \in Claims : Observed(p, c)
              \/ Checked(p)
<1>1. ASSUME NEW c \in Claims, NEW text \in Texts, NEW cites \in CiteSets,
             NEW status \in StatusInputs, AddClaim(p, c, text, cites, status)
      PROVE  \E claim \in ClaimRecords : Staged(p, c, claim) /\ UNCHANGED used
  <2> DEFINE claim == [text |-> text, status |-> status, cites |-> cites, verified |-> FALSE,
                       rid   |-> IF saved[c] = NoClaim THEN None ELSE saved[c].rid,
                       moved |-> IF saved[c] = NoClaim THEN {} ELSE saved[c].moved]
  <2>1. saved[c] \in ClaimRecords \union {NoClaim}
    BY DEF WatchInv, TypeInv, TypeOK, Ledgers
  <2>2. claim \in ClaimRecords
    BY <2>1, InputsAssumption DEF ClaimRecords
  <2>3. LinkKept(c, claim) /\ claim.status = status /\ claim.cites = cites
    BY DEF LinkKept
  <2>4. Free(p) /\ Stage(p, c, claim) /\ ReinstatementGate(c, status, cites)
    BY <1>1 DEF AddClaim
  <2> HIDE DEF claim
  <2> QED BY <2>2, <2>3, <2>4, StageEffect
<1>2. ASSUME NEW c \in Claims, NEW status \in StatusInputs, NEW text \in Texts,
             NEW verified \in BOOLEAN, UpdateClaimStatus(p, c, status, text, verified)
      PROVE  \E claim \in ClaimRecords : Staged(p, c, claim) /\ UNCHANGED used
  <2> DEFINE claim == [saved[c] EXCEPT !.status = status, !.text = text,
                                       !.verified = @ \/ verified]
  <2>1. saved[c] # NoClaim /\ saved[c] \in ClaimRecords
    BY <1>2 DEF UpdateClaimStatus, WatchInv, TypeInv, TypeOK, Ledgers
  <2>2. /\ claim \in ClaimRecords
        /\ claim.rid = saved[c].rid /\ claim.status = status /\ claim.cites = saved[c].cites
    <3>1. saved[c].verified \/ verified \in BOOLEAN
      BY <2>1, Zenon DEF ClaimRecords
    <3> QED BY <2>1, <3>1, InputsAssumption DEF ClaimRecords
  <2>3. LinkKept(c, claim)
    BY <2>1, <2>2 DEF LinkKept
  <2>4. Free(p) /\ Stage(p, c, claim) /\ ReinstatementGate(c, status, saved[c].cites)
    BY <1>2, Zenon DEF UpdateClaimStatus
  <2> HIDE DEF claim
  <2> QED BY <2>2, <2>3, <2>4, StageEffect
<1>3. ASSUME NEW c \in Claims, PromoteClaim(p, c) PROVE Observed(p, c) /\ UNCHANGED used
  <2> DEFINE Target(i, n) ==
               [IdleCall EXCEPT !.pc = "append", !.claim = c, !.mem = saved,
                  !.rid = RegistryId(c, Fields(saved[c]), n),
                  !.row = [rev |-> Fields(saved[c]),
                           revno |-> Len(Observe(chain[c], Fields(saved[c]))),
                           approval |-> i, status |-> "promoted", moved |-> {}]]
  <2>1. /\ Free(p) /\ Promotable(c) /\ UNCHANGED <<saved, registry, world>>
        /\ chain' = [chain EXCEPT ![c] = Observe(chain[c], Fields(saved[c]))]
        /\ \E i, n : op' = [op EXCEPT ![p] = Target(i, n)]
    BY <1>3, Zenon DEF PromoteClaim
  <2> PICK i, n : op' = [op EXCEPT ![p] = Target(i, n)]
    BY <2>1, Zenon
  <2>2. op'[p] = Target(i, n)
    BY Zenon DEF WatchInv, TypeInv, TypeOK
  <2>3. /\ Target(i, n).pc = "append" /\ Target(i, n).claim = c /\ Target(i, n).mem = saved
        /\ Target(i, n).row.rev = Fields(saved[c])
    BY DEF IdleCall
  <2> HIDE DEF Target
  <2> QED BY <2>1, <2>2, <2>3 DEF Observed, world
<1>4. ASSUME NEW c \in Claims, RefusePromotion(p, c) PROVE Observed(p, c) /\ UNCHANGED used
  BY <1>4 DEF RefusePromotion, Observed, world
<1>5. ASSUME CheckStaleness(p) PROVE Checked(p) /\ UNCHANGED used
  <2> DEFINE promoted == {r \in DOMAIN registry : registry[r].status = "promoted"}
             call == [IdleCall EXCEPT !.pc = "scan", !.mem = saved, !.todo = promoted]
  <2>1. op'[p] = call /\ Free(p) /\ UNCHANGED <<saved, registry, chain, used>>
    BY <1>5 DEF CheckStaleness, stores, world, WatchInv, TypeInv, TypeOK
  <2>2. call.pc = "scan" /\ call.mem = saved /\ call.withdraw = {} /\ call.todo = promoted
    BY DEF IdleCall
  <2> HIDE DEF call
  <2> QED BY <2>1, <2>2 DEF Checked
<1> QED BY <1>1, <1>2, <1>3, <1>4, <1>5 DEF Call

\* session.save, and the retraction it may start.
LEMMA SaveEffect ==
    ASSUME WatchInv, NEW p \in Procs, SaveSession(p)
    PROVE  Persisted(p) /\ UNCHANGED used
<1>1. op[p] \in Calls /\ op[p].pc = "save"
  BY DEF SaveSession, WatchInv, TypeInv, TypeOK
<1> DEFINE c == op[p].claim
           claim == op[p].mem[c]
           live == LiveRows(c, claim)
           call == [op[p] EXCEPT !.pc = "retract", !.withdraw = live]
<1>2. /\ saved' = op[p].mem /\ UNCHANGED <<registry, chain, used>>
      /\ \/ claim.status = "retracted" /\ live # {} /\ op' = [op EXCEPT ![p] = call]
         \/ ~ (claim.status = "retracted" /\ live # {}) /\ Finish(p)
  BY DEF SaveSession, world
<1>4. CASE claim.status = "retracted" /\ live # {} /\ op' = [op EXCEPT ![p] = call]
  <2> HIDE DEF live
  <2>1. call.pc = "retract" /\ call.claim = c /\ call.mem = op[p].mem /\ call.withdraw = live
    BY <1>1 DEF Calls
  <2>2. op'[p] = call
    BY <1>4 DEF WatchInv, TypeInv, TypeOK
  <2> HIDE DEF call
  <2>3. claim # NoClaim
    BY <1>1, NoClaimAssumption DEF WatchInv, TypeInv, CallShape, Shaped
  <2>4. Gone(op[p].mem, c)
    BY <1>4, <2>3 DEF Gone
  <2> QED BY <1>1, <1>2, <2>1, <2>2, <2>4 DEF Persisted, live
<1>5. CASE ~ (claim.status = "retracted" /\ live # {}) /\ Finish(p)
  BY <1>1, <1>2, <1>5 DEF Persisted, Gone
<1> QED BY <1>2, <1>4, <1>5

\* mark_retracted on one of the rows listed.
LEMMA RetractEffect ==
    ASSUME WatchInv, NEW p \in Procs, RetractRow(p)
    PROVE  (\E r \in DOMAIN registry : Retracted(p, r)) /\ UNCHANGED used
<1> PICK r \in op[p].withdraw :
        /\ registry' = [registry EXCEPT ![r].status = "retracted"]
        /\ \/ op[p].pc = "retract" /\ op[p].withdraw = {r} /\ Finish(p)
           \/ op' = [op EXCEPT ![p] = [@ EXCEPT !.withdraw = op[p].withdraw \ {r}]]
  BY Zenon DEF RetractRow
<1>1. /\ op[p] \in Calls /\ op[p].pc \in {"retract", "scan"} /\ r \in DOMAIN registry
      /\ UNCHANGED <<saved, chain, used>>
  BY DEF RetractRow, world, WatchInv, TypeInv, TypeOK, CallShape, Shaped
<1> DEFINE call == [op[p] EXCEPT !.withdraw = op[p].withdraw \ {r}]
<1>2. /\ call.pc = op[p].pc /\ call.claim = op[p].claim /\ call.mem = op[p].mem
      /\ call.dirty = op[p].dirty /\ call.withdraw = op[p].withdraw \ {r}
      /\ call.todo = op[p].todo
  BY <1>1 DEF Calls
<1>3. op' = [op EXCEPT ![p] = call] => op'[p] = call
  BY DEF WatchInv, TypeInv, TypeOK
<1> HIDE DEF call
<1> QED BY <1>1, <1>2, <1>3 DEF Retracted, call

\* append publishes, finds the row there, or refuses.
LEMMA AppendEffect ==
    ASSUME WatchInv, NEW p \in Procs, AppendRow(p)
    PROVE  Appended(p) /\ UNCHANGED used
<1>1. op[p] \in Calls /\ op[p].pc = "append" /\ UNCHANGED <<saved, chain, used>>
  BY DEF AppendRow, world, WatchInv, TypeInv, TypeOK
<1> DEFINE call == [op[p] EXCEPT !.pc = "record"]
<1>2. /\ call.pc = "record" /\ call.claim = op[p].claim /\ call.mem = op[p].mem
      /\ call.row = op[p].row
  BY <1>1 DEF Calls
<1>3. \/ Finish(p) /\ UNCHANGED registry
      \/ op' = [op EXCEPT ![p] = call] /\ (UNCHANGED registry \/ Published(p))
  BY Zenon DEF AppendRow, Published
<1>4. op' = [op EXCEPT ![p] = call] => op'[p] = call
  BY DEF WatchInv, TypeInv, TypeOK
<1> HIDE DEF call
<1> QED BY <1>1, <1>2, <1>3, <1>4 DEF Appended

\* The bookkeeping of a promotion.
LEMMA RecordEffect ==
    ASSUME WatchInv, NEW p \in Procs, RecordPromotion(p)
    PROVE  (\E mem \in Ledgers : RecordedAs(p, mem)) /\ UNCHANGED used
<1>1. /\ op[p] \in Calls /\ op[p].pc = "record" /\ op[p].claim \in Claims
      /\ op[p].mem[op[p].claim] \in ClaimRecords /\ op[p].rid \in RegIds
      /\ UNCHANGED <<saved, registry, used>>
  BY DEF RecordPromotion, world, WatchInv, TypeInv, TypeOK, CallShape, Shaped
<1> DEFINE mem == [op[p].mem EXCEPT ![op[p].claim].rid = op[p].rid]
           call == [op[p] EXCEPT !.pc = "save", !.mem[op[p].claim].rid = op[p].rid]
<1>2. mem \in Ledgers
  <2>1. [op[p].mem[op[p].claim] EXCEPT !.rid = op[p].rid] \in ClaimRecords
    BY <1>1 DEF ClaimRecords
  <2> QED BY <1>1, <2>1 DEF Ledgers, Calls
<1>3. call.pc = "save" /\ call.claim = op[p].claim /\ call.mem = mem
  BY <1>1 DEF Calls
<1>4. op' = [op EXCEPT ![p] = call]
  BY DEF RecordPromotion
<1>5. chain' = [chain EXCEPT ![op[p].claim] =
                  Append(chain[op[p].claim],
                         Revision(op[p].row.rev, "promotion", op[p].rid, op[p].row.approval))]
  BY DEF RecordPromotion
<1> HIDE DEF call
<1>6. op'[p] = call
  BY <1>4 DEF WatchInv, TypeInv, TypeOK
<1>7. RecordedAs(p, mem)
  BY <1>1, <1>3, <1>5, <1>6 DEF RecordedAs
<1> HIDE DEF mem
<1> QED BY <1>1, <1>2, <1>7

\* A claim that follows its stale row.
LEMMA NoteEffect ==
    ASSUME WatchInv, NEW p \in Procs, NoteStale(p)
    PROVE  (\E new \in ClaimRecords : Noted(p, new)) /\ UNCHANGED used
<1> DEFINE c == op[p].claim
           old == op[p].mem[c]
           new == [old EXCEPT !.status = "stale", !.moved = registry[op[p].rid].moved]
           call == [op[p] EXCEPT !.pc = "scan", !.claim = None, !.rid = None, !.mem[c] = new]
<1>1. /\ op[p] \in Calls /\ op[p].pc = "note" /\ c \in Claims /\ old \in ClaimRecords
      /\ registry[op[p].rid] \in Rows /\ UNCHANGED <<saved, registry, used>>
  BY DEF NoteStale, world, WatchInv, TypeInv, TypeOK, CallShape, Shaped
<1>2. new \in ClaimRecords
  BY <1>1 DEF ClaimRecords, Rows, Statuses
<1>3. /\ chain' = [chain EXCEPT ![c] = RecordChange(chain[c], Fields(old), Fields(new))]
      /\ op' = [op EXCEPT ![p] = call]
  BY DEF NoteStale
<1>4. /\ call.pc = "scan" /\ call.mem = [op[p].mem EXCEPT ![c] = new]
      /\ call.withdraw = op[p].withdraw /\ call.dirty = op[p].dirty
      /\ call.todo = op[p].todo
  <2> HIDE DEF new
  <2> QED BY <1>1 DEF Calls
<1> HIDE DEF call
<1>5. op'[p] = call
  BY <1>3 DEF WatchInv, TypeInv, TypeOK
<1>6. Noted(p, new)
  BY <1>1, <1>3, <1>4, <1>5 DEF Noted
<1> HIDE DEF new
<1> QED BY <1>1, <1>2, <1>6

\* One visit of a staleness pass.
LEMMA ScanEffect ==
    ASSUME WatchInv, NEW p \in Procs, ScanRow(p)
    PROVE  (\E r \in DOMAIN registry : Scanned(p, r)) /\ UNCHANGED used
<1>1. /\ op[p] \in Calls /\ op[p].pc = "scan" /\ op[p].withdraw = {}
      /\ op[p].todo \subseteq DOMAIN registry /\ UNCHANGED <<saved, chain, used>>
  BY DEF ScanRow, world, WatchInv, TypeInv, TypeOK, CallShape, Shaped
<1> DEFINE Next0(r) == [op[p] EXCEPT !.todo = @ \ {r}]
           Live(r) == LiveRows(r.claim, op[p].mem[r.claim])
           Visit(r) == [Next0(r) EXCEPT !.withdraw = Live(r)]
           NotedCall(r) == [Next0(r) EXCEPT !.pc = "note", !.claim = r.claim, !.rid = r,
                                            !.dirty = TRUE]
           Kept(r) == [Next0(r) EXCEPT !.dirty = TRUE]
<1>2. \E r \in op[p].todo :
        \/ Gone(op[p].mem, r.claim) /\ op' = [op EXCEPT ![p] = Visit(r)] /\ UNCHANGED registry
        \/ ~ Gone(op[p].mem, r.claim) /\ op' = [op EXCEPT ![p] = Next0(r)] /\ UNCHANGED registry
        \/ /\ ~ Gone(op[p].mem, r.claim)
           /\ registry' = [registry EXCEPT ![r] =
                             [@ EXCEPT !.status = "stale", !.moved = ChangedSources(r)]]
           /\ \/ op' = [op EXCEPT ![p] = NotedCall(r)]
              \/ /\ op' = [op EXCEPT ![p] = Kept(r)]
                 /\ op[p].mem[r.claim] = NoClaim \/ op[p].mem[r.claim].rid \notin {None, r}
  BY Zenon DEF ScanRow, Gone
<1> PICK r \in op[p].todo :
        \/ Gone(op[p].mem, r.claim) /\ op' = [op EXCEPT ![p] = Visit(r)] /\ UNCHANGED registry
        \/ ~ Gone(op[p].mem, r.claim) /\ op' = [op EXCEPT ![p] = Next0(r)] /\ UNCHANGED registry
        \/ /\ ~ Gone(op[p].mem, r.claim)
           /\ registry' = [registry EXCEPT ![r] =
                             [@ EXCEPT !.status = "stale", !.moved = ChangedSources(r)]]
           /\ \/ op' = [op EXCEPT ![p] = NotedCall(r)]
              \/ /\ op' = [op EXCEPT ![p] = Kept(r)]
                 /\ op[p].mem[r.claim] = NoClaim \/ op[p].mem[r.claim].rid \notin {None, r}
  BY <1>2, Zenon
<1> HIDE DEF Live
<1>3. /\ Next0(r) \in Calls /\ Next0(r).pc = "scan" /\ Next0(r).mem = op[p].mem
      /\ Next0(r).withdraw = {} /\ Next0(r).dirty = op[p].dirty
      /\ Next0(r).todo = op[p].todo \ {r}
  BY <1>1 DEF Calls
<1> HIDE DEF Next0
<1>4. /\ Visit(r).pc = "scan" /\ Visit(r).mem = op[p].mem /\ Visit(r).withdraw = Live(r)
      /\ Visit(r).dirty = op[p].dirty /\ Visit(r).todo = op[p].todo \ {r}
  BY <1>3 DEF Calls
<1>5. /\ NotedCall(r).pc = "note" /\ NotedCall(r).claim = r.claim
      /\ NotedCall(r).mem = op[p].mem /\ NotedCall(r).withdraw = {} /\ NotedCall(r).dirty = TRUE
      /\ NotedCall(r).todo = op[p].todo \ {r}
  BY <1>3 DEF Calls
<1>6. /\ Kept(r).pc = "scan" /\ Kept(r).mem = op[p].mem /\ Kept(r).withdraw = {}
      /\ Kept(r).dirty = TRUE /\ Kept(r).todo = op[p].todo \ {r}
  BY <1>3 DEF Calls
<1> HIDE DEF Visit, NotedCall, Kept
<1>7. ASSUME NEW call, op' = [op EXCEPT ![p] = call] PROVE op'[p] = call
  BY <1>7 DEF WatchInv, TypeInv, TypeOK
<1>8. Scanned(p, r)
  BY <1>1, <1>3, <1>4, <1>5, <1>6, <1>7 DEF Scanned, Live
<1> QED BY <1>1, <1>8

\* The last step of a staleness pass.
LEMMA FinishEffect ==
    ASSUME WatchInv, NEW p \in Procs, FinishCheck(p)
    PROVE  PassEnded(p) /\ UNCHANGED used
BY DEF FinishCheck, PassEnded, world

\* A hand edit of the session file.
LEMMA EditEffect ==
    ASSUME WatchInv, NEW c \in Claims, NEW text \in Texts, NEW cites \in CiteSets,
           NEW status \in StatusInputs, EditOutOfBand(c, text, cites, status)
    PROVE  \E claim : Edited(c, claim)
<1> DEFINE claim == IF saved[c] = NoClaim
                      THEN [text |-> text, status |-> status, cites |-> cites,
                            verified |-> FALSE, rid |-> None, moved |-> {}]
                      ELSE [saved[c] EXCEPT !.text = text, !.cites = cites, !.status = status]
<1>1. /\ saved' = [saved EXCEPT ![c] = claim] /\ guard = None
      /\ UNCHANGED <<chain, registry, op, guard>>
      /\ saved[c] \in ClaimRecords \union {NoClaim}
  BY DEF EditOutOfBand, WatchInv, TypeInv, TypeOK, Ledgers
<1>2. LinkKept(c, claim)
  BY <1>1 DEF ClaimRecords, LinkKept
<1>3. used'["edit"] = used["edit"] + 1
  BY DEF EditOutOfBand, Use, WatchInv, TypeInv, TypeOK, Faults
<1> HIDE DEF claim
<1> QED BY <1>1, <1>2, <1>3 DEF Edited

\* Every step of the system, by what it does to the ledger.
LEMMA Effects ==
    ASSUME WatchInv, [Next]_vars
    PROVE  \/ Untouched
           \/ \E p \in Procs : Moved(p) \/ Died(p)
           \/ \E c \in Claims : \E claim : Edited(c, claim)
<1> USE DEF WatchInv
<1>1. ASSUME NEW p \in Procs, Call(p) PROVE Moved(p)
  <2>1. Free(p) /\ \A q \in Procs : op[q].pc = "idle"
    <3>1. Free(p)
      BY <1>1, Zenon DEF Call, AddClaim, UpdateClaimStatus, PromoteClaim, RefusePromotion,
         CheckStaleness
    <3> QED BY <3>1, AbsentAssumption DEF Free, GuardExcludes
  <2>2. \A q \in Procs \ {p} : op'[q] = op[q]
    BY <1>1, CallStarts DEF TypeInv, TypeOK
  <2> QED BY <1>1, <2>1, <2>2, CallEffect DEF Moved
<1>2. ASSUME NEW p \in Procs, Step(p) \/ Abort(p), NEW q \in Procs \ {p}
      PROVE  op[q].pc = "idle" /\ op'[q] = op[q]
  <2>1. op[p].pc # "idle"
    <3>1. op[p].pc \in {"save", "retract", "append", "record", "scan", "note"}
          \/ op[p].pc # "idle"
      BY <1>2, Zenon DEF Step, SaveSession, RetractRow, AppendRow, RecordPromotion, ScanRow,
         NoteStale, FinishCheck, Abort
    <3> QED BY <3>1
  <2>2. \E call : op' = [op EXCEPT ![p] = call]
    BY <1>2, StepCall DEF Abort, Finish
  <2> QED BY <2>1, <2>2, AbsentAssumption DEF GuardExcludes, TypeInv, TypeOK
<1>3. ASSUME NEW p \in Procs, Step(p) PROVE Moved(p)
  BY <1>2, <1>3, SaveEffect, RetractEffect, AppendEffect, RecordEffect, ScanEffect, NoteEffect,
     FinishEffect DEF Step, Moved
<1>4. ASSUME NEW p \in Procs, Abort(p) PROVE Died(p)
  <2>1. used'["abort"] = used["abort"] + 1 /\ used'["edit"] = used["edit"]
        /\ used["abort"] \in Nat
    BY <1>4 DEF Abort, Use, TypeInv, TypeOK, Faults
  <2> QED BY <1>2, <1>4, <2>1 DEF Abort, stores, Died
<1>5. ASSUME NEW t \in Terminals, Terminal(t) PROVE Untouched
  BY <1>5, Zenon DEF Terminal, ReviewClaim, Approve, Decline, stores, world, Untouched
<1>6. ASSUME Environment PROVE Untouched \/ \E c \in Claims : \E claim : Edited(c, claim)
  <2>1. ASSUME NEW s \in Sources, NEW v, ChangeEvidence(s, v) PROVE Untouched
    BY <2>1 DEF ChangeEvidence, Use, stores, Untouched, TypeInv, TypeOK, Faults
  <2>2. ASSUME (\E k \in Keys : Revoke(k)) \/ NextDay PROVE Untouched
    BY <2>2 DEF Revoke, NextDay, stores, Untouched
  <2> QED BY <1>6, <2>1, <2>2, EditEffect DEF Environment
<1>7. ASSUME UNCHANGED vars PROVE Untouched
  BY <1>7 DEF vars, stores, Untouched
<1> QED BY <1>1, <1>3, <1>4, <1>5, <1>6, <1>7 DEF Next

-----------------------------------------------------------------------------
(* The memory of a call departs from the session file only where it says so. *)

\* A claim is only linked to a row that was published.
Rooted(rows, ledger) ==
    \A c \in Claims :
        ledger[c] # NoClaim /\ ledger[c].rid # None => ledger[c].rid \in DOMAIN rows

\* What the call may save over claim c: it passed the gate, or it is the claim as
\* saved, apart from its link.
Passed(c, claim) ==
    \/ ReinstatementGate(c, claim.status, claim.cites)
    \/ Supports(saved, c) /\ Body(claim) = Body(saved[c])

Follows(call) ==
    /\ Rooted(registry, call.mem)
    /\ call.pc \in {"retract", "append", "record"} => call.mem = saved
    /\ call.pc \in {"append", "record"} =>
          Supports(saved, call.claim) /\ Body(call.row.rev) = Body(saved[call.claim])
    /\ call.pc \in {"scan", "note"} =>
          /\ ~ call.dirty => call.mem = saved
          /\ \A c \in Claims :
                \/ call.mem[c] = saved[c]
                \/ saved[c] # NoClaim /\ call.mem[c] # NoClaim /\ call.mem[c].status = "stale"
    /\ call.pc = "note" => call.dirty
    /\ call.pc = "save" =>
          /\ \A c \in Claims \ {call.claim} : call.mem[c] = saved[c]
          /\ Passed(call.claim, call.mem[call.claim])

FollowInv ==
    /\ Rooted(registry, saved)
    /\ \A p \in Procs : Busy(p) => Follows(op[p])

\* The call just ended is idle.
LEMMA FinishIdle ==
    ASSUME WatchInv, NEW p \in Procs, Finish(p)
    PROVE  op'[p].pc = "idle" /\ ~ Busy(p)'
BY DEF Finish, IdleCall, Busy, WatchInv, TypeInv, TypeOK

\* At rest nobody has a call under way, and the other way round.
LEMMA RestIsIdle ==
    ASSUME WatchInv
    PROVE  AtRest <=> \A p \in Procs : ~ Busy(p)
BY AbsentAssumption DEF WatchInv, TypeInv, TypeOK, GuardExcludes, AtRest, Busy

\* The gate reads the session file and the registry.
LEMMA GateKept ==
    ASSUME UNCHANGED <<saved, registry>>, NEW c, NEW status, NEW cites,
           ReinstatementGate(c, status, cites)
    PROVE  ReinstatementGate(c, status, cites)'
BY DEF ReinstatementGate, RowsOf, StaleBasis

\* A link that is kept points at a published row.
LEMMA RootedKept ==
    ASSUME WatchInv, Rooted(registry, saved), NEW c \in Claims, NEW claim, LinkKept(c, claim)
    PROVE  Rooted(registry, [saved EXCEPT ![c] = claim])
BY DEF Rooted, LinkKept, WatchInv, TypeInv, TypeOK, Ledgers

\* The memory of p follows the session file after each of its moves.
LEMMA FollowMove ==
    ASSUME WatchInv, WatchInv', FollowInv, NEW p \in Procs, Moved(p)
    PROVE  Rooted(registry', saved') /\ (Busy(p)' => Follows(op[p])')
<1> USE DEF FollowInv
<1>0. op[p] \in Calls /\ Watchful(registry, op[p]) /\ saved \in Ledgers
  BY DEF WatchInv, TypeInv, TypeOK
<1>1. ASSUME NEW c \in Claims, NEW claim \in ClaimRecords, Staged(p, c, claim)
      PROVE  Rooted(registry', saved') /\ Follows(op[p])'
  <2>1. Rooted(registry', op'[p].mem)
    BY <1>1, RootedKept DEF Staged
  <2>2. ReinstatementGate(c, claim.status, claim.cites)'
    BY <1>1, GateKept DEF Staged
  <2>3. op'[p].mem[c] = claim /\ \A d \in Claims \ {c} : op'[p].mem[d] = saved[d]
    BY <1>0, <1>1 DEF Staged, Ledgers
  <2>4. Passed(c, claim)'
    BY <2>2 DEF Passed
  <2> QED BY <1>1, <2>1, <2>3, <2>4 DEF Staged, Follows
<1>2. ASSUME NEW c \in Claims, Observed(p, c)
      PROVE  Rooted(registry', saved') /\ (Busy(p)' => Follows(op[p])')
  <2>1. Supports(saved, c) /\ Body(Fields(saved[c])) = Body(saved[c])
    BY <1>2 DEF Observed, Promotable, Supports, Body, Fields
  <2> QED BY <1>2, <2>1 DEF Observed, Free, Busy, Follows, Supports
<1>3. ASSUME Checked(p) PROVE Rooted(registry', saved') /\ Follows(op[p])'
  BY <1>3 DEF Checked, Follows
<1>4. ASSUME Persisted(p) PROVE Rooted(registry', saved') /\ (Busy(p)' => Follows(op[p])')
  <2>1. Rooted(registry', saved')
    BY <1>4 DEF Persisted, Follows, Busy
  <2> QED BY <1>4, <2>1, FinishIdle DEF Persisted, Follows
<1>5. ASSUME NEW r \in DOMAIN registry, Retracted(p, r)
      PROVE  Rooted(registry', saved') /\ (Busy(p)' => Follows(op[p])')
  <2>1. DOMAIN registry' = DOMAIN registry /\ saved' = saved
    BY <1>5 DEF Retracted
  <2>2. Follows(op[p]) /\ Rooted(registry', saved')
    BY <1>5, <2>1 DEF Retracted, Busy, Rooted
  <2>3. Busy(p)' => /\ op'[p].pc = op[p].pc /\ op'[p].mem = op[p].mem
                    /\ op'[p].dirty = op[p].dirty
    BY <1>5, FinishIdle DEF Retracted
  <2> QED BY <1>5, <2>1, <2>2, <2>3 DEF Retracted, Follows, Rooted
<1>6. ASSUME Appended(p) PROVE Rooted(registry', saved') /\ (Busy(p)' => Follows(op[p])')
  <2>1. DOMAIN registry \subseteq DOMAIN registry' /\ saved' = saved
    BY <1>6 DEF Appended, Published
  <2>2. Follows(op[p]) /\ Rooted(registry', saved')
    BY <1>6, <2>1 DEF Appended, Busy, Rooted
  <2>3. Busy(p)' => /\ op'[p].pc = "record" /\ op'[p].claim = op[p].claim
                    /\ op'[p].mem = op[p].mem /\ op'[p].row = op[p].row
    BY <1>6, FinishIdle DEF Appended
  <2> QED BY <1>6, <2>1, <2>2, <2>3 DEF Appended, Follows, Rooted, Supports
<1>7. ASSUME NEW mem \in Ledgers, RecordedAs(p, mem)
      PROVE  Rooted(registry', saved') /\ Follows(op[p])'
  <2> DEFINE c == op[p].claim
  <2>1. c \in Claims /\ op[p].rid \in DOMAIN registry /\ Follows(op[p]) /\ op[p].mem = saved
        /\ saved[c] \in ClaimRecords
    BY <1>0, <1>7 DEF RecordedAs, Watchful, Follows, Busy, WatchInv, TypeInv, CallShape, Shaped
  <2>2. /\ mem[c] = [saved[c] EXCEPT !.rid = op[p].rid]
        /\ \A d \in Claims \ {c} : mem[d] = saved[d]
    BY <1>0, <1>7, <2>1 DEF RecordedAs, Ledgers
  <2>3. mem[c].rid = op[p].rid /\ Body(mem[c]) = Body(saved[c])
    BY <2>1, <2>2 DEF ClaimRecords, Body
  <2>4. Rooted(registry, mem)
    BY <2>1, <2>2, <2>3 DEF Rooted
  <2>5. Passed(c, mem[c])'
    BY <1>7, <2>1, <2>3 DEF RecordedAs, Follows, Passed, Supports, Body
  <2> QED BY <1>7, <2>2, <2>4, <2>5 DEF RecordedAs, Follows
<1>8. ASSUME NEW r \in DOMAIN registry, Scanned(p, r)
      PROVE  Rooted(registry', saved') /\ Follows(op[p])'
  <2>1. DOMAIN registry' = DOMAIN registry /\ saved' = saved
    BY <1>8 DEF Scanned
  <2>2. Follows(op[p]) /\ Rooted(registry', saved')
    BY <1>8, <2>1 DEF Scanned, Busy, Rooted
  <2>3. /\ op'[p].pc \in {"scan", "note"} /\ op'[p].mem = op[p].mem
        /\ op'[p].dirty = op[p].dirty \/ op'[p].dirty = TRUE
        /\ op'[p].pc = "note" => op'[p].dirty
    BY <1>8 DEF Scanned
  <2> QED BY <1>8, <2>1, <2>2, <2>3 DEF Scanned, Follows, Rooted
<1>9. ASSUME NEW new \in ClaimRecords, Noted(p, new)
      PROVE  Rooted(registry', saved') /\ Follows(op[p])'
  <2> DEFINE c == op[p].claim
  <2>1. c \in Claims /\ op[p].mem[c] \in ClaimRecords /\ op[p].mem[c] # NoClaim
        /\ Follows(op[p]) /\ op[p].pc = "note" /\ op[p].mem \in Ledgers
    BY <1>0, <1>9 DEF Noted, Watchful, Busy, WatchInv, TypeInv, CallShape, Shaped, Calls
  <2>2. new.status = "stale" /\ new.rid = op[p].mem[c].rid /\ new # NoClaim
    BY <1>9, <2>1, NoClaimAssumption DEF Noted, ClaimRecords
  <2>3. op'[p].mem[c] = new /\ \A d \in Claims \ {c} : op'[p].mem[d] = op[p].mem[d]
    BY <1>9, <2>1 DEF Noted, Ledgers
  <2>4. /\ op'[p].pc = "scan" /\ op'[p].dirty = op[p].dirty /\ op[p].dirty
        /\ UNCHANGED <<saved, registry>>
    BY <1>9, <2>1 DEF Noted, Follows
  <2>5. Rooted(registry', op'[p].mem)
    BY <2>1, <2>2, <2>3, <2>4 DEF Follows, Rooted
  <2>6. saved[c] # NoClaim
    BY <2>1 DEF Follows
  <2> QED BY <2>1, <2>2, <2>3, <2>4, <2>5, <2>6 DEF Follows
<1>10. ASSUME PassEnded(p) PROVE Rooted(registry', saved') /\ (Busy(p)' => Follows(op[p])')
  BY <1>10, FinishIdle DEF PassEnded, Follows, Busy
<1> QED BY <1>1, <1>2, <1>3, <1>4, <1>5, <1>6, <1>7, <1>8, <1>9, <1>10 DEF Moved

\* FollowInv is inductive.
LEMMA FollowStep == WatchInv /\ WatchInv' /\ FollowInv /\ [Next]_vars => FollowInv'
<1> SUFFICES ASSUME WatchInv, WatchInv', FollowInv, [Next]_vars PROVE FollowInv'
  OBVIOUS
<1>0. ASSUME NEW q \in Procs, UNCHANGED <<saved, registry>>, op'[q] = op[q], Follows(op[q])
      PROVE  Follows(op[q])'
  <2>1. ASSUME NEW c, NEW claim, Passed(c, claim) PROVE Passed(c, claim)'
    BY <1>0, <2>1, GateKept DEF Passed, Supports
  <2>2. op[q].pc = "save" => Passed(op[q].claim, op[q].mem[op[q].claim])'
    BY <1>0, <2>1 DEF Follows
  <2> QED BY <1>0, <2>2 DEF Follows, Supports
<1>1. CASE Untouched
  BY <1>0, <1>1 DEF Untouched, FollowInv, Busy
<1>2. ASSUME NEW p \in Procs, Moved(p) PROVE FollowInv'
  BY <1>2, FollowMove DEF Moved, FollowInv, Busy
<1>3. ASSUME NEW p \in Procs, Died(p) PROVE FollowInv'
  <2>1. \A q \in Procs : Busy(q)' => op'[q] = op[q] /\ Busy(q)
    BY <1>3, FinishIdle DEF Died, Busy
  <2> QED BY <1>0, <1>3, <2>1 DEF Died, FollowInv
<1>4. ASSUME NEW c \in Claims, NEW claim, Edited(c, claim) PROVE FollowInv'
  <2>1. \A q \in Procs : ~ Busy(q)'
    BY <1>4, RestIsIdle DEF Edited, AtRest, Busy
  <2> QED BY <1>4, <2>1, RootedKept DEF Edited, FollowInv
<1> QED BY <1>1, <1>2, <1>3, <1>4, Effects

\* It holds of an empty study.
LEMMA FollowInit == Init => FollowInv
BY DEF Init, IdleCall, FollowInv, Rooted, Busy

-----------------------------------------------------------------------------
(* The session file and the chain. *)

\* The claim is somewhere in its chain, and it is the chain's last word.
Recorded(rows, claim) ==
    claim # NoClaim => \E i \in DOMAIN rows : Body(rows[i].fields) = Body(claim)

Current(rows, claim) ==
    claim # NoClaim => rows # << >> /\ Body(rows[Len(rows)].fields) = Body(claim)

RecordInv ==
    used["edit"] = 0 =>
        \A c \in Claims :
            /\ Recorded(chain[c], saved[c])
            /\ \A p \in Procs : Busy(p) => Recorded(chain[c], op[p].mem[c])

CurrentInv ==
    Undisturbed =>
        \A c \in Claims :
            /\ AtRest => Current(chain[c], saved[c])
            /\ \A p \in Procs : Busy(p) => Current(chain[c], op[p].mem[c])

\* record_change leaves the chain at the state it was given.
LEMMA RecordChangeLast ==
    ASSUME NEW rows \in Seq(RevisionRows), NEW before \in Revs \union {None}, NEW after \in Revs
    PROVE  /\ RecordChange(rows, before, after) # << >>
           /\ RecordChange(rows, before, after)[Len(RecordChange(rows, before, after))].fields
                = after
<1> DEFINE base == IF rows = << >> /\ before # None
                     THEN <<Revision(before, "baseline", None, 0)>>
                     ELSE rows
           last == Revision(after, "change", None, 0)
<1>1. last \in RevisionRows /\ last.fields = after
  BY RevisionType DEF Revision
<1>2. base \in Seq(RevisionRows)
  <2>1. before # None => Revision(before, "baseline", None, 0) \in RevisionRows
    BY RevisionType
  <2> QED BY <2>1
<1> HIDE DEF base, last
<1>3. \/ RecordChange(rows, before, after) = base /\ base # << >> /\ base[Len(base)].fields = after
      \/ RecordChange(rows, before, after) = Append(base, last)
  BY DEF RecordChange, base, last
<1>4. Append(base, last) # << >> /\ Append(base, last)[Len(Append(base, last))] = last
  BY <1>1, <1>2
<1> QED BY <1>1, <1>3, <1>4

\* The last word of a chain is in the chain.
LEMMA CurrentIsRecorded ==
    ASSUME NEW rows \in Seq(RevisionRows), NEW claim, Current(rows, claim)
    PROVE  Recorded(rows, claim)
BY DEF Current, Recorded

\* A claim and the revision that binds it say the same.
LEMMA FieldsBody ==
    ASSUME NEW claim
    PROVE  Body(Fields(claim)) = Body(claim)
BY DEF Fields, Body

\* Staging and noting leave the chain at the claim they put in memory.
LEMMA ChangeIsCurrent ==
    ASSUME WatchInv, NEW c \in Claims, NEW claim \in ClaimRecords,
           NEW old \in ClaimRecords \union {NoClaim},
           chain' = [chain EXCEPT ![c] =
                        RecordChange(chain[c], IF old = NoClaim THEN None ELSE Fields(old),
                                     Fields(claim))]
    PROVE  Current(chain'[c], claim) /\ \A d \in Claims \ {c} : chain'[d] = chain[d]
<1> DEFINE before == IF old = NoClaim THEN None ELSE Fields(old)
<1>1. /\ chain[c] \in Seq(RevisionRows) /\ Fields(claim) \in Revs
      /\ before \in Revs \union {None}
  BY FieldsType DEF WatchInv, TypeInv, TypeOK
<1>2. chain'[c] = RecordChange(chain[c], before, Fields(claim))
      /\ \A d \in Claims \ {c} : chain'[d] = chain[d]
  BY DEF WatchInv, TypeInv, TypeOK
<1> HIDE DEF before
<1>3. chain'[c] # << >> /\ chain'[c][Len(chain'[c])].fields = Fields(claim)
  <2> DEFINE new == RecordChange(chain[c], before, Fields(claim))
  <2>1. new # << >> /\ new[Len(new)].fields = Fields(claim)
    BY <1>1, RecordChangeLast, Zenon
  <2> QED BY <1>2, <2>1, Zenon
<1> QED BY <1>2, <1>3, FieldsBody DEF Current

\* What is recorded stays recorded.
LEMMA RecordedKept ==
    ASSUME WatchInv, [Next]_vars, NEW c \in Claims, NEW claim, Recorded(chain[c], claim)
    PROVE  Recorded(chain'[c], claim)
<1>1. Extends(chain'[c], chain[c]) /\ chain[c] \in Seq(RevisionRows)
  BY HistoryStep DEF HistoryKept, WatchInv, TypeInv, TypeOK
<1> QED BY <1>1 DEF Recorded, Extends

\* The claim p stages or notes is where it says, and the rest of its memory as before.
LEMMA MovedMemory ==
    ASSUME WatchInv, FollowInv, NEW p \in Procs, Moved(p), NEW c \in Claims
    PROVE  /\ \/ saved'[c] = saved[c]
              \/ Busy(p) /\ saved'[c] = op[p].mem[c]
           /\ Busy(p)' =>
                \/ ~ Busy(p) /\ op'[p].mem[c] = saved[c]
                \/ Busy(p) /\ op'[p].mem[c] = op[p].mem[c]
                \/ Busy(p) /\ op[p].mem[c] # NoClaim /\ Body(op'[p].mem[c]) = Body(op[p].mem[c])
                \/ Current(chain'[c], op'[p].mem[c])
<1>0. op[p] \in Calls /\ saved \in Ledgers
  BY DEF WatchInv, TypeInv, TypeOK
<1>1. ASSUME NEW d \in Claims, NEW claim \in ClaimRecords, Staged(p, d, claim)
      PROVE  /\ saved' = saved
             /\ op'[p].mem[c] = saved[c] \/ Current(chain'[c], op'[p].mem[c])
  <2>1. Current(chain'[d], claim)
    <3>1. saved[d] \in ClaimRecords \union {NoClaim}
      BY <1>0 DEF Ledgers
    <3> QED BY <1>1, <3>1, ChangeIsCurrent DEF Staged
  <2> QED BY <1>0, <1>1, <2>1 DEF Staged, Ledgers
<1>2. ASSUME NEW mem \in Ledgers, RecordedAs(p, mem)
      PROVE  /\ saved' = saved /\ op'[p].mem = mem
             /\ \/ op'[p].mem[c] = op[p].mem[c]
                \/ op[p].mem[c] # NoClaim /\ Body(op'[p].mem[c]) = Body(op[p].mem[c])
  <2>1. op[p].claim \in Claims /\ op[p].mem[op[p].claim] \in ClaimRecords
    BY <1>2 DEF RecordedAs, WatchInv, TypeInv, CallShape, Shaped
  <2>2. mem[c] = IF c = op[p].claim THEN [op[p].mem[c] EXCEPT !.rid = op[p].rid]
                                    ELSE op[p].mem[c]
    BY <1>0, <1>2, <2>1 DEF RecordedAs, Calls, Ledgers
  <2>3. c = op[p].claim => Body(mem[c]) = Body(op[p].mem[c]) /\ op[p].mem[c] # NoClaim
    BY <2>1, <2>2, NoClaimAssumption DEF ClaimRecords, Body
  <2> QED BY <1>2, <2>2, <2>3 DEF RecordedAs
<1>3. ASSUME NEW new \in ClaimRecords, Noted(p, new)
      PROVE  /\ saved' = saved
             /\ op'[p].mem[c] = op[p].mem[c] \/ Current(chain'[c], op'[p].mem[c])
  <2>1. op[p].claim \in Claims /\ op[p].mem[op[p].claim] \in ClaimRecords
        /\ op[p].mem[op[p].claim] # NoClaim
    BY <1>3, NoClaimAssumption DEF Noted, WatchInv, TypeInv, CallShape, Shaped
  <2>2. chain' = [chain EXCEPT ![op[p].claim] =
                    RecordChange(chain[op[p].claim],
                                 IF op[p].mem[op[p].claim] = NoClaim
                                   THEN None ELSE Fields(op[p].mem[op[p].claim]),
                                 Fields(new))]
    BY <1>3, <2>1 DEF Noted
  <2>3. Current(chain'[op[p].claim], new)
    BY <2>1, <2>2, ChangeIsCurrent, Zenon
  <2> QED BY <1>0, <1>3, <2>1, <2>3 DEF Noted, Calls, Ledgers
<1>4. ASSUME \/ Checked(p) \/ Persisted(p) \/ Appended(p) \/ PassEnded(p)
             \/ (\E d \in Claims : Observed(p, d))
             \/ (\E r \in DOMAIN registry : Retracted(p, r) \/ Scanned(p, r))
      PROVE  /\ saved' = saved \/ (Busy(p) /\ saved' = op[p].mem)
             /\ Busy(p)' => \/ ~ Busy(p) /\ op'[p].mem = saved
                            \/ Busy(p) /\ op'[p].mem = op[p].mem
  BY <1>4, FinishIdle DEF Checked, Persisted, Appended, PassEnded, Observed, Retracted, Scanned,
     Free, Busy
<1> QED BY <1>1, <1>2, <1>3, <1>4 DEF Moved, Staged, RecordedAs, Noted, Free, Busy

\* RecordInv is inductive.
LEMMA RecordStep == WatchInv /\ WatchInv' /\ FollowInv /\ RecordInv /\ [Next]_vars => RecordInv'
<1> SUFFICES ASSUME WatchInv, WatchInv', FollowInv, RecordInv, [Next]_vars,
                    used'["edit"] = 0, NEW c \in Claims
             PROVE  /\ Recorded(chain'[c], saved'[c])
                    /\ \A p \in Procs : Busy(p)' => Recorded(chain'[c], op'[p].mem[c])
  BY DEF RecordInv
<1>1. used["edit"] = 0
  BY Effects DEF Untouched, Moved, Died, Edited, WatchInv, TypeInv, TypeOK, Faults
<1>2. /\ Recorded(chain[c], saved[c])
      /\ \A p \in Procs : Busy(p) => Recorded(chain[c], op[p].mem[c])
  BY <1>1 DEF RecordInv
<1>3. \A claim : Recorded(chain[c], claim) => Recorded(chain'[c], claim)
  BY RecordedKept
<1>4. \A claim : Current(chain'[c], claim) => Recorded(chain'[c], claim)
  BY CurrentIsRecorded DEF WatchInv, TypeInv, TypeOK
<1>5. ASSUME NEW p \in Procs, Moved(p)
      PROVE  /\ Recorded(chain'[c], saved'[c])
             /\ \A q \in Procs : Busy(q)' => Recorded(chain'[c], op'[q].mem[c])
  <2>1. Recorded(chain'[c], saved'[c])
    BY <1>2, <1>3, <1>5, MovedMemory
  <2>2. ASSUME Busy(p)' PROVE Recorded(chain'[c], op'[p].mem[c])
    <3>1. ASSUME Busy(p), op[p].mem[c] # NoClaim, Body(op'[p].mem[c]) = Body(op[p].mem[c])
          PROVE  Recorded(chain'[c], op'[p].mem[c])
      BY <1>2, <1>3, <3>1 DEF Recorded
    <3> QED BY <1>2, <1>3, <1>4, <1>5, <2>2, <3>1, MovedMemory
  <2> QED BY <1>5, <2>1, <2>2 DEF Moved, Busy
<1>6. ASSUME NEW p \in Procs, Died(p)
      PROVE  /\ Recorded(chain'[c], saved'[c])
             /\ \A q \in Procs : Busy(q)' => Recorded(chain'[c], op'[q].mem[c])
  BY <1>2, <1>3, <1>6, FinishIdle DEF Died, Busy
<1>7. ASSUME NEW d \in Claims, NEW claim, Edited(d, claim) PROVE FALSE
  BY <1>1, <1>7 DEF Edited, WatchInv, TypeInv, TypeOK, Faults
<1> QED BY <1>2, <1>3, <1>5, <1>6, <1>7, Effects DEF Untouched, Busy

\* Appending the bookkeeping row of a promotion repeats what the claim says.
LEMMA PromotionIsCurrent ==
    ASSUME WatchInv, FollowInv, NEW p \in Procs, NEW mem \in Ledgers, RecordedAs(p, mem)
    PROVE  /\ Current(chain'[op[p].claim], mem[op[p].claim])
           /\ \A d \in Claims \ {op[p].claim} : chain'[d] = chain[d] /\ mem[d] = op[p].mem[d]
<1> DEFINE c == op[p].claim
           row == Revision(op[p].row.rev, "promotion", op[p].rid, op[p].row.approval)
<1>1. /\ op[p] \in Calls /\ c \in Claims /\ op[p].mem[c] \in ClaimRecords
      /\ op[p].rid \in RegIds /\ op[p].row \in Rows /\ op[p].pc = "record"
  BY DEF RecordedAs, WatchInv, TypeInv, TypeOK, CallShape, Shaped
<1>2. row \in RevisionRows /\ row.fields = op[p].row.rev
  BY <1>1, RevisionType DEF Rows, Revision
<1>3. Body(op[p].row.rev) = Body(op[p].mem[c])
  BY <1>1 DEF FollowInv, Follows, Busy
<1>4. /\ mem[c] = [op[p].mem[c] EXCEPT !.rid = op[p].rid]
      /\ \A d \in Claims \ {c} : mem[d] = op[p].mem[d]
  BY <1>1 DEF RecordedAs, Calls, Ledgers
<1>5. Body(mem[c]) = Body(op[p].mem[c])
  BY <1>1, <1>4 DEF ClaimRecords, Body
<1>6. chain' = [chain EXCEPT ![c] = Append(chain[c], row)]
  BY DEF RecordedAs
<1> HIDE DEF row
<1>7. chain'[c] = Append(chain[c], row) /\ \A d \in Claims \ {c} : chain'[d] = chain[d]
  BY <1>1, <1>6 DEF WatchInv, TypeInv, TypeOK
<1>8. chain'[c] # << >> /\ chain'[c][Len(chain'[c])] = row
  <2>1. chain[c] \in Seq(RevisionRows)
    BY <1>1 DEF WatchInv, TypeInv, TypeOK
  <2> QED BY <1>2, <1>7, <2>1
<1>9. Current(chain'[c], mem[c])
  BY <1>2, <1>3, <1>5, <1>8 DEF Current
<1> QED BY <1>4, <1>7, <1>9

\* Observing leaves the chain at the claim as saved.
LEMMA ObservationIsCurrent ==
    ASSUME WatchInv, NEW p \in Procs, NEW c \in Claims, Observed(p, c)
    PROVE  Current(chain'[c], saved[c]) /\ \A d \in Claims \ {c} : chain'[d] = chain[d]
<1>1. chain[c] \in Seq(RevisionRows) /\ Fields(saved[c]) \in Revs
  BY FieldsType DEF Observed, Promotable, WatchInv, TypeInv, TypeOK, Ledgers
<1> DEFINE new == Observe(chain[c], Fields(saved[c]))
<1>2. chain'[c] = new /\ \A d \in Claims \ {c} : chain'[d] = chain[d]
  BY DEF Observed, WatchInv, TypeInv, TypeOK
<1>3. new \in Seq(RevisionRows) /\ Len(new) \in DOMAIN new /\ new[Len(new)].fields = Fields(saved[c])
  BY <1>1, ObserveExtends, Zenon DEF Extends
<1> HIDE DEF new
<1>4. new # << >>
  BY <1>3
<1> QED BY <1>2, <1>3, <1>4, FieldsBody DEF Current

\* The call under way keeps the chain at what it is about to save.
LEMMA CurrentMove ==
    ASSUME WatchInv, WatchInv', FollowInv, CurrentInv, Undisturbed,
           NEW p \in Procs, Moved(p), NEW c \in Claims
    PROVE  /\ AtRest' => Current(chain'[c], saved'[c])
           /\ Busy(p)' => Current(chain'[c], op'[p].mem[c])
<1>0. op[p] \in Calls /\ saved \in Ledgers
  BY DEF WatchInv, TypeInv, TypeOK
<1>1. /\ Busy(p) => Current(chain[c], op[p].mem[c])
      /\ ~ Busy(p) => Current(chain[c], saved[c])
  <2>1. ~ Busy(p) => AtRest
    BY RestIsIdle DEF Moved, Busy
  <2> QED BY <2>1 DEF CurrentInv
<1>2. AtRest' => ~ Busy(p)'
  <2>1. AtRest' => op'[p].pc = "idle"
    BY AbsentAssumption DEF AtRest, WatchInv, GuardExcludes
  <2> QED BY <2>1 DEF Busy
<1>3. ASSUME NEW d \in Claims, NEW claim \in ClaimRecords, Staged(p, d, claim)
      PROVE  Busy(p)' /\ Current(chain'[c], op'[p].mem[c])
  <2>1. Current(chain'[d], claim) /\ \A e \in Claims \ {d} : chain'[e] = chain[e]
    <3>1. saved[d] \in ClaimRecords \union {NoClaim}
      BY <1>0 DEF Ledgers
    <3> QED BY <1>3, <3>1, ChangeIsCurrent DEF Staged
  <2> QED BY <1>0, <1>1, <1>3, <2>1 DEF Staged, Ledgers, Free, Busy
<1>4. ASSUME NEW d \in Claims, Observed(p, d)
      PROVE  Current(chain'[c], saved[c]) /\ saved' = saved
             /\ (Busy(p)' => op'[p].mem = saved)
  BY <1>1, <1>4, ObservationIsCurrent DEF Observed, Free, Busy
<1>5. ASSUME NEW mem \in Ledgers, RecordedAs(p, mem)
      PROVE  Busy(p)' /\ Current(chain'[c], op'[p].mem[c])
  <2>1. Busy(p) /\ Busy(p)' /\ op'[p].mem = mem
    BY <1>5 DEF RecordedAs, Busy
  <2>2. /\ Current(chain'[op[p].claim], mem[op[p].claim])
        /\ \A d \in Claims \ {op[p].claim} : chain'[d] = chain[d] /\ mem[d] = op[p].mem[d]
    BY <1>5, PromotionIsCurrent
  <2> QED BY <1>1, <2>1, <2>2
<1>6. ASSUME NEW new \in ClaimRecords, Noted(p, new)
      PROVE  Busy(p)' /\ Current(chain'[c], op'[p].mem[c])
  <2>1. op[p].claim \in Claims /\ op[p].mem[op[p].claim] \in ClaimRecords
        /\ op[p].mem[op[p].claim] # NoClaim
    BY <1>6, NoClaimAssumption DEF Noted, WatchInv, TypeInv, CallShape, Shaped
  <2>2. chain' = [chain EXCEPT ![op[p].claim] =
                    RecordChange(chain[op[p].claim],
                                 IF op[p].mem[op[p].claim] = NoClaim
                                   THEN None ELSE Fields(op[p].mem[op[p].claim]),
                                 Fields(new))]
    BY <1>6, <2>1 DEF Noted
  <2>3. /\ Current(chain'[op[p].claim], new)
        /\ \A e \in Claims \ {op[p].claim} : chain'[e] = chain[e]
    BY <2>1, <2>2, ChangeIsCurrent, Zenon
  <2> QED BY <1>0, <1>1, <1>6, <2>1, <2>3 DEF Noted, Calls, Ledgers, Busy
<1>7. ASSUME \/ Checked(p) \/ Persisted(p) \/ Appended(p) \/ PassEnded(p)
             \/ (\E r \in DOMAIN registry : Retracted(p, r) \/ Scanned(p, r))
      PROVE  /\ chain' = chain
             /\ Busy(p)' => \/ ~ Busy(p) /\ op'[p].mem = saved
                            \/ Busy(p) /\ op'[p].mem = op[p].mem
             /\ ~ Busy(p)' => Busy(p) /\ saved' = op[p].mem
  BY <1>7, FinishIdle DEF Checked, Persisted, Appended, PassEnded, Retracted, Scanned,
     Free, Busy, FollowInv, Follows
<1> QED BY <1>1, <1>2, <1>3, <1>4, <1>5, <1>6, <1>7 DEF Moved

\* CurrentInv is inductive.
LEMMA CurrentStep ==
    WatchInv /\ WatchInv' /\ FollowInv /\ CurrentInv /\ [Next]_vars => CurrentInv'
<1> SUFFICES ASSUME WatchInv, WatchInv', FollowInv, CurrentInv, [Next]_vars, Undisturbed'
             PROVE  \A c \in Claims :
                       /\ AtRest' => Current(chain'[c], saved'[c])
                       /\ \A p \in Procs : Busy(p)' => Current(chain'[c], op'[p].mem[c])
  BY DEF CurrentInv
<1>1. CASE Untouched
  BY <1>1 DEF Untouched, CurrentInv, Undisturbed, AtRest, Busy
<1>2. ASSUME NEW p \in Procs, Moved(p), NEW c \in Claims
      PROVE  /\ AtRest' => Current(chain'[c], saved'[c])
             /\ \A q \in Procs : Busy(q)' => Current(chain'[c], op'[q].mem[c])
  <2>1. Undisturbed
    BY <1>2 DEF Moved, Undisturbed
  <2>2. /\ AtRest' => Current(chain'[c], saved'[c])
        /\ Busy(p)' => Current(chain'[c], op'[p].mem[c])
    BY <1>2, <2>1, CurrentMove
  <2> QED BY <1>2, <2>2 DEF Moved, Busy
<1>3. ASSUME NEW p \in Procs, Died(p) PROVE FALSE
  BY <1>3 DEF Died, Undisturbed
<1>4. ASSUME NEW c \in Claims, NEW claim, Edited(c, claim) PROVE FALSE
  BY <1>4 DEF Edited, Undisturbed, WatchInv, TypeInv, TypeOK, Faults
<1> QED BY <1>1, <1>2, <1>3, <1>4, Effects

-----------------------------------------------------------------------------
(* The study and the registry. *)

RowsUnder(rows, c) == {r \in DOMAIN rows : r.claim = c}

AllRetracted(rows, c) == \A r \in RowsUnder(rows, c) : rows[r].status = "retracted"

\* What a supporting claim still rests on: no row of it was retracted, and the only
\* row it ever had moved away from nothing it cites.
Rests(rows, claim, c) ==
    \A r \in RowsUnder(rows, c) :
        /\ rows[r].status # "retracted"
        /\ rows[r].status = "stale" =>
              \/ claim.cites \intersect rows[r].moved = {}
              \/ \E s \in RowsUnder(rows, c) : s # r

\* Claim c of the ledger agrees with its rows.
Settled(rows, ledger, c) ==
    /\ ledger[c] = NoClaim => RowsUnder(rows, c) = {}
    /\ Gone(ledger, c) => AllRetracted(rows, c)
    /\ (\E r \in RowsUnder(rows, c) : rows[r].status = "retracted") => AllRetracted(rows, c)
    /\ Supports(ledger, c) => Rests(rows, ledger[c], c)

Agrees(call) ==
    /\ call.pc \in {"append", "record", "save"} => \A c \in Claims : Settled(registry, saved, c)
    /\ call.pc = "retract" =>
          /\ \A c \in Claims \ {call.claim} : Settled(registry, saved, c)
          /\ Gone(saved, call.claim)
          /\ \A r \in call.withdraw : r.claim = call.claim
          /\ \A r \in RowsUnder(registry, call.claim) :
                registry[r].status = "retracted" \/ r \in call.withdraw
    /\ call.pc = "scan" =>
          /\ call.withdraw = {}
          /\ \A c \in Claims : Settled(registry, call.mem, c)
    /\ call.pc = "note" =>
          /\ call.withdraw = {}
          /\ \A c \in Claims \ {call.claim} : Settled(registry, call.mem, c)
          /\ \A r \in RowsUnder(registry, call.claim) : registry[r].status # "retracted"

AgreeInv ==
    Undisturbed =>
        /\ AtRest => \A c \in Claims : Settled(registry, saved, c)
        /\ \A p \in Procs : Busy(p) => Agrees(op[p])

\* Links point at the claim's own rows, so registry_rows lists those.
LEMMA RowsOfLinked ==
    ASSUME WatchInv, NEW ledger, Linked(ledger), NEW c \in Claims
    PROVE  RowsOf(c, ledger[c]) = RowsUnder(registry, c)
<1>1. ledger[c] # NoClaim /\ ledger[c].rid \in DOMAIN registry => ledger[c].rid.claim = c
  BY AbsentAssumption DEF Linked, WatchInv, TypeInv, TypeOK
<1> QED BY <1>1 DEF RowsOf, RowsUnder

\* A claim whose rows did not move is as settled as before.
LEMMA SettledElsewhere ==
    ASSUME NEW rows, NEW new, NEW ledger, NEW c, Settled(rows, ledger, c),
           RowsUnder(new, c) = RowsUnder(rows, c),
           \A r \in RowsUnder(rows, c) : new[r] = rows[r]
    PROVE  Settled(new, ledger, c)
BY DEF Settled, AllRetracted, Rests

\* Settled looks at a claim's presence, status and citations.
LEMMA SettledByBody ==
    ASSUME NEW rows, NEW ledger, NEW new, NEW c, Settled(rows, ledger, c),
           ledger[c] # NoClaim, new[c] # NoClaim, Body(new[c]) = Body(ledger[c])
    PROVE  Settled(rows, new, c)
<1>1. new[c].status = ledger[c].status /\ new[c].cites = ledger[c].cites
  BY DEF Body
<1> QED BY <1>1 DEF Settled, Gone, Supports, Rests

\* A claim that passed the gate agrees with its rows, unless it is withdrawn.
LEMMA GateSettles ==
    ASSUME WatchInv, NEW c \in Claims, Settled(registry, saved, c), NEW new,
           new[c] \in ClaimRecords, ~ Gone(new, c),
           ReinstatementGate(c, new[c].status, new[c].cites)
    PROVE  Settled(registry, new, c)
<1> DEFINE rows == RowsUnder(registry, c)
<1>1. RowsOf(c, saved[c]) = rows
  BY RowsOfLinked DEF WatchInv
<1>2. new[c] # NoClaim
  BY NoClaimAssumption
<1>3. ASSUME Supports(new, c), saved[c] = NoClaim PROVE Rests(registry, new[c], c)
  BY <1>3 DEF Settled, Rests
<1>4. ASSUME Supports(new, c), saved[c] # NoClaim PROVE Rests(registry, new[c], c)
  <2>1. CASE \E r \in rows : registry[r].status = "promoted"
    <3> PICK s \in rows : registry[s].status = "promoted"
      BY <2>1
    <3>1. \A r \in rows : registry[r].status # "retracted"
      BY DEF Settled, AllRetracted
    <3> QED BY <3>1 DEF Rests
  <2>2. CASE ~ \E r \in rows : registry[r].status = "promoted"
    <3>1. /\ \A r \in rows : registry[r].status # "retracted"
          /\ \/ \A r \in rows : registry[r].status # "stale"
             \/ new[c].cites \intersect StaleBasis(c) = {}
      BY <1>1, <1>4, <2>2 DEF ReinstatementGate, Supports
    <3>2. \A r \in rows : registry[r].status = "stale" =>
             registry[r].moved \subseteq StaleBasis(c)
      BY <1>1 DEF StaleBasis
    <3> QED BY <3>1, <3>2 DEF Rests
  <2> QED BY <2>1, <2>2
<1> QED BY <1>2, <1>3, <1>4 DEF Settled, Supports

\* What p has to leave behind.
Kept(p) ==
    /\ AtRest' => \A c \in Claims : Settled(registry', saved', c)
    /\ Busy(p)' => Agrees(op[p])'

\* After session.save the study agrees with the registry, or the rows it withdrew
\* are on the list.
LEMMA SaveAgrees ==
    ASSUME WatchInv, WatchInv', FollowInv, NEW p \in Procs, Persisted(p), Agrees(op[p])
    PROVE  Kept(p)
<1> DEFINE c == op[p].claim
           mem == op[p].mem
<1>1. /\ op[p] \in Calls /\ op[p].pc = "save" /\ c \in Claims /\ mem[c] \in ClaimRecords
      /\ Linked(mem) /\ Follows(op[p])
      /\ saved' = mem /\ registry' = registry
      /\ \A d \in Claims : Settled(registry, saved, d)
  BY DEF Persisted, WatchInv, TypeInv, TypeOK, CallShape, Shaped, Watchful, FollowInv, Busy, Agrees
<1>2. \A d \in Claims \ {c} : Settled(registry, mem, d)
  BY <1>1 DEF Follows, Settled, Gone, Supports
<1>3. RowsOf(c, mem[c]) = RowsUnder(registry, c)
  BY <1>1, RowsOfLinked
<1>4. mem[c] # NoClaim
  BY <1>1, NoClaimAssumption
<1>5. \A r \in RowsUnder(registry, c) :
         registry[r].status = "retracted" \/ r \in LiveRows(c, mem[c])
  BY <1>3 DEF LiveRows, RowsUnder, WatchInv, TypeInv, TypeOK, Rows
<1>6. ASSUME ~ Gone(mem, c) PROVE Settled(registry, mem, c)
  <2>1. Passed(c, mem[c])
    BY <1>1 DEF Follows
  <2>2. CASE ReinstatementGate(c, mem[c].status, mem[c].cites)
    BY <1>1, <1>6, <2>2, GateSettles
  <2>3. CASE Supports(saved, c) /\ Body(mem[c]) = Body(saved[c])
    BY <1>1, <1>4, <2>3, SettledByBody DEF Supports
  <2> QED BY <2>1, <2>2, <2>3 DEF Passed
<1>7. ASSUME Gone(mem, c), LiveRows(c, mem[c]) = {} PROVE Settled(registry, mem, c)
  BY <1>4, <1>5, <1>7 DEF Settled, AllRetracted, Gone, Supports, Supporting
<1>8. CASE Finish(p) /\ (Gone(mem, c) => LiveRows(c, mem[c]) = {})
  BY <1>1, <1>2, <1>6, <1>7, <1>8, FinishIdle DEF Kept
<1>9. CASE /\ Gone(mem, c)
           /\ op'[p].pc = "retract" /\ op'[p].claim = c /\ op'[p].mem = mem
           /\ op'[p].withdraw = LiveRows(c, mem[c])
  <2>1. ~ AtRest'
    BY <1>9, AbsentAssumption DEF AtRest, WatchInv, GuardExcludes
  <2>2. \A r \in LiveRows(c, mem[c]) : r.claim = c
    BY <1>3 DEF LiveRows, RowsUnder
  <2> QED BY <1>1, <1>2, <1>5, <1>9, <2>1, <2>2 DEF Kept, Agrees
<1> QED BY <1>8, <1>9 DEF Persisted

\* Each row retracted is one of the claim's, and the last one settles it.
LEMMA RetractAgrees ==
    ASSUME WatchInv, WatchInv', NEW p \in Procs, NEW r \in DOMAIN registry, Retracted(p, r),
           Agrees(op[p])
    PROVE  Kept(p)
<1> DEFINE c == op[p].claim
<1>1. /\ op[p].pc = "retract" /\ op[p] \in Calls /\ r \in op[p].withdraw /\ r.claim = c
      /\ c \in Claims
      /\ saved' = saved /\ Gone(saved, c)
      /\ registry' = [registry EXCEPT ![r].status = "retracted"] /\ registry[r] \in Rows
  BY DEF Retracted, Agrees, WatchInv, TypeInv, TypeOK, CallShape, Shaped
<1>2. /\ DOMAIN registry' = DOMAIN registry
      /\ registry'[r].status = "retracted"
      /\ \A x \in DOMAIN registry : x # r => registry'[x] = registry[x]
  BY <1>1 DEF Rows
<1>3. \A d \in Claims : RowsUnder(registry', d) = RowsUnder(registry, d)
  BY <1>2 DEF RowsUnder
<1>4. ASSUME NEW d \in Claims \ {c} PROVE Settled(registry', saved', d)
  <2>1. Settled(registry, saved, d)
    BY <1>1 DEF Agrees
  <2>2. \A x \in RowsUnder(registry, d) : registry'[x] = registry[x]
    BY <1>1, <1>2 DEF RowsUnder
  <2> QED BY <1>1, <1>3, <2>1, <2>2, SettledElsewhere
<1>5. \A x \in RowsUnder(registry', c) :
         registry'[x].status = "retracted" \/ x \in op[p].withdraw \ {r}
  <2>1. \A x \in RowsUnder(registry, c) :
           registry[x].status = "retracted" \/ x \in op[p].withdraw
    BY <1>1 DEF Agrees
  <2> QED BY <1>2, <1>3, <2>1 DEF RowsUnder
<1>6. CASE op[p].withdraw = {r} /\ Finish(p)
  <2>1. AllRetracted(registry', c)
    BY <1>5, <1>6 DEF AllRetracted
  <2>2. Settled(registry', saved', c)
    BY <1>1, <2>1 DEF Settled, Gone, Supports, Supporting
  <2> QED BY <1>4, <1>6, <2>2, FinishIdle DEF Kept
<1>7. CASE /\ op'[p].pc = op[p].pc /\ op'[p].claim = op[p].claim
           /\ op'[p].withdraw = op[p].withdraw \ {r}
  <2>1. ~ AtRest'
    BY <1>1, <1>7, AbsentAssumption DEF AtRest, WatchInv, GuardExcludes
  <2>2. \A x \in op'[p].withdraw : x.claim = c
    BY <1>1, <1>7 DEF Agrees
  <2> QED BY <1>1, <1>4, <1>5, <1>7, <2>1, <2>2 DEF Kept, Agrees
<1> QED BY <1>6, <1>7 DEF Retracted

\* A published row is one more live row of a supporting claim.
LEMMA AppendAgrees ==
    ASSUME WatchInv, WatchInv', FollowInv, NEW p \in Procs, Appended(p), Agrees(op[p])
    PROVE  Kept(p)
<1> DEFINE c == op[p].claim
           id == op[p].rid
<1>1. /\ op[p].pc = "append" /\ saved' = saved /\ id.claim = c /\ op[p].row.status = "promoted"
      /\ Supports(saved, c)
      /\ \A d \in Claims : Settled(registry, saved, d)
  BY DEF Appended, Agrees, WatchInv, Watchful, FollowInv, Follows, Busy
<1>2. \A d \in Claims : Settled(registry', saved', d)
  <2>1. CASE UNCHANGED registry
    BY <1>1, <2>1
  <2>2. CASE Published(p)
    <3>1. /\ DOMAIN registry' = DOMAIN registry \union {id}
          /\ id \notin DOMAIN registry
          /\ registry'[id].status = "promoted"
          /\ \A r \in DOMAIN registry : registry'[r] = registry[r]
      BY <1>1, <2>2 DEF Published
    <3>2. ASSUME NEW d \in Claims \ {c} PROVE Settled(registry', saved', d)
      <4>1. RowsUnder(registry', d) = RowsUnder(registry, d)
        BY <1>1, <3>1 DEF RowsUnder
      <4>2. \A r \in RowsUnder(registry, d) : registry'[r] = registry[r]
        BY <3>1 DEF RowsUnder
      <4> QED BY <1>1, <4>1, <4>2, SettledElsewhere
    <3>3. c \in Claims => Settled(registry', saved', c)
      <4>1. RowsUnder(registry', c) = RowsUnder(registry, c) \union {id}
        BY <1>1, <3>1 DEF RowsUnder
      <4>2. c \in Claims => Rests(registry, saved[c], c)
        BY <1>1 DEF Settled
      <4>3. c \in Claims => Rests(registry', saved[c], c)
        BY <3>1, <4>1, <4>2 DEF Rests, RowsUnder
      <4> QED BY <1>1, <4>3 DEF Settled, Supports, Gone, Supporting, Rests
    <3> QED BY <3>2, <3>3
  <2> QED BY <2>1, <2>2 DEF Appended
<1>3. CASE Finish(p)
  BY <1>2, <1>3, FinishIdle DEF Kept
<1>4. CASE op'[p].pc = "record"
  <2>1. ~ AtRest'
    BY <1>4, AbsentAssumption DEF AtRest, WatchInv, GuardExcludes
  <2> QED BY <1>2, <1>4, <2>1 DEF Kept, Agrees
<1> QED BY <1>3, <1>4 DEF Appended

\* A row goes stale with its claim, or beside another row of the claim.
LEMMA ScanAgrees ==
    ASSUME WatchInv, WatchInv', FollowInv, NEW p \in Procs, NEW r \in DOMAIN registry,
           Scanned(p, r), Agrees(op[p])
    PROVE  Kept(p)
<1> DEFINE c == r.claim
           mem == op[p].mem
<1>1. /\ op[p].pc = "scan" /\ op'[p].mem = mem /\ saved' = saved /\ Linked(mem)
      /\ Rooted(registry, mem) /\ r \in op[p].todo
      /\ \A d \in Claims : Settled(registry, mem, d)
  BY DEF Scanned, Agrees, WatchInv, Watchful, FollowInv, Follows, Busy
<1>2. c \in Claims /\ r \in RegIds /\ r \in RowsUnder(registry, c) /\ registry[r] \in Rows
  BY DEF RowsUnder, WatchInv, TypeInv, TypeOK, RegIds
<1>3. ~ AtRest'
  BY AbsentAssumption DEF Scanned, AtRest, WatchInv, GuardExcludes
<1>4. CASE /\ Gone(mem, c)
           /\ op'[p].pc = "scan" /\ op'[p].withdraw = LiveRows(c, mem[c])
           /\ UNCHANGED registry
  <2>1. LiveRows(c, mem[c]) = {}
    BY <1>1, <1>2, <1>4, RowsOfLinked DEF Settled, AllRetracted, LiveRows
  <2> QED BY <1>1, <1>3, <1>4, <2>1 DEF Kept, Agrees
<1>5. CASE op'[p].pc = "scan" /\ op'[p].withdraw = {} /\ UNCHANGED registry
  BY <1>1, <1>3, <1>5 DEF Kept, Agrees
<1>6. CASE /\ ~ Gone(mem, c)
           /\ registry' = [registry EXCEPT ![r] =
                             [@ EXCEPT !.status = "stale", !.moved = ChangedSources(r)]]
           /\ op'[p].withdraw = {}
           /\ \/ op'[p].pc = "note" /\ op'[p].claim = c
              \/ op'[p].pc = "scan" /\ (mem[c] = NoClaim \/ mem[c].rid \notin {None, r})
  <2>1. registry[r].status = "promoted"
    BY <1>1, <1>6 DEF WatchInv, Watchful
  <2>2. /\ DOMAIN registry' = DOMAIN registry
        /\ registry'[r].status = "stale"
        /\ \A x \in DOMAIN registry : x # r => registry'[x] = registry[x]
    BY <1>2, <1>6 DEF Rows
  <2>3. \A d \in Claims : RowsUnder(registry', d) = RowsUnder(registry, d)
    BY <2>2 DEF RowsUnder
  <2>4. ASSUME NEW d \in Claims \ {c} PROVE Settled(registry', mem, d)
    <3>1. \A x \in RowsUnder(registry, d) : registry'[x] = registry[x]
      BY <2>2 DEF RowsUnder
    <3> QED BY <1>1, <2>3, <3>1, SettledElsewhere
  <2>5. \A x \in RowsUnder(registry', c) : registry'[x].status # "retracted"
    <3>1. \A x \in RowsUnder(registry, c) : registry[x].status # "retracted"
      BY <1>1, <1>2, <2>1 DEF Settled, AllRetracted
    <3> QED BY <1>2, <2>2, <2>3, <3>1 DEF RowsUnder
  <2>6. CASE op'[p].pc = "note" /\ op'[p].claim = c
    BY <1>1, <1>3, <1>6, <2>4, <2>5, <2>6 DEF Kept, Agrees
  <2>7. CASE op'[p].pc = "scan" /\ (mem[c] = NoClaim \/ mem[c].rid \notin {None, r})
    <3>1. mem[c] # NoClaim
      BY <1>1, <1>2 DEF Settled
    <3>2. mem[c].rid \in RowsUnder(registry, c) /\ mem[c].rid # r
      BY <1>1, <1>2, <2>7, <3>1 DEF Linked, Rooted, RowsUnder
    <3>3. ASSUME Supports(mem, c) PROVE Rests(registry', mem[c], c)
      <4>1. Rests(registry, mem[c], c)
        BY <1>1, <1>2, <3>3 DEF Settled
      <4> QED BY <1>2, <2>2, <2>3, <2>5, <3>2, <4>1 DEF Rests, RowsUnder
    <3>4. Settled(registry', mem, c)
      BY <1>6, <2>5, <3>1, <3>3 DEF Settled
    <3> QED BY <1>1, <1>3, <1>6, <2>4, <2>7, <3>4 DEF Kept, Agrees
  <2> QED BY <1>6, <2>6, <2>7
<1> QED BY <1>4, <1>5, <1>6 DEF Scanned

\* A claim that is stale asserts nothing over its rows.
LEMMA NoteAgrees ==
    ASSUME WatchInv, WatchInv', NEW p \in Procs, NEW new \in ClaimRecords, Noted(p, new),
           Agrees(op[p])
    PROVE  Kept(p)
<1> DEFINE c == op[p].claim
           mem == op[p].mem
<1>1. /\ op[p].pc = "note" /\ registry' = registry /\ c \in Claims
      /\ op[p] \in Calls /\ mem[c] \in ClaimRecords
      /\ op'[p].pc = "scan" /\ op'[p].mem = [mem EXCEPT ![c] = new]
      /\ op'[p].withdraw = {}
  BY DEF Noted, Agrees, WatchInv, TypeInv, TypeOK, CallShape, Shaped
<1>2. new.status = "stale" /\ new # NoClaim
  BY <1>1, NoClaimAssumption DEF Noted, ClaimRecords
<1>3. op'[p].mem[c] = new /\ \A d \in Claims \ {c} : op'[p].mem[d] = mem[d]
  BY <1>1 DEF Calls, Ledgers
<1>4. ~ AtRest'
  BY <1>1, AbsentAssumption DEF AtRest, WatchInv, GuardExcludes
<1>5. \A d \in Claims \ {c} : Settled(registry', op'[p].mem, d)
  BY <1>1, <1>3 DEF Agrees, Settled, Gone, Supports
<1>6. Settled(registry', op'[p].mem, c)
  BY <1>1, <1>2, <1>3 DEF Agrees, Settled, Gone, Supports, Supporting
<1> QED BY <1>1, <1>4, <1>5, <1>6 DEF Kept, Agrees

\* The study agrees with the registry after each move of p.
LEMMA AgreeMove ==
    ASSUME WatchInv, WatchInv', FollowInv, AgreeInv, Undisturbed, NEW p \in Procs, Moved(p)
    PROVE  Kept(p)
<1>1. Busy(p) => Agrees(op[p])
  BY DEF AgreeInv
<1>2. ~ Busy(p) => \A c \in Claims : Settled(registry, saved, c)
  <2>1. ~ Busy(p) => AtRest
    BY RestIsIdle DEF Moved, Busy
  <2> QED BY <2>1 DEF AgreeInv
<1>3. ASSUME \/ \E c \in Claims, claim \in ClaimRecords : Staged(p, c, claim)
             \/ \E c \in Claims : Observed(p, c)
      PROVE  Kept(p)
  BY <1>2, <1>3 DEF Staged, Observed, Free, Busy, Kept, Agrees
<1>4. ASSUME Checked(p) PROVE Kept(p)
  BY <1>2, <1>4 DEF Checked, Free, Busy, Kept, Agrees
<1>5. ASSUME NEW mem \in Ledgers, RecordedAs(p, mem) PROVE Kept(p)
  <2>1. /\ op[p].pc = "record" /\ op'[p].pc = "save" /\ UNCHANGED <<saved, registry>>
        /\ \A c \in Claims : Settled(registry, saved, c)
    BY <1>1, <1>5 DEF RecordedAs, Busy, Agrees
  <2> QED BY <2>1 DEF Kept, Agrees
<1>6. ASSUME PassEnded(p) PROVE Kept(p)
  <2>1. /\ registry' = registry /\ saved' = op[p].mem /\ ~ Busy(p)'
        /\ \A c \in Claims : Settled(registry, op[p].mem, c)
    BY <1>1, <1>6, FinishIdle DEF PassEnded, Busy, Agrees, FollowInv, Follows
  <2> QED BY <2>1 DEF Kept
<1>7. ASSUME Persisted(p) PROVE Kept(p)
  BY <1>1, <1>7, SaveAgrees DEF Persisted, Busy
<1>8. ASSUME NEW r \in DOMAIN registry, Retracted(p, r) PROVE Kept(p)
  BY <1>1, <1>8, RetractAgrees DEF Retracted, Busy
<1>9. ASSUME Appended(p) PROVE Kept(p)
  BY <1>1, <1>9, AppendAgrees DEF Appended, Busy
<1>10. ASSUME NEW r \in DOMAIN registry, Scanned(p, r) PROVE Kept(p)
  BY <1>1, <1>10, ScanAgrees DEF Scanned, Busy
<1>11. ASSUME NEW new \in ClaimRecords, Noted(p, new) PROVE Kept(p)
  BY <1>1, <1>11, NoteAgrees DEF Noted, Busy
<1> QED BY <1>3, <1>4, <1>5, <1>6, <1>7, <1>8, <1>9, <1>10, <1>11 DEF Moved

\* AgreeInv is inductive.
LEMMA AgreeStep ==
    WatchInv /\ WatchInv' /\ FollowInv /\ AgreeInv /\ [Next]_vars => AgreeInv'
<1> SUFFICES ASSUME WatchInv, WatchInv', FollowInv, AgreeInv, [Next]_vars, Undisturbed'
             PROVE  /\ AtRest' => \A c \in Claims : Settled(registry', saved', c)
                    /\ \A p \in Procs : Busy(p)' => Agrees(op[p])'
  BY DEF AgreeInv
<1>1. CASE Untouched
  BY <1>1 DEF Untouched, AgreeInv, Undisturbed, AtRest, Busy, Agrees
<1>2. ASSUME NEW p \in Procs, Moved(p)
      PROVE  /\ AtRest' => \A c \in Claims : Settled(registry', saved', c)
             /\ \A q \in Procs : Busy(q)' => Agrees(op[q])'
  <2>1. Undisturbed
    BY <1>2 DEF Moved, Undisturbed
  <2>2. Kept(p)
    BY <1>2, <2>1, AgreeMove
  <2> QED BY <1>2, <2>2 DEF Moved, Kept, Busy
<1>3. ASSUME NEW p \in Procs, Died(p) PROVE FALSE
  BY <1>3 DEF Died, Undisturbed
<1>4. ASSUME NEW c \in Claims, NEW claim, Edited(c, claim) PROVE FALSE
  BY <1>4 DEF Edited, Undisturbed, WatchInv, TypeInv, TypeOK, Faults
<1> QED BY <1>1, <1>2, <1>3, <1>4, Effects

-----------------------------------------------------------------------------
(* The theorems. *)

AgreementInv == WatchInv /\ FollowInv /\ RecordInv /\ CurrentInv /\ AgreeInv

LEMMA AgreementInit == Init => AgreementInv
<1> SUFFICES ASSUME Init PROVE AgreementInv
  OBVIOUS
<1>1. /\ \A c \in Claims : saved[c] = NoClaim
      /\ \A p \in Procs : ~ Busy(p)
      /\ DOMAIN registry = {}
  BY DEF Init, IdleCall, Busy
<1>2. RecordInv /\ CurrentInv
  BY <1>1 DEF RecordInv, CurrentInv, Recorded, Current
<1>3. AgreeInv
  BY <1>1 DEF AgreeInv, Settled, RowsUnder, Gone, Supports
<1> QED BY <1>2, <1>3, WatchInit, FollowInit DEF AgreementInv

LEMMA AgreementStep == AgreementInv /\ [Next]_vars => AgreementInv'
BY WatchStep, FollowStep, RecordStep, CurrentStep, AgreeStep DEF AgreementInv

\* Whatever call died where, a claim that reached the session file is in its
\* revision chain (tools_ledger.py:136-140).
THEOREM NothingSavedUnrecorded == Spec => []SavedIsRecorded
<1>1. AgreementInv => SavedIsRecorded
  BY DEF AgreementInv, RecordInv, SavedIsRecorded, Recorded
<1> QED BY <1>1, AgreementInit, AgreementStep, PTL DEF Spec

\* With every call run to its end, the last revision of a claim's chain is the claim
\* as saved: every tool that changes a claim records the change before it saves.
THEOREM ChainFollowsSession == Spec => []ChainIsCurrent
<1>1. AgreementInv => ChainIsCurrent
  BY DEF AgreementInv, CurrentInv, ChainIsCurrent, Current
<1> QED BY <1>1, AgreementInit, AgreementStep, PTL DEF Spec

\* A withdrawal made in the study has reached the registry by the time the call
\* returns: propagate_retraction's rows are all retracted (lifecycle.py:8-9).
THEOREM WithdrawalsReachRegistry == Spec => []WithdrawalReachesRegistry
<1>1. AgreementInv => WithdrawalReachesRegistry
  <2> SUFFICES ASSUME AgreementInv, AtRest, Undisturbed, NEW c \in Claims,
                      saved[c] # NoClaim, saved[c].status = "retracted"
               PROVE  LiveRows(c, saved[c]) = {}
    BY DEF WithdrawalReachesRegistry
  <2>1. AllRetracted(registry, c) /\ RowsOf(c, saved[c]) = RowsUnder(registry, c)
    BY RowsOfLinked DEF AgreementInv, AgreeInv, Settled, Gone, WatchInv
  <2> QED BY <2>1 DEF LiveRows, AllRetracted
<1> QED BY <1>1, AgreementInit, AgreementStep, PTL DEF Spec

\* Between calls a study does not support a claim its registry withdrew: the gates of
\* every tool and the staleness pass keep it so (lifecycle.py:3-16).
THEOREM StudyAssertsNoMore == Spec => []NeverAssertsMore
<1>1. AgreementInv => NeverAssertsMore
  <2> SUFFICES ASSUME AgreementInv, AtRest, Undisturbed, NEW c \in Claims, Unsupported(c),
                      NEW r \in RowsOf(c, saved[c])
               PROVE  /\ registry[r].status = "stale"
                      /\ \/ saved[c].cites \intersect registry[r].moved = {}
                         \/ \E s \in RowsOf(c, saved[c]) : s # r
    BY DEF NeverAssertsMore
  <2>1. RowsOf(c, saved[c]) = RowsUnder(registry, c)
    BY RowsOfLinked DEF AgreementInv, WatchInv
  <2>2. Rests(registry, saved[c], c)
    BY DEF AgreementInv, AgreeInv, Settled, Supports, Unsupported
  <2>3. registry[r].status \in {"promoted", "stale", "retracted"}
    BY <2>1 DEF RowsUnder, AgreementInv, WatchInv, TypeInv, TypeOK, Rows
  <2> QED BY <2>1, <2>2, <2>3 DEF Rests, Unsupported
<1> QED BY <1>1, AgreementInit, AgreementStep, PTL DEF Spec

\* A step that saves a claim: the call's own claim, past the gate, or a pass that
\* leaves it as it was or makes it stale.
LEMMA SavedMoves ==
    ASSUME AgreementInv, [Next]_vars, used'["edit"] = used["edit"], NEW c \in Claims,
           saved[c] # NoClaim, saved'[c] # saved[c]
    PROVE  \/ saved'[c].status = "stale"
           \/ /\ Passed(c, saved'[c])
              /\ UNCHANGED used
              /\ Undisturbed => Settled(registry, saved, c)
<1> USE DEF AgreementInv
<1>1. ASSUME NEW p \in Procs, Persisted(p), UNCHANGED used
      PROVE  /\ Passed(c, saved'[c])
             /\ UNCHANGED used
             /\ Undisturbed => Settled(registry, saved, c)
  <2>1. Follows(op[p]) /\ (Undisturbed => Agrees(op[p]))
    BY <1>1 DEF Persisted, FollowInv, AgreeInv, Busy
  <2> QED BY <1>1, <2>1 DEF Persisted, Follows, Agrees
<1>2. ASSUME NEW p \in Procs, PassEnded(p) PROVE saved'[c].status = "stale"
  <2>1. Follows(op[p])
    BY <1>2 DEF PassEnded, FollowInv, Busy
  <2> QED BY <1>2, <2>1 DEF PassEnded, Follows
<1>3. ASSUME NEW p \in Procs, Moved(p) PROVE Persisted(p) \/ PassEnded(p)
  BY <1>3 DEF Moved, Staged, Observed, Checked, Retracted, Appended, RecordedAs, Scanned, Noted
<1>4. ASSUME NEW d \in Claims, NEW claim, Edited(d, claim) PROVE FALSE
  BY <1>4 DEF Edited, WatchInv, TypeInv, TypeOK, Faults
<1>5. \E p \in Procs : Moved(p)
  BY <1>4, Effects DEF Untouched, Died
<1> QED BY <1>1, <1>2, <1>3, <1>5 DEF Moved

\* No tool takes a stale claim back to a supporting status while it cites a source
\* recorded as moved, unless another row of it is live (lifecycle.py:70-95).
THEOREM StaleClaimsRebind == Spec => StaleNeedsRebinding
<1> DEFINE Rebound ==
             used'["edit"] = used["edit"] =>
                 \A c \in Claims :
                     /\ saved[c] # NoClaim /\ saved[c].status = "stale"
                     /\ saved'[c].status \in Supporting
                     => \/ saved'[c].cites \intersect saved[c].moved = {}
                        \/ \E r \in RowsOf(c, saved[c]) : registry[r].status = "promoted"
<1>1. AgreementInv /\ [Next]_vars => Rebound
  <2> SUFFICES ASSUME AgreementInv, [Next]_vars, used'["edit"] = used["edit"], NEW c \in Claims,
                      saved[c] # NoClaim, saved[c].status = "stale",
                      saved'[c].status \in Supporting
               PROVE  \/ saved'[c].cites \intersect saved[c].moved = {}
                      \/ \E r \in RowsOf(c, saved[c]) : registry[r].status = "promoted"
    OBVIOUS
  <2>1. saved'[c] # saved[c] /\ saved'[c].status # "stale"
    BY DEF Supporting
  <2>2. Passed(c, saved'[c])
    BY <2>1, SavedMoves
  <2>3. ReinstatementGate(c, saved'[c].status, saved'[c].cites)
    BY <2>2 DEF Passed, Supports, Supporting
  <2>4. saved[c].moved \subseteq StaleBasis(c) \/ saved[c].moved = {}
    BY DEF StaleBasis
  <2> QED BY <2>3, <2>4 DEF ReinstatementGate
<1>2. [][Rebound]_vars => StaleNeedsRebinding
  BY PTL DEF StaleNeedsRebinding
<1> QED BY <1>1, <1>2, AgreementInit, AgreementStep, PTL DEF Spec

\* A claim whose registry rows are withdrawn does not come back from "retracted" to a
\* supporting status through any tool (lifecycle.py:10-11).
THEOREM RetractionIsFinal == Spec => RetractedStaysRetracted
<1> DEFINE Final ==
             used'["edit"] = used["edit"] =>
                 \A c \in Claims :
                     /\ saved[c] # NoClaim /\ saved[c].status = "retracted"
                     /\ RowsOf(c, saved[c]) # {}
                     /\ Undisturbed' \/ LiveRows(c, saved[c]) = {}
                     => saved'[c].status \notin Supporting
<1>1. AgreementInv /\ [Next]_vars => Final
  <2> SUFFICES ASSUME AgreementInv, [Next]_vars, used'["edit"] = used["edit"], NEW c \in Claims,
                      saved[c] # NoClaim, saved[c].status = "retracted",
                      RowsOf(c, saved[c]) # {},
                      Undisturbed' \/ LiveRows(c, saved[c]) = {},
                      saved'[c].status \in Supporting
               PROVE  FALSE
    OBVIOUS
  <2>1. saved'[c] # saved[c] /\ saved'[c].status # "stale"
    BY DEF Supporting
  <2>2. /\ Passed(c, saved'[c]) /\ UNCHANGED used
        /\ Undisturbed => Settled(registry, saved, c)
    BY <2>1, SavedMoves
  <2>3. ReinstatementGate(c, saved'[c].status, saved'[c].cites)
    BY <2>2 DEF Passed, Supports, Supporting
  <2>4. RowsOf(c, saved[c]) = RowsUnder(registry, c)
    BY RowsOfLinked DEF AgreementInv, WatchInv
  <2>5. AllRetracted(registry, c)
    <3>1. CASE Undisturbed'
      BY <2>2, <3>1 DEF Undisturbed, Settled, Gone
    <3>2. CASE LiveRows(c, saved[c]) = {}
      BY <2>4, <3>2 DEF LiveRows, AllRetracted, RowsUnder, AgreementInv, WatchInv, TypeInv,
         TypeOK, Rows
    <3> QED BY <3>1, <3>2
  <2> QED BY <2>3, <2>4, <2>5 DEF AllRetracted, ReinstatementGate
<1>2. [][Final]_vars => RetractedStaysRetracted
  BY PTL DEF RetractedStaysRetracted
<1> QED BY <1>1, <1>2, AgreementInit, AgreementStep, PTL DEF Spec

-----------------------------------------------------------------------------
(* A pass carries out the retractions it finds undone. *)

\* The rows still asserting a claim that the study withdrew.
Undone == {r \in DOMAIN registry : Gone(saved, r.claim) /\ registry[r].status = "promoted"}

\* A pass under way holds the withdrawn claims as they are in the file, marks
\* no other claim but those, and still has their promoted rows before it.
Sweeps(call) ==
    call.pc \in {"scan", "note"} =>
        /\ \A c \in Claims : Gone(saved, c) => call.mem[c] = saved[c]
        /\ call.pc = "note" => ~ Gone(saved, call.claim)
        /\ Undone \subseteq call.todo \union call.withdraw

SweepInv == \A p \in Procs : Sweeps(op[p])

\* What a pass has before it after each of its moves.
LEMMA SweepMove ==
    ASSUME WatchInv, WatchInv', SweepInv, NEW p \in Procs, Moved(p)
    PROVE  Sweeps(op[p])'
<1>0. /\ saved \in Ledgers /\ op[p] \in Calls /\ Sweeps(op[p])
      /\ \A r \in DOMAIN registry : r.claim \in Claims /\ registry[r] \in Rows
  BY DEF WatchInv, TypeInv, TypeOK, RegIds, SweepInv
<1>1. ASSUME Checked(p) PROVE Sweeps(op[p])'
  BY <1>1 DEF Checked, Sweeps, Undone
<1>2. ASSUME NEW r \in DOMAIN registry, Retracted(p, r) PROVE Sweeps(op[p])'
  <2>1. Undone' \subseteq Undone \ {r}
    BY <1>0, <1>2 DEF Retracted, Undone, Rows, Gone
  <2>2. op'[p].pc \in {"scan", "note"} =>
            /\ op[p].pc = "scan" /\ op'[p].pc = "scan" /\ op'[p].mem = op[p].mem
            /\ op'[p].todo = op[p].todo /\ op'[p].withdraw = op[p].withdraw \ {r}
    BY <1>2, FinishIdle DEF Retracted
  <2>3. saved' = saved
    BY <1>2 DEF Retracted
  <2> QED BY <1>0, <2>1, <2>2, <2>3 DEF Sweeps, Gone
<1>3. ASSUME NEW r \in DOMAIN registry, Scanned(p, r) PROVE Sweeps(op[p])'
  <2> DEFINE c == r.claim
  <2>1. /\ op[p].pc = "scan" /\ op[p].withdraw = {} /\ saved' = saved
        /\ op'[p].mem = op[p].mem /\ op'[p].todo = op[p].todo \ {r}
        /\ \A d \in Claims : Gone(saved, d) => op[p].mem[d] = saved[d]
        /\ Undone \subseteq op[p].todo
    BY <1>0, <1>3 DEF Scanned, Sweeps
  <2>2. CASE Gone(op[p].mem, c)
    <3>1. op'[p].pc = "scan" /\ op'[p].withdraw = LiveRows(c, op[p].mem[c])
          /\ UNCHANGED registry
      BY <1>3, <2>2 DEF Scanned
    <3>2. registry[r].status = "promoted" => r \in op'[p].withdraw
      BY <3>1 DEF LiveRows, RowsOf
    <3> QED BY <2>1, <3>1, <3>2 DEF Sweeps, Undone, Gone
  <2>3. CASE ~ Gone(op[p].mem, c)
    <3>1. ~ Gone(saved, c)
      BY <1>0, <2>1, <2>3 DEF Gone
    <3>2. Undone' \subseteq Undone /\ r \notin Undone
      BY <1>0, <1>3, <2>3, <3>1 DEF Scanned, Undone, Gone, Rows
    <3>3. /\ op'[p].pc = "scan" \/ (op'[p].pc = "note" /\ op'[p].claim = c)
      BY <1>3, <2>3 DEF Scanned
    <3> QED BY <2>1, <3>1, <3>2, <3>3 DEF Sweeps, Gone
  <2> QED BY <2>2, <2>3
<1>4. ASSUME NEW new \in ClaimRecords, Noted(p, new) PROVE Sweeps(op[p])'
  <2>1. /\ op[p].pc = "note" /\ UNCHANGED <<saved, registry>> /\ op'[p].pc = "scan"
        /\ op'[p].todo = op[p].todo /\ op'[p].withdraw = op[p].withdraw
        /\ op'[p].mem = [op[p].mem EXCEPT ![op[p].claim] = new]
    BY <1>4 DEF Noted
  <2>2. /\ ~ Gone(saved, op[p].claim) /\ Undone \subseteq op[p].todo \union op[p].withdraw
        /\ \A c \in Claims : Gone(saved, c) => op[p].mem[c] = saved[c]
    BY <1>0, <2>1 DEF Sweeps
  <2>3. \A c \in Claims : c # op[p].claim => op'[p].mem[c] = op[p].mem[c]
    BY <1>0, <2>1 DEF Calls, Ledgers
  <2>4. Undone' = Undone
    BY <2>1 DEF Undone, Gone
  <2> QED BY <2>1, <2>2, <2>3, <2>4 DEF Sweeps, Gone
<1>5. ASSUME op'[p].pc \notin {"scan", "note"} PROVE Sweeps(op[p])'
  BY <1>5 DEF Sweeps
<1>6. op'[p].pc \notin {"scan", "note"} \/ Checked(p)
      \/ (\E r \in DOMAIN registry : Retracted(p, r) \/ Scanned(p, r))
      \/ (\E new \in ClaimRecords : Noted(p, new))
  <2>1. ASSUME NEW c \in Claims, Observed(p, c) PROVE op'[p].pc \notin {"scan", "note"}
    BY <2>1 DEF Observed, Free
  <2> QED BY <2>1, FinishIdle DEF Moved, Staged, Persisted, Appended, RecordedAs, PassEnded
<1> QED BY <1>1, <1>2, <1>3, <1>4, <1>5, <1>6

\* SweepInv is inductive.
LEMMA SweepStep == WatchInv /\ WatchInv' /\ SweepInv /\ [Next]_vars => SweepInv'
<1> SUFFICES ASSUME WatchInv, WatchInv', SweepInv, [Next]_vars, NEW q \in Procs
             PROVE  Sweeps(op[q])'
  BY DEF SweepInv
<1>1. ASSUME op'[q].pc = "idle" PROVE Sweeps(op[q])'
  BY <1>1 DEF Sweeps
<1>2. ASSUME op'[q] = op[q], UNCHANGED <<saved, registry>> PROVE Sweeps(op[q])'
  BY <1>2 DEF SweepInv, Sweeps, Undone, Gone
<1>3. ASSUME NEW p \in Procs, Moved(p) PROVE Sweeps(op[q])'
  BY <1>1, <1>3, SweepMove DEF Moved
<1>4. ASSUME NEW p \in Procs, Died(p) PROVE Sweeps(op[q])'
  BY <1>1, <1>2, <1>4, FinishIdle DEF Died
<1>5. ASSUME NEW c \in Claims, NEW claim, Edited(c, claim) PROVE op'[q].pc = "idle"
  BY <1>5, RestIsIdle DEF Edited, AtRest, Busy
<1> QED BY <1>1, <1>2, <1>3, <1>4, <1>5, Effects DEF Untouched

LEMMA SweepInit == Init => SweepInv
BY DEF Init, IdleCall, SweepInv, Sweeps

\* Whatever call died before the registry, a staleness pass that runs to its end
\* leaves no promoted row of a claim the study withdrew (tools_ledger.py:1031-1036).
THEOREM PassesRepairRetractions == Spec => PassWithdrawsRetracted
<1> DEFINE Repaired ==
             \A p \in Procs :
                 op[p].pc = "scan" /\ op'[p].pc = "idle" /\ used' = used
                     => \A r \in DOMAIN registry :
                           /\ saved[r.claim] # NoClaim
                           /\ saved[r.claim].status = "retracted"
                           => registry'[r].status # "promoted"
<1>1. WatchInv /\ SweepInv /\ [Next]_vars => Repaired
  <2> SUFFICES ASSUME WatchInv, SweepInv, [Next]_vars, NEW p \in Procs,
                      op[p].pc = "scan", op'[p].pc = "idle", used' = used,
                      NEW r \in DOMAIN registry, Gone(saved, r.claim)
               PROVE  registry'[r].status # "promoted"
    BY DEF Gone
  <2>1. PassEnded(p)
    <3>1. ASSUME NEW q \in Procs, Moved(q) PROVE q = p
      BY <3>1 DEF Moved
    <3>2. ~ Untouched /\ ~ (\E c \in Claims : \E claim : Edited(c, claim))
      BY DEF Untouched, Edited
    <3>3. Moved(p)
      BY <3>1, <3>2, Effects DEF Died
    <3> QED BY <3>3 DEF Moved, Staged, Observed, Free, Checked, Persisted, Retracted,
               Appended, RecordedAs, Scanned, Noted
  <2>2. Undone = {} /\ UNCHANGED registry
    BY <2>1 DEF PassEnded, SweepInv, Sweeps
  <2> QED BY <2>2 DEF Undone
<1>2. [][Repaired]_vars => PassWithdrawsRetracted
  BY PTL DEF PassWithdrawsRetracted
<1> QED BY <1>1, <1>2, WatchInit, WatchStep, SweepInit, SweepStep, PTL DEF Spec

=============================================================================
