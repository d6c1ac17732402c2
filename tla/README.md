# A verification development of AI-Hydro tools

AI-Hydro tools is an MCP server: a language model calls hydrology tools, and the
server keeps what they produce as a *study* (a session) with typed claims, their
evidence, and a global registry of claims a human has approved. This directory
models the parts whose correctness is a matter of ordering, concurrency and
partial failure, and proves some of it.

## 1. Inventory

Paths are relative to `src/ai_hydro/`.

| component | state | operations | interacts with |
|---|---|---|---|
| claim ledger tools `mcp/tools_ledger.py` | none of its own | add_claim, update_claim_status, promote_claim_to_registry, check_registry_staleness, add_assumption, register_research_plan, draft_claim_from_run | everything below, in a fixed order per call |
| lifecycle gates `claims/lifecycle.py`, `claims/status_gate.py`, `claims/promotion_policy.py` | none | refuse a status or a promotion | read session, registry, run log |
| claim revision chain `session/claim_revisions.py` | SQLite, insert-only | record_change, ensure_baseline | written before the session file |
| session store `session/store.py` | one JSON file per study, one SQLite run log | load, save with a three-way merge, write guard | every tool |
| approval store `approval/` | `approvals.jsonl`, append-only; trust root, revocations | aihydro-approve: review, sign, append; revoke | read by promotion |
| claim registry `registry/store.py` | `claims.jsonl` under a file lock | append, mark_stale, mark_retracted | read by gates and approvals |
| locks `registry/locking.py` | lock files | blocking and bounded locks, atomic replace | session store, registry |
| run log and records `session/run_records.py`, `mcp/enforcement.py` | rows in SQLite, pending seals in memory, the capture of each call | record, adopt, seal, mark, late reseal | every recorded tool |
| offload and cancel `mcp/offload.py`, `core/cancel.py` | worker pools, cancel flags, running table | run_off_loop, run_bounded | save refuses a cancelled call |
| background jobs `mcp/tools_modelling.py`, `mcp/tools_data_async.py`, the runners | a directory and `status.json` per job | start, run, cancel, wait, fetch the result | separate processes that save in the study |
| basin identity `session/basin_identity.py` | stamps on stored results | stamp, judge, drop on a new watershed | session store |
| shards `session/sharding.py` | one extra JSON file per sub-agent | merge_session_shards | session store |
| study resolution `mcp/helpers.py` | none | which study a call works on | bindings, projects, study files |
| chat binding, project registry `session/chat_binding.py`, `session/project_registry.py` | JSON files under locks, projects with revisions | bind, compact, ensure, attach, link, edit | every call of a chat, the editor |
| streamflow series `mcp/streamflow_slot.py`, `mcp/tools_data_fetch.py`, signatures | the study's streamflow slot, retained files, run rows | fetch, retain, compute from, name as parent | session store, run log |
| map and ledger bridges | one event file per call, never read back | write | editor extension |
| capsule, audit, skeptic, views, analysis, data, knowledge | none or derived | read stores, compute | - |

What is hard: a study is written by several threads and processes, and by a
human's terminal; a ledger call writes up to four stores with no transaction
over them; a call can raise, be cancelled or die between two writes; evidence
changes underneath claims that were approved.

What makes each component correct:

* ledger and registry: an approval is spent once; a registry row asserts exactly
  what a human approved; a withdrawal made in the study reaches the registry and
  is not undone; the study never asserts more than its row.
* revision chain: nothing reaches the session file that the chain does not hold.
* write guard: one writer between load and save; always given back.
* session store: a save loses nobody else's change and never replaces a locked
  record; a result of one basin does not stay beside another's watershed.
* run log: a sealed row never changes; a row is sealed once or reported unsealed.
* offload: counts are exact whatever way a call ends; tools that hang cannot keep
  views and seals from being served.
* bindings and projects: a folder has one project; a chat loses its study only by
  its own doing; what a person chose is not overwritten by what a chat suggests.
* jobs: a caller is told of a result only when it is there, and hears of every end.
* series: signatures are of the gauge and period they name and of the run they cite;
  a retained file is never overwritten.

## 2. Plan

Done:

1. `ClaimLedger`: guard, claims, chain, approvals, registry; `PromotionAuthority`
   is its abstract specification.
2. `StudyFile`: load, save and three-way merge of the session file by guarded and
   unguarded calls, basin identity, the shared outline file, cancel flags.

3. `RunLog`, `ToolCalls`: calls from dispatch to sealed record, over two pools;
   `SealedLog` is the run log's abstract specification, as `PromotionAuthority` is
   the registry's.
4. `Desk`: which study a call works on, and the bindings and projects behind it, with
   its proofs.
5. `Jobs`: background jobs and what callers are told of them.
6. `Series`: streamflow from the fetch to the signatures computed from it, with its
   proofs.

To come, the most important first:

7. Shards: merging and deleting a sub-agent's session, as actions over `StudyFile`.
8. `PlanGate`: a locked plan against the claims and runs that cite it.
9. The degraded mode of the locks, as a weaker `GuardExcludes` for the ledger and
    the session file.

10. `run_experiment`, which commits once at its end (tools_experiments.py:337) where
    its doc says after every feature.

Theorems: every safety and every action property of a passing run is stated by a
theorem, and so is `RevisionTells`, which no run checks. Only the six liveness properties
are left to TLC. Theorems to come are those of the modules above, and an abstract specification of the session file (a map of leaves
that calls edit one at a time) that `StudyFile` refines.

Beside the runs there are instances to be run by hand: larger ones, and those whose
counterexamples the sections below describe.

    tlc -workers 2 -config Mislabelled.cfg MCStudyFile

## 3. ClaimLedger

### State

| variable | code |
|---|---|
| `saved` | the `claims` of the session JSON: text, status, cited sources, uncertainty flag, `registry_id`, `stale_sources` |
| `chain` | the `claim_revisions` table, one sequence per claim |
| `approvals` | `approvals.jsonl`; an approval's index stands for its record digest |
| `registry` | `claims.jsonl` as a function from registry ids |
| `revoked`, `content` | revoked keys; the retained record each source resolves to |
| `guard`, `op` | the holder of the study's write guard; the locals of the call in progress |
| `human` | the revision each approval terminal has on screen |
| `day`, `used` | the date in a registry id; counters behind the bounds |

A digest is the record it digests, so two digests agree exactly when the fields
do. `text` stands for all the wording fields that a revision binds. A registry
id keeps what `build_registry_id` hashes (claim, wording, cited evidence and its
fingerprints, date) and the `.rN` attempt.

### Actions

Each ledger tool is its check-and-stage step followed by one step per store it
writes, in the order of the code; other actors interleave between them.

| action | code |
|---|---|
| `AddClaim`, `UpdateClaimStatus` | gates, then `_record_revision` (`Stage`) |
| `SaveSession`, `RetractRow` | `session.save()`, then `propagate_retraction` row by row |
| `PromoteClaim`, `RefusePromotion` | policy, baseline and drift rows, `find_approval`, choice of id |
| `AppendRow`, `RecordPromotion` | registry append; the bookkeeping revision and the claim's link |
| `CheckStaleness`, `ScanRow`, `NoteStale`, `FinishCheck` | the staleness pass, one row at a time, one save |
| `ReviewClaim`, `Approve`, `Decline`, `Revoke` | `aihydro-approve` |
| `ChangeEvidence`, `EditOutOfBand`, `NextDay` | the world outside the ledger tools |
| `Abort` | a call that raises, is cancelled or dies: memory and guard go, writes stay |

A gate's refusal changes no state, so it is the absence of the action;
`RefusePromotion` is an action because the code records what it observed before
it refuses. In `AppendRow` the refusal of a consumed approval is in the model as
in the code, and unreachable while the guard excludes.

### Runs

All in `MCClaimLedger`. `Limit` bounds evidence changes, out-of-band edits and
dead calls; `MaxRevisions`, `MaxApprovals`, `MaxDay` and `MaxRevoked` bound the
rest. `CHECK_DEADLOCK FALSE` everywhere: nobody is obliged to make a call, and
the bounds run out.

| run | shows |
|---|---|
| Lifecycle | two processes, two sources, one change of evidence, no dead call: withdrawal reaches the registry, the study never asserts more than its rows, retracted stays retracted, stale needs re-binding, the chain is current |
| Crashes | one call dies anywhere, the date may change, two approvals: approvals are spent once, rows are approved, whatever is saved is recorded, the stores implement `PromotionAuthority`, and a later staleness pass carries out a retraction whose call died before the registry (`PassWithdrawsRetracted`) |
| Restored | evidence goes and comes back, so the id of a withdrawn row recurs; the session file, the key and the date change outside the tools: a promotion is reported over a live row only |
| Returns | with fairness: calls give the guard back and a saved retraction is carried out |

TwoClaims, by hand: one pass over the rows of two claims on the same source, saved
once, keeps `NeverAssertsMore` and `ChainIsCurrent`.

The bounds are the smallest in which each property's altered form is caught (the
operators marked "Altered form" in the module): two approvals are needed to
spend one twice, two sources to re-bind a claim, two changes for evidence to come
back.

Fairness (`FairSpec`) is weak fairness of each process's `Step`: a call that has
started keeps running. Nothing obliges anybody to start one, and in the instance
no call dies, since a dead call plainly leaves a retraction half done.

### A disagreement between the code and its documentation

StaleReturns, by hand, violates `StaleAlwaysNeedsRebinding`: a claim leaves "stale" only
when it is re-bound (lifecycle.py:12-14), but an older live row opens the gate for a claim
whose newer row went stale.

TwoRows, by hand, goes one step further and violates `NeverAssertsMoreOfAny`: that older
row goes stale too, and the pass that marks it leaves the claim alone, because the claim
is linked to the newer one (tools_ledger.py:1047-1048). The study supports a claim over
two stale rows, which the same pass reports as a conflict and does not repair
(tools_ledger.py:1089-1091). `NeverAssertsMore`, which holds, therefore lets a claim with
several rows outlast one of them, and lets nothing outlast a retraction.

Smaller ones are in the model and have no run:

* "An approval authorises exactly one promotion" (approval/records.py:45) holds of
  registry rows, which is what `ApprovalSingleUse` says. A promotion whose row is
  already there is reported without writing one (registry/store.py:129); its
  approval stays unspent, and the row keeps the stamp of the earlier one.
* Three properties suppose that no call died half way (`Undisturbed`): `ChainIsCurrent`,
  `WithdrawalReachesRegistry` and `NeverAssertsMore`. A retraction that dies before the
  registry leaves a live row, which the next update takes for a reason to readmit the
  claim (lifecycle.py:70-71), so `RetractedStaysRetracted` then speaks only of claims
  without a live row; a pass that dies before its save leaves a supported claim over a
  stale row, which later passes report (registry_conflicts) and do not repair.
  `SavedIsRecorded`, `StaleNeedsRebinding` and `PassWithdrawsRetracted` need no such
  condition: the last is the repair the code promises (tools_ledger.py:406-408). It
  reaches promoted rows only, because a pass does not visit stale ones.

### Proofs

`ClaimLedger_proofs` proves, for all values of the constants satisfying
`InputsAssumption`, `AbsentAssumption` and `NoClaimAssumption` (the markers of an absent
link and an absent claim are no link and no claim):

| theorem | states |
|---|---|
| Typing | `TypeOK` |
| ApprovalsSpentOnce | `ApprovalSingleUse` |
| PromotionsAreApproved | `RowsApproved` |
| OneCallAtATime | `GuardExcludes` |
| ReportedOverLiveRow | `PromotionIsLive` |
| LedgerImplementsAuthority | `ImplementsAuthority` |

`TypeOK` is not inductive: `RecordChange` needs to know that the claim a call
works on exists in its memory, so `TypeInv` adds `CallShape`, the shape of each
call's locals at each program point. `SafetyInv` adds `PendingBacked`: the row a
call is about to append is already backed by an approval and by the chain. It
survives every other actor because approvals and chains only grow
(`HistoryKept`), and every row keeps its revision, number and approval once it is
there (`RowsKept`). Single use then follows at `AppendRow` from the check made
under the registry lock, without using the guard.

The refinement does use the guard. `WatchInv` adds that a call between choosing
a registry id and recording the promotion still finds that id fresh or promoted,
that rows a pass still has to visit are promoted or were retracted by this call,
and that saved links point at rows of their own claim; another process could
break each, and `GuardExcludes` says there is none. The step lemmas then map each
action to a grant, a publication, a withdrawal or a stutter.

`ClaimLedger_agreement` proves, under the same assumptions, that the study keeps in step
with the chain and with the registry:

| theorem | states |
|---|---|
| NothingSavedUnrecorded | `SavedIsRecorded` |
| ChainFollowsSession | `ChainIsCurrent` |
| WithdrawalsReachRegistry | `WithdrawalReachesRegistry` |
| StudyAssertsNoMore | `NeverAssertsMore` |
| StaleClaimsRebind | `StaleNeedsRebinding` |
| RetractionIsFinal | `RetractedStaysRetracted` |
| PassesRepairRetractions | `PassWithdrawsRetracted` |

The first six are about the file between calls, and what it holds then was decided while a
call had its own copy in memory. `Effects` first reduces every action to what it does to
the file, the stores and that copy; the four invariants are then proved over some ten
effects instead of twenty actions. `FollowInv`: the copy departs from the file only
where its program point says so, and what is about to be saved passed the gate.
`RecordInv` and `CurrentInv`: every claim of the file and of the copy is in its chain, and
is its last revision while nothing died; in a staleness pass this has to be said of the
copy, which is rows ahead of the file. `AgreeInv`: every claim agrees with its rows
(`Settled`) in whichever of the two counts at that point, except the claim a retraction or
a pass is at work on, where it says what is still to be done. That a claim has retracted
rows only all at once is part of `Settled`: without it a claim whose second row is live
could be readmitted over a first one that was retracted.

The last is about the pass itself, and supposes nothing of what died before it.
`SweepInv`: a pass has every withdrawn claim in memory as it is in the file, and the
promoted rows of those claims are on its list or among the rows it is retracting.

Only model-checked: the liveness properties `CallsReturn` and `RetractionCompletes`.

## 4. StudyFile

`ClaimLedger` treats a study as a record that only the holder of the guard
changes. `StudyFile` models what is underneath: a JSON file that many calls load,
hold in memory and save, most of them without holding the guard in between, and
`GuardedUndisturbed` is the property of it that `ClaimLedger` rests on.

### State

| variable | code |
|---|---|
| `file` | the session JSON: its leaves (watershed, plan, results, records) and notes |
| `stamp` | the stat stamp `save` compares: the number of saves so far |
| `outline` | which gauge's geometry is in `<session_id>.geojson` |
| `guard` | the holder of the write guard's lock file |
| `call[c]` | a tool call: where it is (`pc`), its object (`mem`), `_base_text` (`base`), `_disk_stamp` (`seen`), the payload to write (`out`), what it changed (`edited`, for the properties only), the basin it delineates or computed from (`target`, `geom`), its cancel flag |

A leaf is what the merge treats as one value. A basin stands for its geometry and
its digest. The values of a leaf are opaque, except that watersheds and results
carry the basin they are of and the basin they are stamped with.

### Actions

| action | code |
|---|---|
| `Open`, `OpenGuarded` | `HydroSession.load` by a tool, and by a ledger tool inside `_serialized_study` |
| `Delineate`, `WriteOutline`, `StoreWatershed` | `delineate_watershed`: start, the outline file, `_session_store` |
| `SetRecord`, `DropRecord`, `ClearSlot`, `AddNote`, `RegisterPlan` | changes to the object |
| `ReadGeometry`, `SetResult` | `_get_session_geometry` with its second load, then `put_result` |
| `BeginSave`, `Compare`, `Replace` | `save`: the cancel check; under the guard, comparison and merge; `os.replace` and the new baseline |
| `GiveUp`, `Fail`, `Return`, `Cancel` | SESSION_BUSY; an exception or a dead process; the tool returns; the client gives up |

`Compare` and `Replace` are two steps because readers take no lock and a process
may die between them. SESSION_CONFLICT is in `Compare`, but no call reaches it: only
guarded calls write plans, and those are never overtaken.

### Runs

All in `MCStudyFile`, with `CHECK_DEADLOCK FALSE` because calls are not obliged
to come and `MaxSaves` runs out.

| run | shows |
|---|---|
| Merging | two calls with two edits each and three saves: nobody's record or note is reverted or lost (`OwnEditsOnly`), what a call changed arrives (`EditsArrive`), with the notebook at its limit |
| Guarded | a plan is registered beside tools that save without the guard, one call is cancelled: the ledger tool is undisturbed, the plan stays, the guard comes back |
| OneStudyBasin | from a delineated study, two basins with outline files of their own and two result slots: no result stays beside another basin's watershed |

Three saves are the least for the hazard the merge is built around: a save that
merged, followed by another of the same object, which must not take the other
call's changes for its own deletions. `ReplaceOnMerged` is that mistake. Two edits
let a call change a leaf the other one changed and one it did not. Two calls are
enough for one save to overtake another; a third overtakes in the same way.

Fairness (`FairSpec`): a save under way goes on, because its steps are straight-line
code and the wait for the guard is bounded (`GiveUp`); a ledger tool returns,
because it only does local work and is bounded by `MaxEdits`. No tool is obliged to
save, and an unguarded one may compute forever: it holds no guard meanwhile.

### Disagreements between the code and its documentation

Instances that end in a counterexample, by hand:

| instance | the sentence | what happens |
|---|---|---|
| FirstSave | a locked record is never replaced (store.py:1040) | an object built when the study had no file saves over a file created since, without comparing: its stamp is `_NO_MERGE`, not `None` (store.py:1911) |
| LateBasin | no result of one basin beside the watershed of another (store.py:1116-1117) | `_apply_basin_change` gives up when the loaded file had no watershed (store.py:1120), so a watershed stored over a study delineated meanwhile keeps the other's results |
| Mislabelled | every result is stamped with the basin it was computed for (basin_identity.py:3-4) | a delineation rewrites the shared outline before it stores the watershed; a result computed from it in between carries the old basin |

Three smaller ones are in the model and have no run. Two gauges of one study share
an outline file, and `_basin_digest_of` digests the file instead of reading the
stamp, so after clear_session a merge sees no basin change (store.py:1108). A note
that repeats an earlier one is dropped when its save has to merge (store.py:1094).
A cancel that arrives while a save waits for the guard does not stop the write
(store.py:2006-2011).

### Proofs

`StudyFile_proofs` proves, for any number of calls, leaves, notes, plans, basins
and saves:

| theorem | states |
|---|---|
| StudyTyping | `TypeOK` |
| NothingElseChanges | `OwnEditsOnly`, of leaves and of notes |
| ChangesArrive | `EditsArrive`, of leaves and of notes |
| OneBasinKept | `OneBasin`, for a study delineated before (`DelineatedStart`): otherwise LateBasin is the counterexample |
| LedgerToolsUndisturbed | `GuardedUndisturbed` |
| LockedPlanStays | `PlanIsFinal`, for a study that had a file (`Created`): without it FirstSave is the counterexample |

`LeavesAssumption` says that the kinds of leaves are disjoint, that the markers (absent,
cleared, nobody, no basin) are not values, and that the study starts well typed.

*Guard and plan.* `OwnGuard` adds to `GuardedUndisturbed` that whoever is about to replace
the file holds the guard and that a ledger tool's payload is its own object. `OwnPlan`
adds what every object in memory holds of the plan: a ledger tool the file's, or
its own where the file has none; any other call exactly what it loaded, which is the
file's as long as it was not overtaken, so that the merge takes the plan from the
file (`MergedPlan`). `Shape` says that objects are records with all their leaves, no
more. The interesting step is `Replace`: the writer holds the guard, so no other object
belongs to a ledger tool or is about to be written, and none carries the new stamp.

*No lost update.* `EditInv` relates an object to its baseline: they differ only in what
the call changed (`OwnBase`), a baseline that is not older than the file is the file, and
what is about to be written differs from the file only in what the call changed
(`OwnWrite`). The first must hold again right after a save that merged, which is the
mistake the code's comment warns of (store.py:2049-2053) and the mutant
`ReplaceOnMerged` makes. It also needs that records and plans are never cleared to
nothing, since a merge reads an absent baseline as None. `NoteInv` (`OwnNotes`)
says the same of the list of notes, over the sets of their members.

*Notes.* What a merge keeps of a list is `Outside`, a recursive function: the provers know
nothing of the library's `SelectSeq`. That its members are those of the list that are
not left out (`OutsideMembers`) is an induction over the list. The library's induction
theorems are out of reach, since they take an operator as a parameter; here the set of
lengths for which the fact fails is a subset of Nat, and has a least element by
`WFMin` if it has any (`LeastOf`, `SetInduction`).

*One basin.* `WholeInv` says that the file, every object, its baseline and what is about to
be written each hold a watershed the study can have (`HeldWatershed`) and no result stamped
with another basin (`Whole`). A merge of three such files is one again because
`_apply_basin_change` drops what the merge brought of the losing side, and it recognises
the losing side because two basins the study can hold never share a digest
(`DigestsDiffer`). That last step is what `DelineatedStart` is for: a gauge's outline is
shared by all gauges, so the study must hold its gauge, if any, from the start and nobody
may clear it.

Only model-checked: `GuardComesBack`, which is liveness.

### Not modelled

Registered features and their identities, gauge ids in basin identities, legacy
layouts and migrations, unreadable files, archiving, and locks on filesystems that
have none. A stamp is inode, modification time and size; two saves that agree in
all three are not considered.

## 5. RunLog, SealedLog, ToolCalls

Every recorded tool call must leave a row in the study's run log that is *sealed*:
it carries a record of the call, over the body of the row. The rows are written by
the tool's worker thread, the seal by `RunRecordMiddleware` when the tool has
answered, or when the client has given up and the thread has not.

`RunLog` is the SQLite table and the process's list of seals to retry; `SealedLog`
is what the table promises; `ToolCalls` is everything that happens to a call.

### State

| variable | code |
|---|---|
| `log` | the `runs` table: a row's body and its record. A body is whose view it is (`put_result`'s, `post_run`'s, the middleware's minimal one) and whether it is marked unsealable |
| `pending`, `dropped` | `_PENDING`; run ids whose seal is no longer retried |
| `worker`, `answer` | where the call's thread is; where its request is |
| `queue`, `running`, `waiting` | the tool pool's queue, `_RUNNING`, `_CLASS_ACTIVE` |
| `cancelled` | calls the client gave up on |
| `capture`, `view`, `layer` | `CallCapture`: rows written, failed, refused, reserved; what `post_run` is about to write, then what the result declares; the id on the map layer |
| `sealing`, `retrying` | the locals of `_record_call` and of `reseal_unsealed_rows` |
| `problems` | the ids in the answer's `record_error` |

### Actions

| action | code |
|---|---|
| `Dispatch`, `Start`, `EndWorker`, `Return`, `Raise`, `Cancel` | `offload_sync`, `run_off_loop`, the cancel flag |
| `PutResult`, `PushLayer`, `PostRun`, `WriteRunLog` | the writers of rows, each noting in the capture; a writer may find the table locked or be refused |
| `BeginSeal`, `ReadRow`, `StoreRecord`, `StoreLockedOut` | `_record_call`, row by row, reading and storing in separate transactions with three attempts |
| `BeginRetry`, `NextRetry`, `RetryRead`, `RetryMark`, `RetryStore`, `RetryLockedOut`, `Export` | `reseal_unsealed_rows`, four per call and all at an export |
| `Crash` | the server dies and starts again |

A read and the store that follows are two steps, because the code opens a transaction
for each; `_run_log_record` itself is one step.

### Run

`Calls`: two calls of any kind on pools of one worker each; one fault, which is a
lock not had in time, a client that gives up or a death of the server. Retries find the
lock taken any number of times and that is no fault. Two calls are
the least for one to hold the worker the other needs, for the class to be full and
for one call to retry the other's seal. `PendingMax` is 2 for three rows of a call to
overflow it. Pools of one worker are the tightest that still serve.

| property | says |
|---|---|
| `ImplementsSealedLog` | a sealed row is final, its record is of the body beside it, a marked row is not sealed |
| `UnsealedIsAccountedFor` | an unsealed row of an answered call will be retried, is marked, or was counted as dropped |
| `HandedIdIsSealed`, `LayerRowExists`, `LossIsDisclosed` | what a result or a layer names is there, or the answer says what is wrong with it |
| `OneExecutionOneRow` | `post_run` describes the slot's row instead of a second one |
| `WaitingIsExact` | the class count is right however calls end: one too many would refuse `wait_for_job` for good |
| `AnswersAreSealed`, `ViewsAreAnswered` | a call whose tool has answered is sealed and answered; views are answered while tools hang |

Fairness (`FairSpec`): sealing goes on, and so does a view's worker. Both run on the
reserved pool, whose work is local and has deadlines. Nothing is assumed of tools:
they may hang for ever, which is what the reserved pool is for (offload.py:115).

Three of the safety properties speak of calls that were answered. A cancelled call
has nobody to tell, and its thread goes on: rows it writes after the seal stay
unsealed, and a layer it pushes then may name a row that never comes.

### Disagreement between the code and its documentation

Ghosts, by hand, violates `RunningIsInFlight`: `running_tools` is a "Snapshot of
in-flight tool calls" (offload.py:72), but a call cancelled while it is queued is
entered by its caller and removed only by a worker that never starts
(offload.py:186-201), so it is listed until the server ends.

Smaller ones are in the model and have no run. `_reseal_one` compares the bodies of
a row that was absent when it was read and of one refused now, finds none, and ends
the pass with an exception (run_records.py:1706-1724). A row written by a cancelled
worker after its seal stays unsealed without a pending seal.

### Proofs

`ToolCalls_proofs` proves, for any number of calls, workers, retries and faults:

| theorem | states |
|---|---|
| CallTyping | `TypeOK` |
| RunLogKeepsPromise | `ImplementsSealedLog` |

`CallsInv` adds to the types who owns what: a capture, a view and a sealing hold runs
of their own call only (`OwnCaptures`, `OwnViews`, `OwnSealings`), so that the record
a call stores is over its own row; a seal kept to retry is of a row the middleware is
through with, and carries the very body its record was built from (`KeptSeals`); what
is about to be stored is not marked (`StoringUnmarked`), because marks are only put on
rows the middleware is through with (`MarkedLate`). Each step of `RunLog` then maps to
a write of an open row, a seal, or a stutter.

`ToolCalls_accounts` proves what an answer leaves behind, for the same instances:

| theorem | states |
|---|---|
| NoSilentLoss | `UnsealedIsAccountedFor` |
| HandedIdsAreSealed | `HandedIdIsSealed` |
| LayersDoNotDangle | `LayerRowExists` |
| LossesAreDisclosed | `LossIsDisclosed` |
| OneRowPerExecution | `OneExecutionOneRow` |
| WaitsAreCounted | `WaitingIsExact` |

Its invariant `Accounts` follows a call from the start of its sealing: every row and
every name of the call is settled (sealed, kept to retry, marked, reported or counted
as dropped) or still on the list of what is to be sealed (`RowsAccounted`,
`NamesAccounted`). The list starts with every row there is, because a writer notes the
rows it writes in the capture (`RowsNoted`), only tools write
(`OnlyToolsWrite`), and no writer is at work when sealing starts, unless the client
gave up and there is no answer to speak of (`Quiet`). Nothing is left of a call once it
is over (`NothingLeft`).

`LossInv` follows the row of a tool's slot while its client waits: the row is there, it
has `post_run`'s view or the capture knows of the loss, and what is sealed over it says so
(`Disclosed`). The seals that are kept for a retry, on the list and in the hands of
whoever retries them, say so too (`SealsHonest`), because a record is built once and
stored later; and nobody seals a row before its call is over (`InOrder`).

`SmoothInv` is about what cannot have happened while no fault has: nobody gave up, nothing
waits for a retry, every write was noted, and no body changed between the read and the
store of a seal. Only then is `post_run` sure to find the slot's row; a worker that lost it
writes a row of its own, which the property allows.

`CountInv` is that the class counts a finite set of calls, those awaited, however they end.

Only model-checked: `AnswersAreSealed` and `ViewsAreAnswered`, which are liveness.

## 6. Desk

Which study does a call work on? It names one, or its chat is bound to one, or its
project has a default, or its folder has only one; a tool that delineates may make a
new one. `Desk` models the resolver rule by rule with the stores it reads and writes.

### State

| variable | code |
|---|---|
| `study` | of each study file: saved, archived, its workspace |
| `binding` | the chat bindings file; by which rule a chat was bound |
| `project` | `project.json` of each project: root, aliases, title, studies and who added them, default and whether a person confirmed it, revision |
| `lock` | the lock of the bindings and of the registry |
| `call`, `ensuring` | the locals of calls and of `ensure_project` |
| `seen` | what a host last showed its person of a project |
| `confirmed`, `spent` | history, and the counters behind the bounds |

### Actions

`Begin` is a call as it comes in, with a folder and a project id that need not belong
together (the server does not check that they do, app.py:586-630); `ResolveNamed`,
`ResolveBound`, `ResolveDefault` and
`ResolveSingle` are the rules, each its own step because each reads other files.
`BindLoad` and `BindSave` are `bind` under its lock, with compaction; `FindProject`,
`Link` and `Relabel` bring the study into the chat's project; `Home` gives a study its
workspace; `Work`, `Start` and `Rebind` are the tools. `EnsureLook`, `EnsureFinds`,
`EnsureCreates` and `EnsureAttaches` are `ensure`; `Look` and `Edit` are a host's reads
and edits with `expected_revision`. `Kill` ends a call anywhere: its locks go, its
writes stay.

### Runs

| run | shows |
|---|---|
| Desk | two chats, two studies, two folders, a host, two calls of which one may die, one edit: a folder has one project (`OneProjectPerDir`), chats are put only on defaults a person confirmed (`InferredIsConfirmed`), a chat loses its study only by its own call or because the study has no file (`OthersKeepTheirs`), chats never move a default a person chose (`TheirDefaultStays`) |
| GhostStudy | ends in a counterexample, see below |

Two calls and a host are enough for a read of one to go stale by the write of another,
which is every race the locks are there for; `FreeForAll`, locks that do not exclude,
is the altered form of two properties. `MaxBindings = 1` makes the second chat's
binding reach compaction. No liveness is stated: waits for these locks are unbounded
in the code and nobody is obliged to come.

### Disagreement between the code and its documentation

GhostStudy violates `RecordingCreatesNothing`. The resolver of recording tools never
creates a study (helpers.py:247-249), but a chat may be bound to a study that was never
saved, when a delineation fails after it was bound; the next recording tool then
loads it, gives it its workspace and saves it, before `must_exist` is asked
(helpers.py:500-512).

Smaller ones are in the model and have no run. The new binding of a chat to a study
without a file can be dropped by the compaction of the very same save
(chat_binding.py:281), and with it goes the binding the chat had: with three calls, a
delineation resolved before another call bound its chat to a saved study leaves that
chat bound to nothing. A study removed from a project is brought back by the chat's
next bind. `ensure` with `attach_to` answers "found" for an alias of the same project
without moving its root (project_registry.py:295-296).

Not modelled: unbinding a chat or a study (no tool calls it), calls of
agents and of evaluation runs (they bind nothing), the fallback to the most recent
study (off unless asked for), and legacy project journals.

### Proofs

`Desk_proofs` proves, for any number of chats, calls, hosts, studies and folders:

| theorem | states |
|---|---|
| DeskTyping | `TypeOK` |
| FoldersHaveOneProject | `OneProjectPerDir` |
| BindingsAreKept | `OthersKeepTheirs` |
| RevisionsAreCounted | `RevisionTells`: a host that sees the current revision of a project sees the project |
| ChosenDefaultsStay | `TheirDefaultStays` |
| DefaultsAreConfirmed | `InferredIsConfirmed` |

Assumed of the constants is that `None` is no chat, study, folder, client, rule or
project and that no call is a host (`DeskAssumption`). The invariant `DeskInv` says what
each lock is for. Who holds the registry's lock and found no project for a folder may
rely on it until one is there (`EnsuringOk`), so a second one is never made; a project
that moves takes only a folder nobody has (`OneOwner`). Who is between the halves of a
bind holds the bindings' lock and has read what the file still holds (`CallOk`), so the
rewrite changes no other chat. That part needs to know of a call's plan that a bind's
second half is only ever its next step. What a host has seen is never ahead of its
project (`SeenOk`), and a default marked as confirmed is one a person confirmed
(`ProjectsSound`); a call keeps that with the default it has resolved, over every wait
between the resolver and the save.

## 7. Jobs

A tool starts a detached process and answers at once; the process writes
`status.json` and, for a training or an inundation job, a result in the study; other
calls say what became of it. The table of processes is aihydro_core's and is modelled
from its use here.

### State and actions

| variable | code |
|---|---|
| `job`, `status` | `job_config.json`; `status.json` |
| `worker`, `killed` | where the process is; that it died by itself |
| `slot` | the result under each key of each study |
| `made` | the jobs whose own files are written |
| `moved` | benchmarks whose study was given another watershed since they loaded it |
| `ousted` | history: jobs whose result was taken out of its study by someone else, or kept out |
| `told` | what the last call said of the job |
| `changes` | the counter behind the bound on clears and watersheds |

`SubmitTraining`, `SubmitFetch`, `SubmitSearch`, `SubmitPhysics` and `SubmitSurrogate`
start jobs; `Begin`, one action for what each kind computes, `Save`, `Fail` and
`Finish` are the processes; `Die` and `Cancel` end them; `Wait` is `wait_for_job` and
`Ask` the tools that fetch a result, each kind with its own idea of a status;
`Clear` is `clear_session`, and `WatershedReplaced` the part of storing another watershed
that drops physics reports. `Save` joins the result with what others saved meanwhile; for
a benchmark whose study has another watershed by then, the merge may leave the report out
(`_apply_basin_change`), and the process does not learn of it.

### Run

`Jobs`: two jobs of any kinds on two studies, one death, and one study cleared or given
another watershed. Two jobs store under the same key or not, and one may be cancelled
while the other saves.

* `ResultIsBacked`: a caller told of a result of a training, a search or an inundation
  job was told of one whose files were written and whose entry, where it has one, is in
  the study unless a later job of the same key, a clear or another watershed took it out,
  or another watershed kept it out. Results of fetch jobs are not covered, see below.
* `JobIsHeardOf`: a caller that keeps waiting hears of the end, unless the process was
  killed. Fairness: a process that runs gets on, and the caller calls `wait_for_job`
  again as its answer says; neither is a promise about killed processes.

### Disagreements between the code and its documentation

CancelledFetch, by hand, violates `FetchIsBacked`: `get_data_fetch_result` reads
`status.json` itself and answers every status but pending, running and failed as
complete, so a cancelled fetch is answered with a result (tools_data_async.py:283-306,
against :247).

In the model, without a run: `wait_for_job` asks to be called again for ever when the
process was killed, since only `get_model_results` looks whether it is alive; a training
killed between its save and its last status leaves its model as the study's, while
asking for the job finds none; of two overlapping trainings of a study the later
save wins; a benchmark is "complete" though its report was left out of a study that
was given another watershed while it was saved.

### Proofs

`Jobs_proofs` proves for any number of jobs, studies, deaths, clears and watersheds: JobTyping
(`TypeOK`) and ResultsAreBacked (`ResultIsBacked`); `JobIsHeardOf` is liveness and is
only model-checked. What a caller was told is carried
back to what `status.json` said (`Honest`) and from there to where the process was when
it wrote it (`Ordered`): result files, study entry, status, in this order.

Basins are modelled by what they do to results: `WatershedReplaced` drops the physics
reports of a study, and `MayDrop` says which saves may leave theirs out. Surrogates are
stored under a feature id of their own job, which neither rule visits, and models are not
a basin's.

Not modelled: runners that write `status.json` in place, not by a rename, may be read
half-written; the readers answer with a lookup error then.

## 8. Series

### State and actions

| variable | code |
|---|---|
| `site`, `slot`, `results` | `session.site_id`, the streamflow slot, the signatures by feature, gauge and period |
| `runs` | the rows of fetches: the file and digest they retain |
| `disk`, `touched` | the files; those edited by hand |
| `call`, `started` | the calls under way; a counter that also makes scratch names unique |
| `edits`, `clears` | the counters behind the bounds |

A digest is the content it digests. `StartFetch`, `StartDataFetch`, `Serve`, `Keep` and
`StoreSlot` are `fetch_streamflow_data` and `data_fetch`; `Keep` is the choice of a
content-addressed name (`ContentAddress`) and writing under it. `StartSignatures`,
`ReadSeries`, `AcquireSeries`, `StoreSignatures` and `FailSignatures` are
`extract_hydrological_signatures`: the decision to use the slot's series, the second
read of the file, or a fetch of its own, and the retained copy. `Clear` and `EditFile`
are the owner's; a file may be edited or deleted at any moment. Where the library obtains
no series of its own (observation "none") the result says so and retains no file.

### Run

`Series`: two overlapping calls, three in all, two gauges of which one is a registered
feature's, two revisions a source may serve, one edit and one clear. Three calls are
two fetches and the signatures that must not mix them.

* `SignaturesAreTheirs`: signatures are of the gauge and period they are stored for,
  and of the content of the run they name as parent; excepted are those whose file was
  edited between the call's two reads of it.
* `RetainedStays`: a file that a run or a result names, and that nobody edited, holds
  what it held when it was recorded.

A call takes the file's digest (tools_analysis.py:1487) and reads it again for the values
(:1514). An edit in between is not noticed: the signatures are of the edited series, and
their record gives the digest of the one before and names its run as parent. That is the
exception, for which `raced` is the history. BetweenReads, by hand, violates
`NeverUsesAChange`, the same statement without it: "never consume a series that changed
after fetch" (:1522).

Names made from the first digits of a digest are taken to be distinct: `ContentAddress`
checks what a retained file holds, while the series of signatures are written under 16
digits without a look (series_binding.py:152). Periods are longer than the 50 days up to
which the session file holds the values itself.

Not modelled: what else reads the daily series. Baseflow, flow-duration and
flood-frequency tools load the file without looking at its digest
(tools_analysis.py:3601-3665). Several periods are left to the constant `Periods`, one
in the instance: gauges and periods play the same part in `Holds`.

### Proofs

`Series_proofs` proves, for any number of calls, gauges, periods and revisions and
any edits at any moment, from `SeriesAssumption` (registered features are gauges, and the markers of
`elsewhere` and of nothing are not):

| theorem | states |
|---|---|
| UsedWhatTheyName | `SignaturesAreTheirs` |
| NothingOverwritten | `RetainedStays` |

What a result uses was read by a call, and what the call read was chosen from the slot,
so `Inv` carries one fact from each to the next: the slot's run retained the slot's file
under the slot's digest (`SlotSound`); the digest a reading call has taken matches the
key, is what the parent run retained, and is of what the file holds unless it was edited
since (`CallSound`); results keep that (`ResultsSound`). A file keeps its content because a name that is in use stands for one
content, or belongs to one call (`Named`, `IdsSound`).
