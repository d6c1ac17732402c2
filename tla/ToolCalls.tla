------------------------------- MODULE ToolCalls -------------------------------
(***************************************************************************)
(* Tool calls from dispatch to record.  A call is run by a worker thread of    *)
(* one of two pools (mcp/offload.py); the worker writes rows of the run log    *)
(* and notes them in the call's capture; when the tool has answered, or the     *)
(* client has given up, RunRecordMiddleware seals those rows on a reserved     *)
(* worker and retries a few seals that failed before (session/run_records.py). *)
(* A cancelled call is sealed while its worker may still be running: a thread  *)
(* cannot be killed.                                                        *)
(*                                                                         *)
(* Modelled are calls that resolve to the study; a call that resolves to none   *)
(* writes no row.  The server process may die and start again.                *)
(***************************************************************************)
EXTENDS RunLog, FiniteSets

CONSTANTS
    Kinds,              \* of the calls: "tool", recorded; "view", read-only and exempt; "wait", wait_for_job
    Workers,            \* threads of the tool pool
    ReservedWorkers,    \* threads of the reserved pool
    ClassLimit,         \* waiting calls at a time (_CLASS_LIMIT)
    Attempts,           \* tries to attach a record to a changing row
    RetriesPerCall,     \* seals retried after a call (RESEAL_PER_CALL)
    Exporter,           \* the capsule export, which retries all of them
    NoRun, NoSeal,
    MaxFaults           \* bound: writes, reads and seals that find the lock taken, deaths of the process, cancels

VARIABLES
    kind,               \* what a call is
    worker, answer,     \* where a call's thread is; where the request it serves is
    queue, running,     \* calls waiting for a worker; the table _RUNNING
    waiting,            \* _CLASS_ACTIVE
    cancelled,          \* calls the client gave up on
    capture,            \* the rows a call has written, failed to write, was refused, and reserved
    view,               \* the run id and body post_run is about to write; then the id the result declares
    layer,              \* the run id on the map layer the call pushed
    sealing,            \* the locals of _record_call
    retrying,           \* the locals of reseal_unsealed_rows
    problems,           \* run ids the call's record_error names
    faults

callVars == <<kind, worker, answer, queue, running, waiting, cancelled>>
captureVars == <<capture, view, layer>>
recordVars == <<sealing, retrying, problems>>
vars == <<logVars, callVars, captureVars, recordVars, faults>>

Resealers == Calls \union {Exporter}
Recorded(c) == kind[c] = "tool"
Answered(c) == answer[c] = "over" /\ c \notin cancelled

ASSUME ToolCallsAssumption ==
    /\ Exporter \notin Calls
    /\ NoRun \notin RunIds /\ NoSeal \notin Pendings
    /\ Kinds \subseteq {"tool", "view", "wait"}
    /\ {Workers, ReservedWorkers, Attempts, RetriesPerCall} \subseteq Nat \ {0}
    /\ ClassLimit \in Nat /\ MaxFaults \in Nat

NoCapture == [rows |-> << >>, failed |-> {}, refused |-> {}, reserved |-> NoRun]
NoView == [run |-> NoRun, body |-> NoBody]
NoSealing == [rows |-> {}, todo |-> {}, attempt |-> 1, absent |-> FALSE, body |-> NoBody]
NoRetry == [todo |-> {}, now |-> NoSeal, row |-> NoRow]

Init ==
    /\ LogInit
    /\ kind = [c \in Calls |-> "tool"]
    /\ worker = [c \in Calls |-> "idle"]
    /\ answer = [c \in Calls |-> "none"]
    /\ queue = << >> /\ running = {} /\ waiting = 0
    /\ cancelled = {}
    /\ capture = [c \in Calls |-> NoCapture]
    /\ view = [c \in Calls |-> NoView]
    /\ layer = [c \in Calls |-> NoRun]
    /\ sealing = [c \in Calls |-> NoSealing]
    /\ retrying = [x \in Resealers |-> NoRetry]
    /\ problems = [c \in Calls |-> {}]
    /\ faults = 0

Fault ==
    /\ faults < MaxFaults
    /\ faults' = faults + 1

\* A transaction does not get the lock in time.
LockedOut == Fault

-----------------------------------------------------------------------------
(* Dispatch and the worker pools.                                             *)

AtWork == {"work", "stored", "posting", "posted"}
Busy(c) == worker[c] \in AtWork

\* Altered form: views wait for the tool pool like everything else.
NeverReserved(c) == FALSE
UsesReserved(c) == kind[c] = "view"

Sealers == {c \in Calls : answer[c] \in {"reading", "storing", "retrying"}}
OnReserved == Sealers \union {c \in Calls : Busy(c) /\ UsesReserved(c)}

LeaveQueue(c) ==
    queue' = IF worker[c] = "queued" THEN RemoveAt(queue, CHOOSE i \in DOMAIN queue : queue[i] = c) ELSE queue

Dispatch(c, k) ==
    /\ answer[c] = "none"
    /\ kind' = [kind EXCEPT ![c] = k]
    /\ IF k = "wait" /\ waiting >= ClassLimit
       THEN /\ answer' = [answer EXCEPT ![c] = "over"]
            /\ UNCHANGED <<worker, queue, running, waiting>>
       ELSE /\ answer' = [answer EXCEPT ![c] = "awaited"]
            /\ worker' = [worker EXCEPT ![c] = "queued"]
            /\ queue' = Append(queue, c)
            /\ running' = running \union {c}
            /\ waiting' = IF k = "wait" THEN waiting + 1 ELSE waiting
    /\ UNCHANGED <<logVars, cancelled, captureVars, recordVars, faults>>

Start(c) ==
    /\ worker[c] = "queued"
    /\ IF UsesReserved(c)
       THEN Cardinality(OnReserved) < ReservedWorkers
       ELSE /\ c = Head(SelectSeq(queue, LAMBDA d : ~UsesReserved(d)))
            /\ Cardinality({d \in Calls : Busy(d) /\ ~UsesReserved(d)}) < Workers
    /\ worker' = [worker EXCEPT ![c] = "work"]
    /\ LeaveQueue(c)
    /\ UNCHANGED <<logVars, kind, answer, running, waiting, cancelled, captureVars, recordVars, faults>>

\* The thread is done; the request it serves, unless cancelled, has its answer.
LeaveClass(c) == IF kind[c] = "wait" THEN waiting - 1 ELSE waiting
AfterTool(c) == IF Recorded(c) THEN "due" ELSE "over"

EndWorker(c) ==
    /\ worker' = [worker EXCEPT ![c] = "done"]
    /\ running' = running \ {c}
    /\ IF answer[c] = "awaited"
       THEN answer' = [answer EXCEPT ![c] = AfterTool(c)] /\ waiting' = LeaveClass(c)
       ELSE UNCHANGED <<answer, waiting>>
    /\ UNCHANGED <<logVars, kind, queue, cancelled, capture, layer, recordVars, faults>>

Return(c) ==
    /\ worker[c] \in AtWork \ {"posting"}
    /\ EndWorker(c)
    /\ UNCHANGED view

\* The tool raises, an error of its own or ToolCancelled at its next check: no result.
Raise(c) ==
    /\ worker[c] \in AtWork \ {"posting"}
    /\ EndWorker(c)
    /\ view' = [view EXCEPT ![c] = NoView]

\* Altered form: the class count is left alone when the client gives up.
CancelKeepsCount(c) ==
    /\ answer[c] = "awaited" /\ Fault
    /\ cancelled' = cancelled \union {c}
    /\ answer' = [answer EXCEPT ![c] = AfterTool(c)]
    /\ worker' = IF worker[c] = "queued" THEN [worker EXCEPT ![c] = "done"] ELSE worker
    /\ LeaveQueue(c)
    /\ UNCHANGED <<logVars, kind, running, waiting, captureVars, recordVars>>

\* The client gives up.  A call that is still queued never reaches its worker.
Cancel(c) ==
    /\ answer[c] = "awaited"
    /\ Fault
    /\ cancelled' = cancelled \union {c}
    /\ answer' = [answer EXCEPT ![c] = AfterTool(c)]
    /\ waiting' = LeaveClass(c)
    /\ worker' = IF worker[c] = "queued" THEN [worker EXCEPT ![c] = "done"] ELSE worker
    /\ LeaveQueue(c)
    /\ UNCHANGED <<logVars, kind, running, captureVars, recordVars>>

-----------------------------------------------------------------------------
(* What the worker writes.                                                    *)

\* A writer's row and what its call's capture notes of it.
Write(c, r, body) ==
    \/ LET outcome == RecordOutcome(r, body, NoRecord)
       IN /\ RecordRow(r, body, NoRecord)
          /\ capture' = IF outcome \in Stored
                        THEN [capture EXCEPT ![c].rows = Append(@, r)]
                        ELSE [capture EXCEPT ![c].refused = @ \union {r}]
          /\ UNCHANGED faults
    \/ /\ LockedOut
       /\ capture' = [capture EXCEPT ![c].failed = @ \union {r}]
       /\ UNCHANGED log

PutResult(c) ==
    /\ worker[c] = "work" /\ Recorded(c)
    /\ Write(c, Run(c, "slot"), Body("slot"))
    /\ worker' = [worker EXCEPT ![c] = "stored"]
    /\ UNCHANGED <<pending, dropped, kind, answer, queue, running, waiting, cancelled,
                   view, layer, recordVars>>

\* The layer names the last row written, else an id reserved for the row to come.
PushLayer(c) ==
    /\ worker[c] \in {"work", "stored"} /\ Recorded(c)
    /\ layer[c] = NoRun
    /\ IF capture[c].rows # << >>
       THEN layer' = [layer EXCEPT ![c] = Last(capture[c].rows)] /\ UNCHANGED capture
       ELSE /\ layer' = [layer EXCEPT ![c] = Run(c, "layer")]
            /\ capture' = [capture EXCEPT ![c].reserved = Run(c, "layer")]
    /\ UNCHANGED <<logVars, callVars, view, recordVars, faults>>

\* post_run describes the execution in the slot row this call wrote, if that can
\* be read and is still open; else in a row of its own.
\* Altered form: never in the slot row.
NeverAdoptable(c) == FALSE

Adoptable(c) ==
    LET r == Run(c, "slot") IN r \in Range(capture[c].rows) /\ Exists(r) /\ ~Sealed(r)

OwnRow(c) ==
    LET r == IF capture[c].reserved # NoRun THEN capture[c].reserved ELSE Run(c, "result")
    IN [run |-> r, body |-> Body("full")]

SlotRow(c) ==
    LET r == Run(c, "slot") IN [run |-> r, body |-> [log[r].body EXCEPT !.text = "full"]]

PostRun(c) ==
    /\ worker[c] \in {"work", "stored"} /\ Recorded(c)
    /\ \/ view' = [view EXCEPT ![c] = IF Adoptable(c) THEN SlotRow(c) ELSE OwnRow(c)] /\ UNCHANGED faults
       \/ Adoptable(c) /\ LockedOut /\ view' = [view EXCEPT ![c] = OwnRow(c)]
    /\ worker' = [worker EXCEPT ![c] = "posting"]
    /\ UNCHANGED <<logVars, kind, answer, queue, running, waiting, cancelled, capture, layer, recordVars>>

WriteRunLog(c) ==
    /\ worker[c] = "posting"
    /\ Write(c, view[c].run, view[c].body)
    /\ worker' = [worker EXCEPT ![c] = "posted"]
    /\ UNCHANGED <<pending, dropped, kind, answer, queue, running, waiting, cancelled,
                   view, layer, recordVars>>

-----------------------------------------------------------------------------
(* Sealing: RunRecordMiddleware and _record_call, one transaction at a time.  *)

Declared(c) == IF c \in cancelled THEN NoRun ELSE view[c].run

\* Altered form: the id a layer names is forgotten.
RowsButReserved(c) ==
    LET wrote == Range(capture[c].rows) \union capture[c].failed \union ({Declared(c)} \ {NoRun})
    IN IF wrote = {} THEN {Run(c, "record")} ELSE wrote

RowsToSeal(c) ==
    LET wrote == Range(capture[c].rows) \union capture[c].failed \union capture[c].refused
                     \union ({capture[c].reserved, Declared(c)} \ {NoRun})
    IN IF wrote = {} THEN {Run(c, "record")} ELSE wrote

\* Altered form: sealing waits for a thread of the tool pool.
BeginSealLast(c) ==
    /\ answer[c] = "due"
    /\ Cardinality({d \in Calls : Busy(d)}) < Workers
    /\ sealing' = [sealing EXCEPT ![c] = [NoSealing EXCEPT !.rows = RowsToSeal(c), !.todo = RowsToSeal(c)]]
    /\ problems' = [problems EXCEPT ![c] = capture[c].failed \union capture[c].refused]
    /\ answer' = [answer EXCEPT ![c] = "reading"]
    /\ UNCHANGED <<logVars, kind, worker, queue, running, waiting, cancelled, captureVars, retrying, faults>>

BeginSeal(c) ==
    /\ answer[c] = "due"
    /\ Cardinality(OnReserved) < ReservedWorkers
    /\ sealing' = [sealing EXCEPT ![c] = [NoSealing EXCEPT !.rows = RowsToSeal(c), !.todo = RowsToSeal(c)]]
    /\ problems' = [problems EXCEPT ![c] = capture[c].failed \union capture[c].refused]
    /\ answer' = [answer EXCEPT ![c] = "reading"]
    /\ UNCHANGED <<logVars, kind, worker, queue, running, waiting, cancelled, captureVars, retrying, faults>>

Current(c) == CHOOSE r \in sealing[c].todo : TRUE

RowDone(c) ==
    /\ sealing' = [sealing EXCEPT ![c] = [NoSealing EXCEPT !.rows = sealing[c].rows,
                                                         !.todo = sealing[c].todo \ {Current(c)}]]
    /\ answer' = [answer EXCEPT ![c] = "reading"]

\* Altered forms: told, but not kept; kept, but not told.
GiveUpUntold(c, body, record, absent) ==
    /\ Register([run |-> Current(c), body |-> body, record |-> record, absent |-> absent])
    /\ RowDone(c)
    /\ UNCHANGED problems
GiveUpSilently(c, body, record, absent) ==
    /\ problems' = [problems EXCEPT ![c] = @ \union {Current(c)}]
    /\ RowDone(c)
    /\ UNCHANGED <<pending, dropped>>

\* The row cannot be sealed now: the caller is told, and what is known is kept for a retry.
GiveUpOn(c, body, record, absent) ==
    /\ Register([run |-> Current(c), body |-> body, record |-> record, absent |-> absent])
    /\ problems' = [problems EXCEPT ![c] = @ \union {Current(c)}]
    /\ RowDone(c)

\* Reading the row first: one that cannot be read is never written over.
ReadRow(c) ==
    LET r == Current(c)
    IN /\ answer[c] = "reading" /\ sealing[c].todo # {}
       /\ \/ LockedOut /\ GiveUpOn(c, NoBody, NoRecord, FALSE)
          \/ Sealed(r) /\ RowDone(c) /\ UNCHANGED <<pending, dropped, problems, faults>>
          \/ /\ ~Sealed(r)
             /\ sealing' = [sealing EXCEPT ![c].body = IF Exists(r) THEN log[r].body ELSE Body("minimal"),
                                           ![c].absent = @ \/ ~Exists(r)]
             /\ answer' = [answer EXCEPT ![c] = "storing"]
             /\ UNCHANGED <<pending, dropped, problems, faults>>
       /\ UNCHANGED <<log, kind, worker, queue, running, waiting, cancelled, captureVars, retrying>>

\* Altered forms: the record has no field for a lost row; a lost row is not mentioned.
RecordOfOldShape(c) ==
    [call |-> c, body |-> sealing[c].body, minimal |-> sealing[c].absent]

RecordOfUnaware(c) ==
    [call |-> c, body |-> sealing[c].body, minimal |-> sealing[c].absent, lost |-> FALSE]

\* The record of call c over the body it read.
RecordOf(c) ==
    [call |-> c, body |-> sealing[c].body, minimal |-> sealing[c].absent,
     lost |-> Current(c) \in capture[c].failed]

StoreRecord(c) ==
    LET r == Current(c)
        body == sealing[c].body
        outcome == RecordOutcome(r, body, RecordOf(c))
    IN /\ answer[c] = "storing"
       /\ \/ /\ outcome \in Stored
             /\ RowDone(c) /\ UNCHANGED <<pending, dropped, problems, faults>>
          \/ /\ outcome = "stale" /\ sealing[c].attempt < Attempts
             /\ sealing' = [sealing EXCEPT ![c].attempt = @ + 1]
             /\ answer' = [answer EXCEPT ![c] = "reading"]
             /\ UNCHANGED <<pending, dropped, problems, faults>>
          \/ /\ outcome = "stale" /\ sealing[c].attempt = Attempts
             /\ GiveUpOn(c, NoBody, NoRecord, FALSE) /\ UNCHANGED faults
          \/ /\ outcome = "refused"
             /\ problems' = [problems EXCEPT ![c] = @ \union {r}]
             /\ RowDone(c) /\ UNCHANGED <<pending, dropped, faults>>
       /\ RecordRow(r, body, RecordOf(c))
       /\ UNCHANGED <<kind, worker, queue, running, waiting, cancelled, captureVars, retrying>>

StoreLockedOut(c) ==
    /\ answer[c] = "storing"
    /\ LockedOut
    /\ GiveUpOn(c, sealing[c].body, RecordOf(c), sealing[c].absent)
    /\ UNCHANGED <<log, kind, worker, queue, running, waiting, cancelled, captureVars, retrying>>

-----------------------------------------------------------------------------
(* Retrying seals that could not be stored: reseal_unsealed_rows.              *)

\* The oldest n seals to retry, without those of the given rows.
Oldest(n, rows) ==
    LET due == {i \in DOMAIN pending : pending[i].run \notin rows}
    IN {pending[i] : i \in {i \in due : Cardinality({j \in due : j <= i}) <= n}}

BeginRetry(c) ==
    /\ answer[c] = "reading" /\ sealing[c].todo = {}
    /\ retrying' = [retrying EXCEPT ![c].todo = Oldest(RetriesPerCall, sealing[c].rows)]
    /\ answer' = [answer EXCEPT ![c] = "retrying"]
    /\ UNCHANGED <<logVars, kind, worker, queue, running, waiting, cancelled, captureVars,
                   sealing, problems, faults>>

Export ==
    /\ pending # << >>
    /\ retrying[Exporter] = NoRetry
    /\ retrying' = [retrying EXCEPT ![Exporter].todo = Oldest(Len(pending), {})]
    /\ UNCHANGED <<logVars, callVars, captureVars, sealing, problems, faults>>

NextRetry(x, p) ==
    retrying' = [retrying EXCEPT ![x] = [NoRetry EXCEPT !.todo = retrying[x].todo \ {p}]]

KeepPending == UNCHANGED <<pending, dropped>>

\* A row someone sealed, or that is gone, leaves nothing to do.  A retry may find the
\* lock taken any number of times: a pass is finite without the bound.
RetryRead(x, p) ==
    /\ p \in retrying[x].todo /\ retrying[x].now = NoSeal
    /\ \/ NextRetry(x, p) /\ KeepPending
       \/ /\ Sealed(p.run) \/ (~Exists(p.run) /\ ~p.absent)
          /\ NextRetry(x, p) /\ Forget(p.run)
       \/ /\ ~Sealed(p.run) /\ (Exists(p.run) \/ p.absent)
          /\ retrying' = [retrying EXCEPT ![x].now = p, ![x].row = log[p.run]]
          /\ KeepPending
    /\ UNCHANGED <<log, callVars, captureVars, sealing, problems, faults>>

\* The seal fits the row as read: same body, or still no row where there was none.
Fits(p, row) ==
    /\ p.record # NoRecord
    /\ IF row = NoRow THEN p.absent ELSE row.body = p.body /\ ~p.absent

RetryMark(x) ==
    LET p == retrying[x].now
        row == retrying[x].row
    IN /\ p # NoSeal
       /\ row # NoRow /\ ~Fits(p, row)
       /\ MarkUnsealable(p.run, row.body)
       /\ IF MarkOutcome(p.run, row.body) = "changed" THEN KeepPending ELSE Forget(p.run)
       /\ NextRetry(x, p)
       /\ UNCHANGED <<callVars, captureVars, sealing, problems, faults>>

\* A seal that no longer fits is marked in the same way; where the row was absent
\* when it was read there is no body to compare, and the pass ends in an exception.
RetryStore(x) ==
    LET p == retrying[x].now
        row == retrying[x].row
        outcome == RecordOutcome(p.run, p.body, p.record)
    IN /\ p # NoSeal
       /\ Fits(p, row)
       /\ RecordRow(p.run, p.body, p.record)
       /\ IF outcome \in Stored \/ (row # NoRow /\ MarkOutcome(p.run, row.body) = "noop")
          THEN Forget(p.run) ELSE KeepPending
       /\ IF outcome \notin Stored /\ row = NoRow
          THEN retrying' = [retrying EXCEPT ![x] = NoRetry] ELSE NextRetry(x, p)
       /\ UNCHANGED <<callVars, captureVars, sealing, problems, faults>>

RetryLockedOut(x) ==
    /\ retrying[x].now # NoSeal
    /\ NextRetry(x, retrying[x].now)
    /\ UNCHANGED <<logVars, callVars, captureVars, sealing, problems, faults>>

Finish(c) ==
    /\ answer[c] = "retrying" /\ retrying[c] = NoRetry
    /\ answer' = [answer EXCEPT ![c] = "over"]
    /\ sealing' = [sealing EXCEPT ![c] = NoSealing]
    /\ UNCHANGED <<logVars, kind, worker, queue, running, waiting, cancelled, captureVars,
                   retrying, problems, faults>>

-----------------------------------------------------------------------------
\* The server process dies: the run log stays, everything it had in memory goes.
Crash ==
    /\ Fault
    /\ dropped' = dropped \union {pending[i].run : i \in DOMAIN pending}
                          \union {r \in RunIds : answer[r.call] \notin {"none", "over"}}
    /\ pending' = << >>
    /\ answer' = [c \in Calls |-> IF answer[c] = "none" THEN "none" ELSE "over"]
    /\ worker' = [c \in Calls |-> IF worker[c] = "idle" THEN "idle" ELSE "done"]
    /\ queue' = << >> /\ running' = {} /\ waiting' = 0
    /\ retrying' = [x \in Resealers |-> NoRetry]
    /\ sealing' = [c \in Calls |-> NoSealing]
    /\ UNCHANGED <<log, kind, cancelled, captureVars, problems>>

Work(c) ==
    \/ Start(c) \/ Return(c) \/ Raise(c) \/ PutResult(c) \/ PushLayer(c) \/ PostRun(c) \/ WriteRunLog(c)

Retry(x) == (\E p \in retrying[x].todo : RetryRead(x, p)) \/ RetryMark(x) \/ RetryStore(x) \/ RetryLockedOut(x)

Seal(c) ==
    \/ BeginSeal(c) \/ ReadRow(c) \/ StoreRecord(c) \/ StoreLockedOut(c)
    \/ BeginRetry(c) \/ Retry(c) \/ Finish(c)

Next ==
    \/ \E c \in Calls : \/ \E k \in Kinds : Dispatch(c, k)
                       \/ Work(c) \/ Cancel(c) \/ Seal(c)
    \/ Export \/ Retry(Exporter)
    \/ Crash

Spec == Init /\ [][Next]_vars

\* The reserved workers keep running; the tools on the other pool may hang.
FairSpec ==
    /\ Spec
    /\ \A c \in Calls : WF_vars(Seal(c)) /\ WF_vars(kind[c] = "view" /\ Work(c))

-----------------------------------------------------------------------------
TypeOK ==
    /\ LogTypeOK
    /\ kind \in [Calls -> {"tool", "view", "wait"}]
    /\ worker \in [Calls -> AtWork \union {"idle", "queued", "done"}]
    /\ answer \in [Calls -> {"none", "awaited", "due", "reading", "storing", "retrying", "over"}]
    /\ queue \in Seq(Calls) /\ running \subseteq Calls /\ waiting \in Int
    /\ cancelled \subseteq Calls
    /\ capture \in [Calls -> [rows : Seq(RunIds), failed : SUBSET RunIds, refused : SUBSET RunIds,
                              reserved : RunIds \union {NoRun}]]
    /\ view \in [Calls -> [run : RunIds \union {NoRun}, body : Bodies \union {NoBody}]]
    /\ layer \in [Calls -> RunIds \union {NoRun}]
    /\ sealing \in [Calls -> [rows : SUBSET RunIds, todo : SUBSET RunIds, attempt : Nat, absent : BOOLEAN,
                              body : Bodies \union {NoBody}]]
    /\ retrying \in [Resealers -> [todo : SUBSET Pendings, now : Pendings \union {NoSeal}, row : Rows \union {NoRow}]]
    /\ problems \in [Calls -> SUBSET RunIds]
    /\ faults \in Nat

\* The log keeps the promise of SealedLog although a row may change between the read
\* and the store that seals it, a cancelled call's worker goes on writing, and a retry
\* acts on a row it read before: a sealed row is final (store.py:501), its record is
\* of the body stored with it (store.py:517), a marked row is not sealed.
Promised == INSTANCE SealedLog WITH rows <- log, Runs <- RunIds

ImplementsSealedLog == Promised!Spec

\* An unsealed row of a call that was answered is to be retried, or marked, or was
\* counted as dropped: none is left behind in silence (run_records.py:1590).
UnsealedIsAccountedFor ==
    \A r \in RunIds :
        Answered(r.call) /\ Exists(r) /\ ~Sealed(r) => AwaitsRetry(r) \/ Unsealable(r) \/ r \in dropped

\* The run id in a result names a sealed row, or the result says what is wrong with it.
HandedIdIsSealed ==
    \A c \in Calls : Answered(c) /\ Declared(c) # NoRun =>
        Sealed(Declared(c)) \/ Declared(c) \in problems[c] \union dropped

\* The row a map layer names exists when its call is over, or the call reported it
\* (run_records.py:1419, "so the id never dangles").
LayerRowExists ==
    \A c \in Calls : Answered(c) /\ layer[c] # NoRun =>
        Exists(layer[c]) \/ layer[c] \in problems[c] \union dropped

\* A slot row sealed without post_run's view, in a call that had one, says in its record
\* that a writer's row was lost.
LossIsDisclosed ==
    \A c \in Calls :
        LET r == Run(c, "slot")
        IN Answered(c) /\ Declared(c) = r /\ Sealed(r) /\ log[r].body.text # "full" => log[r].record.lost

\* One execution is recorded in one row: post_run describes the slot's row, not another
\* (enforcement.py:372), as long as nothing goes wrong.
OneExecutionOneRow ==
    \A c \in Calls : faults = 0 =>
        ~(Exists(Run(c, "slot")) /\ (Exists(Run(c, "result")) \/ view[c].run = Run(c, "result")))

\* The count of waiting calls is exact, whatever way a call ends: one too many would
\* refuse wait_for_job for good.
WaitingIsExact == waiting = Cardinality({c \in Calls : kind[c] = "wait" /\ answer[c] = "awaited"})

\* running_tools lists the calls in flight (offload.py:72).
RunningIsInFlight == \A c \in running : worker[c] \in AtWork \union {"queued"}

\* Every call that has its answer is recorded and returned, and every view is answered,
\* even while the tools hang (offload.py:115).
AnswersAreSealed == \A c \in Calls : answer[c] = "due" ~> answer[c] = "over"
ViewsAreAnswered == \A c \in Calls : kind[c] = "view" /\ answer[c] = "awaited" ~> answer[c] = "over"
=============================================================================
