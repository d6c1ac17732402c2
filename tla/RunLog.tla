--------------------------------- MODULE RunLog ---------------------------------
(***************************************************************************)
(* The run log of one study (session/store.py): one SQLite row per run, and  *)
(* the seals that could not be stored, which the recording process keeps in   *)
(* memory to retry (session/run_records.py).  A row is sealed once it carries *)
(* a record.                                                               *)
(*                                                                         *)
(* A run id is the call that minted it and what for; secrets.token_hex keeps   *)
(* ids of different calls apart.  A body is everything of a row but its       *)
(* record: which writer's view it is, and whether it says "unsealable".        *)
(* Scrubbing local paths out of a body is idempotent and not modelled.        *)
(* Transactions are atomic (BEGIN IMMEDIATE); one that cannot get the lock    *)
(* within the deadline writes nothing.                                       *)
(***************************************************************************)
EXTENDS Integers, Sequences, SequencesExt

CONSTANTS
    Calls,          \* tool calls
    PendingMax,     \* seals kept for a retry (PENDING_MAX_PER_SESSION)
    NoRow, NoRecord, NoBody

VARIABLES
    log,            \* run id -> the row, or NoRow
    pending,        \* seals to retry, oldest first
    dropped         \* run ids whose seal is no longer retried: over the limit, or lost with the process

logVars == <<log, pending, dropped>>

RunIds == [call : Calls, for : {"slot", "layer", "result", "record"}]

Run(c, purpose) == [call |-> c, for |-> purpose]

\* "slot": what put_result wrote; "full": with post_run's view on it or alone; "minimal": the middleware's.
Bodies == [text : {"slot", "full", "minimal"}, unsealable : BOOLEAN]

Records == [call : Calls, body : Bodies, minimal : BOOLEAN, lost : BOOLEAN]

Rows == [body : Bodies, record : Records \union {NoRecord}]

Pendings == [run : RunIds, body : Bodies \union {NoBody},
             record : Records \union {NoRecord}, absent : BOOLEAN]

ASSUME RunLogAssumption ==
    /\ NoRow \notin Rows
    /\ NoRecord \notin Records
    /\ NoBody \notin Bodies
    /\ PendingMax \in Nat \ {0}

LogTypeOK ==
    /\ log \in [RunIds -> Rows \union {NoRow}]
    /\ pending \in Seq(Pendings)
    /\ dropped \subseteq RunIds

Body(text) == [text |-> text, unsealable |-> FALSE]

Exists(r) == log[r] # NoRow
Sealed(r) == Exists(r) /\ log[r].record # NoRecord
Unsealable(r) == Exists(r) /\ ~Sealed(r) /\ log[r].body.unsealable
AwaitsRetry(r) == \E i \in DOMAIN pending : pending[i].run = r

LogInit ==
    /\ log = [r \in RunIds |-> NoRow]
    /\ pending = << >>
    /\ dropped = {}

\* Altered form: a record is attached to whatever body is there now.
HastyOutcome(r, body, record) ==
    IF ~Exists(r) THEN "inserted" ELSE IF Sealed(r) THEN "noop" ELSE "replaced"

\* What storing a row under r comes to.  A sealed row is never written; a record
\* is attached only to the body it was built from.
RecordOutcome(r, body, record) ==
    IF ~Exists(r) THEN "inserted"
    ELSE IF Sealed(r)
    THEN IF body = log[r].body /\ record \in {NoRecord, log[r].record} THEN "noop" ELSE "refused"
    ELSE IF record # NoRecord /\ body # log[r].body THEN "stale" ELSE "replaced"

Stored == {"inserted", "replaced", "noop"}

RecordRow(r, body, record) ==
    log' = IF RecordOutcome(r, body, record) \in {"inserted", "replaced"}
           THEN [log EXCEPT ![r] = [body |-> body, record |-> record]]
           ELSE log

\* Only a row that is unsealed, unmarked and still has the body the caller saw is marked.
MarkOutcome(r, body) ==
    IF ~Exists(r) \/ Sealed(r) \/ Unsealable(r) THEN "noop"
    ELSE IF log[r].body # body THEN "changed" ELSE "marked"

MarkUnsealable(r, body) ==
    log' = IF MarkOutcome(r, body) = "marked"
           THEN [log EXCEPT ![r].body.unsealable = TRUE]
           ELSE log

PlaceOf(r) == CHOOSE i \in DOMAIN pending : pending[i].run = r

\* A seal to retry replaces the one kept for the same run in its place; a full
\* list loses its oldest.
Register(p) ==
    LET full == Len(pending) >= PendingMax
        kept == IF full THEN Tail(pending) ELSE pending
    IN IF AwaitsRetry(p.run)
       THEN pending' = [pending EXCEPT ![PlaceOf(p.run)] = p] /\ UNCHANGED dropped
       ELSE /\ pending' = Append(kept, p)
            /\ dropped' = IF full THEN dropped \union {Head(pending).run} ELSE dropped

Forget(r) ==
    /\ pending' = IF AwaitsRetry(r) THEN RemoveAt(pending, PlaceOf(r)) ELSE pending
    /\ UNCHANGED dropped
=============================================================================
