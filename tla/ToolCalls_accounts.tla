-------------------------- MODULE ToolCalls_accounts --------------------------
(***************************************************************************)
(* What an answer may be held to: of the rows an answered call wrote none is  *)
(* left unsealed in silence; the ids that its result and its layer name are  *)
(* of sealed rows, or it says of which they are not; a row that lost a view   *)
(* says so; and, as long as nothing went wrong, one execution left one row.   *)
(*                                                                         *)
(* All of them speak of a call that is over.  The first are carried there by  *)
(* what holds from the moment its sealing begins (Accounts), and sealing      *)
(* begins with every row because a writer notes each row in the capture       *)
(* (RowsNoted) and no writer is left at work (Quiet).  LossInv follows the    *)
(* row of a tool's slot, and whatever may yet be stored over it; SmoothInv    *)
(* says what cannot have happened while no fault has.                         *)
(*                                                                         *)
(* Beside them: the class of waiting calls is counted exactly (CountInv).     *)
(***************************************************************************)
EXTENDS ToolCalls_proofs, FiniteSetTheorems

-----------------------------------------------------------------------------
(* The inductive invariant                                                    *)

\* The middleware has begun to seal the call, or is through with it.
Late(c) == answer[c] \in {"reading", "storing", "retrying", "over"}

\* A call whose rows have all been written.
Closed(c) == Late(c) /\ c \notin cancelled

Rowless(c) == capture[c].rows = << >> /\ view[c] = NoView /\ layer[c] = NoRun

Named(c) == {view[c].run, layer[c]} \ {NoRun}

Settled(r) == Sealed(r) \/ AwaitsRetry(r) \/ Unsealable(r) \/ r \in dropped

Told(c, r) == Sealed(r) \/ r \in problems[c] \union dropped

\* A thread outlives the answer to its request only if the client gave up.
Quiet == \A c \in Calls :
    /\ answer[c] = "none" => worker[c] = "idle"
    /\ answer[c] \notin {"none", "awaited"} /\ c \notin cancelled => worker[c] \in {"idle", "done"}

NothingLeft == \A c \in Calls : answer[c] \notin {"reading", "storing"} => sealing[c].todo = {}

\* Before the sealing begins there are only the rows the capture notes.
RowsNoted ==
    /\ \A r \in RunIds : Exists(r) /\ ~Late(r.call) => r \in Range(capture[r.call].rows)
    /\ \A c \in Calls : layer[c] # NoRun => layer[c] \in Range(capture[c].rows) \union {capture[c].reserved}

OnlyToolsWrite == \A c \in Calls : kind[c] # "tool" \/ answer[c] = "none" => Rowless(c)

RowsAccounted == \A r \in RunIds :
    Closed(r.call) /\ Exists(r) => Settled(r) \/ r \in sealing[r.call].todo

NamesAccounted == \A c \in Calls : Closed(c) =>
    \A r \in Named(c) : Told(c, r) \/ r \in sealing[c].todo

Accounts ==
    /\ Quiet /\ NothingLeft /\ RowsNoted /\ OnlyToolsWrite
    /\ RowsAccounted /\ NamesAccounted

LEMMA InitAccounts == Init => Accounts
<1> SUFFICES ASSUME Init PROVE Accounts
  OBVIOUS
<1> USE DEF Init, LogInit
<1>1. Quiet /\ NothingLeft
  BY DEF Quiet, NothingLeft, NoSealing
<1>2. RowsNoted /\ RowsAccounted
  BY DEF RowsNoted, RowsAccounted, Exists
<1>3. OnlyToolsWrite
  BY DEF OnlyToolsWrite, Rowless, NoCapture
<1>4. NamesAccounted
  BY DEF NamesAccounted, Named, NoView
<1> QED
  BY <1>1, <1>2, <1>3, <1>4 DEF Accounts

\* The ids a result or a layer names are of the call's own rows.
LEMMA NamesAreOwn ==
  ASSUME CallsInv, RowsNoted, NEW c \in Calls
  PROVE  Named(c) \subseteq OwnRuns(c)
<1>1. view[c].run \in OwnRuns(c) \union {NoRun} /\ capture[c] \in CapturesOf(c)
  BY DEF CallsInv, OwnViews, ViewsOf, NoView, OwnCaptures
<1>2. Range(capture[c].rows) \subseteq OwnRuns(c)
  BY <1>1, LenProperties, ElementOfSeq DEF CapturesOf, Range
<1> QED
  BY <1>1, <1>2 DEF Named, RowsNoted, CapturesOf

-----------------------------------------------------------------------------
(* The pools and the writers                                                  *)

LEMMA DispatchAccounts ==
  ASSUME CallsInv, Accounts, NEW c \in Calls, NEW k \in Kinds, Dispatch(c, k)
  PROVE  Accounts'
<1> USE DEF Dispatch, logVars, captureVars, recordVars
<1>1. /\ answer[c] = "none" /\ answer'[c] \in {"awaited", "over"}
      /\ \A d \in Calls \ {c} : answer'[d] = answer[d] /\ worker'[d] = worker[d] /\ kind'[d] = kind[d]
      /\ Rowless(c) /\ worker[c] = "idle"
  BY DEF CallsInv, CallTypes, Accounts, OnlyToolsWrite, Quiet
<1>2. Quiet'
  BY <1>1 DEF Accounts, Quiet, CallsInv, CallTypes
<1>3. NothingLeft' /\ OnlyToolsWrite'
  BY <1>1 DEF Accounts, NothingLeft, OnlyToolsWrite, Rowless
<1>4. \A r \in RunIds : r.call = c => ~Exists(r)
  BY <1>1, EmptySeq DEF Accounts, RowsNoted, Late, Rowless, Range
<1>5. RowsNoted'
  BY <1>1, <1>4 DEF Accounts, RowsNoted, Exists, Late, RunIds
<1>6. RowsAccounted'
  BY <1>1, <1>4 DEF Accounts, RowsAccounted, Closed, Exists, Late, RunIds, Settled, Sealed, AwaitsRetry, Unsealable
<1>7. NamesAccounted'
  BY <1>1 DEF Accounts, NamesAccounted, Closed, Late, Named, Told, Sealed, Exists, Rowless, NoView
<1> QED
  BY <1>2, <1>3, <1>5, <1>6, <1>7 DEF Accounts

\* A step of a call that neither writes nor changes what a capture or a sealer holds, and
\* after which only a call without rows is over, unless it was.
LEMMA PoolAccounts ==
  ASSUME CallsInv, Accounts, NEW c \in Calls,
         UNCHANGED <<logVars, kind, capture, layer, sealing, problems>>, cancelled \subseteq cancelled',
         \A d \in Calls : view'[d] \in {view[d], NoView},
         \A d \in Calls \ {c} : answer'[d] = answer[d] /\ worker'[d] = worker[d],
         answer'[c] # answer[c] =>
             answer[c] = "awaited" /\ (answer'[c] = "due" \/ (answer'[c] = "over" /\ kind[c] # "tool")),
         answer'[c] \notin {"none", "awaited"} /\ c \notin cancelled' => worker'[c] \in {"idle", "done"},
         answer'[c] = "none" => worker'[c] = "idle"
  PROVE  Accounts'
<1> USE DEF logVars
<1>1. Quiet'
  BY DEF Accounts, Quiet
<1>2. NothingLeft' /\ OnlyToolsWrite'
  BY DEF Accounts, NothingLeft, OnlyToolsWrite, Rowless
<1>3. \A d \in Calls : Late(d) => Late(d)'
  BY DEF Late
<1>4. RowsNoted'
  BY <1>3 DEF Accounts, RowsNoted, Exists, RunIds
<1>5. \A d \in Calls : Closed(d)' /\ ~Closed(d) => d = c /\ ~Late(c) /\ kind[c] # "tool"
  BY DEF Closed, Late
<1>6. RowsAccounted'
  <2> SUFFICES ASSUME NEW r \in RunIds, Closed(r.call)', Exists(r)'
               PROVE  Settled(r)' \/ r \in sealing'[r.call].todo
    BY DEF RowsAccounted
  <2>1. r.call \in Calls /\ Exists(r)
    BY DEF RunIds, Exists
  <2>2. CASE Closed(r.call)
    BY <2>1, <2>2 DEF Accounts, RowsAccounted, Settled, Sealed, Exists, AwaitsRetry, Unsealable
  <2>3. CASE ~Closed(r.call)
    <3>1. r.call = c /\ ~Late(c) /\ Rowless(c)
      BY <1>5, <2>1, <2>3 DEF Accounts, OnlyToolsWrite
    <3> QED
      BY <2>1, <3>1, EmptySeq DEF Accounts, RowsNoted, Rowless, Range
  <2> QED
    BY <2>2, <2>3
<1>7. NamesAccounted'
  <2> SUFFICES ASSUME NEW d \in Calls, Closed(d)', NEW r \in Named(d)'
               PROVE  Told(d, r)' \/ r \in sealing'[d].todo
    BY DEF NamesAccounted
  <2>1. r \in Named(d)
    BY DEF Named, NoView
  <2>2. CASE Closed(d)
    BY <2>1, <2>2 DEF Accounts, NamesAccounted, Told, Sealed, Exists
  <2>3. CASE ~Closed(d)
    <3>1. Rowless(d)
      BY <1>5, <2>3 DEF Accounts, OnlyToolsWrite
    <3> QED
      BY <2>1, <3>1 DEF Named, Rowless, NoView
  <2> QED
    BY <2>2, <2>3
<1> QED
  BY <1>1, <1>2, <1>4, <1>6, <1>7 DEF Accounts

LEMMA StartAccounts ==
  ASSUME CallsInv, Accounts, NEW c \in Calls, Start(c)
  PROVE  Accounts'
<1>1. answer[c] # "none" /\ (answer[c] \notin {"none", "awaited"} => c \in cancelled)
  BY DEF Start, Accounts, Quiet
<1> QED
  BY <1>1, PoolAccounts DEF Start, logVars, captureVars, recordVars, CallsInv, CallTypes

LEMMA EndAccounts ==
  ASSUME CallsInv, Accounts, NEW c \in Calls, Return(c) \/ Raise(c)
  PROVE  Accounts'
<1>1. answer[c] # "none"
  BY DEF Return, Raise, AtWork, Accounts, Quiet
<1>2. \A d \in Calls : view'[d] \in {view[d], NoView}
  BY DEF Return, Raise, CallsInv, OwnViews
<1> QED
  BY <1>1, <1>2, PoolAccounts
     DEF Return, Raise, EndWorker, AfterTool, Recorded, logVars, recordVars, CallsInv, CallTypes

LEMMA CancelAccounts ==
  ASSUME CallsInv, Accounts, NEW c \in Calls, Cancel(c)
  PROVE  Accounts'
BY PoolAccounts DEF Cancel, AfterTool, Recorded, logVars, captureVars, recordVars, CallsInv, CallTypes

\* A writer at work belongs to a call that is not closed; it notes what it writes.
LEMMA WriterAccounts ==
  ASSUME CallsInv, Accounts, NEW c \in Calls, worker[c] \in AtWork, kind[c] = "tool",
         NEW w \in AtWork, worker' = [worker EXCEPT ![c] = w],
         UNCHANGED <<kind, answer, cancelled, pending, dropped, sealing, problems>>,
         \A d \in Calls \ {c} : capture'[d] = capture[d] /\ view'[d] = view[d] /\ layer'[d] = layer[d],
         Range(capture[c].rows) \subseteq Range(capture'[c].rows),
         \A r \in RunIds : log'[r] # log[r] => r \in OwnRuns(c) /\ r \in Range(capture'[c].rows),
         layer'[c] # NoRun => layer'[c] \in Range(capture'[c].rows) \union {capture'[c].reserved}
  PROVE  Accounts'
<1>1. answer[c] # "none" /\ (answer[c] # "awaited" => c \in cancelled) /\ ~Closed(c)
  BY DEF Accounts, Quiet, Closed, Late, AtWork
<1>2. \A d \in Calls : (Late(d)' <=> Late(d)) /\ (Closed(d)' <=> Closed(d))
  BY DEF Late, Closed
<1>3. \A r \in RunIds : r.call \in Calls /\ (r.call # c => log'[r] = log[r])
  BY DEF RunIds, OwnRuns
<1>4. Quiet' /\ NothingLeft'
  BY <1>1 DEF Accounts, Quiet, NothingLeft, CallsInv, CallTypes
<1>5. OnlyToolsWrite'
  BY <1>1 DEF Accounts, OnlyToolsWrite, Rowless
<1>6. RowsNoted'
  <2>1. ASSUME NEW r \in RunIds, Exists(r)', ~Late(r.call)'
        PROVE  r \in Range(capture'[r.call].rows)
    <3>1. CASE log'[r] = log[r]
      <4>1. r \in Range(capture[r.call].rows)
        BY <1>2, <1>3, <2>1, <3>1 DEF Accounts, RowsNoted, Exists
      <4>2. r.call \in Calls
        BY <1>3
      <4> QED
        BY <4>1, <4>2
    <3>2. CASE log'[r] # log[r]
      BY <3>2 DEF OwnRuns
    <3> QED
      BY <3>1, <3>2
  <2>2. \A d \in Calls : layer'[d] # NoRun => layer'[d] \in Range(capture'[d].rows) \union {capture'[d].reserved}
    BY DEF Accounts, RowsNoted
  <2> QED
    BY <2>1, <2>2 DEF RowsNoted
<1>7. RowsAccounted'
  BY <1>1, <1>2, <1>3 DEF Accounts, RowsAccounted, Settled, Sealed, Exists, AwaitsRetry, Unsealable
<1>8. NamesAccounted'
  <2> SUFFICES ASSUME NEW d \in Calls, Closed(d)', NEW r \in Named(d)'
               PROVE  Told(d, r)' \/ r \in sealing'[d].todo
    BY DEF NamesAccounted
  <2>1. d # c /\ Closed(d) /\ r \in Named(d)
    BY <1>1, <1>2 DEF Named
  <2>2. r \in OwnRuns(d)
    BY <2>1, NamesAreOwn DEF Accounts
  <2>3. Sealed(r) => Sealed(r)'
    BY <1>3, <2>1, <2>2 DEF Sealed, Exists, OwnRuns
  <2> QED
    BY <2>1, <2>3 DEF Accounts, NamesAccounted, Told
<1> QED
  BY <1>4, <1>5, <1>6, <1>7, <1>8 DEF Accounts

LEMMA WritingNotes ==
  ASSUME CallsInv, NEW c \in Calls, NEW r \in OwnRuns(c), NEW body \in Bodies, Write(c, r, body)
  PROVE  /\ \A d \in Calls \ {c} : capture'[d] = capture[d]
         /\ Range(capture[c].rows) \subseteq Range(capture'[c].rows)
         /\ capture'[c].reserved = capture[c].reserved
         /\ \A q \in RunIds : log'[q] # log[q] => q \in OwnRuns(c) /\ q \in Range(capture'[c].rows)
<1> DEFINE k == capture[c]
<1>1. k \in CapturesOf(c) /\ r \in RunIds /\ k.rows \in Seq(OwnRuns(c))
  BY DEF CallsInv, OwnCaptures, CapturesOf, OwnRuns
<1>2. Range(k.rows) \union {r} \subseteq Range(Append(k.rows, r))
  <2> DEFINE t == Append(k.rows, r)
  <2>1. /\ \E n \in DOMAIN t : t[n] = r
        /\ \A i \in DOMAIN k.rows : \E n \in DOMAIN t : t[n] = k.rows[i]
    <3> HIDE DEF k
    <3> QED
      BY <1>1, AppendSeq
  <2> HIDE DEF t, k
  <2> QED
    BY <2>1 DEF Range, t
<1>3. CASE /\ RecordRow(r, body, NoRecord) /\ RecordOutcome(r, body, NoRecord) \in Stored
           /\ capture' = [capture EXCEPT ![c].rows = Append(@, r)]
  <2>1. \A q \in RunIds : log'[q] # log[q] => q = r
    BY <1>1, <1>3, RecordRowKeeps DEF CallsInv
  <2>2. capture'[c] = [k EXCEPT !.rows = Append(k.rows, r)] /\ \A d \in Calls \ {c} : capture'[d] = capture[d]
    BY <1>3 DEF CallsInv, OwnCaptures
  <2> HIDE DEF k
  <2>3. capture'[c].rows = Append(k.rows, r) /\ capture'[c].reserved = k.reserved
    BY <1>1, <2>2 DEF CapturesOf
  <2> QED
    BY <1>2, <2>1, <2>2, <2>3 DEF k
<1>4. CASE /\ log' = log
           /\ \/ capture' = [capture EXCEPT ![c].refused = @ \union {r}]
              \/ capture' = [capture EXCEPT ![c].failed = @ \union {r}]
  BY <1>1, <1>4 DEF CallsInv, OwnCaptures, CapturesOf
<1> QED
  BY <1>3, <1>4 DEF Write, RecordRow, Stored

LEMMA PutResultAccounts ==
  ASSUME CallsInv, Accounts, NEW c \in Calls, PutResult(c)
  PROVE  Accounts'
<1>1. /\ \A d \in Calls \ {c} : capture'[d] = capture[d]
      /\ Range(capture[c].rows) \subseteq Range(capture'[c].rows)
      /\ capture'[c].reserved = capture[c].reserved
      /\ \A q \in RunIds : log'[q] # log[q] => q \in OwnRuns(c) /\ q \in Range(capture'[c].rows)
  BY RunIsOwn, WritingNotes DEF PutResult, Body, Bodies
<1> QED
  BY <1>1, WriterAccounts DEF PutResult, Recorded, recordVars, AtWork, Accounts, RowsNoted

LEMMA WriteRunLogAccounts ==
  ASSUME CallsInv, Accounts, NEW c \in Calls, WriteRunLog(c)
  PROVE  Accounts'
<1>1. view[c].run \in OwnRuns(c) /\ view[c].body \in Bodies /\ kind[c] = "tool"
  BY DEF WriteRunLog, CallsInv, OwnViews, ViewsOf, Accounts, OnlyToolsWrite, Rowless
<1>2. /\ \A d \in Calls \ {c} : capture'[d] = capture[d]
      /\ Range(capture[c].rows) \subseteq Range(capture'[c].rows)
      /\ capture'[c].reserved = capture[c].reserved
      /\ \A q \in RunIds : log'[q] # log[q] => q \in OwnRuns(c) /\ q \in Range(capture'[c].rows)
  BY <1>1, WritingNotes DEF WriteRunLog
<1> QED
  BY <1>1, <1>2, WriterAccounts DEF WriteRunLog, recordVars, AtWork, Accounts, RowsNoted

LEMMA PushLayerAccounts ==
  ASSUME CallsInv, Accounts, NEW c \in Calls, PushLayer(c)
  PROVE  Accounts'
<1> USE DEF PushLayer, recordVars, callVars, logVars
<1>1. CASE capture[c].rows # << >> /\ layer' = [layer EXCEPT ![c] = Last(capture[c].rows)] /\ UNCHANGED capture
  <2>1. capture[c].rows \in Seq(OwnRuns(c))
    BY DEF CallsInv, OwnCaptures, CapturesOf
  <2>2. Last(capture[c].rows) \in Range(capture[c].rows)
    BY <1>1, <2>1, LenProperties, EmptySeq DEF Last, Range
  <2> QED
    BY <1>1, <2>2, WriterAccounts DEF Recorded, AtWork, CallsInv, CallTypes
<1>2. CASE /\ layer' = [layer EXCEPT ![c] = Run(c, "layer")]
           /\ capture' = [capture EXCEPT ![c].reserved = Run(c, "layer")]
  <2>1. capture'[c].rows = capture[c].rows /\ capture'[c].reserved = Run(c, "layer")
        /\ \A d \in Calls \ {c} : capture'[d] = capture[d]
    BY <1>2 DEF CallsInv, OwnCaptures, CapturesOf
  <2> QED
    BY <1>2, <2>1, WriterAccounts DEF Recorded, AtWork, CallsInv, CallTypes
<1> QED
  BY <1>1, <1>2

LEMMA PostRunAccounts ==
  ASSUME CallsInv, Accounts, NEW c \in Calls, PostRun(c)
  PROVE  Accounts'
<1>1. \A d \in Calls \ {c} : view'[d] = view[d]
  BY DEF PostRun, CallsInv, OwnViews
<1> QED
  BY <1>1, WriterAccounts
     DEF PostRun, Recorded, recordVars, logVars, AtWork, CallsInv, CallTypes, Accounts, RowsNoted

-----------------------------------------------------------------------------
(* The list of seals to retry                                                 *)

\* A seal taken off the list is the one of its run.
LEMMA ForgetKeepsOthers ==
  ASSUME CallsInv, NEW q, Forget(q)
  PROVE  /\ dropped' = dropped
         /\ \A r \in RunIds : r # q /\ AwaitsRetry(r) => AwaitsRetry(r)'
<1>1. pending \in Seq(Kept) /\ dropped' = dropped
  BY DEF CallsInv, KeptSeals, Forget
<1>2. CASE AwaitsRetry(q)
  <2> DEFINE i == PlaceOf(q)
  <2>1. i \in DOMAIN pending /\ pending[i].run = q
    BY <1>2 DEF AwaitsRetry, PlaceOf
  <2>2. pending' = RemoveAt(pending, i)
    BY <1>2 DEF Forget
  <2> HIDE DEF i
  <2>3. \A j \in DOMAIN pending : j # i => \E k \in DOMAIN pending' : pending'[k] = pending[j]
    BY <1>1, <2>1, <2>2, RemoveAtSeq
  <2> QED
    BY <1>1, <2>1, <2>3 DEF AwaitsRetry
<1> QED
  BY <1>1, <1>2 DEF Forget, AwaitsRetry

\* A seal put on the list is there; one that makes room for it is counted as dropped.
LEMMA RegisterKeepsOthers ==
  ASSUME CallsInv, NEW p \in Pendings, Register(p)
  PROVE  /\ AwaitsRetry(p.run)' /\ dropped \subseteq dropped'
         /\ \A r \in RunIds : AwaitsRetry(r) => AwaitsRetry(r)' \/ r \in dropped'
<1>1. pending \in Seq(Pendings) /\ Len(pending) \in Nat /\ DOMAIN pending = 1..Len(pending)
  <2>1. Kept \subseteq Pendings /\ pending \in Seq(Kept)
    BY DEF Kept, CallsInv, KeptSeals
  <2> QED
    BY <2>1, SeqMonotonic, LenProperties
<1>2. CASE AwaitsRetry(p.run)
  <2> DEFINE i == PlaceOf(p.run)
  <2>1. i \in DOMAIN pending /\ pending[i].run = p.run
    BY <1>2 DEF AwaitsRetry, PlaceOf
  <2>2. pending' = [pending EXCEPT ![i] = p] /\ dropped' = dropped
    BY <1>2 DEF Register
  <2> HIDE DEF i
  <2>3. /\ DOMAIN pending' = DOMAIN pending /\ pending'[i] = p
        /\ \A j \in DOMAIN pending : j # i => pending'[j] = pending[j]
    BY <1>1, <2>1, <2>2
  <2> QED
    BY <2>1, <2>2, <2>3 DEF AwaitsRetry
<1>3. CASE ~AwaitsRetry(p.run) /\ ~(Len(pending) >= PendingMax)
  <2>1. pending' = Append(pending, p) /\ dropped' = dropped
    BY <1>3 DEF Register
  <2>2. /\ \E k \in DOMAIN pending' : pending'[k] = p
        /\ \A i \in DOMAIN pending : \E k \in DOMAIN pending' : pending'[k] = pending[i]
    BY <1>1, <2>1, AppendSeq
  <2> QED
    BY <2>1, <2>2 DEF AwaitsRetry
<1>4. CASE ~AwaitsRetry(p.run) /\ Len(pending) >= PendingMax
  <2> DEFINE rest == Tail(pending)
  <2>1. pending' = Append(rest, p) /\ dropped' = dropped \union {Head(pending).run}
    BY <1>4 DEF Register
  <2>2. pending # << >>
    BY <1>4, RunLogAssumption, EmptySeq
  <2>3. /\ rest \in Seq(Pendings) /\ Head(pending) = pending[1]
        /\ Len(rest) = Len(pending) - 1 /\ \A i \in 1..Len(rest) : rest[i] = pending[i+1]
    BY <1>1, <2>2, HeadTailProperties
  <2> HIDE DEF rest
  <2>4. /\ \E k \in DOMAIN pending' : pending'[k] = p
        /\ \A i \in DOMAIN rest : \E k \in DOMAIN pending' : pending'[k] = rest[i]
    <3>1. rest \in Seq(Pendings)
      BY <2>3
    <3>2. /\ \E k \in DOMAIN Append(rest, p) : Append(rest, p)[k] = p
          /\ \A i \in DOMAIN rest : \E k \in DOMAIN Append(rest, p) : Append(rest, p)[k] = rest[i]
      BY <3>1, AppendSeq
    <3> QED
      BY <2>1, <3>2
  <2>5. ASSUME NEW j \in DOMAIN pending, j # 1
        PROVE  \E k \in DOMAIN pending' : pending'[k] = pending[j]
    <3>1. j - 1 \in 1..Len(rest) /\ rest[j-1] = pending[j] /\ DOMAIN rest = 1..Len(rest)
      BY <1>1, <2>3, <2>5, LenProperties
    <3> QED
      BY <2>4, <3>1
  <2>6. pending[1].run \in dropped' /\ dropped \subseteq dropped'
    BY <2>1, <2>3
  <2> QED
    BY <2>4, <2>5, <2>6 DEF AwaitsRetry
<1> QED
  BY <1>2, <1>3, <1>4

\* A record seals its row or leaves it as it was.
LEMMA RecordingSeals ==
  ASSUME LogShape, NEW r \in RunIds, NEW body \in Bodies, NEW record \in Records,
         RecordRow(r, body, record)
  PROVE  /\ \A q \in RunIds : log'[q] # log[q] => q = r /\ Sealed(q)'
         /\ \A q \in RunIds : Sealed(q) => Sealed(q)'
         /\ \A q \in RunIds : Unsealable(q) => Unsealable(q)' \/ Sealed(q)'
         /\ RecordOutcome(r, body, record) \in Stored \union {"refused"} => Sealed(r)'
<1>1. \A q \in RunIds : log'[q] # log[q] => q = r /\ log'[q] = [body |-> body, record |-> record]
  BY RecordRowKeeps
<1>2. \A q \in RunIds : log'[q] # log[q] => q = r /\ Sealed(q)'
  <2>1. [body |-> body, record |-> record] \in Rows
    BY DEF Rows
  <2> QED
    BY <1>1, <2>1, RunLogAssumption DEF Sealed, Exists
<1>3. RecordOutcome(r, body, record) \in {"noop", "refused"} => Sealed(r)
  BY DEF RecordOutcome
<1>4. RecordOutcome(r, body, record) \in {"inserted", "replaced"} => Sealed(r)'
  <2>1. [body |-> body, record |-> record] \in Rows
    BY DEF Rows
  <2>2. RecordOutcome(r, body, record) \in {"inserted", "replaced"} => log'[r] = [body |-> body, record |-> record]
    BY DEF RecordRow, LogShape
  <2> QED
    BY <2>1, <2>2, RunLogAssumption DEF Sealed, Exists
<1>5. \A q \in RunIds : Sealed(q) => Sealed(q)'
  BY <1>2 DEF Sealed, Exists
<1> QED
  BY <1>2, <1>3, <1>4, <1>5 DEF Unsealable, Sealed, Exists, Stored

-----------------------------------------------------------------------------
(* Sealing and retrying                                                       *)

LEMMA BeginSealAccounts ==
  ASSUME CallsInv, Accounts, NEW c \in Calls, BeginSeal(c)
  PROVE  Accounts'
<1>1. /\ answer[c] = "due" /\ answer' = [answer EXCEPT ![c] = "reading"]
      /\ UNCHANGED <<logVars, kind, worker, cancelled, captureVars>>
      /\ sealing'[c].todo = RowsToSeal(c)
      /\ \A d \in Calls \ {c} : answer'[d] = answer[d] /\ sealing'[d] = sealing[d] /\ problems'[d] = problems[d]
  BY DEF BeginSeal, CallsInv, CallTypes, OwnSealings, NoSealing
<1> USE DEF logVars, captureVars
<1>2. Quiet' /\ NothingLeft' /\ OnlyToolsWrite'
  BY <1>1 DEF Accounts, Quiet, NothingLeft, OnlyToolsWrite, Rowless, CallsInv, CallTypes
<1>3. \A d \in Calls : Late(d)' <=> Late(d) \/ d = c
  BY <1>1 DEF Late, CallsInv, CallTypes
<1>4. RowsNoted'
  BY <1>1, <1>3 DEF Accounts, RowsNoted, Exists, RunIds
<1>5. /\ Range(capture[c].rows) \subseteq sealing'[c].todo
      /\ c \notin cancelled => Named(c) \subseteq sealing'[c].todo
  BY <1>1 DEF RowsToSeal, Declared, Named, Accounts, RowsNoted
<1>6. RowsAccounted'
  <2> SUFFICES ASSUME NEW r \in RunIds, Closed(r.call)', Exists(r)'
               PROVE  Settled(r)' \/ r \in sealing'[r.call].todo
    BY DEF RowsAccounted
  <2>1. r.call \in Calls /\ Exists(r) /\ (Settled(r) => Settled(r)')
    BY <1>1 DEF RunIds, Exists, Settled, Sealed, AwaitsRetry, Unsealable
  <2>2. CASE r.call = c
    <3>1. r \in Range(capture[c].rows)
      BY <1>1, <2>1, <2>2 DEF Accounts, RowsNoted, Late
    <3> QED
      BY <1>5, <2>2, <3>1
  <2>3. CASE r.call # c
    <3>1. Closed(r.call)
      BY <1>1, <1>3, <2>1, <2>3 DEF Closed
    <3> QED
      BY <1>1, <2>1, <2>3, <3>1 DEF Accounts, RowsAccounted
  <2> QED
    BY <2>2, <2>3
<1>7. NamesAccounted'
  BY <1>1, <1>3, <1>5 DEF Accounts, NamesAccounted, Closed, Named, Told, Sealed, Exists
<1> QED
  BY <1>2, <1>4, <1>6, <1>7 DEF Accounts

\* A step of the middleware or of a retry, after the sealing has begun: what was settled
\* stays so, and a row is let go of once it is sealed, or told and kept for a retry.
LEMMA MiddlewareAccounts ==
  ASSUME CallsInv, Accounts, UNCHANGED <<kind, worker, cancelled, captureVars>>,
         \A d \in Calls : answer'[d] = answer[d] \/ (Late(d) /\ Late(d)'),
         \A d \in Calls : sealing'[d].todo \subseteq sealing[d].todo,
         \A d \in Calls : answer'[d] \notin {"reading", "storing"} => sealing'[d].todo = {},
         dropped \subseteq dropped', \A d \in Calls : problems[d] \subseteq problems'[d],
         \A r \in RunIds : log'[r] # log[r] => Late(r.call) /\ (Sealed(r)' \/ Unsealable(r)'),
         \A r \in RunIds : Sealed(r) => Sealed(r)',
         \A r \in RunIds : AwaitsRetry(r) \/ Unsealable(r) => Settled(r)' \/ ~Exists(r)',
         \A d \in Calls : \A r \in sealing[d].todo \ sealing'[d].todo :
             Sealed(r)' \/ (r \in problems'[d] /\ AwaitsRetry(r)')
  PROVE  Accounts'
<1>1. \A d \in Calls : (Late(d)' <=> Late(d)) /\ (Closed(d)' <=> Closed(d))
  BY DEF Late, Closed
<1>2. Quiet' /\ NothingLeft'
  BY DEF Accounts, Quiet, NothingLeft, Late
<1>3. OnlyToolsWrite'
  <2>1. \A d \in Calls : answer'[d] = "none" => answer[d] = "none"
    BY DEF Late
  <2> QED
    BY <2>1 DEF Accounts, OnlyToolsWrite, Rowless, captureVars
<1>4. RowsNoted'
  <2>1. ASSUME NEW r \in RunIds, Exists(r)', ~Late(r.call)'
        PROVE  Exists(r) /\ ~Late(r.call)
    BY <1>1, <2>1 DEF Exists, RunIds
  <2> QED
    BY <2>1 DEF Accounts, RowsNoted, captureVars
<1>5. RowsAccounted'
  <2> SUFFICES ASSUME NEW r \in RunIds, Closed(r.call)', Exists(r)'
               PROVE  Settled(r)' \/ r \in sealing'[r.call].todo
    BY DEF RowsAccounted
  <2>1. r.call \in Calls /\ Closed(r.call)
    BY <1>1 DEF RunIds
  <2>2. CASE log'[r] # log[r]
    BY <2>2 DEF Settled
  <2>3. CASE log'[r] = log[r]
    <3>1. Settled(r) \/ r \in sealing[r.call].todo
      BY <2>1, <2>3 DEF Accounts, RowsAccounted, Exists
    <3>2. Settled(r) => Settled(r)'
      BY DEF Settled
    <3>3. r \in sealing[r.call].todo \ sealing'[r.call].todo => Settled(r)'
      BY <2>1 DEF Settled
    <3> QED
      BY <3>1, <3>2, <3>3
  <2> QED
    BY <2>2, <2>3
<1>6. NamesAccounted'
  <2> SUFFICES ASSUME NEW d \in Calls, Closed(d)', NEW r \in Named(d)'
               PROVE  Told(d, r)' \/ r \in sealing'[d].todo
    BY DEF NamesAccounted
  <2>1. Closed(d) /\ r \in Named(d) /\ r \in RunIds
    BY <1>1, NamesAreOwn DEF Named, captureVars, Accounts, OwnRuns
  <2>2. Told(d, r) \/ r \in sealing[d].todo
    BY <2>1 DEF Accounts, NamesAccounted
  <2>3. Told(d, r) => Told(d, r)'
    BY <2>1 DEF Told
  <2>4. r \in sealing[d].todo \ sealing'[d].todo => Told(d, r)'
    BY DEF Told
  <2> QED
    BY <2>2, <2>3, <2>4
<1> QED
  BY <1>2, <1>3, <1>4, <1>5, <1>6 DEF Accounts

\* A step without a write that leaves the list of retries alone.
LEMMA IdleAccounts ==
  ASSUME CallsInv, Accounts, UNCHANGED <<logVars, kind, worker, cancelled, captureVars>>,
         \A d \in Calls : answer'[d] = answer[d] \/ (Late(d) /\ Late(d)'),
         \A d \in Calls : sealing'[d].todo = sealing[d].todo,
         \A d \in Calls : answer'[d] \notin {"reading", "storing"} => sealing'[d].todo = {},
         UNCHANGED problems
  PROVE  Accounts'
<1>1. \A r \in RunIds : /\ Sealed(r)' <=> Sealed(r)
                        /\ AwaitsRetry(r)' <=> AwaitsRetry(r)
                        /\ Unsealable(r)' <=> Unsealable(r)
  BY DEF logVars, Sealed, Exists, AwaitsRetry, Unsealable
<1> QED
  BY <1>1, MiddlewareAccounts DEF logVars, Settled

LEMMA BeginRetryAccounts ==
  ASSUME CallsInv, Accounts, NEW c \in Calls, BeginRetry(c)
  PROVE  Accounts'
BY IdleAccounts DEF BeginRetry, Late, CallsInv, CallTypes, Accounts, NothingLeft

LEMMA FinishAccounts ==
  ASSUME CallsInv, Accounts, NEW c \in Calls, Finish(c)
  PROVE  Accounts'
<1>1. sealing[c].todo = {} /\ \A d \in Calls : sealing'[d].todo = sealing[d].todo
  BY DEF Finish, Accounts, NothingLeft, CallsInv, OwnSealings, NoSealing
<1> QED
  BY <1>1, IdleAccounts DEF Finish, Late, CallsInv, CallTypes, Accounts, NothingLeft

LEMMA ExportAccounts ==
  ASSUME CallsInv, Accounts, Export \/ (\E x \in Resealers : RetryLockedOut(x)) \/ UNCHANGED vars
  PROVE  Accounts'
BY IdleAccounts DEF Export, RetryLockedOut, vars, callVars, recordVars, Accounts, NothingLeft

\* Done with a row: it is sealed, or given up on.
LEMMA RowDoneAccounts ==
  ASSUME CallsInv, Accounts, NEW c \in Calls, answer[c] \in {"reading", "storing"}, sealing[c].todo # {},
         NEW row, row = Current(c),
         UNCHANGED <<kind, worker, cancelled, captureVars>>, RowDone(c),
         \A r \in RunIds : log'[r] # log[r] => r.call = c /\ Sealed(r)',
         \A r \in RunIds : Sealed(r) => Sealed(r)',
         \A r \in RunIds : Unsealable(r) => Unsealable(r)' \/ Sealed(r)',
         \/ /\ Sealed(row)' /\ UNCHANGED <<pending, dropped>>
            /\ problems' \in {problems, [problems EXCEPT ![c] = @ \union {Current(c)}]}
         \/ \E body \in Bodies \union {NoBody}, record \in Records \union {NoRecord}, absent \in BOOLEAN :
               GiveUpOn(c, body, record, absent)
  PROVE  Accounts'
<1>1. /\ sealing' = [sealing EXCEPT ![c] = Next1(c)] /\ answer' = [answer EXCEPT ![c] = "reading"]
      /\ Current(c) \in sealing[c].todo /\ Current(c) \in RunIds /\ Current(c).call = c
  BY CurrentIsOwn DEF RowDone, Next1
<1>2. /\ \A d \in Calls \ {c} : sealing'[d] = sealing[d] /\ answer'[d] = answer[d]
      /\ sealing'[c].todo = sealing[c].todo \ {Current(c)} /\ answer'[c] = "reading"
  BY <1>1, Next1Typed DEF CallsInv, OwnSealings, CallTypes
<1>3. /\ \A d \in Calls : answer'[d] = answer[d] \/ (Late(d) /\ Late(d)')
      /\ \A d \in Calls : answer'[d] \notin {"reading", "storing"} => sealing'[d].todo = {}
      /\ \A d \in Calls : sealing'[d].todo \subseteq sealing[d].todo
      /\ \A r \in RunIds : log'[r] # log[r] => Late(r.call) /\ Sealed(r)'
  BY <1>2 DEF Late, Accounts, NothingLeft
<1>4. CASE Sealed(row)' /\ UNCHANGED <<pending, dropped>>
           /\ problems' \in {problems, [problems EXCEPT ![c] = @ \union {Current(c)}]}
  <2>1. \A d \in Calls : problems[d] \subseteq problems'[d]
    BY <1>4 DEF CallsInv, CallTypes
  <2>2. \A r \in RunIds : AwaitsRetry(r) \/ Unsealable(r) => Settled(r)'
    BY <1>4 DEF AwaitsRetry, Settled
  <2>3. \A d \in Calls : \A r \in sealing[d].todo \ sealing'[d].todo : Sealed(r)'
    BY <1>2, <1>4
  <2> QED
    BY <1>3, <1>4, <2>1, <2>2, <2>3, MiddlewareAccounts
<1>5. CASE \E body \in Bodies \union {NoBody}, record \in Records \union {NoRecord}, absent \in BOOLEAN :
               GiveUpOn(c, body, record, absent)
  <2>1. PICK body \in Bodies \union {NoBody}, record \in Records \union {NoRecord}, absent \in BOOLEAN :
               GiveUpOn(c, body, record, absent)
    BY <1>5
  <2> DEFINE p == [run |-> Current(c), body |-> body, record |-> record, absent |-> absent]
  <2>2. Register(p) /\ problems' = [problems EXCEPT ![c] = @ \union {Current(c)}]
    BY <2>1 DEF GiveUpOn
  <2>3. p \in Pendings /\ p.run = Current(c)
    BY <1>1 DEF Pendings
  <2> HIDE DEF p
  <2>4. PICK q \in Pendings : q = p
    BY <2>3
  <2>5. /\ AwaitsRetry(q.run)' /\ dropped \subseteq dropped'
        /\ \A r \in RunIds : AwaitsRetry(r) => AwaitsRetry(r)' \/ r \in dropped'
    BY <2>2, <2>4, RegisterKeepsOthers
  <2>6. /\ \A d \in Calls : problems[d] \subseteq problems'[d]
        /\ Current(c) \in problems'[c]
    BY <2>2 DEF CallsInv, CallTypes
  <2>7. \A r \in RunIds : AwaitsRetry(r) \/ Unsealable(r) => Settled(r)'
    BY <2>5 DEF Settled
  <2>8. AwaitsRetry(row)'
    BY <2>3, <2>4, <2>5 DEF AwaitsRetry
  <2>9. \A d \in Calls : \A r \in sealing[d].todo \ sealing'[d].todo : r \in problems'[d] /\ AwaitsRetry(r)'
    BY <1>2, <2>6, <2>8
  <2> QED
    BY <1>3, <2>5, <2>6, <2>7, <2>9, MiddlewareAccounts
<1> QED
  BY <1>4, <1>5

LEMMA ReadRowAccounts ==
  ASSUME CallsInv, Accounts, NEW c \in Calls, ReadRow(c)
  PROVE  Accounts'
<1>1. /\ sealing[c].todo # {} /\ answer[c] = "reading" /\ log' = log
      /\ UNCHANGED <<kind, worker, cancelled, captureVars>>
  BY DEF ReadRow
<1>2. \A r \in RunIds : (Sealed(r) => Sealed(r)') /\ (Unsealable(r) => Unsealable(r)')
  BY <1>1 DEF Sealed, Unsealable, Exists
<1>3. CASE GiveUpOn(c, NoBody, NoRecord, FALSE)
  BY <1>1, <1>2, <1>3, RowDoneAccounts DEF GiveUpOn
<1>4. CASE Sealed(Current(c)) /\ RowDone(c) /\ UNCHANGED <<pending, dropped, problems>>
  <2>1. PICK r \in RunIds : r = Current(c) /\ Sealed(r)
    BY <1>1, <1>4, CurrentIsOwn
  <2>2. Sealed(r)'
    BY <1>2, <2>1
  <2> QED
    BY <1>1, <1>2, <1>4, <2>1, <2>2, RowDoneAccounts
<1>5. CASE /\ sealing' = [sealing EXCEPT ![c].body = IF Exists(Current(c)) THEN log[Current(c)].body ELSE Body("minimal"),
                                         ![c].absent = @ \/ ~Exists(Current(c))]
           /\ answer' = [answer EXCEPT ![c] = "storing"]
           /\ UNCHANGED <<pending, dropped, problems>>
  <2>1. \A d \in Calls : sealing'[d].todo = sealing[d].todo
    BY <1>5 DEF CallsInv, OwnSealings, SealingsOf
  <2> QED
    BY <1>1, <1>5, <2>1, IdleAccounts DEF logVars, Late, CallsInv, CallTypes, Accounts, NothingLeft
<1> QED
  BY <1>3, <1>4, <1>5 DEF ReadRow

LEMMA StoreRecordAccounts ==
  ASSUME CallsInv, Accounts, NEW c \in Calls, StoreRecord(c)
  PROVE  Accounts'
<1> DEFINE outcome == RecordOutcome(Current(c), sealing[c].body, RecordOf(c))
<1>1. /\ sealing[c].todo # {} /\ sealing[c] \in SealingsOf(c) /\ answer[c] = "storing"
      /\ sealing[c].body \in Bodies /\ RecordOf(c) \in Records
      /\ UNCHANGED <<kind, worker, cancelled, captureVars>>
  BY DEF StoreRecord, CallsInv, OwnSealings, StoringUnmarked, SealingsOf, RecordOf, Records
<1>2. PICK row \in RunIds : row = Current(c) /\ row.call = c
  BY <1>1, CurrentIsOwn
<1>3. RecordRow(row, sealing[c].body, RecordOf(c)) /\ outcome = RecordOutcome(row, sealing[c].body, RecordOf(c))
  BY <1>2 DEF StoreRecord
<1>4. PICK body \in Bodies, record \in Records : body = sealing[c].body /\ record = RecordOf(c)
  BY <1>1
<1>5. /\ \A q \in RunIds : log'[q] # log[q] => q = row /\ Sealed(q)'
      /\ \A q \in RunIds : Sealed(q) => Sealed(q)'
      /\ \A q \in RunIds : Unsealable(q) => Unsealable(q)' \/ Sealed(q)'
      /\ outcome \in Stored \union {"refused"} => Sealed(row)'
  BY <1>3, <1>4, RecordingSeals DEF CallsInv
<1>6. CASE /\ outcome \in Stored \union {"refused"}
           /\ RowDone(c) /\ UNCHANGED <<pending, dropped>>
           /\ problems' \in {problems, [problems EXCEPT ![c] = @ \union {Current(c)}]}
  <2>1. Sealed(row)'
    BY <1>5, <1>6
  <2> HIDE DEF outcome
  <2> QED
    BY <1>1, <1>2, <1>5, <1>6, <2>1, RowDoneAccounts
<1>7. CASE GiveUpOn(c, NoBody, NoRecord, FALSE)
  <2>1. RowDone(c)
    BY <1>7 DEF GiveUpOn
  <2> HIDE DEF outcome
  <2> QED
    BY <1>1, <1>2, <1>5, <1>7, <2>1, RowDoneAccounts
<1>8. CASE /\ outcome = "stale"
           /\ sealing' = [sealing EXCEPT ![c].attempt = @ + 1]
           /\ answer' = [answer EXCEPT ![c] = "reading"]
           /\ UNCHANGED <<pending, dropped, problems>>
  <2>1. \A d \in Calls : sealing'[d].todo = sealing[d].todo
    BY <1>8 DEF CallsInv, OwnSealings, SealingsOf
  <2>2. log' = log
    BY <1>3, <1>8 DEF RecordRow
  <2> HIDE DEF outcome
  <2> QED
    BY <1>1, <1>8, <2>1, <2>2, IdleAccounts DEF logVars, Late, CallsInv, CallTypes, Accounts, NothingLeft
<1> QED
  BY <1>6, <1>7, <1>8 DEF StoreRecord

LEMMA StoreLockedOutAccounts ==
  ASSUME CallsInv, Accounts, NEW c \in Calls, StoreLockedOut(c)
  PROVE  Accounts'
<1>1. /\ sealing[c].todo # {} /\ answer[c] = "storing" /\ log' = log
      /\ UNCHANGED <<kind, worker, cancelled, captureVars>>
      /\ sealing[c].body \in Bodies /\ RecordOf(c) \in Records /\ sealing[c].absent \in BOOLEAN
      /\ GiveUpOn(c, sealing[c].body, RecordOf(c), sealing[c].absent) /\ RowDone(c)
  BY DEF StoreLockedOut, GiveUpOn, CallsInv, OwnSealings, StoringUnmarked, SealingsOf, RecordOf, Records
<1>2. \A r \in RunIds : (Sealed(r) => Sealed(r)') /\ (Unsealable(r) => Unsealable(r)')
  BY <1>1 DEF Sealed, Unsealable, Exists
<1> QED
  BY <1>1, <1>2, RowDoneAccounts

\* A retry keeps the accounts if what it forgets is sealed, marked, or not there.
LEMMA RetryAccounts ==
  ASSUME CallsInv, Accounts, UNCHANGED <<callVars, captureVars, sealing, problems>>, NEW row \in RunIds,
         SealTried(row) \/ log' = log,
         \A r \in RunIds : log'[r] # log[r] => r = row /\ (Sealed(r)' \/ Unsealable(r)'),
         \A r \in RunIds : Sealed(r) => Sealed(r)',
         \A r \in RunIds : Unsealable(r) => Unsealable(r)' \/ Sealed(r)',
         KeepPending \/ (Forget(row) /\ (Sealed(row)' \/ Unsealable(row)' \/ ~Exists(row)'))
  PROVE  Accounts'
<1>1. dropped' = dropped /\ \A r \in RunIds : AwaitsRetry(r) =>
          AwaitsRetry(r)' \/ (r = row /\ (Sealed(row)' \/ Unsealable(row)' \/ ~Exists(row)'))
  BY ForgetKeepsOthers DEF KeepPending, AwaitsRetry
<1>2. \A r \in RunIds : AwaitsRetry(r) \/ Unsealable(r) => Settled(r)' \/ ~Exists(r)'
  BY <1>1 DEF Settled
<1>3. \A r \in RunIds : log'[r] # log[r] => Late(r.call) /\ (Sealed(r)' \/ Unsealable(r)')
  BY DEF SealTried, Late
<1> QED
  BY <1>1, <1>2, <1>3, MiddlewareAccounts DEF callVars, Accounts, NothingLeft

LEMMA RetryReadAccounts ==
  ASSUME CallsInv, Accounts, NEW x \in Resealers, NEW p, RetryRead(x, p)
  PROVE  Accounts'
<1>1. p.run \in RunIds
  BY DEF RetryRead, CallsInv, KeptSeals, RetriesOfKept, Kept, Pendings
<1>2. log' = log /\ UNCHANGED <<callVars, captureVars, sealing, problems>>
      /\ (KeepPending \/ (Forget(p.run) /\ (Sealed(p.run) \/ ~Exists(p.run))))
  BY DEF RetryRead
<1>3. PICK row \in RunIds : row = p.run
  BY <1>1
<1>4. \A r \in RunIds : /\ Sealed(r)' <=> Sealed(r)
                        /\ Exists(r)' <=> Exists(r)
                        /\ Unsealable(r)' <=> Unsealable(r)
  BY <1>2 DEF Sealed, Exists, Unsealable
<1> QED
  BY <1>2, <1>3, <1>4, RetryAccounts

LEMMA RetryMarkAccounts ==
  ASSUME CallsInv, Accounts, NEW x \in Resealers, RetryMark(x)
  PROVE  Accounts'
<1>0. PICK row \in RunIds : row = retrying[x].now.run
  BY NowIsKept DEF RetryMark
<1>1. PICK body : row = retrying[x].now.run /\ body = retrying[x].row.body
  BY <1>0
<1>2. /\ SealTried(row) /\ MarkUnsealable(row, body)
      /\ UNCHANGED <<callVars, captureVars, sealing, problems>>
      /\ IF MarkOutcome(row, body) = "changed" THEN KeepPending ELSE Forget(row)
  BY <1>1, NowIsKept DEF RetryMark
<1>3. MarkOutcome(row, body) = "marked" =>
          ~Sealed(row) /\ Unsealable(row)' /\ \A r \in RunIds \ {row} : log'[r] = log[r]
  <2> SUFFICES ASSUME MarkOutcome(row, body) = "marked"
               PROVE  ~Sealed(row) /\ Unsealable(row)' /\ \A r \in RunIds \ {row} : log'[r] = log[r]
    OBVIOUS
  <2> DEFINE old == log[row]
  <2>1. old \in Rows /\ old.record = NoRecord /\ ~Sealed(row)
    BY DEF MarkOutcome, Sealed, Exists, CallsInv, LogShape
  <2>2. log'[row] = [old EXCEPT !.body.unsealable = TRUE] /\ \A r \in RunIds \ {row} : log'[r] = log[r]
    BY <1>2 DEF MarkUnsealable, CallsInv, LogShape
  <2> HIDE DEF old
  <2>3. /\ log'[row] \in Rows /\ log'[row].record = NoRecord /\ log'[row].body.unsealable
    BY <2>1, <2>2 DEF Rows, Bodies
  <2> QED
    BY <2>1, <2>2, <2>3, RunLogAssumption DEF Unsealable, Sealed, Exists
<1>4. MarkOutcome(row, body) # "marked" => log' = log
  BY <1>2 DEF MarkUnsealable
<1>5. MarkOutcome(row, body) = "noop" => ~Exists(row) \/ Sealed(row) \/ Unsealable(row)
  BY DEF MarkOutcome
<1>6. MarkOutcome(row, body) \in {"marked", "changed", "noop"}
  BY DEF MarkOutcome
<1>7. \A r \in RunIds : log'[r] # log[r] => r = row /\ Unsealable(r)' /\ ~Sealed(r) 
  BY <1>3, <1>4, <1>6
<1>8. \A r \in RunIds : (Sealed(r) => Sealed(r)') /\ (Unsealable(r) => Unsealable(r)')
  BY <1>7 DEF Sealed, Unsealable, Exists
<1>9. CASE MarkOutcome(row, body) = "noop"
  <2>1. Sealed(row)' \/ Unsealable(row)' \/ ~Exists(row)'
    BY <1>4, <1>5, <1>8, <1>9 DEF Exists
  <2> QED
    BY <1>2, <1>7, <1>8, <1>9, <2>1, RetryAccounts
<1>10. CASE MarkOutcome(row, body) # "noop"
  BY <1>2, <1>3, <1>6, <1>7, <1>8, <1>10, RetryAccounts
<1> QED
  BY <1>9, <1>10

LEMMA RetryStoreAccounts ==
  ASSUME CallsInv, Accounts, NEW x \in Resealers, RetryStore(x)
  PROVE  Accounts'
<1>1. PICK p \in Pendings : p = retrying[x].now
  BY NowIsKept DEF RetryStore
<1>2. /\ p.run \in RunIds /\ p.body \in Bodies /\ p.record \in Records /\ SealTried(p.run)
      /\ RecordRow(p.run, p.body, p.record)
      /\ UNCHANGED <<callVars, captureVars, sealing, problems>>
  BY <1>1, FittingSeal, NowIsKept DEF RetryStore
<1>3. PICK row \in RunIds, body \in Bodies, record \in Records :
          row = p.run /\ body = p.body /\ record = p.record
  BY <1>2
<1>4. /\ \A q \in RunIds : log'[q] # log[q] => q = row /\ Sealed(q)'
      /\ \A q \in RunIds : Sealed(q) => Sealed(q)'
      /\ \A q \in RunIds : Unsealable(q) => Unsealable(q)' \/ Sealed(q)'
      /\ RecordOutcome(row, body, record) \in Stored \union {"refused"} => Sealed(row)'
  BY <1>2, <1>3, RecordingSeals DEF CallsInv
<1>5. KeepPending \/ (Forget(row) /\ (RecordOutcome(row, body, record) \in Stored
                                      \/ ~Exists(row) \/ Sealed(row) \/ Unsealable(row)))
  BY <1>1, <1>3 DEF RetryStore, MarkOutcome
<1>6. ~Exists(row) => ~Exists(row)' \/ Sealed(row)'
  BY <1>4 DEF Exists
<1> QED
  BY <1>2, <1>3, <1>4, <1>5, <1>6, RetryAccounts

-----------------------------------------------------------------------------
(* A crash, and what answers may be held to                                   *)

LEMMA CrashAccounts ==
  ASSUME CallsInv, Accounts, Crash
  PROVE  Accounts'
<1> USE DEF Crash, captureVars
<1>1. Quiet' /\ NothingLeft' /\ OnlyToolsWrite'
  BY DEF Accounts, Quiet, NothingLeft, OnlyToolsWrite, Rowless, NoSealing
<1>2. \A d \in Calls : answer'[d] = IF answer[d] = "none" THEN "none" ELSE "over"
  OBVIOUS
<1>3. \A r \in RunIds : r.call \in Calls
  BY DEF RunIds
<1>4. RowsNoted'
  BY <1>2, <1>3 DEF Accounts, RowsNoted, Exists, Late
<1>5. ASSUME NEW d \in Calls, Closed(d)', ~Closed(d) \/ answer[d] # "over"
      PROVE  OwnRuns(d) \subseteq dropped'
  <2>1. answer[d] \notin {"none", "over"}
    BY <1>2, <1>5 DEF Closed, Late
  <2> QED
    BY <2>1 DEF OwnRuns
<1>6. ASSUME NEW d \in Calls, Closed(d), answer[d] = "over"
      PROVE  sealing[d].todo = {} 
  BY <1>6 DEF Accounts, NothingLeft
<1>7. RowsAccounted'
  <2> SUFFICES ASSUME NEW r \in RunIds, Closed(r.call)', Exists(r)'
               PROVE  Settled(r)'
    BY DEF RowsAccounted
  <2>1. CASE Closed(r.call) /\ answer[r.call] = "over"
    <3>1. Settled(r)
      BY <1>3, <1>6, <2>1 DEF Accounts, RowsAccounted, Exists
    <3> QED
      BY <3>1 DEF Settled, Sealed, Exists, Unsealable, AwaitsRetry
  <2>2. CASE ~(Closed(r.call) /\ answer[r.call] = "over")
    BY <1>3, <1>5, <2>2 DEF Settled, OwnRuns
  <2> QED
    BY <2>1, <2>2
<1>8. NamesAccounted'
  <2> SUFFICES ASSUME NEW d \in Calls, Closed(d)', NEW r \in Named(d)'
               PROVE  Told(d, r)'
    BY DEF NamesAccounted
  <2>1. r \in Named(d) /\ r \in OwnRuns(d)
    BY NamesAreOwn DEF Named, Accounts
  <2>2. CASE Closed(d) /\ answer[d] = "over"
    <3>1. Told(d, r)
      BY <1>6, <2>1, <2>2 DEF Accounts, NamesAccounted
    <3> QED
      BY <3>1 DEF Told, Sealed, Exists
  <2>3. CASE ~(Closed(d) /\ answer[d] = "over")
    BY <1>5, <2>1, <2>3 DEF Told
  <2> QED
    BY <2>2, <2>3
<1> QED
  BY <1>1, <1>4, <1>7, <1>8 DEF Accounts

LEMMA AccountsStep == CallsInv /\ Accounts /\ [Next]_vars => Accounts'
<1> SUFFICES ASSUME CallsInv, Accounts, [Next]_vars PROVE Accounts'
  OBVIOUS
<1>1. ASSUME NEW c \in Calls, (\E k \in Kinds : Dispatch(c, k)) \/ Work(c) \/ Cancel(c)
      PROVE  Accounts'
  BY <1>1, DispatchAccounts, StartAccounts, EndAccounts, CancelAccounts, PutResultAccounts, PushLayerAccounts,
     PostRunAccounts, WriteRunLogAccounts DEF Work
<1>2. ASSUME NEW x \in Resealers, Retry(x)
      PROVE  Accounts'
  BY <1>2, RetryReadAccounts, RetryMarkAccounts, RetryStoreAccounts, ExportAccounts DEF Retry
<1>3. ASSUME NEW c \in Calls, Seal(c)
      PROVE  Accounts'
  BY <1>2, <1>3, BeginSealAccounts, ReadRowAccounts, StoreRecordAccounts, StoreLockedOutAccounts,
     BeginRetryAccounts, FinishAccounts DEF Seal, Resealers
<1> QED
  BY <1>1, <1>2, <1>3, ExportAccounts, CrashAccounts DEF Next, Resealers

LEMMA AccountsInvariant == Spec => []Accounts
BY Invariance, InitAccounts, AccountsStep, PTL DEF Spec

\* Of the rows an answered call wrote, none is left unsealed in silence: it will be
\* retried, is marked, or was counted as dropped (run_records.py:1590).
THEOREM NoSilentLoss == Spec => []UnsealedIsAccountedFor
<1>1. Accounts => UnsealedIsAccountedFor
  BY DEF Accounts, RowsAccounted, NothingLeft, UnsealedIsAccountedFor, Answered, Closed, Late, Settled, RunIds
<1> QED
  BY <1>1, AccountsInvariant, PTL

\* A caller is never handed an id whose row is not sealed without being told so.
THEOREM HandedIdsAreSealed == Spec => []HandedIdIsSealed
<1>1. Accounts => HandedIdIsSealed
  BY DEF Accounts, NamesAccounted, NothingLeft, HandedIdIsSealed, Answered, Closed, Late, Named, Declared, Told
<1> QED
  BY <1>1, AccountsInvariant, PTL

\* The id on a map layer never dangles unless the call says so (run_records.py:1419).
THEOREM LayersDoNotDangle == Spec => []LayerRowExists
<1>1. Accounts => LayerRowExists
  BY DEF Accounts, NamesAccounted, NothingLeft, LayerRowExists, Answered, Closed, Late, Named, Told, Sealed
<1> QED
  BY <1>1, AccountsInvariant, PTL

-----------------------------------------------------------------------------
(* The count of waiting calls                                                 *)

InWait == {c \in Calls : kind[c] = "wait" /\ answer[c] = "awaited"}

CountInv == IsFiniteSet(InWait) /\ waiting = Cardinality(InWait)

\* A call joins those in wait, leaves them, or all are gone with the process.
LEMMA WaitMoves ==
  ASSUME CallsInv, [Next]_vars
  PROVE  \/ InWait' = InWait /\ waiting' = waiting
         \/ \E c \in Calls : c \notin InWait /\ InWait' = InWait \union {c} /\ waiting' = waiting + 1
         \/ \E c \in InWait : InWait' = InWait \ {c} /\ waiting' = waiting - 1
         \/ InWait' = {} /\ waiting' = 0
<1> USE DEF InWait
<1>1. ASSUME NEW c \in Calls, NEW k \in Kinds, Dispatch(c, k)
      PROVE  \/ InWait' = InWait /\ waiting' = waiting
             \/ c \notin InWait /\ InWait' = InWait \union {c} /\ waiting' = waiting + 1
  <2>1. /\ answer[c] = "none" /\ kind'[c] = k
        /\ \A d \in Calls \ {c} : answer'[d] = answer[d] /\ kind'[d] = kind[d]
    BY <1>1 DEF Dispatch, CallsInv, CallTypes
  <2>2. \/ answer'[c] = "over" /\ waiting' = waiting
        \/ answer'[c] = "awaited" /\ waiting' = IF k = "wait" THEN waiting + 1 ELSE waiting
    BY <1>1 DEF Dispatch, CallsInv, CallTypes
  <2> QED
    BY <2>1, <2>2
<1>2. ASSUME NEW c \in Calls, Return(c) \/ Raise(c) \/ Cancel(c)
      PROVE  \/ InWait' = InWait /\ waiting' = waiting
             \/ c \in InWait /\ InWait' = InWait \ {c} /\ waiting' = waiting - 1
  <2>1. /\ kind' = kind
        /\ \A d \in Calls \ {c} : answer'[d] = answer[d]
        /\ \/ answer[c] # "awaited" /\ UNCHANGED <<answer, waiting>>
           \/ answer[c] = "awaited" /\ answer'[c] # "awaited" /\ waiting' = LeaveClass(c)
    BY <1>2 DEF Return, Raise, EndWorker, Cancel, AfterTool, CallsInv, CallTypes
  <2> QED
    BY <2>1 DEF LeaveClass
<1>3. ASSUME NEW c \in Calls, Start(c) \/ PutResult(c) \/ PushLayer(c) \/ PostRun(c) \/ WriteRunLog(c)
      PROVE  InWait' = InWait /\ waiting' = waiting
  BY <1>3 DEF Start, PutResult, PushLayer, PostRun, WriteRunLog, callVars
<1>4. ASSUME NEW c \in Calls, BeginSeal(c) \/ ReadRow(c) \/ StoreRecord(c) \/ StoreLockedOut(c)
                              \/ BeginRetry(c) \/ Finish(c)
      PROVE  InWait' = InWait /\ waiting' = waiting
  <2>1. /\ kind' = kind /\ waiting' = waiting /\ answer[c] # "awaited"
        /\ answer' = answer \/ \E a \in {"reading", "storing", "retrying", "over"} :
                                  answer' = [answer EXCEPT ![c] = a]
    BY <1>4 DEF BeginSeal, ReadRow, StoreRecord, StoreLockedOut, BeginRetry, Finish, GiveUpOn, RowDone
  <2> QED
    BY <2>1 DEF CallsInv, CallTypes
<1>5. ASSUME (\E x \in Resealers : Retry(x)) \/ Export \/ UNCHANGED vars
      PROVE  InWait' = InWait /\ waiting' = waiting
  BY <1>5 DEF Retry, RetryRead, RetryMark, RetryStore, RetryLockedOut, Export, vars, callVars
<1>6. ASSUME Crash
      PROVE  InWait' = {} /\ waiting' = 0
  BY <1>6 DEF Crash
<1> QED
  BY <1>1, <1>2, <1>3, <1>4, <1>5, <1>6 DEF Next, Work, Seal, Resealers

\* However a call ends, by its answer, a cancel or the death of the server, the class
\* counts the calls in wait and no others (offload.py, _CLASS_ACTIVE).
THEOREM WaitsAreCounted == Spec => []WaitingIsExact
<1>1. Init => CountInv
  <2> SUFFICES ASSUME Init PROVE CountInv
    OBVIOUS
  <2>1. InWait = {} /\ waiting = 0
    BY DEF Init, InWait
  <2> QED
    BY <2>1, FS_EmptySet DEF CountInv
<1>2. CallsInv /\ CountInv /\ [Next]_vars => CountInv'
  <2> SUFFICES ASSUME CallsInv, CountInv, [Next]_vars PROVE CountInv'
    OBVIOUS
  <2> QED
    BY WaitMoves, FS_AddElement, FS_RemoveElement, FS_EmptySet DEF CountInv
<1>3. CountInv => WaitingIsExact
  BY DEF CountInv, InWait, WaitingIsExact
<1> QED
  BY <1>1, <1>2, <1>3, Invariance, PTL DEF Spec

-----------------------------------------------------------------------------
(* A lost view is disclosed                                                   *)

Slot(c) == Run(c, "slot")

\* The client is waiting for a result that names the slot's row.
Slotted(c) == c \notin cancelled /\ view[c].run = Slot(c)

\* The row has post_run's view, or the call knows that it is lost.
Complete(c) == log[Slot(c)].body.text = "full" \/ Slot(c) \in capture[c].failed

Disclosed(c) ==
    /\ Exists(Slot(c))
    /\ worker[c] = "posting" => view[c].body.text = "full"
    /\ worker[c] # "posting" => Complete(c) \/ (answer[c] = "over" /\ ~Sealed(Slot(c)))
    /\ Sealed(Slot(c)) => log[Slot(c)].body.text = "full" \/ log[Slot(c)].record.lost

\* A seal kept for a retry would disclose the loss too.
Honest(p) == LET c == p.run.call IN
    Slotted(c) /\ p.run = Slot(c) =>
        Complete(c) /\ (p.record # NoRecord /\ p.run \in capture[c].failed => p.record.lost)

HonestSeals == {p \in Pendings : Late(p.run.call) /\ Honest(p)}

SealsHonest ==
    /\ pending \in Seq(HonestSeals)
    /\ \A x \in Resealers : retrying[x].todo \subseteq HonestSeals
                            /\ retrying[x].now \in HonestSeals \union {NoSeal}

\* A view is what a worker has last; a layer reserves no id but its own; the
\* middleware seals, nobody before it.
InOrder == \A c \in Calls :
    /\ view[c] # NoView => worker[c] \in {"posting", "posted", "done"}
    /\ capture[c].reserved \in {NoRun, Run(c, "layer")}
    /\ \A r \in OwnRuns(c) : Sealed(r) => Late(c)

LossInv == InOrder /\ SealsHonest /\ \A c \in Calls : Slotted(c) => Disclosed(c)

LEMMA SlotIsOwn ==
  ASSUME NEW c \in Calls
  PROVE  Slot(c) \in RunIds /\ Slot(c) \in OwnRuns(c) /\ Slot(c).call = c /\ Slot(c) # NoRun
BY ToolCallsAssumption DEF Slot, Run, OwnRuns, RunIds

LEMMA InitLoss == Init => LossInv
<1> SUFFICES ASSUME Init PROVE LossInv
  OBVIOUS
<1>1. InOrder
  BY DEF Init, LogInit, InOrder, NoCapture, OwnRuns, Sealed, Exists
<1>2. SealsHonest
  BY DEF Init, LogInit, SealsHonest, NoRetry
<1>3. \A c \in Calls : ~Slotted(c)
  BY SlotIsOwn DEF Init, Slotted, NoView
<1> QED
  BY <1>1, <1>2, <1>3 DEF LossInv

\* Honest seals stay so as long as what the calls past their tools hold does.
LEMMA HonestGrows ==
  ASSUME \A d \in Calls : Late(d) =>
             /\ Late(d)' /\ (Slotted(d)' => Slotted(d))
             /\ Slotted(d)' /\ Complete(d) => Complete(d)'
             /\ Slotted(d)' => capture'[d].failed = capture[d].failed
  PROVE  HonestSeals \subseteq HonestSeals'
<1>1. ASSUME NEW p \in Pendings, Late(p.run.call), Honest(p)
      PROVE  Late(p.run.call)' /\ Honest(p)'
  <2>1. p.run.call \in Calls
    BY DEF Pendings, RunIds
  <2> QED
    BY <1>1, <2>1 DEF Honest, Slot
<1> QED
  BY <1>1 DEF HonestSeals

\* What is kept for a retry stays honest, if nothing but honest seals joins it.
LEMMA HonestStays ==
  ASSUME \A d \in Calls : Late(d) =>
             /\ Late(d)' /\ (Slotted(d)' => Slotted(d))
             /\ Slotted(d)' /\ Complete(d) => Complete(d)'
             /\ Slotted(d)' => capture'[d].failed = capture[d].failed,
         pending' \in Seq(HonestSeals),
         \A x \in Resealers : retrying'[x].todo \subseteq HonestSeals
                                /\ retrying'[x].now \in HonestSeals \union {NoSeal}
  PROVE  SealsHonest'
<1>1. HonestSeals \subseteq HonestSeals'
  BY HonestGrows
<1>2. pending' \in Seq(HonestSeals')
  BY <1>1, SeqMonotonic
<1> QED
  BY <1>1, <1>2 DEF SealsHonest

\* A step of the pool or of a writer of call c, which leaves the other calls alone.
LEMMA WriterLoss ==
  ASSUME CallsInv, Accounts, LossInv, NEW c \in Calls,
         UNCHANGED <<pending, retrying>>, cancelled' \in {cancelled, cancelled \union {c}},
         \A d \in Calls \ {c} : /\ answer'[d] = answer[d] /\ worker'[d] = worker[d]
                                /\ view'[d] = view[d] /\ capture'[d] = capture[d],
         \A r \in RunIds : r.call # c => log'[r] = log[r],
         view'[c] # NoView => worker'[c] \in {"posting", "posted", "done"},
         capture'[c].reserved \in {NoRun, Run(c, "layer")},
         \A r \in OwnRuns(c) : Sealed(r)' => Sealed(r), Late(c) => Late(c)',
         Slotted(c)' => ~Late(c) /\ Disclosed(c)'
  PROVE  LossInv'
<1>1. \A d \in Calls \ {c} : /\ \A r \in OwnRuns(d) : log'[r] = log[r]
                             /\ Slotted(d)' <=> Slotted(d)
                             /\ Late(d)' <=> Late(d)
  BY DEF OwnRuns, Slotted, Late, Slot
<1>2. \A d \in Calls \ {c} : (Complete(d)' <=> Complete(d)) /\ (Disclosed(d) => Disclosed(d)')
  BY <1>1, SlotIsOwn DEF Complete, Disclosed, Exists, Sealed, Slot
<1>3. InOrder'
  BY <1>1 DEF LossInv, InOrder, Sealed, Exists, OwnRuns
<1>4. SealsHonest'
  BY <1>1, <1>2, HonestStays DEF LossInv, SealsHonest
<1> QED
  BY <1>1, <1>2, <1>3, <1>4 DEF LossInv

LEMMA PoolLoss ==
  ASSUME CallsInv, Accounts, LossInv, NEW c \in Calls,
         (\E k \in Kinds : Dispatch(c, k)) \/ Start(c) \/ Return(c) \/ Raise(c) \/ Cancel(c) \/ PushLayer(c)
  PROVE  LossInv'
<1>0. /\ view[c] # NoView => worker[c] \in {"posting", "posted", "done"}
      /\ capture[c].reserved \in {NoRun, Run(c, "layer")}
      /\ Slotted(c) => Disclosed(c) /\ view[c] # NoView
      /\ answer[c] = "none" => worker[c] = "idle"
      /\ worker[c] \in AtWork /\ Late(c) => c \in cancelled
  BY SlotIsOwn DEF LossInv, InOrder, Slotted, NoView, Accounts, Quiet, Late, AtWork
<1>1. ASSUME NEW k \in Kinds, Dispatch(c, k)
      PROVE  LossInv'
  <2>1. view[c] = NoView
    BY <1>0, <1>1 DEF Dispatch
  <2> QED
    BY <1>0, <1>1, <2>1, WriterLoss, SlotIsOwn
       DEF Dispatch, logVars, captureVars, recordVars, CallsInv, CallTypes, Sealed, Exists, Slotted, NoView, Late
<1>2. CASE Start(c)
  <2>1. view[c] = NoView
    BY <1>0, <1>2 DEF Start
  <2> QED
    BY <1>0, <1>2, <2>1, WriterLoss, SlotIsOwn
       DEF Start, logVars, captureVars, recordVars, CallsInv, CallTypes, Sealed, Exists, Slotted, NoView, Late
<1>3. CASE Return(c)
  <2>1. /\ Slotted(c)' => Slotted(c) /\ ~Late(c) /\ Complete(c)
        /\ worker'[c] = "done"
    BY <1>0, <1>3 DEF Return, EndWorker, AtWork, Slotted, Slot, Disclosed, Late, CallsInv, CallTypes
  <2>2. Slotted(c)' => Disclosed(c)'
    BY <1>0, <1>3, <2>1 DEF Return, EndWorker, logVars, Disclosed, Complete, Exists, Sealed, Slot
  <2> QED
    BY <1>0, <1>3, <2>1, <2>2, WriterLoss
       DEF Return, EndWorker, AfterTool, logVars, recordVars, CallsInv, CallTypes, Sealed, Exists, Late
<1>4. CASE Raise(c)
  BY <1>0, <1>4, WriterLoss, SlotIsOwn
     DEF Raise, EndWorker, AfterTool, logVars, recordVars, CallsInv, CallTypes, OwnViews, Sealed, Exists, Late,
         Slotted, NoView
<1>5. CASE Cancel(c)
  BY <1>0, <1>5, WriterLoss
     DEF Cancel, AfterTool, logVars, captureVars, recordVars, CallsInv, CallTypes, Sealed, Exists, Late, Slotted
<1>6. CASE PushLayer(c)
  <2>1. view[c] = NoView
    BY <1>0, <1>6 DEF PushLayer
  <2>2. /\ \A d \in Calls \ {c} : capture'[d] = capture[d]
        /\ capture'[c].reserved \in {NoRun, Run(c, "layer")}
    BY <1>0, <1>6 DEF PushLayer, CallsInv, OwnCaptures, CapturesOf
  <2> QED
    BY <1>6, <2>1, <2>2, WriterLoss, SlotIsOwn
       DEF PushLayer, logVars, callVars, recordVars, Sealed, Exists, Slotted, NoView, Late
<1> QED
  BY <1>1, <1>2, <1>3, <1>4, <1>5, <1>6

\* Writing a row that is not sealed: it is there with the body, or known to be lost.
LEMMA OpenRowWritten ==
  ASSUME CallsInv, NEW c \in Calls, NEW r \in OwnRuns(c), NEW body \in Bodies, Write(c, r, body), ~Sealed(r)
  PROVE  /\ capture'[c].reserved = capture[c].reserved
         /\ \A d \in Calls \ {c} : capture'[d] = capture[d]
         /\ \A q \in RunIds : /\ Sealed(q)' => Sealed(q)
                              /\ log'[q] # log[q] => q = r
         /\ \/ /\ log'[r] = [body |-> body, record |-> NoRecord] /\ Exists(r)' /\ UNCHANGED faults
               /\ capture'[c].rows = Append(capture[c].rows, r)
               /\ capture'[c].failed = capture[c].failed /\ capture'[c].refused = capture[c].refused
            \/ /\ log' = log /\ LockedOut
               /\ capture'[c].failed = capture[c].failed \union {r}
               /\ capture'[c].rows = capture[c].rows /\ capture'[c].refused = capture[c].refused
<1>1. capture[c] \in CapturesOf(c) /\ r \in RunIds /\ r.call = c
  BY DEF CallsInv, OwnCaptures, OwnRuns
<1>2. RecordOutcome(r, body, NoRecord) \in {"inserted", "replaced"}
  BY DEF RecordOutcome
<1>3. CASE RecordRow(r, body, NoRecord) /\ UNCHANGED faults /\ capture' = [capture EXCEPT ![c].rows = Append(@, r)]
  <2>1. log' = [log EXCEPT ![r] = [body |-> body, record |-> NoRecord]]
    BY <1>2, <1>3 DEF RecordRow
  <2>2. /\ log'[r] = [body |-> body, record |-> NoRecord]
        /\ \A q \in RunIds \ {r} : log'[q] = log[q]
    BY <1>1, <2>1 DEF CallsInv, LogShape
  <2>3. [body |-> body, record |-> NoRecord] # NoRow
    BY RunLogAssumption DEF Rows
  <2>4. /\ capture'[c] = [capture[c] EXCEPT !.rows = Append(@, r)]
        /\ \A d \in Calls \ {c} : capture'[d] = capture[d]
    BY <1>3 DEF CallsInv, OwnCaptures
  <2>5. /\ capture'[c].reserved = capture[c].reserved /\ capture'[c].rows = Append(capture[c].rows, r)
        /\ capture'[c].failed = capture[c].failed /\ capture'[c].refused = capture[c].refused
    BY <1>1, <2>4 DEF CapturesOf
  <2> QED
    BY <1>3, <2>2, <2>3, <2>4, <2>5 DEF Exists, Sealed
<1>4. CASE LockedOut /\ capture' = [capture EXCEPT ![c].failed = @ \union {r}] /\ log' = log
  <2>1. /\ capture'[c] = [capture[c] EXCEPT !.failed = @ \union {r}]
        /\ \A d \in Calls \ {c} : capture'[d] = capture[d]
    BY <1>4 DEF CallsInv, OwnCaptures
  <2>2. /\ capture'[c].reserved = capture[c].reserved /\ capture'[c].failed = capture[c].failed \union {r}
        /\ capture'[c].rows = capture[c].rows /\ capture'[c].refused = capture[c].refused
    BY <1>1, <2>1 DEF CapturesOf
  <2> QED
    BY <1>4, <2>1, <2>2 DEF Sealed, Exists
<1> QED
  BY <1>2, <1>3, <1>4 DEF Write, Stored

LEMMA PutResultLoss ==
  ASSUME CallsInv, Accounts, LossInv, NEW c \in Calls, PutResult(c)
  PROVE  LossInv'
<1>1. view[c] = NoView /\ capture[c].reserved \in {NoRun, Run(c, "layer")}
  BY DEF PutResult, LossInv, InOrder
<1>2. CASE Sealed(Slot(c))
  <2>1. Slot(c) \in OwnRuns(c) /\ Body("slot") \in Bodies
    BY SlotIsOwn DEF Body, Bodies
  <2>2. /\ \A d \in Calls \ {c} : capture'[d] = capture[d]
        /\ capture'[c].reserved = capture[c].reserved
        /\ \A r \in RunIds : log'[r] # log[r] => r \in OwnRuns(c)
    BY <2>1, WritingNotes DEF PutResult, Slot
  <2>3. \A r \in OwnRuns(c) : Sealed(r)' => Sealed(r)
    <3>1. log'= log
      BY <1>2 DEF PutResult, Write, RecordRow, RecordOutcome, Sealed, Slot
    <3> QED
      BY <3>1 DEF Sealed, Exists
  <2> QED
    BY <1>1, <2>2, <2>3, WriterLoss, SlotIsOwn DEF PutResult, recordVars, Slotted, NoView, Late, OwnRuns
<1>3. CASE ~Sealed(Slot(c))
  <2>1. Slot(c) \in OwnRuns(c) /\ Body("slot") \in Bodies /\ Write(c, Slot(c), Body("slot"))
    BY SlotIsOwn DEF Body, Bodies, PutResult, Slot
  <2>2. /\ \A d \in Calls \ {c} : capture'[d] = capture[d]
        /\ capture'[c].reserved = capture[c].reserved
        /\ \A q \in RunIds : (Sealed(q)' => Sealed(q)) /\ (log'[q] # log[q] => q = Slot(c))
    BY <1>3, <2>1, OpenRowWritten
  <2> QED
    BY <1>1, <2>2, WriterLoss, SlotIsOwn DEF PutResult, recordVars, Slotted, NoView, Late, OwnRuns
<1> QED
  BY <1>2, <1>3

LEMMA PostRunLoss ==
  ASSUME CallsInv, Accounts, LossInv, NEW c \in Calls, PostRun(c)
  PROVE  LossInv'
<1>1. /\ \A d \in Calls \ {c} : view'[d] = view[d]
      /\ worker'[c] = "posting" /\ \A d \in Calls \ {c} : worker'[d] = worker[d]
      /\ view'[c] \in {SlotRow(c), OwnRow(c)} /\ (view'[c] = SlotRow(c) => Adoptable(c) \/ view'[c] = OwnRow(c))
      /\ UNCHANGED <<logVars, answer, cancelled, capture, recordVars>>
      /\ capture[c].reserved \in {NoRun, Run(c, "layer")}
  BY DEF PostRun, CallsInv, OwnViews, CallTypes, LossInv, InOrder
<1>2. OwnRow(c).run # Slot(c)
  BY <1>1 DEF OwnRow, Slot, Run
<1>3. ASSUME Slotted(c)'
      PROVE  ~Late(c) /\ Disclosed(c)'
  <2>1. Adoptable(c) /\ view'[c] = SlotRow(c)
    BY <1>1, <1>2, <1>3 DEF Slotted, Slot
  <2>2. log[Slot(c)] \in Rows /\ Exists(Slot(c)) /\ ~Sealed(Slot(c))
    BY <2>1, SlotIsOwn DEF Adoptable, Exists, Slot, CallsInv, LogShape
  <2>3. view'[c].body.text = "full"
    BY <2>1, <2>2 DEF SlotRow, Slot, Rows, Bodies
  <2>4. ~Late(c)
    BY <1>1, <1>3 DEF Slotted, PostRun, Accounts, Quiet, Late
  <2> QED
    BY <1>1, <2>2, <2>3, <2>4 DEF Disclosed, logVars, Exists, Sealed, Slot
<1>4. /\ \A r \in OwnRuns(c) : Sealed(r)' => Sealed(r)
      /\ Late(c) => Late(c)'
  BY <1>1 DEF logVars, Sealed, Exists, Late
<1> QED
  BY <1>1, <1>3, <1>4, WriterLoss DEF recordVars, logVars

LEMMA WriteRunLogLoss ==
  ASSUME CallsInv, Accounts, LossInv, NEW c \in Calls, WriteRunLog(c)
  PROVE  LossInv'
<1>0. PICK r \in OwnRuns(c) : r = view[c].run
  BY DEF WriteRunLog, CallsInv, OwnViews, ViewsOf
<1>1. /\ worker[c] = "posting" /\ Write(c, r, view[c].body)
      /\ worker'[c] = "posted" /\ \A d \in Calls \ {c} : worker'[d] = worker[d]
      /\ UNCHANGED <<pending, answer, cancelled, view, retrying, sealing>>
      /\ view[c].body \in Bodies
      /\ capture[c].reserved \in {NoRun, Run(c, "layer")}
  BY <1>0 DEF WriteRunLog, recordVars, CallsInv, CallTypes, OwnViews, ViewsOf, LossInv, InOrder
<1>2. /\ \A d \in Calls \ {c} : capture'[d] = capture[d]
      /\ capture'[c].reserved = capture[c].reserved
      /\ \A q \in RunIds : log'[q] # log[q] => q \in OwnRuns(c)
  BY <1>1, WritingNotes
<1>3. \A q \in OwnRuns(c) : Sealed(q)' => Sealed(q)
  <2>1. CASE Sealed(r)
    <3>1. log' = log
      BY <1>1, <2>1 DEF Write, RecordRow, RecordOutcome, Sealed
    <3> QED
      BY <3>1 DEF Sealed, Exists
  <2>2. CASE ~Sealed(r)
    BY <1>1, <2>2, OpenRowWritten DEF OwnRuns
  <2> QED
    BY <2>1, <2>2
<1>4. ASSUME Slotted(c)'
      PROVE  ~Late(c) /\ Disclosed(c)'
  <2>1. ~Late(c) /\ Slotted(c) /\ r = Slot(c)
    BY <1>0, <1>1, <1>4 DEF Slotted, Slot, Accounts, Quiet, Late
  <2>2. /\ Exists(r) /\ view[c].body.text = "full" /\ ~Sealed(r)
    BY <1>1, <2>1, SlotIsOwn DEF LossInv, InOrder, Disclosed
  <2>3. \/ log'[r] = [body |-> view[c].body, record |-> NoRecord] /\ Exists(r)'
        \/ log' = log /\ capture'[c].failed = capture[c].failed \union {r}
    <3>1. PICK body \in Bodies : body = view[c].body /\ Write(c, r, body)
      BY <1>1
    <3>2. \/ log'[r] = [body |-> body, record |-> NoRecord] /\ Exists(r)'
          \/ log' = log /\ capture'[c].failed = capture[c].failed \union {r}
      BY <2>2, <3>1, OpenRowWritten
    <3> QED
      BY <3>1, <3>2
  <2>4. Exists(Slot(c))' /\ Complete(c)'
    <3>1. CASE log'[r] = [body |-> view[c].body, record |-> NoRecord] /\ Exists(r)'
      <4>1. log'[r].body.text = "full" /\ log'[r] # NoRow
        BY <2>2, <3>1 DEF Exists
      <4> QED
        BY <2>1, <4>1 DEF Complete, Exists, Slot
    <3>2. CASE log' = log /\ capture'[c].failed = capture[c].failed \union {r}
      <4>1. log'[r] # NoRow /\ r \in capture'[c].failed
        BY <2>2, <3>2 DEF Exists
      <4> QED
        BY <2>1, <4>1 DEF Complete, Exists, Slot
    <3> QED
      BY <2>3, <3>1, <3>2
  <2>5. ~Sealed(Slot(c))'
    BY <1>3, <2>1, <2>2, SlotIsOwn DEF Slot
  <2> QED
    BY <1>1, <2>1, <2>4, <2>5 DEF Disclosed
<1>5. \A q \in RunIds : q.call # c => log'[q] = log[q]
  BY <1>2 DEF OwnRuns
<1> QED
  BY <1>1, <1>2, <1>3, <1>4, <1>5, WriterLoss DEF Late

\* A step of the middleware or of a retry: a row keeps its text, and one that is sealed
\* now is complete or says that it is not.
LEMMA MiddlewareLoss ==
  ASSUME CallsInv, Accounts, LossInv, UNCHANGED <<worker, cancelled, captureVars>>,
         \A d \in Calls : answer'[d] = answer[d] \/ (answer[d] # "over" /\ Late(d)'),
         \A r \in RunIds : log'[r] # log[r] =>
             Late(r.call) /\ ~Sealed(r) /\ (Exists(r) => Exists(r)' /\ log'[r].body.text = log[r].body.text),
         \A d \in Calls : Slotted(d) /\ Sealed(Slot(d))' /\ ~Sealed(Slot(d)) =>
             Complete(d) /\ (Slot(d) \in capture[d].failed => log'[Slot(d)].record.lost),
         pending' \in Seq(HonestSeals),
         \A x \in Resealers : retrying'[x].todo \subseteq HonestSeals
                                /\ retrying'[x].now \in HonestSeals \union {NoSeal}
  PROVE  LossInv'
<1>1. \A d \in Calls : /\ Late(d) => Late(d)'
                       /\ Slotted(d)' <=> Slotted(d)
                       /\ capture'[d] = capture[d]
  BY DEF Late, Slotted, Slot, captureVars
<1>2. \A d \in Calls : Slotted(d) => Exists(Slot(d))' /\ (Complete(d) => Complete(d)')
  <2> SUFFICES ASSUME NEW d \in Calls, Slotted(d)
               PROVE  Exists(Slot(d))' /\ (Complete(d) => Complete(d)')
    OBVIOUS
  <2>1. PICK r \in RunIds : r = Slot(d)
    BY SlotIsOwn
  <2>2. Exists(r)
    BY <2>1 DEF LossInv, Disclosed
  <2>3. Exists(r)' /\ log'[r].body.text = log[r].body.text
    BY <2>2 DEF Exists
  <2> QED
    BY <1>1, <2>1, <2>3 DEF Complete, Exists, Slot
<1>3. InOrder'
  <2>1. ASSUME NEW d \in Calls, NEW r \in OwnRuns(d), Sealed(r)'
        PROVE  Late(d)'
    <3>1. r \in RunIds /\ r.call = d
      BY DEF OwnRuns
    <3>2. CASE log'[r] # log[r]
      BY <1>1, <3>1, <3>2
    <3>3. CASE log'[r] = log[r]
      BY <1>1, <2>1, <3>3 DEF LossInv, InOrder, Sealed, Exists
    <3> QED
      BY <3>2, <3>3
  <2> QED
    BY <1>1, <2>1 DEF LossInv, InOrder, captureVars, OwnRuns
<1>4. ASSUME NEW d \in Calls, Slotted(d)
      PROVE  Disclosed(d)'
  <2>0. PICK r \in RunIds : r = Slot(d)
    BY SlotIsOwn
  <2>1. Disclosed(d)
    BY <1>4 DEF LossInv
  <2>2. Sealed(r) => log'[r] = log[r]
    OBVIOUS
  <2>3. CASE Sealed(r)' /\ ~Sealed(r)
    <3>1. Complete(d) /\ Complete(d)' /\ (r \in capture[d].failed => log'[r].record.lost)
      BY <1>2, <1>4, <2>0, <2>3 DEF Sealed, Exists, Slot
    <3> QED
      BY <1>1, <1>2, <1>4, <2>0, <2>1, <2>3, <3>1 DEF Disclosed, Complete, captureVars, Slot
  <2>4. CASE ~(Sealed(r)' /\ ~Sealed(r))
    <3>1. /\ worker[d] # "posting" => Complete(d)' \/ (answer'[d] = "over" /\ ~Sealed(r)')
          /\ Sealed(r)' => log'[r].body.text = "full" \/ log'[r].record.lost
      BY <1>2, <1>4, <2>0, <2>1, <2>2, <2>4 DEF Disclosed
    <3> QED
      BY <1>2, <1>4, <2>0, <2>1, <3>1 DEF Disclosed, captureVars, Slot, Sealed, Exists
  <2> QED
    BY <2>3, <2>4
<1>5. SealsHonest'
  BY <1>1, <1>2, HonestStays
<1> QED
  BY <1>1, <1>3, <1>4, <1>5 DEF LossInv

LEMMA KeptHonest ==
  ASSUME LossInv
  PROVE  /\ pending \in Seq(HonestSeals) /\ HonestSeals \subseteq Pendings
         /\ \A x \in Resealers : retrying[x].todo \subseteq HonestSeals
                                 /\ retrying[x].now \in HonestSeals \union {NoSeal}
         /\ \A i \in DOMAIN pending : pending[i] \in HonestSeals
<1>1. pending \in Seq(HonestSeals)
  BY DEF LossInv, SealsHonest
<1>2. \A i \in DOMAIN pending : pending[i] \in HonestSeals
  BY <1>1, LenProperties, ElementOfSeq
<1> QED
  BY <1>1, <1>2 DEF LossInv, SealsHonest, HonestSeals

\* Sealing acts on a row that is complete, if a result is to name it.
LEMMA SealerComplete ==
  ASSUME CallsInv, Accounts, LossInv, NEW c \in Calls, answer[c] \in {"due", "reading", "storing"}, Slotted(c)
  PROVE  Complete(c)
<1>1. worker[c] # "posting"
  BY DEF Accounts, Quiet, Slotted
<1> QED
  BY <1>1 DEF LossInv, Disclosed

\* A step that writes nothing and registers nothing.
LEMMA IdleLoss ==
  ASSUME CallsInv, Accounts, LossInv, UNCHANGED <<log, worker, cancelled, captureVars>>,
         \A d \in Calls : answer'[d] = answer[d] \/ (answer[d] # "over" /\ Late(d)'),
         pending' \in Seq(HonestSeals),
         \A x \in Resealers : retrying'[x].todo \subseteq HonestSeals
                                /\ retrying'[x].now \in HonestSeals \union {NoSeal}
  PROVE  LossInv'
<1>1. \A d \in Calls : Sealed(Slot(d))' => Sealed(Slot(d))
  BY DEF Sealed, Exists, Slot
<1> QED
  BY <1>1, MiddlewareLoss

LEMMA OldestHonest ==
  ASSUME LossInv, NEW n, NEW rows
  PROVE  Oldest(n, rows) \subseteq HonestSeals
BY KeptHonest DEF Oldest

LEMMA RoundsLoss ==
  ASSUME CallsInv, Accounts, LossInv, NEW c \in Calls, BeginSeal(c) \/ BeginRetry(c) \/ Finish(c)
  PROVE  LossInv'
<1>1. CASE BeginSeal(c)
  BY <1>1, KeptHonest, IdleLoss DEF BeginSeal, logVars, Late, CallsInv, CallTypes
<1>2. CASE BeginRetry(c)
  BY <1>2, KeptHonest, OldestHonest, IdleLoss
     DEF BeginRetry, logVars, Late, CallsInv, CallTypes, KeptSeals, RetriesOfKept
<1>3. CASE Finish(c)
  BY <1>3, KeptHonest, IdleLoss DEF Finish, logVars, Late, CallsInv, CallTypes
<1> QED
  BY <1>1, <1>2, <1>3

\* Giving up on a row registers an honest seal.
LEMMA GiveUpLoss ==
  ASSUME CallsInv, Accounts, LossInv, NEW c \in Calls, sealing[c].todo # {}, answer[c] \in {"reading", "storing"},
         UNCHANGED <<log, worker, cancelled, captureVars, retrying>>,
         NEW body \in Bodies \union {NoBody}, NEW record \in Records \union {NoRecord}, NEW absent \in BOOLEAN,
         record # NoRecord => (Current(c) \in capture[c].failed => record.lost),
         GiveUpOn(c, body, record, absent)
  PROVE  LossInv'
<1> DEFINE p == [run |-> Current(c), body |-> body, record |-> record, absent |-> absent]
<1>1. p \in Pendings /\ p.run = Current(c) /\ p.run.call = c /\ p.record = record /\ Register(p)
  BY CurrentIsOwn DEF Pendings, GiveUpOn
<1>2. p \in HonestSeals
  BY <1>1, SealerComplete DEF HonestSeals, Honest, Late
<1>3. answer' = [answer EXCEPT ![c] = "reading"]
  BY DEF GiveUpOn, RowDone
<1> HIDE DEF p
<1>4. pending' \in Seq(HonestSeals)
  BY <1>1, <1>2, KeptHonest, RegisterSeq DEF CallsInv, KeptSeals
<1> QED
  BY <1>3, <1>4, KeptHonest, IdleLoss DEF Late, CallsInv, CallTypes

LEMMA ReadRowLoss ==
  ASSUME CallsInv, Accounts, LossInv, NEW c \in Calls, ReadRow(c)
  PROVE  LossInv'
<1>1. /\ sealing[c].todo # {} /\ answer[c] = "reading"
      /\ UNCHANGED <<log, worker, cancelled, captureVars, retrying>>
  BY DEF ReadRow
<1>2. CASE GiveUpOn(c, NoBody, NoRecord, FALSE)
  BY <1>1, <1>2, GiveUpLoss
<1>3. CASE pending' = pending /\ \E a \in {"reading", "storing"} : answer' = [answer EXCEPT ![c] = a]
  BY <1>1, <1>3, KeptHonest, IdleLoss DEF Late, CallsInv, CallTypes
<1> QED
  BY <1>2, <1>3 DEF ReadRow, RowDone

LEMMA StoreLockedOutLoss ==
  ASSUME CallsInv, Accounts, LossInv, NEW c \in Calls, StoreLockedOut(c)
  PROVE  LossInv'
<1>1. /\ sealing[c].todo # {} /\ answer[c] = "storing"
      /\ UNCHANGED <<log, worker, cancelled, captureVars, retrying>>
      /\ sealing[c].body \in Bodies /\ RecordOf(c) \in Records /\ sealing[c].absent \in BOOLEAN
      /\ GiveUpOn(c, sealing[c].body, RecordOf(c), sealing[c].absent)
  BY DEF StoreLockedOut, CallsInv, OwnSealings, StoringUnmarked, SealingsOf, RecordOf, Records
<1>2. Current(c) \in capture[c].failed => RecordOf(c).lost
  BY DEF RecordOf
<1> QED
  BY <1>1, <1>2, GiveUpLoss

\* A record is stored with a row that was not sealed, and with the body it has.
LEMMA RecordingKeepsText ==
  ASSUME LogShape, NEW r \in RunIds, NEW body \in Bodies, NEW record \in Records, RecordRow(r, body, record)
  PROVE  \A q \in RunIds : log'[q] # log[q] =>
             /\ q = r /\ ~Sealed(q) /\ Sealed(q)' /\ log'[q].record = record
             /\ Exists(q) => Exists(q)' /\ log'[q].body.text = log[q].body.text
<1> SUFFICES ASSUME NEW q \in RunIds, log'[q] # log[q]
             PROVE  /\ q = r /\ ~Sealed(q) /\ Sealed(q)' /\ log'[q].record = record
                    /\ Exists(q) => Exists(q)' /\ log'[q].body.text = log[q].body.text
  OBVIOUS
<1>1. record # NoRecord
  BY RunLogAssumption
<1>2. q = r /\ log'[r] = [body |-> body, record |-> record]
      /\ RecordOutcome(r, body, record) \in {"inserted", "replaced"}
  BY DEF RecordRow, LogShape
<1>3. ~Sealed(r) /\ (Exists(r) => body = log[r].body)
  BY <1>1, <1>2 DEF RecordOutcome, Sealed
<1>4. log'[r] \in Rows /\ log'[r] # NoRow
  BY <1>2, RunLogAssumption DEF Rows
<1> QED
  BY <1>1, <1>2, <1>3, <1>4 DEF Sealed, Exists

LEMMA StoreRecordLoss ==
  ASSUME CallsInv, Accounts, LossInv, NEW c \in Calls, StoreRecord(c)
  PROVE  LossInv'
<1> DEFINE outcome == RecordOutcome(Current(c), sealing[c].body, RecordOf(c))
<1>1. /\ sealing[c].todo # {} /\ answer[c] = "storing"
      /\ UNCHANGED <<worker, cancelled, captureVars, retrying>>
      /\ sealing[c].body \in Bodies /\ RecordOf(c) \in Records
      /\ RecordRow(Current(c), sealing[c].body, RecordOf(c))
  BY DEF StoreRecord, CallsInv, OwnSealings, StoringUnmarked, SealingsOf, RecordOf, Records
<1>2. Current(c) \in RunIds /\ Current(c).call = c
  BY <1>1, CurrentIsOwn
<1>3. CASE outcome = "stale" /\ GiveUpOn(c, NoBody, NoRecord, FALSE)
  <2>1. log' = log
    BY <1>1, <1>3 DEF RecordRow
  <2> QED
    BY <1>1, <1>3, <2>1, GiveUpLoss
<1>4. CASE pending' = pending /\ answer' = [answer EXCEPT ![c] = "reading"]
  <2>1. PICK r \in RunIds, body \in Bodies, record \in Records :
            r = Current(c) /\ body = sealing[c].body /\ record = RecordOf(c)
    BY <1>1, <1>2
  <2>2. \A q \in RunIds : log'[q] # log[q] =>
            /\ q = r /\ ~Sealed(q) /\ Sealed(q)' /\ log'[q].record = record
            /\ Exists(q) => Exists(q)' /\ log'[q].body.text = log[q].body.text
    BY <1>1, <2>1, RecordingKeepsText DEF CallsInv
  <2>3. ASSUME NEW d \in Calls, Slotted(d), Sealed(Slot(d))', ~Sealed(Slot(d))
        PROVE  Complete(d) /\ (Slot(d) \in capture[d].failed => log'[Slot(d)].record.lost)
    <3>1. PICK q \in RunIds : q = Slot(d) /\ q.call = d
      BY SlotIsOwn
    <3>2. log'[q] # log[q]
      BY <2>3, <3>1 DEF Sealed, Exists, Slot
    <3>3. q = r /\ d = c /\ log'[q].record = RecordOf(c)
      BY <1>2, <2>1, <2>2, <3>1, <3>2
    <3>4. Complete(d) /\ RecordOf(c).lost = (q \in capture[d].failed)
      BY <1>1, <2>1, <2>3, <3>3, SealerComplete DEF RecordOf
    <3> QED
      BY <3>1, <3>3, <3>4
  <2>4. \A q \in RunIds : log'[q] # log[q] =>
            Late(q.call) /\ ~Sealed(q) /\ (Exists(q) => Exists(q)' /\ log'[q].body.text = log[q].body.text)
    BY <1>1, <1>2, <2>1, <2>2 DEF Late
  <2> QED
    BY <1>1, <1>4, <2>3, <2>4, KeptHonest, MiddlewareLoss DEF Late, CallsInv, CallTypes
<1> QED
  BY <1>3, <1>4 DEF StoreRecord, RowDone

LEMMA ForgetHonest ==
  ASSUME LossInv, NEW r, KeepPending \/ Forget(r)
  PROVE  pending' \in Seq(HonestSeals)
BY KeptHonest, ForgetSeq DEF KeepPending

LEMMA NextRetryHonest ==
  ASSUME CallsInv, LossInv, NEW x \in Resealers, NEW p,
         NextRetry(x, p) \/ retrying' = [retrying EXCEPT ![x] = NoRetry]
  PROVE  \A y \in Resealers : retrying'[y].todo \subseteq HonestSeals
                              /\ retrying'[y].now \in HonestSeals \union {NoSeal}
<1>1. \A y \in Resealers \ {x} : retrying'[y] = retrying[y]
  BY DEF NextRetry, CallsInv, KeptSeals
<1>2. retrying'[x].todo \subseteq retrying[x].todo /\ retrying'[x].now = NoSeal
  BY DEF NextRetry, NoRetry, CallsInv, KeptSeals
<1> QED
  BY <1>1, <1>2, KeptHonest

LEMMA RetryReadLoss ==
  ASSUME CallsInv, Accounts, LossInv, NEW x \in Resealers, NEW p \in retrying[x].todo,
         RetryRead(x, p)
  PROVE  LossInv'
<1>1. UNCHANGED <<log, worker, answer, cancelled, captureVars>> /\ (KeepPending \/ Forget(p.run))
  BY DEF RetryRead, callVars
<1>2. pending' \in Seq(HonestSeals)
  BY <1>1, ForgetHonest
<1>3. CASE NextRetry(x, p)
  BY <1>1, <1>2, <1>3, NextRetryHonest, IdleLoss
<1>4. CASE retrying' = [retrying EXCEPT ![x].now = p, ![x].row = log[p.run]]
  <2>1. \A y \in Resealers : retrying'[y].todo \subseteq HonestSeals
                              /\ retrying'[y].now \in HonestSeals \union {NoSeal}
    BY <1>4, KeptHonest DEF CallsInv, KeptSeals, RetriesOfKept
  <2> QED
    BY <1>1, <1>2, <2>1, IdleLoss
<1> QED
  BY <1>3, <1>4 DEF RetryRead

LEMMA RetryLockedOutLoss ==
  ASSUME CallsInv, Accounts, LossInv, NEW x \in Resealers, RetryLockedOut(x)
  PROVE  LossInv'
<1>1. UNCHANGED <<log, pending, worker, answer, cancelled, captureVars>> /\ NextRetry(x, retrying[x].now)
  BY DEF RetryLockedOut, callVars, logVars
<1> QED
  BY <1>1, KeptHonest, NextRetryHonest, IdleLoss

\* A mark leaves the text of the row as it is.
LEMMA RetryMarkLoss ==
  ASSUME CallsInv, Accounts, LossInv, NEW x \in Resealers, RetryMark(x)
  PROVE  LossInv'
<1>0. PICK r \in RunIds : r = retrying[x].now.run
  BY NowIsKept DEF RetryMark
<1>1. /\ Late(r.call) /\ MarkUnsealable(r, retrying[x].row.body) /\ (KeepPending \/ Forget(r))
      /\ NextRetry(x, retrying[x].now)
      /\ UNCHANGED <<worker, answer, cancelled, captureVars>>
  BY <1>0, NowIsKept DEF RetryMark, callVars, SealTried, Late
<1>2. \A q \in RunIds : log'[q] # log[q] =>
          q = r /\ ~Sealed(q) /\ ~Sealed(q)' /\ Exists(q)' /\ log'[q].body.text = log[q].body.text
  <2> SUFFICES ASSUME NEW q \in RunIds, log'[q] # log[q]
               PROVE  q = r /\ ~Sealed(q) /\ ~Sealed(q)' /\ Exists(q)' /\ log'[q].body.text = log[q].body.text
    OBVIOUS
  <2> DEFINE old == log[r]
  <2>1. MarkOutcome(r, retrying[x].row.body) = "marked"
    BY <1>1 DEF MarkUnsealable
  <2>2. old \in Rows /\ old.record = NoRecord /\ ~Sealed(r)
    BY <2>1 DEF MarkOutcome, Sealed, Exists, CallsInv, LogShape
  <2>3. q = r /\ log'[r] = [old EXCEPT !.body.unsealable = TRUE]
    BY <1>1, <2>1 DEF MarkUnsealable, CallsInv, LogShape
  <2> HIDE DEF old
  <2>4. log'[r] \in Rows /\ log'[r].record = NoRecord /\ log'[r].body.text = old.body.text
    BY <2>2, <2>3 DEF Rows, Bodies
  <2> QED
    BY <2>2, <2>3, <2>4, RunLogAssumption DEF Sealed, Exists, old
<1>3. ASSUME NEW d \in Calls, Sealed(Slot(d))'
      PROVE  Sealed(Slot(d))
  <2>1. PICK q \in RunIds : q = Slot(d)
    BY SlotIsOwn
  <2>2. Sealed(q)'
    BY <1>3, <2>1 DEF Sealed, Exists, Slot
  <2>3. log'[q] = log[q]
    BY <1>2, <2>2
  <2> QED
    BY <2>1, <2>2, <2>3 DEF Sealed, Exists
<1>4. pending' \in Seq(HonestSeals)
  BY <1>1, ForgetHonest
<1> QED
  BY <1>1, <1>2, <1>3, <1>4, NextRetryHonest, MiddlewareLoss

LEMMA RetryStoreLoss ==
  ASSUME CallsInv, Accounts, LossInv, NEW x \in Resealers, RetryStore(x)
  PROVE  LossInv'
<1>1. PICK p \in HonestSeals : p = retrying[x].now /\ p \in Pendings
  BY KeptHonest DEF RetryStore
<1>2. /\ p.run \in RunIds /\ p.body \in Bodies /\ p.record \in Records
      /\ RecordRow(p.run, p.body, p.record) /\ (KeepPending \/ Forget(p.run))
      /\ NextRetry(x, p) \/ retrying' = [retrying EXCEPT ![x] = NoRetry]
      /\ UNCHANGED <<worker, answer, cancelled, captureVars>>
  BY <1>1, FittingSeal DEF RetryStore, callVars
<1>3. PICK r \in RunIds, body \in Bodies, record \in Records :
          r = p.run /\ body = p.body /\ record = p.record
  BY <1>2
<1>4. \A q \in RunIds : log'[q] # log[q] =>
          /\ q = r /\ ~Sealed(q) /\ Sealed(q)' /\ log'[q].record = record
          /\ Exists(q) => Exists(q)' /\ log'[q].body.text = log[q].body.text
  BY <1>2, <1>3, RecordingKeepsText DEF CallsInv
<1>5. Late(r.call) /\ Honest(p) /\ record # NoRecord
  BY <1>1, <1>3, RunLogAssumption DEF HonestSeals
<1>6. ASSUME NEW d \in Calls, Slotted(d), Sealed(Slot(d))', ~Sealed(Slot(d))
      PROVE  Complete(d) /\ (Slot(d) \in capture[d].failed => log'[Slot(d)].record.lost)
  <2>1. PICK q \in RunIds : q = Slot(d) /\ q.call = d
    BY SlotIsOwn
  <2>2. log'[q] # log[q]
    BY <1>6, <2>1 DEF Sealed, Exists, Slot
  <2>3. q = p.run /\ log'[q].record = p.record
    BY <1>3, <1>4, <2>2
  <2> QED
    BY <1>3, <1>5, <1>6, <2>1, <2>3 DEF Honest
<1>7. pending' \in Seq(HonestSeals)
  BY <1>2, ForgetHonest
<1>8. \A q \in RunIds : log'[q] # log[q] =>
          Late(q.call) /\ ~Sealed(q) /\ (Exists(q) => Exists(q)' /\ log'[q].body.text = log[q].body.text)
  BY <1>4, <1>5
<1> QED
  BY <1>2, <1>6, <1>7, <1>8, NextRetryHonest, MiddlewareLoss

\* A crash ends every call: a row whose view was not written yet is not sealed.
LEMMA CrashLoss ==
  ASSUME CallsInv, Accounts, LossInv, Crash
  PROVE  LossInv'
<1>1. /\ UNCHANGED <<log, cancelled, captureVars>> /\ pending' = << >>
      /\ \A d \in Calls : /\ answer'[d] = IF answer[d] = "none" THEN "none" ELSE "over"
                          /\ worker'[d] = IF worker[d] = "idle" THEN "idle" ELSE "done"
      /\ \A x \in Resealers : retrying'[x] = NoRetry
  BY DEF Crash
<1>2. SealsHonest'
  BY <1>1 DEF SealsHonest, NoRetry
<1>3. InOrder'
  BY <1>1 DEF LossInv, InOrder, captureVars, Sealed, Exists, Late, OwnRuns
<1>4. ASSUME NEW d \in Calls, Slotted(d)
      PROVE  Disclosed(d)'
  <2>1. view[d] # NoView /\ worker[d] \in {"posting", "posted", "done"} /\ Disclosed(d)
    BY <1>4, SlotIsOwn DEF LossInv, InOrder, Slotted, NoView
  <2>2. worker'[d] = "done" /\ answer'[d] = "over"
    BY <1>1, <2>1 DEF Accounts, Quiet
  <2>3. worker[d] = "posting" => ~Sealed(Slot(d))
    BY <1>4, SlotIsOwn DEF Accounts, Quiet, Late, LossInv, InOrder, Slotted
  <2>4. Complete(d) \/ ~Sealed(Slot(d))
    BY <2>1, <2>3 DEF Disclosed
  <2> QED
    BY <1>1, <2>1, <2>2, <2>4 DEF Disclosed, Complete, captureVars, Sealed, Exists, Slot
<1> QED
  BY <1>1, <1>2, <1>3, <1>4 DEF LossInv, Slotted, Slot, captureVars

LEMMA LossStep == CallsInv /\ Accounts /\ LossInv /\ [Next]_vars => LossInv'
<1> SUFFICES ASSUME CallsInv, Accounts, LossInv, [Next]_vars PROVE LossInv'
  OBVIOUS
<1>1. ASSUME NEW c \in Calls, (\E k \in Kinds : Dispatch(c, k)) \/ Work(c) \/ Cancel(c)
      PROVE  LossInv'
  BY <1>1, PoolLoss, PutResultLoss, PostRunLoss, WriteRunLogLoss DEF Work
<1>2. ASSUME NEW x \in Resealers, Retry(x)
      PROVE  LossInv'
  BY <1>2, RetryReadLoss, RetryMarkLoss, RetryStoreLoss, RetryLockedOutLoss DEF Retry
<1>3. ASSUME NEW c \in Calls, Seal(c)
      PROVE  LossInv'
  BY <1>2, <1>3, RoundsLoss, ReadRowLoss, StoreRecordLoss, StoreLockedOutLoss DEF Seal, Resealers
<1>4. CASE Export
  BY <1>4, KeptHonest, OldestHonest, IdleLoss
     DEF Export, logVars, callVars, CallsInv, KeptSeals, RetriesOfKept
<1>5. CASE UNCHANGED vars
  BY <1>5, KeptHonest, IdleLoss DEF vars, logVars, callVars, recordVars
<1> QED
  BY <1>1, <1>2, <1>3, <1>4, <1>5, CrashLoss DEF Next, Resealers

\* A result that names the slot's row, sealed without post_run's view, names a record
\* that says a writer's row was lost: at once, or whenever a retry seals it.
THEOREM LossesAreDisclosed == Spec => []LossIsDisclosed
<1>1. LossInv => LossIsDisclosed
  <2> SUFFICES ASSUME LossInv, NEW c \in Calls, Answered(c), Declared(c) = Slot(c), Sealed(Slot(c)),
                      log[Slot(c)].body.text # "full"
               PROVE  log[Slot(c)].record.lost
    BY DEF LossIsDisclosed, Slot
  <2> QED
    BY DEF LossInv, Disclosed, Slotted, Answered, Declared
<1> QED
  BY <1>1, Invariance, AccountsInvariant, InitLoss, LossStep, PTL DEF Spec

-----------------------------------------------------------------------------
(* One execution, one row                                                     *)

Result(c) == Run(c, "result")

\* A call with which nothing went wrong: every write was noted, what it describes is the
\* slot's row if there is one, and nobody changes a row while it is sealed.
Smooth(c) ==
    /\ capture[c].failed = {} /\ capture[c].refused = {}
    /\ \A r \in Range(capture[c].rows) : Exists(r)
    /\ view[c].run = Slot(c) => Exists(Slot(c))
    /\ view[c].run # NoRun /\ worker[c] # "posting" => view[c].run \in Range(capture[c].rows)
    /\ {Slot(c), Result(c)} \intersect sealing[c].todo \subseteq Range(capture[c].rows)
    /\ Exists(Result(c)) \/ view[c].run = Result(c) =>
         ~Exists(Slot(c)) /\ worker[c] \in {"posting", "posted", "done"}
    /\ answer[c] = "storing" /\ Exists(Current(c)) => log[Current(c)].body = sealing[c].body

NoRetries ==
    /\ pending = << >>
    /\ \A x \in Resealers : retrying[x].todo = {} /\ retrying[x].now = NoSeal

SmoothInv == faults = 0 => cancelled = {} /\ NoRetries /\ \A c \in Calls : Smooth(c)

LEMMA ResultIsOwn ==
  ASSUME NEW c \in Calls
  PROVE  Result(c) \in RunIds /\ Result(c) \in OwnRuns(c) /\ Result(c) # Slot(c) /\ Result(c) # NoRun
         /\ {Slot(c), Result(c)} \intersect {Run(c, "layer"), Run(c, "record")} = {}
BY ToolCallsAssumption DEF Result, Slot, Run, OwnRuns, RunIds

LEMMA InitSmooth == Init => SmoothInv
<1> SUFFICES ASSUME Init PROVE SmoothInv
  OBVIOUS
<1>1. NoRetries
  BY DEF Init, LogInit, NoRetries, NoRetry
<1>2. ASSUME NEW c \in Calls
      PROVE  Smooth(c)
  <2>1. Range(capture[c].rows) = {}
    BY DEF Init, NoCapture, Range
  <2> QED
    BY <2>1, SlotIsOwn, ResultIsOwn DEF Init, LogInit, Smooth, Exists, NoCapture, NoView, NoSealing
<1> QED
  BY <1>1, <1>2 DEF Init, SmoothInv

LEMMA CurrentStays ==
  ASSUME NEW c \in Calls, sealing'[c].todo = sealing[c].todo
  PROVE  Current(c)' = Current(c)
BY DEF Current

LEMMA NotedIsOwn ==
  ASSUME CallsInv, NEW c \in Calls
  PROVE  \A r \in Range(capture[c].rows) : r \in OwnRuns(c)
BY LenProperties, ElementOfSeq DEF CallsInv, OwnCaptures, CapturesOf, Range

LEMMA SmoothElsewhere ==
  ASSUME CallsInv, NEW d \in Calls, Smooth(d),
         answer'[d] = answer[d], worker'[d] = worker[d], view'[d] = view[d], capture'[d] = capture[d],
         sealing'[d] = sealing[d], \A r \in OwnRuns(d) : log'[r] = log[r]
  PROVE  Smooth(d)'
<1>1. /\ Slot(d)' = Slot(d) /\ Result(d)' = Result(d) /\ Slot(d) \in OwnRuns(d) /\ Result(d) \in OwnRuns(d)
      /\ Current(d)' = Current(d)
  BY SlotIsOwn, ResultIsOwn, CurrentStays DEF Slot, Result
<1>2. \A r \in Range(capture[d].rows) : r \in OwnRuns(d)
  BY NotedIsOwn
<1>3. answer[d] = "storing" => Current(d) \in OwnRuns(d)
  BY CurrentIsOwn DEF CallsInv, StoringUnmarked, OwnRuns
<1> QED
  BY <1>1, <1>2, <1>3 DEF Smooth, Exists

\* A step of call c that takes no fault and writes rows of its own only.
LEMMA SmoothStep ==
  ASSUME CallsInv, SmoothInv, faults = 0, NEW c \in Calls, UNCHANGED <<cancelled, pending>>,
         \A d \in Calls \ {c} : /\ answer'[d] = answer[d] /\ worker'[d] = worker[d] /\ view'[d] = view[d]
                                /\ capture'[d] = capture[d] /\ sealing'[d] = sealing[d],
         \A r \in RunIds : log'[r] # log[r] => r \in OwnRuns(c),
         retrying' = retrying \/ NoRetries',
         Smooth(c)'
  PROVE  SmoothInv'
<1>1. \A d \in Calls \ {c} : \A r \in OwnRuns(d) : log'[r] = log[r]
  BY DEF OwnRuns
<1>2. \A d \in Calls \ {c} : Smooth(d)'
  BY <1>1, SmoothElsewhere DEF SmoothInv
<1> QED
  BY <1>2 DEF SmoothInv, NoRetries

\* A writer at work, whose call is not being sealed yet.
LEMMA WriterEarly ==
  ASSUME CallsInv, Accounts, LossInv, SmoothInv, faults = 0, NEW c \in Calls, worker[c] \in AtWork
  PROVE  /\ Smooth(c) /\ ~Late(c) /\ sealing[c].todo = {} /\ answer[c] \in {"awaited"}
         /\ \A r \in OwnRuns(c) : ~Sealed(r) /\ (Exists(r) => r \in Range(capture[c].rows))
         /\ worker[c] \in {"work", "stored"} => view[c].run = NoRun /\ ~Exists(Result(c))
<1>1. Smooth(c) /\ cancelled = {}
  BY DEF SmoothInv
<1>2. answer[c] = "awaited"
  BY <1>1 DEF Accounts, Quiet, AtWork
<1>3. view[c] # NoView => worker[c] \in {"posting", "posted", "done"}
  BY DEF LossInv, InOrder
<1>4. \A r \in OwnRuns(c) : ~Sealed(r) /\ (Exists(r) => r \in Range(capture[c].rows))
  BY <1>2 DEF LossInv, InOrder, Late, Accounts, RowsNoted, OwnRuns
<1>5. worker[c] \in {"work", "stored"} => view[c].run = NoRun /\ ~Exists(Result(c))
  BY <1>1, <1>3 DEF NoView, Smooth
<1> QED
  BY <1>1, <1>2, <1>4, <1>5 DEF Late, Accounts, NothingLeft

\* A fault ends the promise.
LEMMA FaultSmooth ==
  ASSUME CallsInv, Fault
  PROVE  SmoothInv'
BY DEF Fault, SmoothInv, CallsInv, CallTypes

LEMMA PoolSmooth ==
  ASSUME CallsInv, Accounts, LossInv, SmoothInv, faults = 0, NEW c \in Calls,
         (\E k \in Kinds : Dispatch(c, k)) \/ Start(c) \/ Return(c) \/ Raise(c) \/ PushLayer(c)
  PROVE  SmoothInv'
<1> USE DEF logVars, captureVars, recordVars
<1>0. Smooth(c) /\ Slot(c)' = Slot(c) /\ Result(c)' = Result(c)
  BY DEF SmoothInv, Slot, Result
<1>1. ASSUME NEW k \in Kinds, Dispatch(c, k)
      PROVE  SmoothInv'
  <2>1. worker[c] = "idle" /\ view[c].run = NoRun /\ answer'[c] # "storing"
    BY <1>1 DEF Dispatch, Accounts, Quiet, LossInv, InOrder, NoView, CallsInv, CallTypes
  <2>2. Smooth(c)'
    BY <1>0, <1>1, <2>1, SlotIsOwn, ResultIsOwn DEF Dispatch, Smooth, Exists
  <2> QED
    BY <1>1, <2>2, SmoothStep DEF Dispatch, CallsInv, CallTypes
<1>2. CASE Start(c)
  <2>1. view[c].run = NoRun /\ Current(c)' = Current(c)
    BY <1>2, CurrentStays DEF Start, LossInv, InOrder, NoView
  <2>2. Smooth(c)'
    BY <1>0, <1>2, <2>1, SlotIsOwn, ResultIsOwn DEF Start, Smooth, Exists
  <2> QED
    BY <1>2, <2>2, SmoothStep DEF Start, CallsInv, CallTypes
<1>3. CASE Return(c) \/ Raise(c)
  <2>1. /\ worker'[c] = "done" /\ answer'[c] # "storing" /\ worker[c] # "posting"
        /\ view'[c] \in {view[c], NoView}
        /\ UNCHANGED <<log, pending, cancelled, capture, sealing, retrying>>
    BY <1>3, WriterEarly DEF Return, Raise, EndWorker, AfterTool, CallsInv, CallTypes, OwnViews
  <2>2. view[c].run # NoRun => worker[c] \in {"posting", "posted", "done"}
    BY DEF LossInv, InOrder, NoView
  <2>3. Smooth(c)'
    BY <1>0, <2>1, <2>2, SlotIsOwn, ResultIsOwn DEF Smooth, Exists, NoView
  <2>4. \A d \in Calls \ {c} : answer'[d] = answer[d] /\ worker'[d] = worker[d] /\ view'[d] = view[d]
    BY <1>3 DEF Return, Raise, EndWorker, CallsInv, CallTypes, OwnViews
  <2> QED
    BY <2>1, <2>3, <2>4, SmoothStep
<1>4. CASE PushLayer(c)
  <2>1. /\ UNCHANGED <<log, pending, cancelled, answer, worker, view, sealing, retrying>>
        /\ \A d \in Calls \ {c} : capture'[d] = capture[d]
        /\ capture'[c].rows = capture[c].rows /\ capture'[c].failed = capture[c].failed
        /\ capture'[c].refused = capture[c].refused
    BY <1>4 DEF PushLayer, callVars, CallsInv, OwnCaptures, CapturesOf
  <2>2. Current(c)' = Current(c)
    BY <2>1, CurrentStays
  <2>3. Smooth(c)'
    BY <1>0, <2>1, <2>2 DEF Smooth, Exists
  <2> QED
    BY <2>1, <2>3, SmoothStep
<1> QED
  BY <1>1, <1>2, <1>3, <1>4

\* What a writer writes without a fault is there, noted, and new to the call or its slot's row.
LEMMA WriterSmooth ==
  ASSUME CallsInv, Accounts, LossInv, SmoothInv, faults = 0, NEW c \in Calls, worker[c] \in {"work", "posting"},
         NEW r \in OwnRuns(c), NEW body \in Bodies, Write(c, r, body),
         UNCHANGED <<pending, cancelled, answer, view, sealing, retrying>>,
         \A d \in Calls \ {c} : worker'[d] = worker[d],
         worker'[c] \in {"stored", "posted"},
         r = Slot(c) => ~Exists(Result(c)) /\ view[c].run # Result(c),
         r = Result(c) => ~Exists(Slot(c)) /\ worker'[c] = "posted",
         view[c].run \in {NoRun, r} /\ (worker[c] = "posting" => worker'[c] = "posted")
  PROVE  SmoothInv'
<1>1. /\ Smooth(c) /\ sealing[c].todo = {} /\ answer[c] = "awaited" /\ ~Sealed(r)
      /\ Slot(c)' = Slot(c) /\ Result(c)' = Result(c)
  BY WriterEarly DEF Slot, Result, AtWork
<1>2. /\ \A d \in Calls \ {c} : capture'[d] = capture[d]
      /\ \A q \in RunIds : log'[q] # log[q] => q = r
      /\ \/ /\ Exists(r)' /\ capture'[c].rows = Append(capture[c].rows, r)
            /\ capture'[c].failed = capture[c].failed /\ capture'[c].refused = capture[c].refused
         \/ LockedOut
  BY <1>1, OpenRowWritten
<1>3. CASE LockedOut
  BY <1>3, FaultSmooth DEF LockedOut
<1>4. CASE /\ Exists(r)' /\ capture'[c].rows = Append(capture[c].rows, r)
           /\ capture'[c].failed = capture[c].failed /\ capture'[c].refused = capture[c].refused
  <2>1. capture[c].rows \in Seq(OwnRuns(c))
    BY DEF CallsInv, OwnCaptures, CapturesOf
  <2>2. Range(capture'[c].rows) = Range(capture[c].rows) \union {r}
    <3>1. /\ Append(capture[c].rows, r) \in Seq(OwnRuns(c))
          /\ Len(Append(capture[c].rows, r)) = Len(capture[c].rows) + 1
          /\ Append(capture[c].rows, r)[Len(capture[c].rows) + 1] = r
          /\ \A i \in 1..Len(capture[c].rows) : Append(capture[c].rows, r)[i] = capture[c].rows[i]
      BY <2>1, AppendProperties
    <3>2. DOMAIN capture'[c].rows = 1..(Len(capture[c].rows) + 1) /\ DOMAIN capture[c].rows = 1..Len(capture[c].rows)
          /\ Len(capture[c].rows) \in Nat
      BY <1>4, <2>1, <3>1, LenProperties
    <3> QED
      BY <1>4, <3>1, <3>2 DEF Range
  <2>3. \A q \in RunIds : Exists(q)' <=> Exists(q) \/ q = r
    BY <1>2, <1>4 DEF Exists, OwnRuns
  <2>4. Range(capture[c].rows) \subseteq RunIds /\ r \in RunIds
    BY <2>1, LenProperties, ElementOfSeq DEF Range, OwnRuns
  <2>5. /\ log'[Slot(c)] # NoRow <=> Exists(Slot(c)) \/ r = Slot(c)
        /\ log'[Result(c)] # NoRow <=> Exists(Result(c)) \/ r = Result(c)
        /\ \A q \in Range(capture'[c].rows) : log'[q] # NoRow
    BY <1>1, <2>2, <2>3, <2>4, SlotIsOwn, ResultIsOwn DEF Exists, Smooth
  <2>6. Exists(Result(c)) \/ view[c].run = Result(c) \/ r = Result(c) =>
            ~Exists(Slot(c)) /\ r # Slot(c) /\ worker'[c] = "posted"
    BY <1>1, ResultIsOwn DEF Smooth
  <2>7. /\ view[c].run = Slot(c) => Exists(Slot(c))
        /\ view[c].run # NoRun => view[c].run \in Range(capture'[c].rows)
    BY <1>1, <2>2 DEF Smooth
  <2>8. Smooth(c)'
    BY <1>1, <1>4, <2>5, <2>6, <2>7 DEF Smooth, Exists, Slot, Result
  <2> QED
    BY <1>2, <2>8, SmoothStep
<1> QED
  BY <1>2, <1>3, <1>4

LEMMA PutResultSmooth ==
  ASSUME CallsInv, Accounts, LossInv, SmoothInv, faults = 0, NEW c \in Calls, PutResult(c)
  PROVE  SmoothInv'
<1>1. /\ worker[c] = "work" /\ worker' = [worker EXCEPT ![c] = "stored"]
      /\ Write(c, Slot(c), Body("slot")) /\ Body("slot") \in Bodies
      /\ UNCHANGED <<pending, cancelled, answer, view, sealing, retrying>>
  BY DEF PutResult, recordVars, Slot, Body, Bodies
<1>2. view[c].run = NoRun /\ ~Exists(Result(c))
  BY <1>1, WriterEarly DEF AtWork
<1>3. PICK body \in Bodies, r \in OwnRuns(c) : body = Body("slot") /\ r = Slot(c) /\ Write(c, r, body)
  BY <1>1, SlotIsOwn
<1>4. r = Slot(c) => ~Exists(Result(c)) /\ view[c].run # Result(c)
  BY <1>2, ResultIsOwn
<1>5. r # Result(c)
  BY <1>3, ResultIsOwn
<1>6. worker'[c] = "stored" /\ \A d \in Calls \ {c} : worker'[d] = worker[d]
  BY <1>1 DEF CallsInv, CallTypes
<1> QED
  BY <1>1, <1>2, <1>3, <1>4, <1>5, <1>6, WriterSmooth

\* post_run writes into the slot's row, or there is none.
LEMMA PostRunSmooth ==
  ASSUME CallsInv, Accounts, LossInv, SmoothInv, faults = 0, NEW c \in Calls, PostRun(c)
  PROVE  SmoothInv'
<1>1. CASE LockedOut
  BY <1>1, FaultSmooth DEF LockedOut
<1>2. CASE view' = [view EXCEPT ![c] = IF Adoptable(c) THEN SlotRow(c) ELSE OwnRow(c)]
  <2>1. /\ worker[c] \in {"work", "stored"}
        /\ worker'[c] = "posting" /\ \A d \in Calls \ {c} : worker'[d] = worker[d] /\ view'[d] = view[d]
        /\ view'[c] = IF Adoptable(c) THEN SlotRow(c) ELSE OwnRow(c)
        /\ UNCHANGED <<log, pending, cancelled, answer, capture, sealing, retrying>>
    BY <1>2 DEF PostRun, logVars, recordVars, CallsInv, CallTypes, OwnViews
  <2>2. /\ Smooth(c) /\ answer[c] = "awaited" /\ ~Exists(Result(c))
        /\ \A r \in OwnRuns(c) : ~Sealed(r) /\ (Exists(r) => r \in Range(capture[c].rows))
    BY <2>1, WriterEarly DEF AtWork
  <2>3. /\ view'[c].run = Slot(c) => Exists(Slot(c))
        /\ view'[c].run = Result(c) => ~Exists(Slot(c))
    <3>1. SlotRow(c).run = Slot(c) /\ OwnRow(c).run \in {capture[c].reserved, Result(c)}
      BY DEF SlotRow, OwnRow, Slot, Result
    <3>2. capture[c].reserved \in {NoRun, Run(c, "layer")} /\ capture[c].reserved # Slot(c)
      BY SlotIsOwn, ResultIsOwn DEF LossInv, InOrder
    <3>3. Adoptable(c) <=> Exists(Slot(c))
      BY <2>2, SlotIsOwn DEF Adoptable, Slot
    <3> QED
      BY <2>1, <3>1, <3>2, <3>3, ResultIsOwn
  <2>4. Smooth(c)'
    BY <2>1, <2>2, <2>3 DEF Smooth, Exists, Slot, Result
  <2> QED
    BY <2>1, <2>4, SmoothStep
<1> QED
  BY <1>1, <1>2 DEF PostRun

LEMMA WriteRunLogSmooth ==
  ASSUME CallsInv, Accounts, LossInv, SmoothInv, faults = 0, NEW c \in Calls, WriteRunLog(c)
  PROVE  SmoothInv'
<1>1. /\ worker[c] = "posting" /\ worker'[c] = "posted" /\ \A d \in Calls \ {c} : worker'[d] = worker[d]
      /\ UNCHANGED <<pending, cancelled, answer, view, sealing, retrying>>
  BY DEF WriteRunLog, recordVars, CallsInv, CallTypes
<1>2. PICK r \in OwnRuns(c), body \in Bodies : r = view[c].run /\ Write(c, r, body)
  BY DEF WriteRunLog, CallsInv, OwnViews, ViewsOf
<1>3. Smooth(c)
  BY DEF SmoothInv
<1>4. r = Slot(c) => ~Exists(Result(c)) /\ view[c].run # Result(c)
  BY <1>2, <1>3, ResultIsOwn DEF Smooth
<1>5. r = Result(c) => ~Exists(Slot(c))
  BY <1>2, <1>3 DEF Smooth
<1> QED
  BY <1>1, <1>2, <1>4, <1>5, WriterSmooth

LEMMA BeginSealSmooth ==
  ASSUME CallsInv, Accounts, LossInv, SmoothInv, faults = 0, NEW c \in Calls, BeginSeal(c)
  PROVE  SmoothInv'
<1>1. /\ answer[c] = "due" /\ answer'[c] = "reading"
      /\ \A d \in Calls \ {c} : answer'[d] = answer[d] /\ sealing'[d] = sealing[d]
      /\ sealing'[c].todo = RowsToSeal(c)
      /\ UNCHANGED <<log, pending, cancelled, worker, capture, view, retrying>>
  BY DEF BeginSeal, logVars, captureVars, CallsInv, CallTypes, OwnSealings, NoSealing
<1>2. Smooth(c) /\ cancelled = {}
  BY DEF SmoothInv
<1>3. worker[c] # "posting" /\ capture[c].reserved \in {NoRun, Run(c, "layer")}
  BY <1>1, <1>2 DEF Accounts, Quiet, LossInv, InOrder
<1>4. {Slot(c), Result(c)} \intersect RowsToSeal(c) \subseteq Range(capture[c].rows)
  BY <1>2, <1>3, ResultIsOwn DEF RowsToSeal, Declared, Smooth
<1>5. Smooth(c)'
  BY <1>1, <1>2, <1>3, <1>4 DEF Smooth, Exists, Slot, Result
<1> QED
  BY <1>1, <1>5, SmoothStep

\* The middleware goes on to the next row.
LEMMA RowDoneSmooth ==
  ASSUME CallsInv, SmoothInv, faults = 0, NEW c \in Calls, sealing[c].todo # {}, RowDone(c),
         UNCHANGED <<pending, cancelled, worker, captureVars, retrying>>,
         \A r \in RunIds : log'[r] # log[r] => r = Current(c) /\ Exists(r)',
         Current(c) \in {Slot(c), Result(c)} => Exists(Current(c))
  PROVE  SmoothInv'
<1>1. /\ sealing' = [sealing EXCEPT ![c] = Next1(c)] /\ answer' = [answer EXCEPT ![c] = "reading"]
      /\ Current(c) \in OwnRuns(c)
  BY CurrentIsOwn DEF RowDone, Next1, OwnRuns
<1>2. /\ \A d \in Calls \ {c} : sealing'[d] = sealing[d] /\ answer'[d] = answer[d]
      /\ sealing'[c].todo = sealing[c].todo \ {Current(c)} /\ answer'[c] = "reading"
      /\ UNCHANGED <<capture, view>>
  BY <1>1, Next1Typed DEF CallsInv, OwnSealings, CallTypes, captureVars
<1>3. Smooth(c)
  BY DEF SmoothInv
<1>4. /\ log'[Slot(c)] # NoRow <=> log[Slot(c)] # NoRow
      /\ log'[Result(c)] # NoRow <=> log[Result(c)] # NoRow
  BY SlotIsOwn, ResultIsOwn DEF Exists
<1>5. \A r \in Range(capture[c].rows) : log'[r] # NoRow
  BY <1>3, NotedIsOwn DEF Smooth, Exists, OwnRuns
<1>6. Smooth(c)'
  BY <1>2, <1>3, <1>4, <1>5 DEF Smooth, Exists, Slot, Result
<1> QED
  BY <1>1, <1>2, <1>6, SmoothStep

LEMMA ReadRowSmooth ==
  ASSUME CallsInv, Accounts, LossInv, SmoothInv, faults = 0, NEW c \in Calls, ReadRow(c)
  PROVE  SmoothInv'
<1>1. /\ sealing[c].todo # {} /\ answer[c] = "reading"
      /\ UNCHANGED <<log, cancelled, worker, captureVars, retrying>>
  BY DEF ReadRow
<1>2. CASE LockedOut
  BY <1>2, FaultSmooth DEF LockedOut
<1>3. CASE Sealed(Current(c)) /\ RowDone(c) /\ UNCHANGED pending
  BY <1>1, <1>3, RowDoneSmooth DEF Sealed
<1>4. CASE /\ sealing' = [sealing EXCEPT ![c].body = IF Exists(Current(c)) THEN log[Current(c)].body ELSE Body("minimal"),
                                         ![c].absent = @ \/ ~Exists(Current(c))]
           /\ answer' = [answer EXCEPT ![c] = "storing"]
           /\ pending' = pending
  <2>1. /\ sealing'[c].todo = sealing[c].todo
        /\ Exists(Current(c)) => sealing'[c].body = log[Current(c)].body
        /\ \A d \in Calls \ {c} : sealing'[d] = sealing[d] /\ answer'[d] = answer[d]
    BY <1>4 DEF CallsInv, OwnSealings, SealingsOf, CallTypes
  <2>2. Current(c)' = Current(c)
    BY <2>1, CurrentStays
  <2>3. Smooth(c)
    BY DEF SmoothInv
  <2>4. Smooth(c)'
    BY <1>1, <2>1, <2>2, <2>3 DEF Smooth, Exists, Slot, Result, captureVars
  <2> QED
    BY <1>1, <1>4, <2>1, <2>4, SmoothStep DEF captureVars
<1> QED
  BY <1>2, <1>3, <1>4 DEF ReadRow

LEMMA StoreRecordSmooth ==
  ASSUME CallsInv, Accounts, LossInv, SmoothInv, faults = 0, NEW c \in Calls, StoreRecord(c)
  PROVE  SmoothInv'
<1> DEFINE outcome == RecordOutcome(Current(c), sealing[c].body, RecordOf(c))
<1>1. /\ sealing[c].todo # {} /\ answer[c] = "storing"
      /\ UNCHANGED <<cancelled, worker, captureVars, retrying>>
      /\ sealing[c].body \in Bodies /\ RecordOf(c) \in Records
      /\ RecordRow(Current(c), sealing[c].body, RecordOf(c))
  BY DEF StoreRecord, CallsInv, OwnSealings, StoringUnmarked, SealingsOf, RecordOf, Records
<1>2. Current(c) \in RunIds /\ Current(c) \in sealing[c].todo /\ Smooth(c)
  BY <1>1, CurrentIsOwn DEF SmoothInv
<1>3. outcome # "stale"
  BY <1>1, <1>2 DEF RecordOutcome, Smooth
<1>4. RowDone(c) /\ pending' = pending
  BY <1>3 DEF StoreRecord
<1>5. Current(c) \in {Slot(c), Result(c)} => Exists(Current(c))
  BY <1>2 DEF Smooth
<1>6. PICK r \in RunIds, body \in Bodies, record \in Records :
          r = Current(c) /\ body = sealing[c].body /\ record = RecordOf(c)
  BY <1>1, <1>2
<1>7. \A q \in RunIds : log'[q] # log[q] => q = r /\ Exists(q)'
  BY <1>1, <1>6, RecordingKeepsText DEF CallsInv, Sealed
<1> QED
  BY <1>1, <1>4, <1>5, <1>6, <1>7, RowDoneSmooth

LEMMA RoundsSmooth ==
  ASSUME CallsInv, Accounts, LossInv, SmoothInv, faults = 0, NEW c \in Calls, BeginRetry(c) \/ Finish(c)
  PROVE  SmoothInv'
<1>1. /\ UNCHANGED <<log, pending, cancelled, worker, capture, view>>
      /\ answer'[c] # "storing" /\ \A d \in Calls \ {c} : answer'[d] = answer[d] /\ sealing'[d] = sealing[d]
      /\ sealing'[c].todo \subseteq sealing[c].todo
  BY DEF BeginRetry, Finish, logVars, captureVars, CallsInv, CallTypes, OwnSealings, NoSealing
<1>2. Smooth(c) /\ NoRetries
  BY DEF SmoothInv
<1>3. Smooth(c)'
  BY <1>1, <1>2 DEF Smooth, Exists, Slot, Result
<1>4. CASE BeginRetry(c)
  <2>1. Oldest(RetriesPerCall, sealing[c].rows) = {}
    BY <1>2 DEF Oldest, NoRetries
  <2>2. NoRetries'
    BY <1>1, <1>2, <1>4, <2>1 DEF NoRetries, BeginRetry, CallsInv, KeptSeals, RetriesOfKept
  <2> QED
    BY <1>1, <1>3, <2>2, SmoothStep
<1>5. CASE Finish(c)
  BY <1>1, <1>3, <1>5, SmoothStep DEF Finish
<1> QED
  BY <1>4, <1>5

LEMMA SmoothInvStep == CallsInv /\ Accounts /\ LossInv /\ SmoothInv /\ [Next]_vars => SmoothInv'
<1> SUFFICES ASSUME CallsInv, Accounts, LossInv, SmoothInv, [Next]_vars PROVE SmoothInv'
  OBVIOUS
<1>1. CASE faults # 0
  <2>1. faults' = faults \/ Fault
    <3>1. ASSUME NEW c \in Calls, (\E k \in Kinds : Dispatch(c, k)) \/ Work(c) \/ Cancel(c)
          PROVE  faults' = faults \/ Fault
      BY <3>1 DEF Dispatch, Work, Start, Return, Raise, EndWorker, PutResult, PushLayer, PostRun, WriteRunLog,
                  Write, LockedOut, Cancel
    <3>2. ASSUME NEW x \in Resealers, Retry(x)
          PROVE  faults' = faults
      BY <3>2 DEF Retry, RetryRead, RetryMark, RetryStore, RetryLockedOut
    <3>3. ASSUME NEW c \in Calls, ReadRow(c) \/ StoreRecord(c)
          PROVE  faults' = faults \/ Fault
      BY <3>3 DEF ReadRow, StoreRecord, LockedOut
    <3>4. ASSUME NEW c \in Calls, Seal(c)
          PROVE  faults' = faults \/ Fault
      BY <3>2, <3>3, <3>4 DEF Seal, BeginSeal, StoreLockedOut, LockedOut, BeginRetry, Finish, Resealers
    <3> QED
      BY <3>1, <3>2, <3>4 DEF Next, Export, Crash, Resealers, vars
  <2> QED
    BY <1>1, <2>1, FaultSmooth DEF SmoothInv
<1>2. CASE faults = 0
  <2>1. ASSUME NEW c \in Calls, (\E k \in Kinds : Dispatch(c, k)) \/ Work(c)
        PROVE  SmoothInv'
    BY <1>2, <2>1, PoolSmooth, PutResultSmooth, PostRunSmooth, WriteRunLogSmooth DEF Work
  <2>2. ASSUME NEW x \in Resealers, Retry(x)
        PROVE  FALSE
    BY <1>2, <2>2 DEF SmoothInv, NoRetries, Retry, RetryRead, RetryMark, RetryStore, RetryLockedOut
  <2>3. ASSUME NEW c \in Calls, Seal(c)
        PROVE  SmoothInv'
    BY <1>2, <2>2, <2>3, BeginSealSmooth, ReadRowSmooth, StoreRecordSmooth, RoundsSmooth, FaultSmooth
       DEF Seal, StoreLockedOut, LockedOut, Resealers
  <2>4. CASE Export
    BY <1>2, <2>4 DEF Export, SmoothInv, NoRetries
  <2>5. CASE Crash \/ \E c \in Calls : Cancel(c)
    BY <2>5, FaultSmooth DEF Crash, Cancel
  <2>6. CASE UNCHANGED vars
    <3>1. ASSUME NEW c \in Calls
          PROVE  Smooth(c)'
      BY <1>2, <2>6, SmoothElsewhere DEF SmoothInv, vars, logVars, callVars, captureVars, recordVars
    <3> QED
      BY <1>2, <2>6, <3>1 DEF SmoothInv, NoRetries, vars, logVars, callVars, recordVars
  <2> QED
    BY <2>1, <2>2, <2>3, <2>4, <2>5, <2>6 DEF Next, Resealers
<1> QED
  BY <1>1, <1>2

\* As long as nothing goes wrong post_run describes the row of the tool's slot and writes
\* no other, whatever the other calls do (enforcement.py:372).
THEOREM OneRowPerExecution == Spec => []OneExecutionOneRow
<1>1. SmoothInv => OneExecutionOneRow
  BY DEF SmoothInv, Smooth, OneExecutionOneRow, Slot, Result
<1> QED
  BY <1>1, Invariance, AccountsInvariant, InitLoss, LossStep, InitSmooth, SmoothInvStep, PTL DEF Spec

=============================================================================
