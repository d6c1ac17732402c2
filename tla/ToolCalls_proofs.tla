---------------------------- MODULE ToolCalls_proofs ----------------------------
(***************************************************************************)
(* Proofs about ToolCalls: the type invariant, and that the run log keeps the   *)
(* promise of SealedLog for any number of calls, faults and retries.            *)
(***************************************************************************)
EXTENDS ToolCalls, TLAPS, SequenceTheorems

-----------------------------------------------------------------------------
(* The inductive invariant                                                    *)

OwnRuns(c) == {r \in RunIds : r.call = c}

\* The middleware is through with the row: only retries can still touch its record.
SealTried(r) ==
    /\ answer[r.call] \in {"reading", "storing", "retrying", "over"}
    /\ r \notin sealing[r.call].todo

\* A seal to retry carries the body its record was built from, of its own call.
Sound(p) == p.record # NoRecord =>
    /\ p.record.call = p.run.call
    /\ p.record.body = p.body
    /\ ~p.body.unsealable

Kept == {p \in Pendings : SealTried(p.run) /\ Sound(p)}

CapturesOf(c) == [rows : Seq(OwnRuns(c)), failed : SUBSET OwnRuns(c),
                  refused : SUBSET OwnRuns(c), reserved : OwnRuns(c) \union {NoRun}]

ViewsOf(c) == [run : OwnRuns(c), body : Bodies] \union {NoView}

SealingsOf(c) == [rows : SUBSET OwnRuns(c), todo : SUBSET OwnRuns(c), attempt : Nat,
                  absent : BOOLEAN, body : Bodies \union {NoBody}]

RetriesOfKept == [todo : SUBSET Kept, now : Kept \union {NoSeal}, row : Rows \union {NoRow}]

CallTypes ==
    /\ kind \in [Calls -> {"tool", "view", "wait"}]
    /\ worker \in [Calls -> AtWork \union {"idle", "queued", "done"}]
    /\ answer \in [Calls -> {"none", "awaited", "due", "reading", "storing", "retrying", "over"}]
    /\ running \subseteq Calls /\ waiting \in Int
    /\ cancelled \subseteq Calls
    /\ layer \in [Calls -> RunIds \union {NoRun}]
    /\ problems \in [Calls -> SUBSET RunIds]
    /\ faults \in Nat

Queued == queue \in Seq(Calls) /\ \A c \in Calls : worker[c] = "queued" => \E i \in DOMAIN queue : queue[i] = c

OwnCaptures ==
    /\ capture = [c \in Calls |-> capture[c]]
    /\ \A c \in Calls : capture[c] \in CapturesOf(c)

OwnViews ==
    /\ view = [c \in Calls |-> view[c]]
    /\ \A c \in Calls : view[c] \in ViewsOf(c)
    /\ \A c \in Calls : worker[c] = "posting" => view[c] # NoView

OwnSealings ==
    /\ sealing = [c \in Calls |-> sealing[c]]
    /\ \A c \in Calls : sealing[c] \in SealingsOf(c)

KeptSeals ==
    /\ pending \in Seq(Kept)
    /\ dropped \subseteq RunIds
    /\ retrying \in [Resealers -> RetriesOfKept]

\* What a sealer is about to store is not marked.
StoringUnmarked ==
    \A c \in Calls : answer[c] = "storing" =>
        sealing[c].todo # {} /\ sealing[c].body \in Bodies /\ ~sealing[c].body.unsealable

\* Only rows the middleware is through with are marked.
MarkedLate ==
    /\ \A r \in RunIds : Exists(r) /\ log[r].body.unsealable => SealTried(r)
    /\ \A c \in Calls : view[c] # NoView /\ view[c].body.unsealable => SealTried(view[c].run)

LogShape == log \in [RunIds -> Rows \union {NoRow}]

CallsInv ==
    /\ CallTypes /\ Queued /\ LogShape
    /\ OwnCaptures /\ OwnViews /\ OwnSealings
    /\ KeptSeals /\ StoringUnmarked /\ MarkedLate

-----------------------------------------------------------------------------
(* Helpers                                                                    *)

\* Taking an entry out of a sequence leaves a sequence of the others.
LEMMA RemoveAtSeq ==
  ASSUME NEW S, NEW s \in Seq(S), NEW i \in DOMAIN s
  PROVE  /\ RemoveAt(s, i) \in Seq(S)
         /\ \A j \in DOMAIN s : j # i => \E k \in DOMAIN RemoveAt(s, i) : RemoveAt(s, i)[k] = s[j]
<1>1. i \in 1..Len(s) /\ Len(s) \in Nat /\ \A j \in 1..Len(s) : s[j] \in S
  BY LenProperties, ElementOfSeq
<1> DEFINE a == SubSeq(s, 1, i-1)
           b == SubSeq(s, i+1, Len(s))
<1>2. a \in Seq(S) /\ Len(a) = i - 1 /\ \A k \in 1..(i-1) : a[k] = s[k]
  <2>1. \A k \in 1..(i-1) : s[k] \in S
    BY <1>1
  <2> QED
    BY <1>1, <2>1, SubSeqProperties
<1>3. b \in Seq(S) /\ Len(b) = Len(s) - i /\ \A k \in 1..(Len(s)-i) : b[k] = s[i+k]
  <2>1. \A k \in (i+1)..Len(s) : s[k] \in S
    BY <1>1
  <2> QED
    BY <1>1, <2>1, SubSeqProperties
<1>4. RemoveAt(s, i) = a \o b
  BY DEF RemoveAt
<1>5. /\ RemoveAt(s, i) \in Seq(S) /\ Len(RemoveAt(s, i)) = Len(s) - 1
      /\ \A k \in 1..(Len(s)-1) : RemoveAt(s, i)[k] = IF k <= i-1 THEN a[k] ELSE b[k - (i-1)]
  <2> HIDE DEF a, b
  <2>1. /\ a \o b \in Seq(S) /\ Len(a \o b) = Len(a) + Len(b)
        /\ \A k \in 1..(Len(a) + Len(b)) : (a \o b)[k] = IF k <= Len(a) THEN a[k] ELSE b[k - Len(a)]
    BY <1>2, <1>3, ConcatProperties
  <2>2. Len(a) + Len(b) = Len(s) - 1
    BY <1>1, <1>2, <1>3
  <2> QED
    BY <1>2, <1>4, <2>1, <2>2
<1>6. DOMAIN RemoveAt(s, i) = 1..(Len(s)-1)
  BY <1>5, LenProperties
<1>7. ASSUME NEW j \in DOMAIN s, j # i
      PROVE  \E k \in DOMAIN RemoveAt(s, i) : RemoveAt(s, i)[k] = s[j]
  <2>1. CASE j < i
    <3>1. RemoveAt(s, i)[j] = s[j] /\ j \in 1..(Len(s)-1)
      BY <1>1, <1>2, <1>5, <2>1, LenProperties
    <3> QED
      BY <3>1, <1>6
  <2>2. CASE j > i
    <3> HIDE DEF a, b
    <3>1. j \in 1..Len(s) /\ j - i \in 1..(Len(s)-i) /\ j - 1 \in 1..(Len(s)-1) /\ ~(j - 1 <= i - 1)
      BY <1>1, <2>2, LenProperties
    <3>2. RemoveAt(s, i)[j-1] = b[(j-1) - (i-1)] /\ (j-1) - (i-1) = j - i /\ i + (j - i) = j
      BY <1>1, <1>5, <3>1
    <3>3. RemoveAt(s, i)[j-1] = s[j]
      BY <1>3, <3>1, <3>2
    <3> QED
      BY <1>6, <3>1, <3>3
  <2> QED
    BY <1>1, <1>7, <2>1, <2>2, LenProperties
<1> QED
  BY <1>5, <1>7

LEMMA AppendSeq ==
  ASSUME NEW S, NEW s \in Seq(S), NEW e \in S
  PROVE  /\ Append(s, e) \in Seq(S)
         /\ \E k \in DOMAIN Append(s, e) : Append(s, e)[k] = e
         /\ \A i \in DOMAIN s : \E k \in DOMAIN Append(s, e) : Append(s, e)[k] = s[i]
<1>1. /\ Append(s, e) \in Seq(S) /\ Len(Append(s, e)) = Len(s) + 1
      /\ Append(s, e)[Len(s)+1] = e
      /\ \A i \in 1..Len(s) : Append(s, e)[i] = s[i]
  BY AppendProperties
<1>2. Len(s) \in Nat /\ DOMAIN s = 1..Len(s)
  BY LenProperties
<1>3. DOMAIN Append(s, e) = 1..(Len(s)+1)
  BY <1>1, LenProperties
<1>4. Len(s)+1 \in 1..(Len(s)+1) /\ \A i \in 1..Len(s) : i \in 1..(Len(s)+1)
  BY <1>2
<1> QED
  BY <1>1, <1>2, <1>3, <1>4

LEMMA InitCallsInv == Init => CallsInv
<1> SUFFICES ASSUME Init PROVE CallsInv
  OBVIOUS
<1> USE DEF Init, LogInit
<1>1. CallTypes
  BY DEF CallTypes, AtWork
<1>2. Queued /\ LogShape
  BY DEF Queued, LogShape
<1>3. OwnCaptures
  BY DEF OwnCaptures, CapturesOf, NoCapture
<1>4. OwnViews
  BY DEF OwnViews, ViewsOf
<1>5. OwnSealings /\ StoringUnmarked
  BY DEF OwnSealings, SealingsOf, NoSealing, StoringUnmarked
<1>6. KeptSeals
  BY DEF KeptSeals, RetriesOfKept, NoRetry
<1>7. MarkedLate
  BY RunLogAssumption DEF MarkedLate, Exists
<1> QED
  BY <1>1, <1>2, <1>3, <1>4, <1>5, <1>6, <1>7 DEF CallsInv

\* Seals kept to retry stay good as long as no row comes back to the middleware.
LEMMA KeptGrows ==
  ASSUME CallsInv, \A r \in RunIds : SealTried(r) => SealTried(r)'
  PROVE  /\ Kept \subseteq Kept'
         /\ pending \in Seq(Kept')
         /\ RetriesOfKept \subseteq RetriesOfKept'
         /\ retrying \in [Resealers -> RetriesOfKept']
<1>1. Kept \subseteq Kept'
  BY DEF Kept, Pendings, Sound
<1>2. pending \in Seq(Kept')
  BY <1>1, SeqMonotonic DEF CallsInv, KeptSeals
<1>3. RetriesOfKept \subseteq RetriesOfKept'
  BY <1>1 DEF RetriesOfKept
<1> QED
  BY <1>1, <1>2, <1>3 DEF CallsInv, KeptSeals

\* A step that writes no row and pushes no view, and takes no row back to the middleware.
LEMMA MarkedStays ==
  ASSUME CallsInv, \A r \in RunIds : SealTried(r) => SealTried(r)',
         log' = log, \A c \in Calls : view'[c] \in {view[c], NoView}
  PROVE  MarkedLate'
<1>1. \A r \in RunIds : Exists(r)' /\ log'[r].body.unsealable => SealTried(r)'
  BY DEF CallsInv, MarkedLate, Exists
<1>2. ASSUME NEW c \in Calls, view'[c] # NoView, view'[c].body.unsealable
      PROVE  SealTried(view[c].run)'
  <2>1. view'[c] = view[c] /\ view[c].run \in RunIds
    BY <1>2 DEF CallsInv, OwnViews, ViewsOf, OwnRuns
  <2>2. SealTried(view[c].run)
    BY <1>2, <2>1 DEF CallsInv, MarkedLate
  <2> QED
    BY <2>1, <2>2 DEF SealTried
<1> QED
  BY <1>1, <1>2 DEF MarkedLate

LEMMA LeaveQueueKeeps ==
  ASSUME Queued, NEW c \in Calls, LeaveQueue(c),
         \A d \in Calls \ {c} : worker'[d] = "queued" => worker[d] = "queued",
         worker'[c] # "queued"
  PROVE  Queued'
<1>1. CASE worker[c] = "queued"
  <2> DEFINE i == CHOOSE i \in DOMAIN queue : queue[i] = c
  <2>1. i \in DOMAIN queue /\ queue[i] = c /\ queue' = RemoveAt(queue, i)
    BY <1>1 DEF Queued, LeaveQueue
  <2> HIDE DEF i
  <2>2. /\ RemoveAt(queue, i) \in Seq(Calls)
        /\ \A j \in DOMAIN queue : j # i => \E k \in DOMAIN RemoveAt(queue, i) : RemoveAt(queue, i)[k] = queue[j]
    BY <2>1, RemoveAtSeq DEF Queued
  <2>3. ASSUME NEW d \in Calls, worker'[d] = "queued"
        PROVE  \E k \in DOMAIN queue' : queue'[k] = d
    <3>1. d # c /\ worker[d] = "queued"
      BY <2>3
    <3>2. PICK j \in DOMAIN queue : queue[j] = d
      BY <3>1 DEF Queued
    <3> QED
      BY <2>1, <2>2, <3>1, <3>2
  <2> QED
    BY <2>1, <2>2, <2>3 DEF Queued
<1>2. CASE worker[c] # "queued"
  <2>1. queue' = queue
    BY <1>2 DEF LeaveQueue
  <2> QED
    BY <2>1 DEF Queued
<1> QED
  BY <1>1, <1>2

-----------------------------------------------------------------------------
(* Dispatch, the pools and cancellation                                       *)

LEMMA DispatchStep ==
  ASSUME CallsInv, NEW c \in Calls, NEW k \in Kinds, Dispatch(c, k)
  PROVE  CallsInv'
<1> USE DEF Dispatch, logVars, captureVars, recordVars
<1>1. CallTypes'
  BY ToolCallsAssumption DEF CallsInv, CallTypes
<1>2. \A r \in RunIds : SealTried(r) => SealTried(r)'
  BY DEF SealTried, CallsInv, CallTypes, RunIds
<1>3. Queued'
  <2>1. CASE queue' = queue /\ worker' = worker
    BY <2>1 DEF CallsInv, Queued
  <2>2. CASE queue' = Append(queue, c) /\ worker' = [worker EXCEPT ![c] = "queued"]
    <3>1. /\ queue' \in Seq(Calls)
          /\ \E n \in DOMAIN queue' : queue'[n] = c
          /\ \A i \in DOMAIN queue : \E n \in DOMAIN queue' : queue'[n] = queue[i]
      <4> HIDE DEF Dispatch
      <4>1. /\ Append(queue, c) \in Seq(Calls)
            /\ \E n \in DOMAIN Append(queue, c) : Append(queue, c)[n] = c
            /\ \A i \in DOMAIN queue : \E n \in DOMAIN Append(queue, c) : Append(queue, c)[n] = queue[i]
        BY AppendSeq DEF CallsInv, Queued
      <4> QED
        BY <2>2, <4>1
    <3>2. \A d \in Calls \ {c} : worker'[d] = worker[d]
      BY <2>2 DEF CallsInv, CallTypes
    <3> QED
      BY <3>1, <3>2 DEF CallsInv, Queued
  <2> QED
    BY <2>1, <2>2
<1>4. OwnCaptures' /\ OwnSealings' /\ LogShape'
  BY DEF CallsInv, OwnCaptures, OwnSealings, LogShape
<1>5. OwnViews'
  BY DEF CallsInv, OwnViews, CallTypes
<1>6. KeptSeals' /\ MarkedLate'
  BY <1>2, KeptGrows, MarkedStays DEF CallsInv, KeptSeals
<1>7. StoringUnmarked'
  BY DEF CallsInv, StoringUnmarked, CallTypes
<1> QED
  BY <1>1, <1>3, <1>4, <1>5, <1>6, <1>7 DEF CallsInv

LEMMA StartStep ==
  ASSUME CallsInv, NEW c \in Calls, Start(c)
  PROVE  CallsInv'
<1> USE DEF Start, logVars, captureVars, recordVars
<1>1. CallTypes'
  BY DEF CallsInv, CallTypes, AtWork
<1>2. \A r \in RunIds : SealTried(r) => SealTried(r)'
  BY DEF SealTried
<1>3. Queued'
  BY LeaveQueueKeeps DEF CallsInv, CallTypes
<1>4. OwnCaptures' /\ OwnSealings' /\ LogShape' /\ StoringUnmarked'
  BY DEF CallsInv, OwnCaptures, OwnSealings, LogShape, StoringUnmarked
<1>5. OwnViews'
  BY DEF CallsInv, OwnViews, CallTypes
<1>6. KeptSeals' /\ MarkedLate'
  BY <1>2, KeptGrows, MarkedStays DEF CallsInv, KeptSeals
<1> QED
  BY <1>1, <1>3, <1>4, <1>5, <1>6 DEF CallsInv

LEMMA EndStep ==
  ASSUME CallsInv, NEW c \in Calls, Return(c) \/ Raise(c)
  PROVE  CallsInv'
<1> USE DEF Return, Raise, EndWorker, logVars, recordVars
<1>1. CallTypes'
  BY DEF CallsInv, CallTypes, AtWork, LeaveClass, AfterTool
<1>2. \A r \in RunIds : SealTried(r) => SealTried(r)'
  BY DEF SealTried, CallsInv, CallTypes, RunIds
<1>3. Queued'
  BY DEF CallsInv, Queued, CallTypes
<1>4. OwnCaptures' /\ OwnSealings' /\ LogShape'
  BY DEF CallsInv, OwnCaptures, OwnSealings, LogShape
<1>5. OwnViews' /\ \A d \in Calls : view'[d] \in {view[d], NoView}
  <2>1. \A d \in Calls : worker'[d] = "posting" => d # c /\ worker[d] = "posting"
    BY DEF CallsInv, CallTypes
  <2> QED
    BY <2>1 DEF CallsInv, OwnViews, ViewsOf
<1>6. KeptSeals' /\ MarkedLate'
  BY <1>2, <1>5, KeptGrows, MarkedStays DEF CallsInv, KeptSeals
<1>7. StoringUnmarked'
  BY DEF CallsInv, StoringUnmarked, CallTypes, AfterTool
<1> QED
  BY <1>1, <1>3, <1>4, <1>5, <1>6, <1>7 DEF CallsInv

LEMMA CancelStep ==
  ASSUME CallsInv, NEW c \in Calls, Cancel(c)
  PROVE  CallsInv'
<1> USE DEF Cancel, Fault, logVars, captureVars, recordVars
<1>1. CallTypes'
  BY DEF CallsInv, CallTypes, AtWork, LeaveClass, AfterTool
<1>2. \A r \in RunIds : SealTried(r) => SealTried(r)'
  BY DEF SealTried, CallsInv, CallTypes, RunIds
<1>3. Queued'
  BY LeaveQueueKeeps DEF CallsInv, CallTypes
<1>4. OwnCaptures' /\ OwnSealings' /\ LogShape'
  BY DEF CallsInv, OwnCaptures, OwnSealings, LogShape
<1>5. OwnViews'
  BY DEF CallsInv, OwnViews, CallTypes
<1>6. KeptSeals' /\ MarkedLate'
  BY <1>2, KeptGrows, MarkedStays DEF CallsInv, KeptSeals
<1>7. StoringUnmarked'
  BY DEF CallsInv, StoringUnmarked, CallTypes, AfterTool
<1> QED
  BY <1>1, <1>3, <1>4, <1>5, <1>6, <1>7 DEF CallsInv

-----------------------------------------------------------------------------
(* What the worker writes                                                     *)

LEMMA RunIsOwn ==
  ASSUME NEW c \in Calls, NEW purpose \in {"slot", "layer", "result", "record"}
  PROVE  Run(c, purpose) \in OwnRuns(c)
BY DEF Run, OwnRuns, RunIds

\* Storing a row keeps the shape of the log; a mark comes only with the body.
LEMMA RecordRowKeeps ==
  ASSUME LogShape, NEW r \in RunIds, NEW body \in Bodies, NEW record \in Records \union {NoRecord},
         RecordRow(r, body, record)
  PROVE  /\ LogShape'
         /\ \A q \in RunIds : log'[q] # log[q] =>
               q = r /\ log'[q] = [body |-> body, record |-> record]
BY DEF LogShape, RecordRow, Rows

LEMMA CaptureKeeps ==
  ASSUME OwnCaptures, NEW c \in Calls, NEW k \in CapturesOf(c), capture' = [capture EXCEPT ![c] = k]
  PROVE  OwnCaptures'
BY DEF OwnCaptures

LEMMA NotedInCapture ==
  ASSUME NEW c \in Calls, NEW k \in CapturesOf(c), NEW r \in OwnRuns(c)
  PROVE  /\ [k EXCEPT !.rows = Append(@, r)] \in CapturesOf(c)
         /\ [k EXCEPT !.refused = @ \union {r}] \in CapturesOf(c)
         /\ [k EXCEPT !.failed = @ \union {r}] \in CapturesOf(c)
         /\ [k EXCEPT !.reserved = r] \in CapturesOf(c)
<1>1. Append(k.rows, r) \in Seq(OwnRuns(c))
  BY AppendSeq DEF CapturesOf
<1> QED
  BY <1>1 DEF CapturesOf

\* Whatever a writer or a layer notes is a run of its own call.
LEMMA NotingKeeps ==
  ASSUME OwnCaptures, NEW c \in Calls, NEW r \in OwnRuns(c),
         \/ capture' = [capture EXCEPT ![c].rows = Append(@, r)]
         \/ capture' = [capture EXCEPT ![c].refused = @ \union {r}]
         \/ capture' = [capture EXCEPT ![c].failed = @ \union {r}]
         \/ capture' = [capture EXCEPT ![c].reserved = r]
         \/ capture' = capture
  PROVE  OwnCaptures'
<1> DEFINE k == capture[c]
<1>1. k \in CapturesOf(c)
  BY DEF OwnCaptures
<1>2. \/ capture' = [capture EXCEPT ![c] = [k EXCEPT !.rows = Append(@, r)]]
      \/ capture' = [capture EXCEPT ![c] = [k EXCEPT !.refused = @ \union {r}]]
      \/ capture' = [capture EXCEPT ![c] = [k EXCEPT !.failed = @ \union {r}]]
      \/ capture' = [capture EXCEPT ![c] = [k EXCEPT !.reserved = r]]
      \/ capture' = capture
  OBVIOUS
<1> HIDE DEF k
<1>3. CASE capture' = capture
  BY <1>3 DEF OwnCaptures
<1> QED
  BY <1>1, <1>2, <1>3, NotedInCapture, CaptureKeeps

LEMMA WriteKeeps ==
  ASSUME CallsInv, NEW c \in Calls, NEW r \in OwnRuns(c), NEW body \in Bodies,
         Write(c, r, body), body.unsealable => SealTried(r),
         answer' = answer, sealing' = sealing
  PROVE  /\ LogShape' /\ OwnCaptures' /\ faults' \in Nat
         /\ \A q \in RunIds : Exists(q)' /\ log'[q].body.unsealable => SealTried(q)'
<1>1. r \in RunIds /\ r.call = c
  BY DEF OwnRuns
<1>2. CASE RecordRow(r, body, NoRecord) /\ UNCHANGED faults
           /\ capture' \in {[capture EXCEPT ![c].rows = Append(@, r)],
                           [capture EXCEPT ![c].refused = @ \union {r}]}
  <2>1. LogShape' /\ \A q \in RunIds : log'[q] # log[q] => q = r /\ log'[q] = [body |-> body, record |-> NoRecord]
    BY <1>1, <1>2, RecordRowKeeps DEF CallsInv
  <2>2. OwnCaptures'
    BY <1>2, NotingKeeps DEF CallsInv
  <2>3. \A q \in RunIds : SealTried(q)' <=> SealTried(q)
    BY DEF SealTried
  <2>4. ASSUME NEW q \in RunIds, Exists(q)', log'[q].body.unsealable
        PROVE  SealTried(q)'
    <3>1. CASE log'[q] = log[q]
      BY <2>3, <2>4, <3>1 DEF CallsInv, MarkedLate, Exists
    <3>2. CASE log'[q] # log[q]
      BY <2>1, <2>3, <2>4, <3>2
    <3> QED
      BY <3>1, <3>2
  <2> QED
    BY <1>2, <2>1, <2>2, <2>4 DEF CallsInv, CallTypes
<1>3. CASE LockedOut /\ capture' = [capture EXCEPT ![c].failed = @ \union {r}] /\ UNCHANGED log
  <2>1. OwnCaptures'
    BY <1>3, NotingKeeps DEF CallsInv
  <2>2. \A q \in RunIds : Exists(q)' /\ log'[q].body.unsealable => SealTried(q)'
    BY <1>3 DEF CallsInv, MarkedLate, Exists, SealTried
  <2> QED
    BY <1>3, <2>1, <2>2 DEF CallsInv, CallTypes, LogShape, LockedOut, Fault
<1> QED
  BY <1>2, <1>3 DEF Write

\* The frame of a writer: nothing the middleware or a retry holds changes.
LEMMA WriterFrame ==
  ASSUME CallsInv, NEW c \in Calls, answer' = answer, sealing' = sealing,
         UNCHANGED <<pending, dropped, retrying>>
  PROVE  /\ OwnSealings' /\ KeptSeals' /\ StoringUnmarked'
         /\ \A r \in RunIds : SealTried(r)' <=> SealTried(r)
<1>1. \A r \in RunIds : SealTried(r)' <=> SealTried(r)
  BY DEF SealTried
<1>2. KeptSeals'
  BY <1>1, KeptGrows DEF CallsInv, KeptSeals
<1> QED
  BY <1>1, <1>2 DEF CallsInv, OwnSealings, StoringUnmarked

LEMMA PutResultStep ==
  ASSUME CallsInv, NEW c \in Calls, PutResult(c)
  PROVE  CallsInv'
<1> USE DEF PutResult, recordVars
<1>1. /\ LogShape' /\ OwnCaptures' /\ faults' \in Nat
      /\ \A q \in RunIds : Exists(q)' /\ log'[q].body.unsealable => SealTried(q)'
  <2>1. Run(c, "slot") \in OwnRuns(c)
    BY RunIsOwn
  <2>2. Body("slot") \in Bodies /\ ~Body("slot").unsealable
    BY DEF Body, Bodies
  <2> QED
    BY <2>1, <2>2, WriteKeeps
<1>2. OwnSealings' /\ KeptSeals' /\ StoringUnmarked' /\ \A r \in RunIds : SealTried(r)' <=> SealTried(r)
  BY WriterFrame
<1>3. CallTypes' /\ Queued'
  BY <1>1 DEF CallsInv, CallTypes, Queued, AtWork
<1>4. OwnViews'
  BY DEF CallsInv, OwnViews, CallTypes
<1>5. MarkedLate'
  <2>1. \A d \in Calls : view[d] # NoView => view[d].run \in RunIds
    BY DEF CallsInv, OwnViews, ViewsOf, OwnRuns
  <2>2. \A d \in Calls : view'[d] # NoView /\ view'[d].body.unsealable => SealTried(view[d].run)'
    BY <1>2, <2>1 DEF CallsInv, MarkedLate
  <2> QED
    BY <1>1, <2>2 DEF MarkedLate
<1> QED
  BY <1>1, <1>2, <1>3, <1>4, <1>5 DEF CallsInv

LEMMA PushLayerStep ==
  ASSUME CallsInv, NEW c \in Calls, PushLayer(c)
  PROVE  CallsInv'
<1> USE DEF PushLayer, recordVars, callVars, logVars
<1>1. OwnSealings' /\ KeptSeals' /\ StoringUnmarked' /\ \A r \in RunIds : SealTried(r)' <=> SealTried(r)
  BY WriterFrame
<1>2. Run(c, "layer") \in OwnRuns(c) /\ Run(c, "layer") \in RunIds
  BY RunIsOwn DEF OwnRuns
<1>3. capture[c].rows # << >> => Last(capture[c].rows) \in RunIds
  <2>1. capture[c].rows \in Seq(RunIds)
    <3>1. OwnRuns(c) \subseteq RunIds
      BY DEF OwnRuns
    <3> QED
      BY <3>1, SeqMonotonic DEF CallsInv, OwnCaptures, CapturesOf
  <2> QED
    BY <2>1, LenProperties, EmptySeq, ElementOfSeq DEF Last
<1>4. CallTypes' /\ Queued' /\ LogShape'
  BY <1>2, <1>3 DEF CallsInv, CallTypes, Queued, LogShape
<1>5. OwnCaptures'
  BY <1>2, NotingKeeps DEF CallsInv
<1>6. OwnViews'
  BY DEF CallsInv, OwnViews
<1>7. MarkedLate'
  BY <1>1, MarkedStays
<1> QED
  BY <1>1, <1>4, <1>5, <1>6, <1>7 DEF CallsInv

LEMMA PostRunStep ==
  ASSUME CallsInv, NEW c \in Calls, PostRun(c)
  PROVE  CallsInv'
<1> DEFINE v == view'[c]
<1>1. /\ OwnSealings' /\ KeptSeals' /\ StoringUnmarked'
      /\ \A r \in RunIds : SealTried(r)' <=> SealTried(r)
  BY WriterFrame DEF PostRun, recordVars, logVars
<1>2. v \in [run : OwnRuns(c), body : Bodies] /\ (v.body.unsealable => SealTried(v.run))
  <2>1. OwnRow(c) \in [run : OwnRuns(c), body : Bodies] /\ ~OwnRow(c).body.unsealable
    BY RunIsOwn DEF OwnRow, CallsInv, OwnCaptures, CapturesOf, Body, Bodies
  <2>2. Adoptable(c) => /\ SlotRow(c) \in [run : OwnRuns(c), body : Bodies]
                        /\ SlotRow(c).body.unsealable => SealTried(SlotRow(c).run)
    <3> SUFFICES ASSUME Adoptable(c)
                 PROVE  /\ SlotRow(c) \in [run : OwnRuns(c), body : Bodies]
                        /\ SlotRow(c).body.unsealable => SealTried(SlotRow(c).run)
      OBVIOUS
    <3> DEFINE r == Run(c, "slot")
    <3>1. r \in OwnRuns(c) /\ r \in RunIds
      BY RunIsOwn DEF OwnRuns
    <3>2. Exists(r) /\ log[r].body \in Bodies
      BY <3>1 DEF Adoptable, Exists, CallsInv, LogShape, Rows
    <3>3. SlotRow(c) = [run |-> r, body |-> [text |-> "full", unsealable |-> log[r].body.unsealable]]
      BY <3>2 DEF SlotRow, Bodies
    <3>4. log[r].body.unsealable => SealTried(r)
      BY <3>1, <3>2 DEF CallsInv, MarkedLate
    <3> HIDE DEF r
    <3> QED
      BY <3>1, <3>2, <3>3, <3>4 DEF Bodies
  <2>3. v = OwnRow(c) \/ (Adoptable(c) /\ v = SlotRow(c))
    BY DEF PostRun, CallsInv, OwnViews
  <2> HIDE DEF v
  <2>4. CASE v = OwnRow(c)
    BY <2>1, <2>4, Zenon
  <2>5. CASE Adoptable(c) /\ v = SlotRow(c)
    BY <2>2, <2>5, Zenon
  <2> QED
    BY <2>3, <2>4, <2>5
<1>3. view' = [view EXCEPT ![c] = v] /\ worker' = [worker EXCEPT ![c] = "posting"]
  BY DEF PostRun, CallsInv, OwnViews
<1> HIDE DEF v
<1>4. v # NoView
  BY <1>2, RunLogAssumption DEF NoView
<1>5. CallTypes' /\ Queued' /\ LogShape' /\ OwnCaptures'
  BY DEF CallsInv, CallTypes, Queued, LogShape, OwnCaptures, PostRun, recordVars, logVars, AtWork, LockedOut, Fault
<1>6. OwnViews'
  BY <1>2, <1>3, <1>4 DEF CallsInv, OwnViews, ViewsOf, CallTypes
<1>7. MarkedLate'
  <2>1. \A q \in RunIds : Exists(q)' /\ log'[q].body.unsealable => SealTried(q)'
    BY <1>1 DEF CallsInv, MarkedLate, Exists, PostRun, logVars
  <2>2. ASSUME NEW d \in Calls, view'[d] # NoView, view'[d].body.unsealable
        PROVE  SealTried(view[d].run)'
    <3>1. view'[d].run \in RunIds /\ SealTried(view'[d].run)
      <4>1. CASE d = c
        BY <1>2, <1>3, <2>2, <4>1 DEF CallsInv, OwnViews, OwnRuns
      <4>2. CASE d # c
        <5>1. view'[d] = view[d]
          BY <1>3, <4>2 DEF CallsInv, OwnViews
        <5> QED
          BY <2>2, <5>1 DEF CallsInv, OwnViews, ViewsOf, OwnRuns, MarkedLate
      <4> QED
        BY <4>1, <4>2
    <3> QED
      BY <3>1 DEF SealTried, PostRun, recordVars
  <2> QED
    BY <2>1, <2>2 DEF MarkedLate
<1> QED
  BY <1>1, <1>5, <1>6, <1>7 DEF CallsInv

LEMMA WriteRunLogStep ==
  ASSUME CallsInv, NEW c \in Calls, WriteRunLog(c)
  PROVE  CallsInv'
<1> USE DEF WriteRunLog, recordVars
<1>1. /\ LogShape' /\ OwnCaptures' /\ faults' \in Nat
      /\ \A q \in RunIds : Exists(q)' /\ log'[q].body.unsealable => SealTried(q)'
  <2>1. view[c] \in [run : OwnRuns(c), body : Bodies] /\ (view[c].body.unsealable => SealTried(view[c].run))
    BY DEF CallsInv, OwnViews, ViewsOf, MarkedLate
  <2> QED
    BY <2>1, WriteKeeps
<1>2. OwnSealings' /\ KeptSeals' /\ StoringUnmarked' /\ \A r \in RunIds : SealTried(r)' <=> SealTried(r)
  BY WriterFrame
<1>3. CallTypes' /\ Queued'
  BY <1>1 DEF CallsInv, CallTypes, Queued, AtWork
<1>4. OwnViews'
  BY DEF CallsInv, OwnViews, CallTypes
<1>5. MarkedLate'
  <2>1. \A d \in Calls : view[d] # NoView => view[d].run \in RunIds
    BY DEF CallsInv, OwnViews, ViewsOf, OwnRuns
  <2>2. \A d \in Calls : view'[d] # NoView /\ view'[d].body.unsealable => SealTried(view[d].run)'
    BY <1>2, <2>1 DEF CallsInv, MarkedLate
  <2> QED
    BY <1>1, <2>2 DEF MarkedLate
<1> QED
  BY <1>1, <1>2, <1>3, <1>4, <1>5 DEF CallsInv

-----------------------------------------------------------------------------
(* The list of seals to retry                                                 *)

LEMMA PlaceIsThere ==
  ASSUME NEW r, AwaitsRetry(r)
  PROVE  PlaceOf(r) \in DOMAIN pending
BY DEF AwaitsRetry, PlaceOf

LEMMA RegisterSeq ==
  ASSUME NEW S, S \subseteq Pendings, pending \in Seq(S), dropped \subseteq RunIds,
         NEW p \in S, Register(p)
  PROVE  pending' \in Seq(S) /\ dropped' \subseteq RunIds
<1>1. CASE AwaitsRetry(p.run)
  <2>1. PlaceOf(p.run) \in 1..Len(pending)
    BY <1>1, PlaceIsThere, LenProperties
  <2>2. [pending EXCEPT ![PlaceOf(p.run)] = p] \in Seq(S)
    BY <2>1, ExceptSeq
  <2> QED
    BY <1>1, <2>2 DEF Register
<1>2. CASE ~AwaitsRetry(p.run) /\ Len(pending) >= PendingMax
  <2>1. pending # << >>
    BY <1>2, RunLogAssumption, EmptySeq
  <2>2. Tail(pending) \in Seq(S) /\ Head(pending) \in S
    BY <2>1, HeadTailProperties
  <2>3. Append(Tail(pending), p) \in Seq(S)
    BY <2>2, AppendSeq
  <2>4. Head(pending).run \in RunIds
    BY <2>2 DEF Pendings
  <2> QED
    BY <1>2, <2>3, <2>4 DEF Register
<1>3. CASE ~AwaitsRetry(p.run) /\ ~(Len(pending) >= PendingMax)
  <2>1. Append(pending, p) \in Seq(S)
    BY AppendSeq
  <2> QED
    BY <1>3, <2>1 DEF Register
<1> QED
  BY <1>1, <1>2, <1>3

LEMMA ForgetSeq ==
  ASSUME NEW S, pending \in Seq(S), NEW r, Forget(r)
  PROVE  pending' \in Seq(S) /\ dropped' = dropped
<1>1. CASE AwaitsRetry(r)
  <2>1. RemoveAt(pending, PlaceOf(r)) \in Seq(S)
    BY <1>1, PlaceIsThere, RemoveAtSeq
  <2> QED
    BY <1>1, <2>1 DEF Forget
<1>2. CASE ~AwaitsRetry(r)
  BY <1>2 DEF Forget
<1> QED
  BY <1>1, <1>2

-----------------------------------------------------------------------------
(* Sealing                                                                    *)

LEMMA CurrentIsOwn ==
  ASSUME CallsInv, NEW c \in Calls, sealing[c].todo # {}
  PROVE  /\ Current(c) \in sealing[c].todo
         /\ Current(c) \in RunIds /\ Current(c).call = c
<1>1. Current(c) \in sealing[c].todo
  BY DEF Current
<1> QED
  BY <1>1 DEF CallsInv, OwnSealings, SealingsOf, OwnRuns

\* What holds after any step of the middleware on call c, from a few facts about it.
LEMMA SealerStep ==
  ASSUME CallsInv, NEW c \in Calls,
         UNCHANGED <<kind, worker, queue, running, waiting, cancelled, captureVars>>,
         NEW k \in SealingsOf(c), sealing' = [sealing EXCEPT ![c] = k],
         NEW a \in {"reading", "storing", "retrying", "over"}, answer' = [answer EXCEPT ![c] = a],
         a = "storing" => k.todo # {} /\ k.body \in Bodies /\ ~k.body.unsealable,
         \A r \in RunIds : SealTried(r) => SealTried(r)',
         problems' \in [Calls -> SUBSET RunIds], faults' \in Nat,
         KeptSeals', LogShape',
         \A r \in RunIds : Exists(r)' /\ log'[r].body.unsealable => SealTried(r)'
  PROVE  CallsInv'
<1>1. CallTypes' /\ Queued'
  BY DEF CallsInv, CallTypes, Queued, captureVars
<1>2. OwnCaptures' /\ OwnViews'
  BY DEF CallsInv, OwnCaptures, OwnViews, captureVars
<1>3. OwnSealings'
  BY DEF CallsInv, OwnSealings
<1>4. StoringUnmarked'
  BY DEF CallsInv, StoringUnmarked, OwnSealings, CallTypes
<1>5. MarkedLate'
  <2>1. ASSUME NEW d \in Calls, view'[d] # NoView, view'[d].body.unsealable
        PROVE  SealTried(view[d].run)'
    <3>1. view' = view /\ view[d].run \in RunIds
      BY <2>1 DEF CallsInv, OwnViews, ViewsOf, OwnRuns, captureVars
    <3>2. SealTried(view[d].run)
      BY <2>1, <3>1 DEF CallsInv, MarkedLate
    <3> QED
      BY <3>1, <3>2 DEF SealTried
  <2> QED
    BY <2>1 DEF MarkedLate
<1> QED
  BY <1>1, <1>2, <1>3, <1>4, <1>5 DEF CallsInv

\* Moving on within the rows of a call: the rows left to do only get fewer.
LEMMA TriedGrows ==
  ASSUME CallsInv, NEW c \in Calls, NEW k, k.todo \subseteq sealing[c].todo,
         sealing' = [sealing EXCEPT ![c] = k],
         NEW a \in {"reading", "storing", "retrying", "over"}, answer' = [answer EXCEPT ![c] = a]
  PROVE  \A r \in RunIds : SealTried(r) => SealTried(r)'
BY DEF SealTried, CallsInv, CallTypes, OwnSealings, RunIds

\* Without a write the marks stay where they were.
LEMMA MarksStay ==
  ASSUME CallsInv, log' = log, \A r \in RunIds : SealTried(r) => SealTried(r)'
  PROVE  /\ LogShape'
         /\ \A r \in RunIds : Exists(r)' /\ log'[r].body.unsealable => SealTried(r)'
BY DEF CallsInv, MarkedLate, Exists, LogShape

Next1(c) == [NoSealing EXCEPT !.rows = sealing[c].rows, !.todo = sealing[c].todo \ {Current(c)}]

LEMMA Next1Typed ==
  ASSUME CallsInv, NEW c \in Calls
  PROVE  Next1(c) \in SealingsOf(c) /\ Next1(c).todo = sealing[c].todo \ {Current(c)}
BY DEF CallsInv, OwnSealings, SealingsOf, NoSealing, Next1

\* Giving up on a row keeps a sound seal for the retry.
LEMMA GivenUp ==
  ASSUME CallsInv, NEW c \in Calls, sealing[c].todo # {},
         NEW body \in Bodies \union {NoBody}, NEW record \in Records \union {NoRecord},
         NEW absent \in BOOLEAN,
         record # NoRecord => record.call = c /\ record.body = body /\ ~body.unsealable,
         GiveUpOn(c, body, record, absent), UNCHANGED retrying
  PROVE  KeptSeals' /\ problems' \in [Calls -> SUBSET RunIds]
<1> DEFINE p == [run |-> Current(c), body |-> body, record |-> record, absent |-> absent]
<1>1. sealing' = [sealing EXCEPT ![c] = Next1(c)] /\ answer' = [answer EXCEPT ![c] = "reading"] /\ Register(p)
      /\ problems' = [problems EXCEPT ![c] = @ \union {Current(c)}]
  BY DEF GiveUpOn, RowDone, Next1
<1>2. Current(c) \in RunIds /\ Current(c).call = c
  BY CurrentIsOwn
<1>3. \A r \in RunIds : SealTried(r) => SealTried(r)'
  BY <1>1, Next1Typed, TriedGrows
<1>5. p \in Kept'
  <2>1. p \in Pendings
    BY <1>2 DEF Pendings
  <2>2. /\ answer'[Current(c).call] \in {"reading", "storing", "retrying", "over"}
        /\ Current(c) \notin sealing'[Current(c).call].todo
    BY <1>1, <1>2, Next1Typed DEF CallsInv, CallTypes, OwnSealings
  <2> QED
    BY <1>2, <2>1, <2>2 DEF Kept, SealTried, Sound
<1>6. pending' \in Seq(Kept') /\ dropped' \subseteq RunIds
  <2>1. Kept' \subseteq Pendings /\ pending \in Seq(Kept')
    BY <1>3, KeptGrows DEF Kept, Pendings
  <2> HIDE DEF p
  <2> QED
    BY <1>1, <1>5, <2>1, RegisterSeq DEF CallsInv, KeptSeals
<1>7. retrying' \in [Resealers -> RetriesOfKept']
  BY <1>3, KeptGrows
<1> QED
  BY <1>1, <1>2, <1>6, <1>7 DEF KeptSeals, CallsInv, CallTypes

LEMMA BeginSealStep ==
  ASSUME CallsInv, NEW c \in Calls, BeginSeal(c)
  PROVE  CallsInv'
<1> DEFINE k == [NoSealing EXCEPT !.rows = RowsToSeal(c), !.todo = RowsToSeal(c)]
<1>1. RowsToSeal(c) \subseteq OwnRuns(c)
  <2>1. capture[c] \in CapturesOf(c) /\ view[c].run \in OwnRuns(c) \union {NoRun}
    BY DEF CallsInv, OwnCaptures, OwnViews, ViewsOf, NoView
  <2>2. Range(capture[c].rows) \subseteq OwnRuns(c)
    BY <2>1, LenProperties, ElementOfSeq DEF CapturesOf, Range
  <2> QED
    BY <2>1, <2>2, RunIsOwn DEF RowsToSeal, Declared, CapturesOf
<1>2. k \in SealingsOf(c)
  BY <1>1 DEF SealingsOf, NoSealing
<1>3. sealing' = [sealing EXCEPT ![c] = k] /\ answer' = [answer EXCEPT ![c] = "reading"] /\ answer[c] = "due"
  BY DEF BeginSeal
<1>4. \A r \in RunIds : SealTried(r) => SealTried(r)'
  <2>1. \A r \in RunIds : SealTried(r) => r.call # c /\ r.call \in Calls
    BY <1>3 DEF SealTried, RunIds
  <2> QED
    BY <1>3, <2>1 DEF SealTried, CallsInv, CallTypes, OwnSealings
<1>5. KeptSeals'
  BY <1>4, KeptGrows DEF BeginSeal, logVars, CallsInv, KeptSeals
<1>6. problems' \in [Calls -> SUBSET RunIds] /\ faults' \in Nat
  BY DEF BeginSeal, CallsInv, CallTypes, OwnCaptures, CapturesOf, OwnRuns
<1>7. LogShape' /\ \A r \in RunIds : Exists(r)' /\ log'[r].body.unsealable => SealTried(r)'
  BY <1>4, MarksStay DEF BeginSeal, logVars
<1> HIDE DEF k
<1> QED
  BY <1>2, <1>3, <1>4, <1>5, <1>6, <1>7, SealerStep DEF BeginSeal

LEMMA ReadRowStep ==
  ASSUME CallsInv, NEW c \in Calls, ReadRow(c)
  PROVE  CallsInv'
<1> DEFINE r == Current(c)
<1>0. /\ sealing[c].todo # {} /\ r \in sealing[c].todo /\ r \in RunIds /\ r.call = c /\ log' = log
      /\ sealing[c] \in SealingsOf(c)
      /\ UNCHANGED <<kind, worker, queue, running, waiting, cancelled, captureVars, retrying>>
  BY CurrentIsOwn DEF ReadRow, CallsInv, OwnSealings
<1>1. CASE LockedOut /\ GiveUpOn(c, NoBody, NoRecord, FALSE)
  <2>1. sealing' = [sealing EXCEPT ![c] = Next1(c)] /\ answer' = [answer EXCEPT ![c] = "reading"]
    BY <1>1 DEF GiveUpOn, RowDone, Next1
  <2>2. \A q \in RunIds : SealTried(q) => SealTried(q)'
    BY <2>1, Next1Typed, TriedGrows
  <2>3. KeptSeals' /\ problems' \in [Calls -> SUBSET RunIds]
    BY <1>0, <1>1, GivenUp
  <2>4. faults' \in Nat
    BY <1>1 DEF LockedOut, Fault, CallsInv, CallTypes
  <2> QED
    BY <1>0, <2>1, <2>2, <2>3, <2>4, Next1Typed, MarksStay, SealerStep
<1>2. CASE Sealed(r) /\ RowDone(c) /\ UNCHANGED <<pending, dropped, problems, faults>>
  <2>1. sealing' = [sealing EXCEPT ![c] = Next1(c)] /\ answer' = [answer EXCEPT ![c] = "reading"]
    BY <1>2 DEF RowDone, Next1
  <2>2. \A q \in RunIds : SealTried(q) => SealTried(q)'
    BY <2>1, Next1Typed, TriedGrows
  <2>3. KeptSeals' /\ problems' \in [Calls -> SUBSET RunIds] /\ faults' \in Nat
    BY <1>0, <1>2, <2>2, KeptGrows DEF CallsInv, KeptSeals, CallTypes
  <2> QED
    BY <1>0, <2>1, <2>2, <2>3, Next1Typed, MarksStay, SealerStep
<1>3. CASE /\ ~Sealed(r)
           /\ sealing' = [sealing EXCEPT ![c].body = IF Exists(r) THEN log[r].body ELSE Body("minimal"),
                                         ![c].absent = @ \/ ~Exists(r)]
           /\ answer' = [answer EXCEPT ![c] = "storing"]
           /\ UNCHANGED <<pending, dropped, problems, faults>>
  <2> DEFINE body == IF Exists(r) THEN log[r].body ELSE Body("minimal")
             k == [sealing[c] EXCEPT !.body = body, !.absent = @ \/ ~Exists(r)]
  <2>1. body \in Bodies /\ ~body.unsealable
    <3>1. Body("minimal") \in Bodies /\ ~Body("minimal").unsealable
      BY DEF Body, Bodies
    <3>2. Exists(r) => log[r].body \in Bodies
      BY <1>0 DEF Exists, CallsInv, LogShape, Rows
    <3>3. Exists(r) => ~log[r].body.unsealable
      BY <1>0 DEF CallsInv, MarkedLate, SealTried
    <3> QED
      BY <3>1, <3>2, <3>3
  <2>2. sealing' = [sealing EXCEPT ![c] = k]
    BY <1>3 DEF CallsInv, OwnSealings
  <2> HIDE DEF r, body
  <2>3. k \in SealingsOf(c) /\ k.todo = sealing[c].todo /\ k.body = body
    BY <1>0, <2>1 DEF SealingsOf, Exists
  <2> HIDE DEF k
  <2>4. \A q \in RunIds : SealTried(q) => SealTried(q)'
    BY <1>3, <2>2, <2>3, TriedGrows
  <2>5. KeptSeals' /\ problems' \in [Calls -> SUBSET RunIds] /\ faults' \in Nat
    BY <1>0, <1>3, <2>4, KeptGrows DEF CallsInv, KeptSeals, CallTypes
  <2> QED
    BY <1>0, <1>3, <2>1, <2>2, <2>3, <2>4, <2>5, MarksStay, SealerStep
<1> QED
  BY <1>1, <1>2, <1>3 DEF ReadRow

LEMMA StoreRecordStep ==
  ASSUME CallsInv, NEW c \in Calls, StoreRecord(c)
  PROVE  CallsInv'
<1> DEFINE r == Current(c)
           body == sealing[c].body
           outcome == RecordOutcome(r, body, RecordOf(c))
<1>0. /\ sealing[c].todo # {} /\ r \in sealing[c].todo /\ r \in RunIds /\ r.call = c
      /\ sealing[c] \in SealingsOf(c) /\ answer[c] = "storing"
      /\ body \in Bodies /\ ~body.unsealable /\ RecordRow(r, body, RecordOf(c))
      /\ UNCHANGED <<kind, worker, queue, running, waiting, cancelled, captureVars, retrying>>
  BY CurrentIsOwn DEF StoreRecord, CallsInv, OwnSealings, StoringUnmarked
<1>1. RecordOf(c) \in Records
  BY <1>0 DEF RecordOf, Records, SealingsOf
<1>2. LogShape' /\ \A q \in RunIds : log'[q] # log[q] =>
                      q = r /\ log'[q] = [body |-> body, record |-> RecordOf(c)]
  <2> HIDE DEF r, body
  <2> QED
    BY <1>0, <1>1, RecordRowKeeps DEF CallsInv
<1>3. ASSUME \A q \in RunIds : SealTried(q) => SealTried(q)'
      PROVE  \A q \in RunIds : Exists(q)' /\ log'[q].body.unsealable => SealTried(q)'
  <2> HIDE DEF r, body
  <2> SUFFICES ASSUME NEW q \in RunIds, Exists(q)', log'[q].body.unsealable
               PROVE  SealTried(q)'
    OBVIOUS
  <2>1. log'[q] = log[q]
    BY <1>0, <1>2
  <2> QED
    BY <1>3, <2>1 DEF CallsInv, MarkedLate, Exists
<1>4. CASE /\ outcome \in Stored \/ outcome = "refused"
           /\ RowDone(c) /\ UNCHANGED <<pending, dropped, faults>>
           /\ problems' \in {problems, [problems EXCEPT ![c] = @ \union {r}]}
  <2>1. sealing' = [sealing EXCEPT ![c] = Next1(c)] /\ answer' = [answer EXCEPT ![c] = "reading"]
    BY <1>4 DEF RowDone, Next1
  <2>2. \A q \in RunIds : SealTried(q) => SealTried(q)'
    BY <2>1, Next1Typed, TriedGrows
  <2>3. KeptSeals' /\ problems' \in [Calls -> SUBSET RunIds] /\ faults' \in Nat
    BY <1>0, <1>4, <2>2, KeptGrows DEF CallsInv, KeptSeals, CallTypes
  <2> QED
    BY <1>0, <1>2, <1>3, <2>1, <2>2, <2>3, Next1Typed, SealerStep
<1>5. CASE /\ outcome = "stale" /\ sealing[c].attempt < Attempts
           /\ sealing' = [sealing EXCEPT ![c].attempt = @ + 1]
           /\ answer' = [answer EXCEPT ![c] = "reading"]
           /\ UNCHANGED <<pending, dropped, problems, faults>>
  <2> DEFINE k == [sealing[c] EXCEPT !.attempt = @ + 1]
  <2>1. sealing' = [sealing EXCEPT ![c] = k] /\ k \in SealingsOf(c) /\ k.todo = sealing[c].todo
    BY <1>0, <1>5 DEF CallsInv, OwnSealings, SealingsOf
  <2> HIDE DEF k
  <2>2. \A q \in RunIds : SealTried(q) => SealTried(q)'
    BY <1>5, <2>1, TriedGrows
  <2>3. KeptSeals' /\ problems' \in [Calls -> SUBSET RunIds] /\ faults' \in Nat
    BY <1>0, <1>5, <2>2, KeptGrows DEF CallsInv, KeptSeals, CallTypes
  <2> QED
    BY <1>0, <1>2, <1>3, <1>5, <2>1, <2>2, <2>3, SealerStep
<1>6. CASE GiveUpOn(c, NoBody, NoRecord, FALSE) /\ UNCHANGED faults
  <2>1. sealing' = [sealing EXCEPT ![c] = Next1(c)] /\ answer' = [answer EXCEPT ![c] = "reading"]
    BY <1>6 DEF GiveUpOn, RowDone, Next1
  <2>2. \A q \in RunIds : SealTried(q) => SealTried(q)'
    BY <2>1, Next1Typed, TriedGrows
  <2>3. KeptSeals' /\ problems' \in [Calls -> SUBSET RunIds] /\ faults' \in Nat
    BY <1>0, <1>6, GivenUp DEF CallsInv, CallTypes
  <2> QED
    BY <1>0, <1>2, <1>3, <2>1, <2>2, <2>3, Next1Typed, SealerStep
<1>7. problems \in {problems, [problems EXCEPT ![c] = @ \union {r}]}
  OBVIOUS
<1> QED
  BY <1>4, <1>5, <1>6, <1>7 DEF StoreRecord

LEMMA StoreLockedOutStep ==
  ASSUME CallsInv, NEW c \in Calls, StoreLockedOut(c)
  PROVE  CallsInv'
<1>1. /\ sealing[c].todo # {} /\ sealing[c] \in SealingsOf(c)
      /\ sealing[c].body \in Bodies /\ ~sealing[c].body.unsealable
      /\ UNCHANGED <<log, kind, worker, queue, running, waiting, cancelled, captureVars, retrying>>
      /\ GiveUpOn(c, sealing[c].body, RecordOf(c), sealing[c].absent)
  BY DEF StoreLockedOut, CallsInv, OwnSealings, StoringUnmarked
<1>2. RecordOf(c) \in Records /\ RecordOf(c).call = c /\ RecordOf(c).body = sealing[c].body
      /\ sealing[c].absent \in BOOLEAN
  BY <1>1 DEF RecordOf, Records, SealingsOf
<1>3. sealing' = [sealing EXCEPT ![c] = Next1(c)] /\ answer' = [answer EXCEPT ![c] = "reading"]
  BY <1>1 DEF GiveUpOn, RowDone, Next1
<1>4. \A q \in RunIds : SealTried(q) => SealTried(q)'
  BY <1>3, Next1Typed, TriedGrows
<1>5. KeptSeals' /\ problems' \in [Calls -> SUBSET RunIds]
  BY <1>1, <1>2, GivenUp
<1>6. faults' \in Nat
  BY DEF StoreLockedOut, LockedOut, Fault, CallsInv, CallTypes
<1> QED
  BY <1>1, <1>3, <1>4, <1>5, <1>6, Next1Typed, MarksStay, SealerStep

-----------------------------------------------------------------------------
(* Retrying                                                                   *)

LEMMA OldestIsKept ==
  ASSUME CallsInv, NEW n, NEW rows
  PROVE  Oldest(n, rows) \subseteq Kept
<1>1. \A i \in DOMAIN pending : pending[i] \in Kept
  BY LenProperties, ElementOfSeq DEF CallsInv, KeptSeals
<1> QED
  BY <1>1 DEF Oldest

LEMMA NoRetryTyped == NoRetry \in RetriesOfKept
BY DEF NoRetry, RetriesOfKept

LEMMA BeginRetryStep ==
  ASSUME CallsInv, NEW c \in Calls, BeginRetry(c)
  PROVE  CallsInv'
<1> DEFINE k == sealing[c]
<1>1. k \in SealingsOf(c) /\ sealing' = [sealing EXCEPT ![c] = k] /\ answer' = [answer EXCEPT ![c] = "retrying"]
  BY DEF BeginRetry, CallsInv, OwnSealings
<1> HIDE DEF k
<1>2. \A q \in RunIds : SealTried(q) => SealTried(q)'
  BY DEF SealTried, BeginRetry, CallsInv, CallTypes, RunIds
<1>3. KeptSeals'
  <2>1. retrying' \in [Resealers -> RetriesOfKept]
    BY OldestIsKept DEF BeginRetry, CallsInv, KeptSeals, RetriesOfKept, Resealers
  <2> QED
    BY <1>2, <2>1, KeptGrows DEF BeginRetry, logVars, CallsInv, KeptSeals
<1>4. problems' \in [Calls -> SUBSET RunIds] /\ faults' \in Nat
  BY DEF BeginRetry, CallsInv, CallTypes
<1> QED
  BY <1>1, <1>2, <1>3, <1>4, MarksStay, SealerStep DEF BeginRetry, logVars

LEMMA FinishStep ==
  ASSUME CallsInv, NEW c \in Calls, Finish(c)
  PROVE  CallsInv'
<1>1. NoSealing \in SealingsOf(c) /\ NoSealing.todo = {}
  BY DEF NoSealing, SealingsOf
<1>2. sealing' = [sealing EXCEPT ![c] = NoSealing] /\ answer' = [answer EXCEPT ![c] = "over"]
  BY DEF Finish
<1>3. \A q \in RunIds : SealTried(q) => SealTried(q)'
  BY <1>1, <1>2, TriedGrows
<1>4. KeptSeals'
  BY <1>3, KeptGrows DEF Finish, logVars, CallsInv, KeptSeals
<1>5. problems' \in [Calls -> SUBSET RunIds] /\ faults' \in Nat
  BY DEF Finish, CallsInv, CallTypes
<1> QED
  BY <1>1, <1>2, <1>3, <1>4, <1>5, MarksStay, SealerStep DEF Finish, logVars

\* What holds after any step of a retry, from a few facts about it.
LEMMA RetryStep ==
  ASSUME CallsInv, UNCHANGED <<callVars, captureVars, sealing, problems>>, faults' \in Nat,
         pending' \in Seq(Kept), dropped' = dropped, retrying' \in [Resealers -> RetriesOfKept],
         LogShape', \A r \in RunIds : Exists(r)' /\ log'[r].body.unsealable => SealTried(r)
  PROVE  CallsInv'
<1>1. CallTypes' /\ Queued' /\ OwnCaptures' /\ OwnViews' /\ OwnSealings' /\ StoringUnmarked'
  BY DEF CallsInv, CallTypes, Queued, OwnCaptures, OwnViews, OwnSealings, StoringUnmarked, callVars, captureVars
<1>2. \A r \in RunIds : SealTried(r)' <=> SealTried(r)
  BY DEF SealTried, callVars
<1>3. Kept \subseteq Kept' /\ RetriesOfKept \subseteq RetriesOfKept'
  BY <1>2, KeptGrows
<1>4. KeptSeals'
  BY <1>3, SeqMonotonic DEF CallsInv, KeptSeals
<1>5. MarkedLate'
  <2>1. ASSUME NEW d \in Calls, view'[d] # NoView, view'[d].body.unsealable
        PROVE  SealTried(view[d].run)'
    <3>1. view' = view /\ view[d].run \in RunIds
      BY <2>1 DEF CallsInv, OwnViews, ViewsOf, OwnRuns, captureVars
    <3>2. SealTried(view[d].run)
      BY <2>1, <3>1 DEF CallsInv, MarkedLate
    <3> QED
      BY <3>1, <3>2 DEF SealTried, callVars
  <2> QED
    BY <1>2, <2>1 DEF MarkedLate
<1> QED
  BY <1>1, <1>4, <1>5 DEF CallsInv

LEMMA NextRetryTyped ==
  ASSUME CallsInv, NEW x \in Resealers, NEW p, NextRetry(x, p)
  PROVE  retrying' \in [Resealers -> RetriesOfKept]
BY DEF NextRetry, NoRetry, CallsInv, KeptSeals, RetriesOfKept

LEMMA RetryReadStep ==
  ASSUME CallsInv, NEW x \in Resealers, NEW p, RetryRead(x, p)
  PROVE  CallsInv'
<1>1. p \in Kept /\ p.run \in RunIds
  BY DEF RetryRead, CallsInv, KeptSeals, RetriesOfKept, Kept, Pendings
<1>2. LogShape' /\ \A r \in RunIds : Exists(r)' /\ log'[r].body.unsealable => SealTried(r)
  BY DEF RetryRead, CallsInv, LogShape, MarkedLate, Exists
<1>3. CASE NextRetry(x, p) /\ KeepPending
  BY <1>2, <1>3, NextRetryTyped, RetryStep
     DEF RetryRead, KeepPending, CallsInv, CallTypes, KeptSeals
<1>4. CASE NextRetry(x, p) /\ Forget(p.run)
  <2>1. pending' \in Seq(Kept) /\ dropped' = dropped
    BY <1>4, ForgetSeq DEF CallsInv, KeptSeals
  <2> QED
    BY <1>2, <1>4, <2>1, NextRetryTyped, RetryStep DEF RetryRead, CallsInv, CallTypes
<1>5. CASE retrying' = [retrying EXCEPT ![x].now = p, ![x].row = log[p.run]]
           /\ KeepPending
  <2>1. log[p.run] \in Rows \union {NoRow}
    BY <1>1 DEF CallsInv, LogShape
  <2>2. retrying' \in [Resealers -> RetriesOfKept]
    BY <1>1, <1>5, <2>1 DEF CallsInv, KeptSeals, RetriesOfKept
  <2> QED
    BY <1>2, <1>5, <2>2, RetryStep DEF RetryRead, KeepPending, CallsInv, CallTypes, KeptSeals
<1> QED
  BY <1>3, <1>4, <1>5 DEF RetryRead

LEMMA NowIsKept ==
  ASSUME CallsInv, NEW x \in Resealers, retrying[x].now # NoSeal
  PROVE  /\ retrying[x].now \in Kept /\ retrying[x].now.run \in RunIds
         /\ SealTried(retrying[x].now.run) /\ Sound(retrying[x].now)
         /\ retrying[x].now \in Pendings
BY DEF CallsInv, KeptSeals, RetriesOfKept, Kept, Pendings

LEMMA RetryMarkStep ==
  ASSUME CallsInv, NEW x \in Resealers, RetryMark(x)
  PROVE  CallsInv'
<1> DEFINE p == retrying[x].now
           row == retrying[x].row
<1>1. /\ MarkUnsealable(p.run, row.body) /\ NextRetry(x, p)
      /\ KeepPending \/ Forget(p.run)
      /\ UNCHANGED <<callVars, captureVars, sealing, problems, faults>>
      /\ p.run \in RunIds /\ SealTried(p.run)
  BY NowIsKept DEF RetryMark
<1> HIDE DEF p, row
<1>2. /\ LogShape'
      /\ \A r \in RunIds : Exists(r)' /\ log'[r].body.unsealable => SealTried(r)
  <2>1. \A r \in RunIds \ {p.run} : log'[r] = log[r]
    BY <1>1 DEF MarkUnsealable, CallsInv, LogShape
  <2>2. LogShape'
    BY <1>1 DEF MarkUnsealable, MarkOutcome, Exists, CallsInv, LogShape, Rows, Bodies
  <2> QED
    BY <1>1, <2>1, <2>2 DEF CallsInv, MarkedLate, Exists
<1>3. pending' \in Seq(Kept) /\ dropped' = dropped
  BY <1>1, ForgetSeq DEF KeepPending, CallsInv, KeptSeals
<1> QED
  BY <1>1, <1>2, <1>3, NextRetryTyped, RetryStep DEF CallsInv, CallTypes

\* A seal that fits is of the very body its record was built from, and unmarked.
LEMMA FittingSeal ==
  ASSUME CallsInv, NEW x \in Resealers, RetryStore(x)
  PROVE  LET p == retrying[x].now IN
         /\ p.run \in RunIds /\ p.body \in Bodies /\ p.record \in Records
         /\ p.record.call = p.run.call /\ p.record.body = p.body /\ ~p.body.unsealable
         /\ RecordRow(p.run, p.body, p.record)
<1> DEFINE p == retrying[x].now
<1>1. p \in Pendings /\ Sound(p) /\ p.record # NoRecord /\ RecordRow(p.run, p.body, p.record)
  BY NowIsKept DEF RetryStore, Fits
<1> HIDE DEF p
<1>2. p.record \in Records
  BY <1>1 DEF Pendings
<1>3. p.record.body \in Bodies
  BY <1>2 DEF Records
<1> QED
  BY <1>1, <1>2, <1>3 DEF Sound, Pendings, p

LEMMA RetryStoreStep ==
  ASSUME CallsInv, NEW x \in Resealers, RetryStore(x)
  PROVE  CallsInv'
<1> DEFINE p == retrying[x].now
<1>1. /\ NextRetry(x, p) \/ retrying' = [retrying EXCEPT ![x] = NoRetry]
      /\ KeepPending \/ Forget(p.run)
      /\ UNCHANGED <<callVars, captureVars, sealing, problems, faults>>
  BY DEF RetryStore
<1>2. /\ p.run \in RunIds /\ p.body \in Bodies /\ p.record \in Records
      /\ ~p.body.unsealable /\ RecordRow(p.run, p.body, p.record)
  BY FittingSeal
<1> HIDE DEF p
<1>3. LogShape' /\ \A r \in RunIds : log'[r] # log[r] => log'[r] = [body |-> p.body, record |-> p.record]
  BY <1>2, RecordRowKeeps DEF CallsInv
<1>4. \A r \in RunIds : Exists(r)' /\ log'[r].body.unsealable => SealTried(r)
  BY <1>2, <1>3 DEF CallsInv, MarkedLate, Exists
<1>5. pending' \in Seq(Kept) /\ dropped' = dropped
  BY <1>1, ForgetSeq DEF KeepPending, CallsInv, KeptSeals
<1>6. retrying' \in [Resealers -> RetriesOfKept]
  <2>1. CASE NextRetry(x, p)
    BY <2>1, NextRetryTyped
  <2>2. CASE retrying' = [retrying EXCEPT ![x] = NoRetry]
    BY <2>2, NoRetryTyped DEF CallsInv, KeptSeals
  <2> QED
    BY <1>1, <2>1, <2>2
<1> QED
  BY <1>1, <1>3, <1>4, <1>5, <1>6, RetryStep DEF CallsInv, CallTypes

LEMMA RetryLockedOutStep ==
  ASSUME CallsInv, NEW x \in Resealers, RetryLockedOut(x)
  PROVE  CallsInv'
<1>1. LogShape' /\ \A r \in RunIds : Exists(r)' /\ log'[r].body.unsealable => SealTried(r)
  BY DEF RetryLockedOut, logVars, CallsInv, LogShape, MarkedLate, Exists
<1>2. retrying' \in [Resealers -> RetriesOfKept]
  BY NextRetryTyped DEF RetryLockedOut
<1> QED
  BY <1>1, <1>2, RetryStep
     DEF RetryLockedOut, logVars, CallsInv, CallTypes, KeptSeals

LEMMA ExportStep ==
  ASSUME CallsInv, Export
  PROVE  CallsInv'
<1>1. LogShape' /\ \A r \in RunIds : Exists(r)' /\ log'[r].body.unsealable => SealTried(r)
  BY DEF Export, logVars, CallsInv, LogShape, MarkedLate, Exists
<1>2. retrying' \in [Resealers -> RetriesOfKept]
  BY OldestIsKept, NoRetryTyped DEF Export, CallsInv, KeptSeals, RetriesOfKept, Resealers, NoRetry
<1> QED
  BY <1>1, <1>2, RetryStep DEF Export, logVars, CallsInv, CallTypes, KeptSeals

-----------------------------------------------------------------------------
(* A crash, and the invariant of the specification                            *)

LEMMA CrashStep ==
  ASSUME CallsInv, Crash
  PROVE  CallsInv'
<1> USE DEF Crash, captureVars
<1>1. CallTypes'
  BY DEF CallsInv, CallTypes, Fault, AtWork
<1>2. Queued' /\ LogShape' /\ OwnCaptures'
  BY DEF Queued, CallsInv, LogShape, OwnCaptures
<1>3. OwnViews'
  BY DEF CallsInv, OwnViews
<1>4. OwnSealings' /\ StoringUnmarked' /\ \A c \in Calls : sealing'[c].todo = {}
  BY DEF OwnSealings, SealingsOf, NoSealing, StoringUnmarked
<1>5. \A r \in RunIds : SealTried(r) => SealTried(r)'
  BY <1>4 DEF SealTried, RunIds
<1>6. KeptSeals'
  <2>1. dropped' \subseteq RunIds
    <3>1. \A i \in DOMAIN pending : pending[i].run \in RunIds
      BY LenProperties, ElementOfSeq DEF CallsInv, KeptSeals, Kept, Pendings
    <3> QED
      BY <3>1 DEF CallsInv, KeptSeals
  <2>2. retrying' \in [Resealers -> RetriesOfKept']
    BY DEF NoRetry, RetriesOfKept
  <2> QED
    BY <2>1, <2>2 DEF KeptSeals
<1>7. MarkedLate'
  BY <1>5, MarkedStays
<1> QED
  BY <1>1, <1>2, <1>3, <1>4, <1>6, <1>7 DEF CallsInv

LEMMA CallsInvStep == CallsInv /\ [Next]_vars => CallsInv'
<1> SUFFICES ASSUME CallsInv, [Next]_vars PROVE CallsInv'
  OBVIOUS
<1>1. CASE UNCHANGED vars
  <2>1. \A r \in RunIds : Exists(r)' /\ log'[r].body.unsealable => SealTried(r)
    BY <1>1 DEF vars, logVars, CallsInv, MarkedLate, Exists
  <2> QED
    BY <1>1, <2>1, RetryStep DEF vars, logVars, recordVars, CallsInv, LogShape, KeptSeals, CallTypes
<1>2. ASSUME NEW c \in Calls, (\E k \in Kinds : Dispatch(c, k)) \/ Work(c) \/ Cancel(c)
      PROVE  CallsInv'
  BY <1>2, DispatchStep, StartStep, EndStep, CancelStep, PutResultStep, PushLayerStep, PostRunStep,
     WriteRunLogStep DEF Work
<1>3. ASSUME NEW x \in Resealers, Retry(x)
      PROVE  CallsInv'
  BY <1>3, RetryReadStep, RetryMarkStep, RetryStoreStep, RetryLockedOutStep DEF Retry
<1>4. ASSUME NEW c \in Calls, Seal(c)
      PROVE  CallsInv'
  BY <1>3, <1>4, BeginSealStep, ReadRowStep, StoreRecordStep, StoreLockedOutStep, BeginRetryStep, FinishStep
     DEF Seal, Resealers
<1> QED
  BY <1>1, <1>2, <1>3, <1>4, ExportStep, CrashStep DEF Next, Resealers

LEMMA Invariance == Spec => []CallsInv
BY InitCallsInv, CallsInvStep, PTL DEF Spec

\* Every variable keeps its type, whatever the calls, faults and retries do.
THEOREM CallTyping == Spec => []TypeOK
<1>1. CallsInv => TypeOK
  <2> SUFFICES ASSUME CallsInv PROVE TypeOK
    OBVIOUS
  <2>1. Kept \subseteq Pendings /\ \A c \in Calls : OwnRuns(c) \subseteq RunIds
    BY DEF Kept, OwnRuns
  <2>2. LogTypeOK
    BY <2>1, SeqMonotonic DEF CallsInv, LogShape, KeptSeals, LogTypeOK
  <2>3. capture \in [Calls -> [rows : Seq(RunIds), failed : SUBSET RunIds, refused : SUBSET RunIds,
                              reserved : RunIds \union {NoRun}]]
    <3>1. \A c \in Calls : capture[c].rows \in Seq(RunIds)
      BY <2>1, SeqMonotonic DEF CallsInv, OwnCaptures, CapturesOf
    <3> QED
      BY <2>1, <3>1 DEF CallsInv, OwnCaptures, CapturesOf
  <2>4. view \in [Calls -> [run : RunIds \union {NoRun}, body : Bodies \union {NoBody}]]
    BY <2>1 DEF CallsInv, OwnViews, ViewsOf, NoView
  <2>5. sealing \in [Calls -> [rows : SUBSET RunIds, todo : SUBSET RunIds, attempt : Nat,
                              absent : BOOLEAN, body : Bodies \union {NoBody}]]
    BY <2>1 DEF CallsInv, OwnSealings, SealingsOf
  <2>6. retrying \in [Resealers -> [todo : SUBSET Pendings, now : Pendings \union {NoSeal},
                                   row : Rows \union {NoRow}]]
    BY <2>1 DEF CallsInv, KeptSeals, RetriesOfKept
  <2> QED
    BY <2>2, <2>3, <2>4, <2>5, <2>6 DEF CallsInv, CallTypes, Queued, TypeOK
<1> QED
  BY <1>1, Invariance, PTL

-----------------------------------------------------------------------------
(* The run log implements SealedLog                                           *)

\* A writer's row: open before or not there.
LEMMA PlainWrite ==
  ASSUME LogShape, NEW r \in RunIds, NEW body \in Bodies, RecordRow(r, body, NoRecord)
  PROVE  Promised!Next \/ log' = log
<1>1. CASE log' = log
  BY <1>1
<1>2. CASE RecordOutcome(r, body, NoRecord) \in {"inserted", "replaced"}
  <2>1. log' = [log EXCEPT ![r] = [body |-> body, record |-> NoRecord]]
    BY <1>2 DEF RecordRow
  <2>2. log'[r] = [body |-> body, record |-> NoRecord] /\ log' = [log EXCEPT ![r] = log'[r]]
    BY <2>1 DEF LogShape
  <2>3. ~Sealed(r)
    BY <1>2 DEF RecordOutcome, Sealed
  <2>4. Promised!Write(r)
    BY <2>2, <2>3 DEF Promised!Write, Promised!Open, Promised!Vacant, Sealed, Exists
  <2> QED
    BY <2>2, <2>4 DEF Promised!Next
<1> QED
  BY <1>1, <1>2 DEF RecordRow

\* A record: over no row, or over the open row with the very body it was built from.
LEMMA RecordWrite ==
  ASSUME LogShape, NEW r \in RunIds, NEW record \in Records, record.call = r.call,
         ~record.body.unsealable, RecordRow(r, record.body, record)
  PROVE  Promised!Next \/ log' = log
<1>1. CASE log' = log
  BY <1>1
<1>2. CASE RecordOutcome(r, record.body, record) \in {"inserted", "replaced"}
  <2>1. log' = [log EXCEPT ![r] = [body |-> record.body, record |-> record]] /\ record.body \in Bodies
    BY <1>2 DEF RecordRow, Records
  <2>2. /\ log'[r] = [body |-> record.body, record |-> record] /\ log' = [log EXCEPT ![r] = log'[r]]
        /\ log'[r] \in [body : Bodies, record : Records]
    BY <2>1 DEF LogShape
  <2>3. ~Exists(r) \/ (Exists(r) /\ log[r].record = NoRecord /\ log[r].body = record.body)
    BY <1>2, RunLogAssumption DEF RecordOutcome, Sealed
  <2>4. Promised!Seal(r)
    BY <2>2, <2>3 DEF Promised!Seal, Promised!Open, Promised!Vacant, Exists
  <2> QED
    BY <2>2, <2>4 DEF Promised!Next
<1> QED
  BY <1>1, <1>2 DEF RecordRow

LEMMA MarkWrite ==
  ASSUME LogShape, NEW r \in RunIds, NEW body, MarkUnsealable(r, body)
  PROVE  Promised!Next \/ log' = log
<1>1. CASE log' = log
  BY <1>1
<1>2. CASE MarkOutcome(r, body) = "marked"
  <2>1. log[r] \in Rows /\ log[r].record = NoRecord /\ log' = [log EXCEPT ![r].body.unsealable = TRUE]
    BY <1>2 DEF MarkOutcome, MarkUnsealable, Sealed, Exists, LogShape
  <2>2. log'[r] = [log[r] EXCEPT !.body.unsealable = TRUE] /\ log' = [log EXCEPT ![r] = log'[r]]
    BY <2>1 DEF LogShape
  <2>3. log'[r] \in [body : Bodies, record : {NoRecord}]
    <3> DEFINE row == log[r]
    <3>1. row \in Rows /\ row.record = NoRecord /\ log'[r] = [row EXCEPT !.body.unsealable = TRUE]
      BY <2>1, <2>2
    <3> HIDE DEF row
    <3>2. row.body \in Bodies /\ [row.body EXCEPT !.unsealable = TRUE] \in Bodies
      BY <3>1 DEF Rows, Bodies
    <3>3. [row EXCEPT !.body.unsealable = TRUE] = [body |-> [row.body EXCEPT !.unsealable = TRUE], record |-> NoRecord]
      BY <3>1 DEF Rows
    <3> QED
      BY <3>1, <3>2, <3>3
  <2>4. Promised!Write(r)
    BY <1>2, <2>1, <2>3 DEF Promised!Write, Promised!Open, Promised!Vacant, MarkOutcome, Exists
  <2> QED
    BY <2>2, <2>4 DEF Promised!Next
<1> QED
  BY <1>1, <1>2 DEF MarkUnsealable

LEMMA PromiseStep == CallsInv /\ [Next]_vars => [Promised!Next]_log
<1> SUFFICES ASSUME CallsInv, [Next]_vars PROVE Promised!Next \/ log' = log
  OBVIOUS
<1> USE DEF logVars
<1>1. CASE UNCHANGED vars
  BY <1>1 DEF vars
<1>2. ASSUME NEW c \in Calls, PutResult(c) PROVE Promised!Next \/ log' = log
  <2>1. Run(c, "slot") \in RunIds /\ Body("slot") \in Bodies
    BY RunIsOwn DEF OwnRuns, Body, Bodies
  <2> QED
    BY <1>2, <2>1, PlainWrite DEF PutResult, Write, CallsInv
<1>3. ASSUME NEW c \in Calls, WriteRunLog(c) PROVE Promised!Next \/ log' = log
  <2>1. view[c].run \in RunIds /\ view[c].body \in Bodies
    BY <1>3 DEF WriteRunLog, CallsInv, OwnViews, ViewsOf, OwnRuns
  <2> QED
    BY <1>3, <2>1, PlainWrite DEF WriteRunLog, Write, CallsInv
<1>4. ASSUME NEW c \in Calls, StoreRecord(c) PROVE Promised!Next \/ log' = log
  <2>1. /\ sealing[c] \in SealingsOf(c) /\ sealing[c].todo # {}
        /\ sealing[c].body \in Bodies /\ ~sealing[c].body.unsealable
        /\ RecordRow(Current(c), sealing[c].body, RecordOf(c))
    BY <1>4 DEF StoreRecord, CallsInv, OwnSealings, StoringUnmarked
  <2>2. RecordOf(c) \in Records /\ RecordOf(c).body = sealing[c].body /\ RecordOf(c).call = c
    BY <2>1 DEF RecordOf, Records, SealingsOf
  <2>3. Current(c) \in RunIds /\ Current(c).call = c
    BY <2>1, CurrentIsOwn
  <2> QED
    BY <2>1, <2>2, <2>3, RecordWrite DEF CallsInv
<1>5. ASSUME NEW x \in Resealers, RetryStore(x) PROVE Promised!Next \/ log' = log
  BY <1>5, FittingSeal, RecordWrite DEF CallsInv
<1>6. ASSUME NEW x \in Resealers, RetryMark(x) PROVE Promised!Next \/ log' = log
  BY <1>6, NowIsKept, MarkWrite DEF RetryMark, CallsInv
<1>7. ASSUME NEW c \in Calls, (\E k \in Kinds : Dispatch(c, k)) \/ Start(c) \/ Return(c) \/ Raise(c)
             \/ PushLayer(c) \/ PostRun(c) \/ Cancel(c) \/ BeginSeal(c) \/ ReadRow(c) \/ StoreLockedOut(c)
             \/ BeginRetry(c) \/ Finish(c)
      PROVE  log' = log
  BY <1>7 DEF Dispatch, Start, Return, Raise, EndWorker, PushLayer, PostRun, Cancel, BeginSeal, ReadRow,
              StoreLockedOut, BeginRetry, Finish
<1>8. ASSUME NEW x \in Resealers, (\E p \in retrying[x].todo : RetryRead(x, p)) \/ RetryLockedOut(x)
      PROVE  log' = log
  BY <1>8 DEF RetryRead, RetryLockedOut
<1>9. Export \/ Crash => log' = log
  BY DEF Export, Crash
<1> QED
  BY <1>1, <1>2, <1>3, <1>4, <1>5, <1>6, <1>7, <1>8, <1>9 DEF Next, Work, Seal, Retry, Resealers

\* Whatever interleaves, is cancelled, times out or dies, the run log keeps the promise
\* of SealedLog: a sealed row is final and its record is of the body stored with it.
THEOREM RunLogKeepsPromise == Spec => ImplementsSealedLog
<1>1. Init => Promised!Init
  BY DEF Init, LogInit, Promised!Init
<1> QED
  BY <1>1, PromiseStep, Invariance, PTL DEF Spec, ImplementsSealedLog, Promised!Spec
=============================================================================
