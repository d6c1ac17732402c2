------------------------------- MODULE Series -------------------------------
(***************************************************************************)
(* The daily streamflow of a study, from the call that fetches it to the    *)
(* signatures computed from it.                                             *)
(*                                                                         *)
(* fetch_streamflow_data and data_fetch retain what the source served in a  *)
(* file named by its content, note the file and its digest in the study's   *)
(* streamflow slot and in the run log, and store the slot by a second load  *)
(* and save whose failure is only logged.  extract_hydrological_signatures  *)
(* decides from the slot it loaded, and from the file as it is now, whether *)
(* to compute from that series and name its run as parent, or to fetch a    *)
(* series of its own; it retains what it used in a second file.             *)
(*                                                                         *)
(* The sources may serve a revised series each time they are asked, calls   *)
(* overlap, and files are edited or deleted by hand at any moment.  A file's *)
(* digest stands for its content: the two are the same value here.  A name   *)
(* made from the first digits of a digest is told from another's, so two     *)
(* series never meet under one: for retained series the code checks, for the *)
(* series of signatures it relies on 16 digits.  Periods are longer than the *)
(* 50 days up to which the session file itself holds the values.             *)
(***************************************************************************)
EXTENDS Naturals, Sequences

CONSTANTS
    Calls,          \* tool calls at work at a time
    Gauges,         \* USGS gauges
    Features,       \* the gauges of the features registered in the study
    Periods,        \* start and end dates
    Revisions,      \* what a source serves for a gauge and period over time
    Elsewhere,      \* the site of a study that is not at a USGS gauge
    None,           \* no site, no slot, no file, no parent
    MaxCalls,       \* bound on calls that fetch or compute
    MaxEdits,       \* bound on edits by hand
    MaxClears       \* bound on calls of clear_session

ASSUME SeriesAssumption ==
    /\ Features \subseteq Gauges
    /\ {Elsewhere, None} \intersect Gauges = {}
    /\ {MaxCalls, MaxEdits, MaxClears} \subseteq Nat

Contents == [gauge : Gauges, period : Periods, rev : Revisions]
Edited == [gauge |-> Elsewhere, period |-> None, rev |-> None]

\* The files: a retained series under the first digits of its digest or under
\* all of them, a scratch file that kept its name, a series a result used.
Names == [by : {"short", "full", "used"}, of : Contents \union {Edited}]
            \union [by : {"scratch"}, of : 1..MaxCalls]

\* Whose signatures: the study's own basin, or a registered feature's gauge.
Scopes == Features \union {"basin"}
Keys == [scope : Scopes, gauge : Gauges \union {Elsewhere, None}, period : Periods]

VARIABLES
    site,       \* session.site_id
    slot,       \* the study's streamflow slot
    results,    \* the study's signatures, by scope, gauge and period
    runs,       \* runs of fetches as the run log retains them, oldest first
    disk,       \* what a file holds
    touched,    \* files edited by hand
    call,       \* what a call is doing
    started,    \* calls begun so far
    edits, clears

vars == <<site, slot, results, runs, disk, touched, call, started, edits, clears>>

Idle == [at |-> "idle"]
Sites == Gauges \union {Elsewhere, None}

Init ==
    /\ site \in Sites
    /\ slot = None
    /\ results = [k \in Keys |-> None]
    /\ runs = <<>>
    /\ disk = [n \in Names |-> None]
    /\ touched = {}
    /\ call = [c \in Calls |-> Idle]
    /\ started = 0 /\ edits = 0 /\ clears = 0

-----------------------------------------------------------------------------
(* Fetching *)

BeginCall == started < MaxCalls /\ started' = started + 1

\* The slot holds the series of that gauge and period.
Holds(s, g, p) == s # None /\ s.gauge = g /\ s.period = p

\* fetch_streamflow_data loads the study; a slot for the same gauge and period
\* answers it.
StartFetch(c, g, p) ==
    /\ call[c] = Idle
    /\ ~ Holds(slot, g, p)
    /\ BeginCall
    /\ call' = [call EXCEPT ![c] =
            [at |-> "fetching", id |-> started + 1, gauge |-> g, period |-> p, site |-> site]]
    /\ UNCHANGED <<site, slot, results, runs, disk, touched, edits, clears>>

\* data_fetch asks the source whatever the slot holds, and loads the study when
\* it has the answer.
StartDataFetch(c, g, p) ==
    /\ call[c] = Idle
    /\ BeginCall
    /\ call' = [call EXCEPT ![c] = [at |-> "asking", id |-> started + 1, gauge |-> g, period |-> p]]
    /\ UNCHANGED <<site, slot, results, runs, disk, touched, edits, clears>>

\* The source serves a series.  A study that had no site when the call loaded it
\* takes the gauge, over one another call gave it meanwhile.
Serve(c) ==
    /\ call[c].at \in {"fetching", "asking"}
    /\ LET g == call[c].gauge  p == call[c].period
           seen == IF call[c].at = "asking" THEN site ELSE call[c].site
       IN  \/ /\ site' = IF seen = None THEN g ELSE site
              /\ \E r \in Revisions :
                    call' = [call EXCEPT ![c] =
                        [at |-> "keeping", id |-> call[c].id, content |-> [gauge |-> g, period |-> p, rev |-> r]]]
           \/ call' = [call EXCEPT ![c] = Idle] /\ UNCHANGED site
    /\ UNCHANGED <<slot, results, runs, disk, touched, started, edits, clears>>

\* A name of the fetch's own.
Scratch(c) == [by |-> "scratch", of |-> call[c].id]

\* Altered form: one file per gauge.
GaugeAddress(x, c) ==
    [by |-> "short",
     of |-> [x EXCEPT !.period = CHOOSE p \in Periods : TRUE, !.rev = CHOOSE r \in Revisions : TRUE]]

\* _content_address: the name from the first digits of the digest, unless that
\* file holds something else; then all the digits; then the scratch name stays.
ContentAddress(x, c) ==
    LET short == [by |-> "short", of |-> x]
        full == [by |-> "full", of |-> x]
    IN  IF disk[short] \in {None, x} THEN short
        ELSE IF disk[full] \in {None, x} THEN full ELSE Scratch(c)

\* persist_streamflow_slot: the series is written and its digest read back.  A
\* file that could not be renamed keeps its scratch name, one that could not be
\* written is not named.
Keep(c) ==
    /\ call[c].at = "keeping"
    /\ LET x == call[c].content
       IN  \/ \E n \in {ContentAddress(x, c), Scratch(c)} :
                /\ disk' = [disk EXCEPT ![n] = x]
                /\ touched' = touched \ {n}
                /\ call' = [call EXCEPT ![c] = [at |-> "storing", content |-> x, file |-> n]]
           \/ /\ call' = [call EXCEPT ![c] = [at |-> "storing", content |-> x, file |-> None]]
              /\ UNCHANGED <<disk, touched>>
    /\ UNCHANGED <<site, slot, results, runs, started, edits, clears>>

\* _session_store: the run's row, then the slot; a save that fails is only logged.
StoreSlot(c) ==
    /\ call[c].at = "storing"
    /\ LET x == call[c].content
           run == [file |-> call[c].file, digest |-> x]
       IN  /\ runs' = Append(runs, run)
           /\ slot' \in {slot, [gauge |-> x.gauge, period |-> x.period, file |-> call[c].file,
                                digest |-> x, run |-> Len(runs) + 1]}
    /\ call' = [call EXCEPT ![c] = Idle]
    /\ UNCHANGED <<site, results, disk, touched, started, edits, clears>>

-----------------------------------------------------------------------------
(* Signatures *)

GaugeOf(scope) == IF scope = "basin" THEN site ELSE scope

\* The file is there and has the digest that was recorded.
Verified(s) == s # None /\ s.file # None /\ disk[s.file] = s.digest

\* Altered form: it is enough that the file is there.
UsableUnseen(s, k) ==
    Holds(s, k.gauge, k.period) /\ s.file # None /\ disk[s.file] # None

\* The slot is what the call asks for, and unchanged.
Usable(s, k) == Holds(s, k.gauge, k.period) /\ Verified(s)

\* The call is about to read the slot's file, whose digest it has taken.
Reader(k, parent) ==
    [at |-> "reading", key |-> k, file |-> slot.file, seen |-> disk[slot.file],
     parent |-> parent, raced |-> FALSE]

\* The call loads the study and looks at the slot's file.  At a USGS gauge the
\* slot's series is used only if it is the one asked for and unchanged; a study
\* elsewhere uses what it has, unless it changed, and is refused without.
StartSignatures(c, k) ==
    /\ call[c] = Idle
    /\ k.gauge = GaugeOf(k.scope)
    /\ results[k] = None
    /\ BeginCall
    /\ \/ /\ Usable(slot, k)
          /\ call' = [call EXCEPT ![c] = Reader(k, slot.run)]
       \/ /\ k.gauge \in Gauges /\ ~ Usable(slot, k)
          /\ call' = [call EXCEPT ![c] = [at |-> "acquiring", key |-> k]]
       \/ /\ k.gauge \notin Gauges /\ ~ Usable(slot, k) /\ Verified(slot)
          /\ call' = [call EXCEPT ![c] = Reader(k, None)]
    /\ UNCHANGED <<site, slot, results, runs, disk, touched, edits, clears>>

\* What the signatures are computed from, and what the record says of it: the
\* file's digest as taken, and the run declared as parent.
Computed(c, x, seen, parent, raced) ==
    call' = [call EXCEPT ![c] =
        [at |-> "saving", key |-> call[c].key, used |-> x, seen |-> seen, parent |-> parent, raced |-> raced]]

\* The file is read a second time, for the values.  If it is gone or no longer a
\* series the library fetches one at a USGS gauge; elsewhere the call is refused.
ReadSeries(c) ==
    /\ call[c].at = "reading"
    /\ LET x == disk[call[c].file]
       IN  \/ x # None /\ Computed(c, x, call[c].seen, call[c].parent, call[c].raced)
          \/ /\ x \in {Edited, None}
             /\ call' = [call EXCEPT ![c] =
                    IF call[c].key.gauge \in Gauges THEN [at |-> "acquiring", key |-> call[c].key] ELSE Idle]
    /\ UNCHANGED <<site, slot, results, runs, disk, touched, started, edits, clears>>

\* The watershed library fetches a series for the gauge and period itself; where
\* it obtained none the result says so (observation "none").
AcquireSeries(c) ==
    /\ call[c].at = "acquiring"
    /\ \E x \in {None} \union {[gauge |-> call[c].key.gauge, period |-> call[c].key.period, rev |-> r] :
                                r \in Revisions} :
          Computed(c, x, None, None, FALSE)
    /\ UNCHANGED <<site, slot, results, runs, disk, touched, started, edits, clears>>

\* retain_served_series writes what was used, if anything was, under a name made
\* from it, over what is there; the result is put in the study and committed.
StoreSignatures(c) ==
    /\ call[c].at = "saving"
    /\ LET x == call[c].used
           n == [by |-> "used", of |-> x]
           stored(f) == [used |-> x, file |-> f, seen |-> call[c].seen,
                         parent |-> call[c].parent, raced |-> call[c].raced]
       IN  \/ /\ x # None
              /\ disk' = [disk EXCEPT ![n] = x]
              /\ touched' = touched \ {n}
              /\ results' = [results EXCEPT ![call[c].key] = stored(n)]
           \/ /\ results' = [results EXCEPT ![call[c].key] = stored(None)]
              /\ UNCHANGED <<disk, touched>>
    /\ call' = [call EXCEPT ![c] = Idle]
    /\ UNCHANGED <<site, slot, runs, started, edits, clears>>

\* A computation that fails, or a study that is busy.
FailSignatures(c) ==
    /\ call[c].at \in {"reading", "acquiring", "saving"}
    /\ call' = [call EXCEPT ![c] = Idle]
    /\ UNCHANGED <<site, slot, results, runs, disk, touched, started, edits, clears>>

-----------------------------------------------------------------------------
(* The study's owner *)

\* clear_session drops the slot or the signatures; the files and rows stay.
Clear(which) ==
    /\ clears < MaxClears
    /\ slot' = IF which = "streamflow" THEN None ELSE slot
    /\ results' = IF which = "signatures" THEN [k \in Keys |-> None] ELSE results
    /\ clears' = clears + 1
    /\ UNCHANGED <<site, runs, disk, touched, call, started, edits>>

\* Somebody edits or deletes a file, possibly between the two reads of a call
\* (raced: history of the calls to which that happened).
EditFile(n) ==
    /\ edits < MaxEdits
    /\ disk[n] # None
    /\ disk' \in {[disk EXCEPT ![n] = Edited], [disk EXCEPT ![n] = None]}
    /\ touched' = touched \union {n}
    /\ call' = [c \in Calls |->
            IF call[c].at = "reading" /\ call[c].file = n THEN [call[c] EXCEPT !.raced = TRUE] ELSE call[c]]
    /\ edits' = edits + 1
    /\ UNCHANGED <<site, slot, results, runs, started, clears>>

-----------------------------------------------------------------------------
Next ==
    \/ \E c \in Calls, g \in Gauges, p \in Periods : StartFetch(c, g, p) \/ StartDataFetch(c, g, p)
    \/ \E c \in Calls, k \in Keys : StartSignatures(c, k)
    \/ \E c \in Calls :
          \/ Serve(c) \/ Keep(c) \/ StoreSlot(c)
          \/ ReadSeries(c) \/ AcquireSeries(c) \/ StoreSignatures(c) \/ FailSignatures(c)
    \/ \E w \in {"streamflow", "signatures"} : Clear(w)
    \/ \E n \in Names : EditFile(n)

Spec == Init /\ [][Next]_vars

-----------------------------------------------------------------------------
(* Properties *)

\* Safety.  Signatures stored for a gauge and a period were computed from a
\* series of that gauge and period, and those that name a parent run used
\* exactly what that run retained, whatever the slot held for other basins,
\* however often it was fetched again meanwhile and whatever was edited by hand
\* before the call or after it (tools_analysis.py:1456-1466).  Excepted are
\* signatures whose file was edited between the call's two reads of it (1487 and
\* 1514): of those the record still gives the digest its parent retained.
SignaturesAreTheirs ==
    \A k \in Keys :
        LET r == results[k]
        IN  r # None =>
            /\ r.parent # None => r.seen = runs[r.parent].digest
            /\ ~ r.raced =>
                 /\ (k.gauge \in Gauges /\ r.used # None) => r.used.gauge = k.gauge /\ r.used.period = k.period
                 /\ r.parent # None => r.used = r.seen

\* Safety, which does not hold.  The same without the exception: "never consume a
\* series that changed after fetch" (tools_analysis.py:1522).
NeverUsesAChange ==
    \A k \in Keys :
        LET r == results[k]
        IN  (r # None /\ r.parent # None) => r.used = runs[r.parent].digest

\* Safety.  A file that a run or a result names, and that nobody edited, holds
\* what it held when its digest was recorded: no later fetch of the gauge, of
\* another period or of a revised series, and no other call overwrites it
\* (streamflow_slot.py:83-108, series_binding.py:140-160).
RetainedStays ==
    /\ \A i \in DOMAIN runs :
          runs[i].file \notin touched \union {None} => disk[runs[i].file] = runs[i].digest
    /\ \A k \in Keys :
          LET r == results[k]
          IN  (r # None /\ r.file \notin touched \union {None}) => disk[r.file] = r.used

=============================================================================
