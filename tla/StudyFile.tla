------------------------------- MODULE StudyFile -------------------------------
(***************************************************************************)
(* One study's session file and the tool calls that read, change and save   *)
(* it (session/store.py).  A call loads the file, works on its own copy with *)
(* no lock held, and saves: take the write guard, compare the file with what *)
(* was loaded, merge three ways if another call saved meanwhile, replace the *)
(* file.  Ledger tools hold the guard from load to return.                  *)
(*                                                                         *)
(* The file is a set of leaves (what the merge treats as one value) and the *)
(* list of notes.  The leaves are the session's watershed, the research     *)
(* plan, the results computed for the watershed (Slots) and everything else *)
(* (Records).  Beside the file lies the outline that gauge delineations of  *)
(* the study write in place, <session_id>.geojson.                          *)
(*                                                                         *)
(* Abstractions.  A stat stamp is the number of saves so far, so two files  *)
(* never share one.  Gauge ids are left out of basin identities, and        *)
(* registered features, shards, legacy layouts and unreadable files out of  *)
(* the file.  A basin stands for its geometry and its digest.               *)
(***************************************************************************)
EXTENDS Integers, Sequences, SequencesExt

CONSTANTS
    Calls,          \* tool calls in progress at one time: worker threads, processes
    Slots,          \* basin-dependent result slots
    Records,        \* other leaves: workspace_dir, interpretation, index slots, ...
    Values,         \* contents of a record
    Notes,          \* note texts
    Plans,          \* research plans, all locked
    Points,         \* basins delineated from a point: each has an outline file of its own
    Gauged,         \* basins delineated from a gauge: they share the study's outline file
    Absent, Cleared, NoBasin, Nobody,
    Created,        \* whether the study has a file at the start
    FirstFile,      \* what it holds then
    FirstOutline,   \* the outline file at the start, or NoBasin
    Clearable,      \* leaves clear_session is called on
    MaxEdits,       \* bound: changes one call makes
    MaxSaves,       \* bound: saves before calls stop starting them
    MaxCancels,     \* bound: calls the client gives up on
    NoteLimit       \* notes kept by add_note (500 in the code)

Basins == Points \union Gauged
Placed == [of : Basins, stamp : Basins \union {NoBasin}]
Leaves == {"watershed", "plan"} \union Slots \union Records

LeafValues(l) ==
    IF l \in Records THEN Values \union {Absent}
    ELSE IF l = "plan" THEN Plans \union {Absent}
    ELSE Placed \union {Absent, Cleared}

Empty == [leaf |-> [l \in Leaves |-> Absent], notes |-> << >>]

ASSUME LeavesAssumption ==
    /\ {"watershed", "plan"} \intersect (Slots \union Records) = {}
    /\ Slots \intersect Records = {}
    /\ Clearable \subseteq {"watershed"} \union Slots \union Records
    /\ Nobody \notin Calls
    /\ Absent # Cleared /\ Absent \notin Plans /\ Cleared \notin Values \union Plans
    /\ {Absent, Cleared} \intersect Placed = {}
    /\ Points \intersect Gauged = {} /\ NoBasin \notin Basins
    /\ FirstFile \in [leaf : [Leaves -> UNION {LeafValues(l) : l \in Leaves}], notes : Seq(Notes)]
    /\ \A l \in Leaves : FirstFile.leaf[l] \in LeafValues(l)
    /\ FirstOutline \in Gauged \union {NoBasin}
    /\ Created \in BOOLEAN /\ ~Created => FirstFile = Empty
    /\ MaxEdits \in Nat /\ NoteLimit \in Nat

\* What a call knows of the file it would replace, when it is not a stamp.
FreshObject == -1       \* _NO_MERGE: built, not loaded
StampUnknown == -2      \* _FORCE_MERGE: merged over someone else's save

VARIABLES
    file,       \* the session file; Empty before it exists
    stamp,      \* saves so far: the file's stat stamp
    outline,    \* the basin whose geometry is in <session_id>.geojson, or NoBasin
    guard,      \* the call holding the write guard, or Nobody
    call,       \* [Calls -> the call in progress: its session object and where it is]
    cancels     \* calls given up, counted against MaxCancels

vars == <<file, stamp, outline, guard, call, cancels>>

Exists == Created \/ stamp > 0

NoCall == [pc |-> "none", guarded |-> FALSE, mem |-> Empty, base |-> Empty,
           seen |-> FreshObject, out |-> Empty, edited |-> {}, left |-> MaxEdits,
           target |-> NoBasin, geom |-> NoBasin, cancelled |-> FALSE]

IsContent(f) ==
    /\ DOMAIN f.leaf = Leaves
    /\ \A l \in Leaves : f.leaf[l] \in LeafValues(l)
    /\ f.notes \in Seq(Notes)

\* Types of the file, of what a call holds of it, and of who holds the guard.
TypeOK ==
    /\ IsContent(file)
    /\ stamp \in Nat /\ cancels \in Nat
    /\ outline \in Gauged \union {NoBasin}
    /\ guard \in Calls \union {Nobody}
    /\ DOMAIN call = Calls
    /\ \A c \in Calls :
          /\ call[c].pc \in {"none", "fetching", "drawn", "open", "saving", "writing"}
          /\ IsContent(call[c].mem) /\ IsContent(call[c].base) /\ IsContent(call[c].out)
          /\ call[c].seen \in -2 .. stamp
          /\ call[c].edited \subseteq Leaves \union Notes
          /\ call[c].left \in 0 .. MaxEdits
          /\ {call[c].target, call[c].geom} \subseteq Basins \union {NoBasin}
          /\ {call[c].guarded, call[c].cancelled} \subseteq BOOLEAN

-----------------------------------------------------------------------------
(* Basin identity *)

\* basin_identity: the digest stamped on the watershed when it was stored.
BasinOf(f) == IF f.leaf["watershed"] \in Placed THEN f.leaf["watershed"].stamp ELSE NoBasin

\* The geometry a delineated basin's outline file holds now.
OutlineOf(b) == IF b \in Gauged THEN outline ELSE b

\* _basin_digest_of: the digest of the outline file the watershed points at.
FileDigest(f) ==
    IF f.leaf["watershed"] \in Placed THEN OutlineOf(f.leaf["watershed"].of) ELSE NoBasin

Without(f, slots) ==
    [f EXCEPT !.leaf = [l \in Leaves |-> IF l \in slots THEN Absent ELSE @[l]]]

\* Altered form: a merge keeps every result.
KeepAllResults(base, merged) == merged

\* A merge that changed the basin drops every result not stamped with the new one.
ApplyBasinChange(base, merged) ==
    LET prev == FileDigest(base)
        new  == FileDigest(merged)
    IN  IF NoBasin \in {prev, new} \/ prev = new
          THEN merged
          ELSE Without(merged, {s \in Slots : merged.leaf[s] \in Placed /\ merged.leaf[s].stamp # new})

\* put_result("watershed"): stamped with what its outline file holds; results of
\* another basin go, and every result goes when it replaces another basin.
PutWatershed(f, b) ==
    LET new     == OutlineOf(b)
        changed == BasinOf(f) \notin {NoBasin, new}
        stale   == {s \in Slots : /\ f.leaf[s] \in Placed
                                  /\ changed \/ f.leaf[s].stamp \notin {NoBasin, new}}
    IN  [Without(f, stale) EXCEPT !.leaf["watershed"] = [of |-> b, stamp |-> new]]

\* A result carries the object's basin, or none when it was computed from a slot
\* that cannot be tied to one.
Stamps(f, s) ==
    {BasinOf(f)} \union
        {NoBasin : t \in {u \in Slots \ {s} : f.leaf[u] \in Placed /\ f.leaf[u].stamp = NoBasin}}

-----------------------------------------------------------------------------
(* The three-way merge *)

\* Altered form: a deleted leaf is written as None.
MergeLeafNulled(base, ours, theirs) ==
    IF ours = Absent /\ theirs = base THEN Cleared
    ELSE IF ours # base /\ (theirs = base \/ ours # Absent) THEN ours ELSE theirs

\* _merge3 on one leaf: ours where only we changed it or where both did, except
\* that our deletion yields to their change.  An absent value reads as None.
MergeLeaf(base, ours, theirs) ==
    LET b == IF base = Absent /\ Absent \notin {ours, theirs} THEN Cleared ELSE base
    IN  IF ours # b /\ (theirs = b \/ ours # Absent) THEN ours ELSE theirs

\* The members of a list that are not in S, in their order: a comprehension over a list.
Outside(s, S) ==
    LET rest[i \in 0 .. Len(s)] ==
            IF i = 0 THEN << >>
            ELSE IF s[i] \in S THEN rest[i - 1]
            ELSE Append(rest[i - 1], s[i])
    IN  rest[Len(s)]

\* Altered form: their list is taken whole.
MergeNotesTheirs(base, ours, theirs) == IF theirs = base THEN ours ELSE theirs

\* _merge3 on a list: theirs without what we removed, then what we added.
MergeNotes(base, ours, theirs) ==
    IF theirs = base THEN ours
    ELSE IF ours \in {base, theirs} THEN theirs
    ELSE Outside(theirs, ToSet(base) \ ToSet(ours))
            \o Outside(ours, ToSet(base) \union ToSet(theirs))

Merge(base, ours, theirs) ==
    [leaf  |-> [l \in Leaves |-> MergeLeaf(base.leaf[l], ours.leaf[l], theirs.leaf[l])],
     notes |-> MergeNotes(base.notes, ours.notes, theirs.notes)]

\* _is_protected: a locked record both sides changed is never replaced.
Conflict(base, ours, theirs) ==
    /\ theirs.leaf["plan"] \notin {base.leaf["plan"], ours.leaf["plan"], Absent}
    /\ ours.leaf["plan"] \notin {base.leaf["plan"], Absent}

-----------------------------------------------------------------------------
(* Starting a call *)

Init ==
    /\ file = FirstFile
    /\ stamp = 0
    /\ outline = FirstOutline
    /\ guard = Nobody
    /\ call = [c \in Calls |-> NoCall]
    /\ cancels = 0

\* HydroSession.load: no file gives a fresh object, as the constructor does.
Loaded(k) ==
    IF Exists
      THEN [k EXCEPT !.pc = "open", !.mem = file, !.base = file, !.seen = stamp]
      ELSE [k EXCEPT !.pc = "open"]

\* A tool loads the study; start_session also opens one that has no file.
Open(c) ==
    /\ call[c].pc = "none"
    /\ call' = [call EXCEPT ![c] = Loaded(NoCall)]
    /\ UNCHANGED <<file, stamp, outline, guard, cancels>>

\* _serialized_study: the guard is taken before the load and kept until return.
OpenGuarded(c) ==
    /\ call[c].pc = "none"
    /\ Exists
    /\ guard = Nobody
    /\ guard' = c
    /\ call' = [call EXCEPT ![c] = [Loaded(NoCall) EXCEPT !.guarded = TRUE]]
    /\ UNCHANGED <<file, stamp, outline, cancels>>

\* A delineation starts; for a gauge only while the study holds no watershed.
Delineate(c, b) ==
    /\ call[c].pc = "none"
    /\ b \in Gauged => file.leaf["watershed"] \notin Placed
    /\ call' = [call EXCEPT ![c] = [NoCall EXCEPT !.pc = "fetching", !.target = b]]
    /\ UNCHANGED <<file, stamp, outline, guard, cancels>>

\* The geometry arrives and is written to its outline file.
WriteOutline(c) ==
    /\ call[c].pc = "fetching"
    /\ outline' = IF call[c].target \in Gauged THEN call[c].target ELSE outline
    /\ call' = [call EXCEPT ![c].pc = "drawn"]
    /\ UNCHANGED <<file, stamp, guard, cancels>>

\* _session_store: a fresh load takes the watershed; its save comes next.
StoreWatershed(c) ==
    /\ call[c].pc = "drawn"
    /\ LET k == Loaded(call[c])
       IN  call' = [call EXCEPT ![c] =
                      [k EXCEPT !.mem = PutWatershed(@, k.target), !.left = 0,
                                !.edited = {"watershed"} \union Slots]]
    /\ UNCHANGED <<file, stamp, outline, guard, cancels>>

-----------------------------------------------------------------------------
(* Work on the session object *)

\* The call's object becomes mem, having changed what edited names.
Edit(c, mem, edited) ==
    /\ call[c].pc = "open" /\ call[c].left > 0
    /\ call' = [call EXCEPT ![c].mem = mem, ![c].left = @ - 1, ![c].edited = @ \union edited]
    /\ UNCHANGED <<file, stamp, outline, guard, cancels>>

SetRecord(c, r, v) == Edit(c, [call[c].mem EXCEPT !.leaf[r] = v], {r})

\* drop_slot, as clear_session does for index slots.
DropRecord(c, r) ==
    /\ call[c].mem.leaf[r] # Absent
    /\ Edit(c, [call[c].mem EXCEPT !.leaf[r] = Absent], {r})

\* clear_session on one of the common slots: the value becomes None.
ClearSlot(c, l) ==
    /\ ~call[c].guarded
    /\ call[c].mem.leaf[l] \in Placed
    /\ Edit(c, [call[c].mem EXCEPT !.leaf[l] = Cleared], {l})

\* _get_session_geometry: a second load, then the outline file it points at.
ReadGeometry(c) ==
    /\ call[c].pc = "open" /\ ~call[c].guarded /\ call[c].left > 0
    /\ file.leaf["watershed"] \in Placed
    /\ call' = [call EXCEPT ![c].geom = OutlineOf(file.leaf["watershed"].of)]
    /\ UNCHANGED <<file, stamp, outline, guard, cancels>>

\* put_result for a result computed from that geometry.
SetResult(c, s) ==
    /\ call[c].geom # NoBasin
    /\ \E st \in Stamps(call[c].mem, s) :
          Edit(c, [call[c].mem EXCEPT !.leaf[s] = [of |-> call[c].geom, stamp |-> st]], {s})

\* add_note: a repeat of the last note is refused, the oldest goes at the limit.
AddNote(c, n) ==
    /\ ~call[c].guarded /\ call[c].seen # FreshObject
    /\ LET notes == call[c].mem.notes
           room  == IF Len(notes) >= NoteLimit
                      THEN SubSeq(notes, Len(notes) - NoteLimit + 2, Len(notes))
                      ELSE notes
       IN  /\ notes # << >> => Last(notes) # n
           /\ Edit(c, [call[c].mem EXCEPT !.notes = Append(room, n)],
                   {n} \union (ToSet(notes) \ ToSet(room)))

\* Altered form: the plan is locked without looking for a locked one.
RegisterPlanUnchecked(c, p) ==
    /\ call[c].guarded
    /\ Edit(c, [call[c].mem EXCEPT !.leaf["plan"] = p], {"plan"})

\* register_research_plan, under the guard: refused when a plan is locked.
RegisterPlan(c, p) ==
    /\ call[c].guarded
    /\ call[c].mem.leaf["plan"] = Absent
    /\ Edit(c, [call[c].mem EXCEPT !.leaf["plan"] = p], {"plan"})

-----------------------------------------------------------------------------
(* HydroSession.save *)

\* Altered form: the guard stays taken.
EndedHolding(c) ==
    /\ call' = [call EXCEPT ![c] = NoCall]
    /\ UNCHANGED guard

\* The call is over: its object is gone and its guard released.
Ended(c) ==
    /\ call' = [call EXCEPT ![c] = NoCall]
    /\ guard' = IF guard = c THEN Nobody ELSE guard

\* check_cancelled, then on to the guard; a cancelled call stops here.  A ledger
\* tool saves only what it changed.
BeginSave(c) ==
    /\ call[c].pc = "open"
    /\ stamp < MaxSaves
    /\ call[c].guarded => call[c].edited # {}
    /\ IF call[c].cancelled
         THEN Ended(c)
         ELSE /\ call' = [call EXCEPT ![c].pc = "saving"]
              /\ UNCHANGED guard
    /\ UNCHANGED <<file, stamp, outline, cancels>>

Overtaken(c) == call[c].seen \notin {FreshObject, stamp}

\* The payload: our own state, merged over the file if it changed since.
Payload(c) ==
    IF Overtaken(c)
      THEN ApplyBasinChange(call[c].base, Merge(call[c].base, call[c].mem, file))
      ELSE call[c].mem

\* Altered form: the file is compared and merged without the guard.
CompareUnguarded(c) ==
    /\ call[c].pc = "saving"
    /\ call' = [call EXCEPT ![c].pc = "writing", ![c].out = Payload(c)]
    /\ UNCHANGED <<file, stamp, outline, guard, cancels>>

\* Under the guard: compare stamps, read and merge, or raise SESSION_CONFLICT.
Compare(c) ==
    /\ call[c].pc = "saving"
    /\ guard \in {Nobody, c}
    /\ IF Overtaken(c) /\ Conflict(call[c].base, call[c].mem, file)
         THEN Ended(c)
         ELSE /\ guard' = c
              /\ call' = [call EXCEPT ![c].pc = "writing", ![c].out = Payload(c)]
    /\ UNCHANGED <<file, stamp, outline, cancels>>

\* Altered form: after a merge the object takes the merged text as its baseline.
ReplaceOnMerged(c) ==
    /\ call[c].pc = "writing"
    /\ file' = call[c].out
    /\ stamp' = stamp + 1
    /\ call' = [call EXCEPT ![c].pc = "open", ![c].base = call[c].out, ![c].edited = {},
                            ![c].seen = IF Overtaken(c) THEN StampUnknown ELSE stamp']
    /\ guard' = IF call[c].guarded THEN guard ELSE Nobody
    /\ UNCHANGED <<outline, cancels>>

\* os.replace, and what the object will compare with at its next save: its own
\* state, merging again if this save merged.
Replace(c) ==
    /\ call[c].pc = "writing"
    /\ file' = call[c].out
    /\ stamp' = stamp + 1
    /\ call' = [call EXCEPT ![c].pc = "open", ![c].base = call[c].mem, ![c].edited = {},
                            ![c].seen = IF Overtaken(c) THEN StampUnknown ELSE stamp']
    /\ guard' = IF call[c].guarded THEN guard ELSE Nobody
    /\ UNCHANGED <<outline, cancels>>

\* SESSION_BUSY: the guard was not free in time, the call's result is not saved.
GiveUp(c) ==
    /\ call[c].pc = "saving"
    /\ guard \notin {Nobody, c}
    /\ Ended(c)
    /\ UNCHANGED <<file, stamp, outline, cancels>>

Return(c) ==
    /\ call[c].pc = "open"
    /\ Ended(c)
    /\ UNCHANGED <<file, stamp, outline, cancels>>

\* The tool raises or its process dies; the kernel frees the lock.
Fail(c) ==
    /\ call[c].pc \in {"fetching", "drawn", "saving", "writing"}
    /\ Ended(c)
    /\ UNCHANGED <<file, stamp, outline, cancels>>

\* The client gives up on the call: a flag the worker polls.
Cancel(c) ==
    /\ call[c].pc # "none" /\ ~call[c].cancelled
    /\ cancels < MaxCancels
    /\ cancels' = cancels + 1
    /\ call' = [call EXCEPT ![c].cancelled = TRUE]
    /\ UNCHANGED <<file, stamp, outline, guard>>

-----------------------------------------------------------------------------
Start(c) == Open(c) \/ OpenGuarded(c) \/ (\E b \in Basins : Delineate(c, b))

Work(c) ==
    \/ WriteOutline(c) \/ StoreWatershed(c) \/ ReadGeometry(c)
    \/ \E r \in Records, v \in Values : SetRecord(c, r, v)
    \/ \E r \in Records \intersect Clearable : DropRecord(c, r)
    \/ \E l \in Clearable \ Records : ClearSlot(c, l)
    \/ \E s \in Slots : SetResult(c, s)
    \/ \E n \in Notes : AddNote(c, n)
    \/ \E p \in Plans : RegisterPlan(c, p)

SaveStep(c) == Compare(c) \/ Replace(c) \/ GiveUp(c)

Next == \E c \in Calls :
    Start(c) \/ Work(c) \/ BeginSave(c) \/ SaveStep(c) \/ Return(c) \/ Fail(c) \/ Cancel(c)

Spec == Init /\ [][Next]_vars

\* A save under way goes on, and a ledger tool, which does only local work,
\* returns; no tool has to save or to be called.
FairSpec == Spec /\ \A c \in Calls :
    WF_vars(SaveStep(c)) /\ WF_vars(call[c].guarded /\ Return(c))

-----------------------------------------------------------------------------
(* Properties *)

\* The step in which c's save replaces the file.
Saves(c) == call[c].pc = "writing" /\ stamp' # stamp

\* Whether c's object was loaded from a file.
WasLoaded(c) == call[c].seen # FreshObject

OwnLeavesOnly(c) ==
    \A l \in Leaves \ call[c].edited :
        file'.leaf[l] # file.leaf[l] => l \in Slots /\ file'.leaf[l] = Absent
OwnNotesOnly(c) ==
    (ToSet(file.notes) \ ToSet(file'.notes)) \union (ToSet(file'.notes) \ ToSet(file.notes))
        \subseteq call[c].edited

\* A save changes only what its call changed since its last save, whatever other
\* calls saved meanwhile and however often this one saves: no call reverts or
\* drops another's leaf or note (store.py:897-899, 2049-2053).  A result may
\* also go because the basin changed.
OwnEditsOnly ==
    [][\A c \in Calls : Saves(c) /\ WasLoaded(c) => OwnLeavesOnly(c) /\ OwnNotesOnly(c)]_vars

LeavesArrive(c) ==
    \A l \in Leaves \ Slots :
        call[c].mem.leaf[l] \notin {Absent, call[c].base.leaf[l]} =>
            file'.leaf[l] = call[c].mem.leaf[l]
NotesArrive(c) ==
    ToSet(call[c].mem.notes) \ ToSet(call[c].base.notes) \subseteq ToSet(file'.notes)

\* What a call changed reaches the file when it saves: its value wins on a leaf
\* both sides changed, and a note it had not loaded arrives (store.py:897-899).
\* A deletion yields to a change, results to a basin change.
EditsArrive == [][\A c \in Calls : Saves(c) => LeavesArrive(c) /\ NotesArrive(c)]_vars

\* While a ledger tool runs nobody else's save comes in: what it decided on is
\* what the file still holds (tools_ledger.py:43-49).  ClaimLedger rests on this.
GuardedUndisturbed ==
    \A c \in Calls : call[c].guarded =>
        guard = c /\ call[c].seen = stamp /\ call[c].base = file

\* A locked plan stays as it was locked, through merges, second registrations and
\* saves of objects that never saw it (store.py:1040).
PlanIsFinal ==
    [][file.leaf["plan"] # Absent =>
          file'.leaf["plan"] = file.leaf["plan"]]_vars

\* The guard always comes back, so SESSION_BUSY is worth a retry (store.py:900-901, 932).
GuardComesBack == \A c \in Calls : guard = c ~> guard # c

\* No result of one basin stays in the file beside the watershed of another
\* (store.py:1116-1117).
OneBasin ==
    BasinOf(file) # NoBasin =>
        \A s \in Slots : file.leaf[s] \in Placed =>
            file.leaf[s].stamp \in {NoBasin, BasinOf(file)}

\* A result the file would serve as verified for its watershed was computed for
\* that watershed's geometry (basin_identity.py:3-4).
ServedForItsBasin ==
    BasinOf(file) # NoBasin =>
        \A s \in Slots : file.leaf[s] \in Placed /\ file.leaf[s].stamp = BasinOf(file) =>
            file.leaf[s].of = BasinOf(file)
=============================================================================
