---------------------------- MODULE StudyFile_proofs ----------------------------
(***************************************************************************)
(* Proofs about StudyFile: a ledger tool is undisturbed while it holds the  *)
(* guard; a locked plan stays locked in a study that had a file; a save      *)
(* changes what its call changed and nothing else, of the leaves and of the  *)
(* notes; no result stays beside another basin's watershed in a study that   *)
(* was delineated.                                                         *)
(***************************************************************************)
EXTENDS StudyFile, TLAPS, WellFoundedInduction

-----------------------------------------------------------------------------
(* The shape of session objects *)

IsFile(f) == f = [leaf |-> [l \in Leaves |-> f.leaf[l]], notes |-> f.notes]

Fields == {"pc", "guarded", "mem", "base", "seen", "out", "edited", "left",
           "target", "geom", "cancelled"}

IsCall(k) ==
    /\ k = [f \in Fields |-> k[f]]
    /\ IsFile(k.mem) /\ IsFile(k.base) /\ IsFile(k.out)
    /\ k.guarded \in BOOLEAN /\ k.seen \in Int

Shape ==
    /\ IsFile(file)
    /\ call = [c \in Calls |-> call[c]]
    /\ \A c \in Calls : IsCall(call[c])
    /\ stamp \in Nat

LEMMA EmptyIsFile == IsFile(Empty)
BY DEF IsFile, Empty

LEMMA NoCallIsCall == IsCall(NoCall)
<1>1. NoCall = [f \in Fields |-> NoCall[f]]
  BY DEF NoCall, Fields
<1>2. IsFile(NoCall.mem) /\ IsFile(NoCall.base) /\ IsFile(NoCall.out)
  BY EmptyIsFile DEF NoCall
<1>3. NoCall.guarded \in BOOLEAN /\ NoCall.seen \in Int
  BY DEF NoCall, FreshObject
<1> QED
  BY <1>1, <1>2, <1>3 DEF IsCall

LEMMA WithoutIsFile ==
  ASSUME NEW f, IsFile(f), NEW slots
  PROVE  /\ IsFile(Without(f, slots))
         /\ \A l \in Leaves \ slots : Without(f, slots).leaf[l] = f.leaf[l]
BY DEF IsFile, Without

LEMMA LeafIsFile ==
  ASSUME NEW f, IsFile(f), NEW x \in Leaves, NEW v
  PROVE  /\ IsFile([f EXCEPT !.leaf[x] = v])
         /\ \A l \in Leaves \ {x} : [f EXCEPT !.leaf[x] = v].leaf[l] = f.leaf[l]
BY DEF IsFile

LEMMA NotesIsFile ==
  ASSUME NEW f, IsFile(f), NEW v
  PROVE  /\ IsFile([f EXCEPT !.notes = v])
         /\ [f EXCEPT !.notes = v].leaf = f.leaf
BY DEF IsFile

LEMMA MergeIsFile ==
  ASSUME NEW base, NEW ours, NEW theirs
  PROVE  IsFile(Merge(base, ours, theirs))
BY DEF IsFile, Merge

LEMMA PlanIsLeaf == "plan" \in Leaves /\ "plan" \notin Slots \union Records \union Clearable
                    /\ "watershed" \in Leaves /\ "plan" # "watershed"
BY LeavesAssumption DEF Leaves

\* A basin change touches results only.
LEMMA BasinChange ==
  ASSUME NEW base, NEW merged, IsFile(merged)
  PROVE  /\ IsFile(ApplyBasinChange(base, merged))
         /\ ApplyBasinChange(base, merged).leaf["plan"] = merged.leaf["plan"]
BY WithoutIsFile, PlanIsLeaf DEF ApplyBasinChange

LEMMA Watershed ==
  ASSUME NEW f, IsFile(f), NEW b
  PROVE  /\ IsFile(PutWatershed(f, b))
         /\ PutWatershed(f, b).leaf["plan"] = f.leaf["plan"]
BY WithoutIsFile, PlanIsLeaf, LeafIsFile DEF PutWatershed

\* A merge takes the plan from the file unless the object's own is another than
\* the one it loaded.
LEMMA MergedPlan ==
  ASSUME NEW base, NEW ours, NEW theirs, ours.leaf["plan"] = base.leaf["plan"]
  PROVE  Merge(base, ours, theirs).leaf["plan"] = theirs.leaf["plan"]
BY PlanIsLeaf DEF Merge, MergeLeaf
-----------------------------------------------------------------------------
(* The inductive invariant *)

\* Who writes holds the guard; a ledger tool holds it from load to return, and its
\* object is what it loaded plus its own changes.
OwnGuard(c) ==
    /\ call[c].pc = "writing" => guard = c
    /\ call[c].pc \in {"fetching", "drawn"} => ~call[c].guarded
    /\ call[c].guarded =>
          /\ guard = c /\ call[c].seen = stamp /\ call[c].base = file
          /\ call[c].pc = "writing" => call[c].out = call[c].mem

\* What an object and its payload hold of the plan: a ledger tool has the file's,
\* or its own where the file has none; any other call has what it loaded, and will
\* write what the file holds.
OwnPlan(c) ==
    /\ call[c].pc \in {"open", "saving", "writing"} => call[c].seen # FreshObject
    /\ call[c].seen =< stamp
    /\ call[c].guarded => file.leaf["plan"] \in {Absent, call[c].mem.leaf["plan"]}
    /\ ~call[c].guarded =>
          /\ call[c].mem.leaf["plan"] = call[c].base.leaf["plan"]
          /\ call[c].seen = stamp => call[c].base.leaf["plan"] = file.leaf["plan"]
          /\ call[c].pc = "writing" => call[c].out.leaf["plan"] = file.leaf["plan"]

StudyInv ==
    /\ Shape
    /\ \A c \in Calls : OwnGuard(c)
    /\ Created => \A c \in Calls : OwnPlan(c)

LEMMA InitStudyInv == Init => StudyInv
<1> SUFFICES ASSUME Init PROVE StudyInv
  OBVIOUS
<1>1. \A c \in Calls : call[c] = NoCall
  BY DEF Init
<1>2. IsFile(file)
  BY LeavesAssumption DEF Init, IsFile
<1>3. Shape
  BY <1>1, <1>2, NoCallIsCall DEF Shape, Init
<1>4. \A c \in Calls : OwnGuard(c)
  BY <1>1 DEF OwnGuard, NoCall
<1>5. \A c \in Calls : OwnPlan(c)
  BY <1>1 DEF OwnPlan, NoCall, Init, FreshObject
<1> QED
  BY <1>3, <1>4, <1>5 DEF StudyInv

\* A step that changes only one call's object and perhaps takes or frees the guard
\* nobody else holds keeps the invariant if it keeps that call's part.
Local(c) ==
    /\ call' = [call EXCEPT ![c] = call'[c]]
    /\ IsCall(call'[c])
    /\ UNCHANGED <<file, stamp>>
    /\ \A d \in Calls \ {c} : guard = d => guard' = d

LEMMA LocalStep ==
  ASSUME StudyInv, NEW c \in Calls, Local(c), OwnGuard(c)', Created => OwnPlan(c)'
  PROVE  StudyInv'
<1>1. \A d \in Calls \ {c} : call'[d] = call[d]
  BY DEF Local, StudyInv, Shape
<1>2. Shape'
  BY <1>1 DEF Local, StudyInv, Shape, IsFile
<1>3. \A d \in Calls : OwnGuard(d)'
  BY <1>1 DEF Local, StudyInv, OwnGuard
<1>4. Created => \A d \in Calls : OwnPlan(d)'
  BY <1>1 DEF Local, StudyInv, OwnPlan
<1> QED
  BY <1>2, <1>3, <1>4 DEF StudyInv

\* A call that is over holds nothing.
LEMMA EndedStep ==
  ASSUME StudyInv, NEW c \in Calls, Ended(c), UNCHANGED <<file, stamp>>
  PROVE  StudyInv'
<1>1. call'[c] = NoCall /\ Local(c)
  BY NoCallIsCall DEF Ended, Local, StudyInv, Shape
<1>2. OwnGuard(c)'
  BY <1>1 DEF OwnGuard, NoCall
<1>3. OwnPlan(c)'
  BY <1>1 DEF OwnPlan, NoCall, FreshObject, Local, StudyInv, Shape
<1> QED
  BY <1>1, <1>2, <1>3, LocalStep

-----------------------------------------------------------------------------
(* Starting a call *)

\* Loading: the object is the file, or empty when there is none.
LEMMA LoadedObject ==
  ASSUME Shape, NEW k, IsCall(k)
  PROVE  /\ IsCall(Loaded(k))
         /\ Loaded(k).pc = "open" /\ Loaded(k).guarded = k.guarded
         /\ Loaded(k).target = k.target
         /\ Exists => Loaded(k).mem = file /\ Loaded(k).base = file /\ Loaded(k).seen = stamp
<1>1. CASE Exists
  <2> DEFINE o == [k EXCEPT !.pc = "open", !.mem = file, !.base = file, !.seen = stamp]
  <2>1. k = [f \in Fields |-> k[f]]
    BY DEF IsCall
  <2>2. /\ o = [f \in Fields |-> o[f]]
        /\ o.pc = "open" /\ o.mem = file /\ o.base = file /\ o.seen = stamp
        /\ o.guarded = k.guarded /\ o.target = k.target /\ o.out = k.out
    BY <2>1 DEF Fields
  <2>3. Loaded(k) = o
    BY <1>1 DEF Loaded
  <2> HIDE DEF o
  <2>4. IsCall(o)
    BY <2>2 DEF IsCall, Shape
  <2> QED
    BY <2>2, <2>3, <2>4
<1>2. CASE ~Exists
  BY <1>2 DEF Shape, IsCall, Loaded, Fields
<1> QED
  BY <1>1, <1>2

LEMMA OpenStep ==
  ASSUME StudyInv, NEW c \in Calls, Open(c)
  PROVE  StudyInv'
<1>1. IsCall(NoCall) /\ ~NoCall.guarded
  BY NoCallIsCall DEF NoCall
<1>2. call'[c] = Loaded(NoCall) /\ Local(c)
  BY <1>1, LoadedObject DEF Open, Local, StudyInv, Shape
<1>3. OwnGuard(c)'
  BY <1>1, <1>2, LoadedObject DEF StudyInv, OwnGuard
<1>4. Created => OwnPlan(c)'
  BY <1>1, <1>2, LoadedObject DEF StudyInv, OwnPlan, Local, Shape, Exists, FreshObject
<1> QED
  BY <1>2, <1>3, <1>4, LocalStep

LEMMA OpenGuardedStep ==
  ASSUME StudyInv, NEW c \in Calls, OpenGuarded(c)
  PROVE  StudyInv'
<1>1. IsCall(NoCall)
  BY NoCallIsCall
<1> DEFINE k == [Loaded(NoCall) EXCEPT !.guarded = TRUE]
<1>2. /\ IsCall(k) /\ k.guarded /\ k.pc = "open"
      /\ k.mem = file /\ k.base = file /\ k.seen = stamp
  BY <1>1, LoadedObject DEF StudyInv, OpenGuarded, IsCall, Fields
<1>3. call'[c] = k /\ guard' = c /\ Local(c)
  BY <1>2, LeavesAssumption DEF OpenGuarded, Local, StudyInv, Shape
<1> HIDE DEF k
<1>4. OwnGuard(c)'
  BY <1>2, <1>3 DEF OwnGuard, Local
<1>5. OwnPlan(c)'
  BY <1>2, <1>3 DEF OwnPlan, Local, FreshObject, StudyInv, Shape
<1> QED
  BY <1>3, <1>4, <1>5, LocalStep

LEMMA DelineateStep ==
  ASSUME StudyInv, NEW c \in Calls, NEW b \in Basins, Delineate(c, b)
  PROVE  StudyInv'
<1> DEFINE k == [NoCall EXCEPT !.pc = "fetching", !.target = b]
<1>1. /\ IsCall(k) /\ ~k.guarded /\ k.pc = "fetching"
      /\ k.mem = Empty /\ k.base = Empty /\ k.seen = FreshObject
  BY NoCallIsCall DEF NoCall, IsCall, Fields
<1>2. call'[c] = k /\ Local(c)
  BY <1>1 DEF Delineate, Local, StudyInv, Shape
<1> HIDE DEF k
<1>3. OwnGuard(c)'
  BY <1>1, <1>2 DEF OwnGuard
<1>4. OwnPlan(c)'
  BY <1>1, <1>2 DEF OwnPlan, Local, FreshObject, StudyInv, Shape
<1> QED
  BY <1>2, <1>3, <1>4, LocalStep

LEMMA WriteOutlineStep ==
  ASSUME StudyInv, NEW c \in Calls, WriteOutline(c)
  PROVE  StudyInv'
<1>1. call'[c] = [call[c] EXCEPT !.pc = "drawn"] /\ Local(c)
  BY DEF WriteOutline, Local, StudyInv, Shape, IsCall, Fields
<1>2. OwnGuard(c)'
  BY <1>1 DEF OwnGuard, WriteOutline, Local, StudyInv, Shape, IsCall, Fields
<1>3. Created => OwnPlan(c)'
  BY <1>1 DEF OwnPlan, Local, WriteOutline, StudyInv, Shape, IsCall, Fields
<1> QED
  BY <1>1, <1>2, <1>3, LocalStep

\* A stored watershed is part of a freshly loaded object; the plan is untouched.
LEMMA StoreWatershedStep ==
  ASSUME StudyInv, NEW c \in Calls, StoreWatershed(c)
  PROVE  StudyInv'
<1> DEFINE k == Loaded(call[c])
           m == PutWatershed(k.mem, k.target)
<1>1. IsCall(k) /\ k.pc = "open" /\ k.guarded = call[c].guarded
  BY LoadedObject DEF StudyInv, Shape
<1>2. IsFile(m) /\ m.leaf["plan"] = k.mem.leaf["plan"]
  BY <1>1, Watershed DEF IsCall
<1>3. Exists => k.mem = file /\ k.base = file /\ k.seen = stamp
  BY LoadedObject DEF StudyInv, Shape
<1>4. call' = [call EXCEPT ![c] = [k EXCEPT !.mem = m, !.left = 0,
                                             !.edited = {"watershed"} \union Slots]]
  BY DEF StoreWatershed
<1> HIDE DEF k, m
<1>5. /\ call'[c].pc = k.pc /\ call'[c].guarded = k.guarded /\ call'[c].mem = m
      /\ call'[c].base = k.base /\ call'[c].seen = k.seen
      /\ IsCall(call'[c])
  BY <1>1, <1>2, <1>4 DEF StudyInv, Shape, IsCall, Fields
<1>6. Local(c)
  BY <1>4, <1>5 DEF Local, StoreWatershed, StudyInv, Shape
<1>7. ~call[c].guarded
  BY DEF StoreWatershed, StudyInv, OwnGuard
<1>8. OwnGuard(c)'
  BY <1>1, <1>5, <1>7 DEF OwnGuard
<1>9. Created => OwnPlan(c)'
  BY <1>1, <1>2, <1>3, <1>5, <1>6, <1>7 DEF OwnPlan, Local, Exists, FreshObject, StudyInv, Shape
<1> QED
  BY <1>6, <1>8, <1>9, LocalStep

-----------------------------------------------------------------------------
(* Work on the session object *)

\* An edit that leaves the plan alone, or writes one where there is none.
LEMMA EditStep ==
  ASSUME StudyInv, NEW c \in Calls, NEW mem, NEW edited, Edit(c, mem, edited), IsFile(mem),
         \/ mem.leaf["plan"] = call[c].mem.leaf["plan"]
         \/ call[c].guarded /\ call[c].mem.leaf["plan"] = Absent
  PROVE  StudyInv'
<1> DEFINE k == [call[c] EXCEPT !.mem = mem, !.left = @ - 1, !.edited = @ \union edited]
<1>1. call' = [call EXCEPT ![c] = k] /\ call[c].pc = "open"
  BY DEF Edit
<1>2. call[c] = [f \in Fields |-> call[c][f]]
  BY DEF StudyInv, Shape, IsCall
<1>3. /\ k = [f \in Fields |-> k[f]]
      /\ k.pc = "open" /\ k.mem = mem /\ k.base = call[c].base /\ k.seen = call[c].seen
      /\ k.out = call[c].out /\ k.guarded = call[c].guarded
  BY <1>1, <1>2 DEF Fields
<1> HIDE DEF k
<1>4. call'[c] = k /\ Local(c)
  BY <1>1, <1>3 DEF Edit, Local, StudyInv, Shape, IsCall
<1>5. OwnGuard(c)'
  BY <1>3, <1>4 DEF Edit, StudyInv, OwnGuard
<1>6. Created => OwnPlan(c)'
  BY <1>1, <1>3, <1>4 DEF Edit, StudyInv, OwnPlan
<1> QED
  BY <1>4, <1>5, <1>6, LocalStep

LEMMA SetLeafStep ==
  ASSUME StudyInv, NEW c \in Calls, NEW l \in Leaves, NEW v, NEW edited,
         Edit(c, [call[c].mem EXCEPT !.leaf[l] = v], edited),
         \/ l # "plan"
         \/ call[c].guarded /\ call[c].mem.leaf["plan"] = Absent
  PROVE  StudyInv'
<1>1. IsFile(call[c].mem)
  BY DEF StudyInv, Shape, IsCall
<1> DEFINE m == [call[c].mem EXCEPT !.leaf[l] = v]
<1>2. IsFile(m) /\ (l # "plan" => m.leaf["plan"] = call[c].mem.leaf["plan"])
  BY <1>1, LeafIsFile, PlanIsLeaf
<1>3. Edit(c, m, edited)
  OBVIOUS
<1> HIDE DEF m
<1> QED
  BY <1>2, <1>3, EditStep

LEMMA AddNoteStep ==
  ASSUME StudyInv, NEW c \in Calls, NEW n \in Notes, AddNote(c, n)
  PROVE  StudyInv'
<1>1. PICK ns, ed : Edit(c, [call[c].mem EXCEPT !.notes = ns], ed)
  BY DEF AddNote
<1>2. IsFile(call[c].mem)
  BY DEF StudyInv, Shape, IsCall
<1> DEFINE m == [call[c].mem EXCEPT !.notes = ns]
<1>3. IsFile(m) /\ m.leaf = call[c].mem.leaf
  BY <1>2, NotesIsFile
<1>4. Edit(c, m, ed)
  BY <1>1
<1> HIDE DEF m
<1> QED
  BY <1>3, <1>4, EditStep

LEMMA ReadGeometryStep ==
  ASSUME StudyInv, NEW c \in Calls, ReadGeometry(c)
  PROVE  StudyInv'
<1> DEFINE k == [call[c] EXCEPT !.geom = OutlineOf(file.leaf["watershed"].of)]
<1>1. call' = [call EXCEPT ![c] = k]
  BY DEF ReadGeometry
<1>2. call[c] = [f \in Fields |-> call[c][f]]
  BY DEF StudyInv, Shape, IsCall
<1>3. /\ k = [f \in Fields |-> k[f]]
      /\ k.pc = call[c].pc /\ k.mem = call[c].mem /\ k.base = call[c].base
      /\ k.seen = call[c].seen /\ k.out = call[c].out /\ k.guarded = call[c].guarded
  BY <1>2 DEF Fields
<1> HIDE DEF k
<1>4. call'[c] = k /\ Local(c)
  BY <1>1, <1>3 DEF ReadGeometry, Local, StudyInv, Shape, IsCall
<1>5. OwnGuard(c)'
  BY <1>3, <1>4 DEF ReadGeometry, StudyInv, OwnGuard
<1>6. Created => OwnPlan(c)'
  BY <1>1, <1>3, <1>4 DEF ReadGeometry, StudyInv, OwnPlan
<1> QED
  BY <1>4, <1>5, <1>6, LocalStep

LEMMA CancelStep ==
  ASSUME StudyInv, NEW c \in Calls, Cancel(c)
  PROVE  StudyInv'
<1> DEFINE k == [call[c] EXCEPT !.cancelled = TRUE]
<1>1. call' = [call EXCEPT ![c] = k]
  BY DEF Cancel
<1>2. call[c] = [f \in Fields |-> call[c][f]]
  BY DEF StudyInv, Shape, IsCall
<1>3. /\ k = [f \in Fields |-> k[f]]
      /\ k.pc = call[c].pc /\ k.mem = call[c].mem /\ k.base = call[c].base
      /\ k.seen = call[c].seen /\ k.out = call[c].out /\ k.guarded = call[c].guarded
  BY <1>2 DEF Fields
<1> HIDE DEF k
<1>4. call'[c] = k /\ Local(c)
  BY <1>1, <1>3 DEF Cancel, Local, StudyInv, Shape, IsCall
<1>5. OwnGuard(c)'
  BY <1>3, <1>4 DEF Cancel, StudyInv, OwnGuard
<1>6. Created => OwnPlan(c)'
  BY <1>1, <1>3, <1>4 DEF Cancel, StudyInv, OwnPlan
<1> QED
  BY <1>4, <1>5, <1>6, LocalStep

LEMMA WorkStep ==
  ASSUME StudyInv, NEW c \in Calls, Work(c)
  PROVE  StudyInv'
<1>1. CASE WriteOutline(c) \/ StoreWatershed(c) \/ ReadGeometry(c)
  BY <1>1, WriteOutlineStep, StoreWatershedStep, ReadGeometryStep
<1>2. CASE \E r \in Records, v \in Values : SetRecord(c, r, v)
  BY <1>2, SetLeafStep, PlanIsLeaf DEF SetRecord, Leaves
<1>3. CASE \E r \in Records \intersect Clearable : DropRecord(c, r)
  BY <1>3, SetLeafStep, PlanIsLeaf DEF DropRecord, Leaves
<1>4. CASE \E l \in Clearable \ Records : ClearSlot(c, l)
  BY <1>4, SetLeafStep, PlanIsLeaf, LeavesAssumption DEF ClearSlot, Leaves
<1>5. CASE \E s \in Slots : SetResult(c, s)
  BY <1>5, SetLeafStep, PlanIsLeaf DEF SetResult, Leaves
<1>6. CASE \E n \in Notes : AddNote(c, n)
  BY <1>6, AddNoteStep
<1>7. CASE \E p \in Plans : RegisterPlan(c, p)
  BY <1>7, SetLeafStep, PlanIsLeaf DEF RegisterPlan
<1> QED
  BY <1>1, <1>2, <1>3, <1>4, <1>5, <1>6, <1>7 DEF Work

-----------------------------------------------------------------------------
(* Saving *)

LEMMA BeginSaveStep ==
  ASSUME StudyInv, NEW c \in Calls, BeginSave(c)
  PROVE  StudyInv'
<1>1. CASE call[c].cancelled
  BY <1>1, EndedStep DEF BeginSave
<1>2. CASE ~call[c].cancelled
  <2> DEFINE k == [call[c] EXCEPT !.pc = "saving"]
  <2>1. call' = [call EXCEPT ![c] = k] /\ call[c].pc = "open" /\ UNCHANGED <<file, stamp, guard>>
    BY <1>2 DEF BeginSave
  <2>2. call[c] = [f \in Fields |-> call[c][f]]
    BY DEF StudyInv, Shape, IsCall
  <2>3. /\ k = [f \in Fields |-> k[f]]
        /\ k.pc = "saving" /\ k.mem = call[c].mem /\ k.base = call[c].base
        /\ k.seen = call[c].seen /\ k.out = call[c].out /\ k.guarded = call[c].guarded
    BY <2>2 DEF Fields
  <2> HIDE DEF k
  <2>4. call'[c] = k /\ Local(c)
    BY <2>1, <2>3 DEF Local, StudyInv, Shape, IsCall
  <2>5. OwnGuard(c)'
    BY <2>1, <2>3, <2>4 DEF StudyInv, OwnGuard
  <2>6. Created => OwnPlan(c)'
    BY <2>1, <2>3, <2>4 DEF StudyInv, OwnPlan
  <2> QED
    BY <2>4, <2>5, <2>6, LocalStep
<1> QED
  BY <1>1, <1>2

\* What a save will write: a ledger tool's own object, any other call the plan
\* the file has.
LEMMA PayloadPlan ==
  ASSUME StudyInv, NEW c \in Calls, call[c].pc = "saving"
  PROVE  /\ IsFile(Payload(c))
         /\ call[c].guarded => Payload(c) = call[c].mem
         /\ Created /\ ~call[c].guarded => Payload(c).leaf["plan"] = file.leaf["plan"]
<1> DEFINE m == Merge(call[c].base, call[c].mem, file)
<1>1. CASE Overtaken(c)
  <2>1. IsFile(m)
    BY MergeIsFile
  <2>2. Payload(c) = ApplyBasinChange(call[c].base, m)
    BY <1>1 DEF Payload
  <2>3. ~call[c].guarded
    BY <1>1 DEF Overtaken, StudyInv, OwnGuard
  <2>4. Created => m.leaf["plan"] = file.leaf["plan"]
    BY <2>3, MergedPlan DEF StudyInv, OwnPlan
  <2> HIDE DEF m
  <2> QED
    BY <2>1, <2>2, <2>3, <2>4, BasinChange
<1>2. CASE ~Overtaken(c)
  <2>1. Payload(c) = call[c].mem
    BY <1>2 DEF Payload
  <2>2. IsFile(call[c].mem)
    BY DEF StudyInv, Shape, IsCall
  <2>3. Created => call[c].seen = stamp
    BY <1>2 DEF Overtaken, StudyInv, OwnPlan
  <2> QED
    BY <2>1, <2>2, <2>3 DEF StudyInv, OwnPlan
<1> QED
  BY <1>1, <1>2

LEMMA CompareStep ==
  ASSUME StudyInv, NEW c \in Calls, Compare(c)
  PROVE  StudyInv'
<1>1. CASE Overtaken(c) /\ Conflict(call[c].base, call[c].mem, file)
  BY <1>1, EndedStep DEF Compare
<1>2. CASE ~(Overtaken(c) /\ Conflict(call[c].base, call[c].mem, file))
  <2> DEFINE o == Payload(c)
             k == [call[c] EXCEPT !.pc = "writing", !.out = o]
  <2>1. /\ call' = [call EXCEPT ![c] = k] /\ guard' = c
        /\ call[c].pc = "saving" /\ guard \in {Nobody, c} /\ UNCHANGED <<file, stamp>>
    BY <1>2 DEF Compare
  <2>2. call[c] = [f \in Fields |-> call[c][f]]
    BY DEF StudyInv, Shape, IsCall
  <2>3. /\ IsFile(o) /\ (call[c].guarded => o = call[c].mem)
        /\ Created /\ ~call[c].guarded => o.leaf["plan"] = file.leaf["plan"]
    BY <2>1, PayloadPlan
  <2> HIDE DEF o
  <2>4. /\ k = [f \in Fields |-> k[f]]
        /\ k.pc = "writing" /\ k.mem = call[c].mem /\ k.base = call[c].base
        /\ k.seen = call[c].seen /\ k.out = o /\ k.guarded = call[c].guarded
    BY <2>2 DEF Fields
  <2> HIDE DEF k
  <2>5. call'[c] = k /\ Local(c)
    BY <2>1, <2>3, <2>4, LeavesAssumption DEF Local, StudyInv, Shape, IsCall
  <2>6. OwnGuard(c)'
    BY <2>1, <2>3, <2>4, <2>5 DEF StudyInv, OwnGuard
  <2>7. Created => OwnPlan(c)'
    BY <2>1, <2>3, <2>4, <2>5 DEF StudyInv, OwnPlan
  <2> QED
    BY <2>5, <2>6, <2>7, LocalStep
<1> QED
  BY <1>1, <1>2

\* The writer holds the guard, so no other object belongs to a ledger tool or is
\* being written, and none is as new as the file that replaces the old one.
LEMMA ReplaceStep ==
  ASSUME StudyInv, NEW c \in Calls, Replace(c)
  PROVE  /\ StudyInv'
         /\ Created /\ file.leaf["plan"] # Absent => file'.leaf["plan"] = file.leaf["plan"]
<1> DEFINE st == IF Overtaken(c) THEN StampUnknown ELSE stamp'
           k == [call[c] EXCEPT !.pc = "open", !.base = call[c].mem, !.edited = {}, !.seen = st]
<1>1. /\ call' = [call EXCEPT ![c] = k]
      /\ call[c].pc = "writing" /\ file' = call[c].out /\ stamp' = stamp + 1
      /\ guard' = IF call[c].guarded THEN guard ELSE Nobody
  BY DEF Replace
<1>2. call[c] = [f \in Fields |-> call[c][f]]
  BY DEF StudyInv, Shape, IsCall
<1>3. st \in Int /\ stamp' \in Nat /\ st =< stamp' /\ st # FreshObject
  BY <1>1 DEF StudyInv, Shape, StampUnknown, FreshObject
<1>4. guard = c
  BY <1>1 DEF StudyInv, OwnGuard
<1>5. call[c].guarded => st = stamp' /\ call[c].out = call[c].mem
  BY <1>1 DEF Overtaken, StudyInv, OwnGuard
<1>6. ~Overtaken(c) => call[c].seen \in {FreshObject, stamp}
  BY DEF Overtaken
<1>7. st = stamp' => ~Overtaken(c)
  BY <1>3 DEF StampUnknown
<1> HIDE DEF st
<1>8. /\ k = [f \in Fields |-> k[f]]
      /\ k.pc = "open" /\ k.mem = call[c].mem /\ k.base = call[c].mem
      /\ k.seen = st /\ k.out = call[c].out /\ k.guarded = call[c].guarded
  BY <1>2 DEF Fields
<1> HIDE DEF k
<1>9. call'[c] = k /\ \A d \in Calls \ {c} : call'[d] = call[d]
  BY <1>1 DEF StudyInv, Shape
<1>10. \A d \in Calls \ {c} : call[d].pc # "writing" /\ ~call[d].guarded
  BY <1>4 DEF StudyInv, OwnGuard
<1>11. Shape'
  <2>1. IsFile(call[c].mem) /\ IsFile(call[c].out) /\ call[c].guarded \in BOOLEAN
    BY DEF StudyInv, Shape, IsCall
  <2>2. IsFile(file')
    BY <1>1, <2>1
  <2>3. IsCall(k)
    BY <1>3, <1>8, <2>1 DEF IsCall
  <2>4. call' = [d \in Calls |-> call'[d]]
    BY <1>1 DEF StudyInv, Shape
  <2>5. \A d \in Calls : IsCall(call'[d])
    BY <1>9, <2>3 DEF StudyInv, Shape
  <2> QED
    BY <1>3, <2>2, <2>4, <2>5 DEF Shape, IsCall, IsFile
<1>12. \A d \in Calls : OwnGuard(d)'
  BY <1>1, <1>4, <1>5, <1>8, <1>9, <1>10 DEF StudyInv, OwnGuard
<1>13. ASSUME Created PROVE OwnPlan(c)'
  <2>1. CASE call[c].guarded
    BY <1>1, <1>3, <1>5, <1>8, <1>9, <2>1 DEF OwnPlan
  <2>2. CASE ~call[c].guarded
    <3>1. st = stamp' => call[c].seen = stamp
      BY <1>1, <1>6, <1>7, <1>13 DEF StudyInv, OwnPlan
    <3>2. st = stamp' => call[c].mem.leaf["plan"] = file'.leaf["plan"]
      BY <1>1, <1>13, <2>2, <3>1 DEF StudyInv, OwnPlan
    <3> QED
      BY <1>3, <1>8, <1>9, <2>2, <3>2 DEF OwnPlan
  <2> QED
    BY <2>1, <2>2
<1>14. ASSUME Created, NEW d \in Calls \ {c} PROVE OwnPlan(d)'
  <2>1. call[d].seen \in Int /\ call[d].seen =< stamp /\ stamp \in Nat
    BY <1>14 DEF StudyInv, OwnPlan, Shape, IsCall
  <2>2. call'[d].seen =< stamp' /\ call'[d].seen # stamp'
    BY <1>1, <1>9, <2>1
  <2> QED
    BY <1>9, <1>10, <1>14, <2>2 DEF StudyInv, OwnPlan
<1>15. Created => (file.leaf["plan"] # Absent => file'.leaf["plan"] = file.leaf["plan"])
  BY <1>1, <1>5 DEF StudyInv, OwnPlan
<1> QED
  BY <1>11, <1>12, <1>13, <1>14, <1>15 DEF StudyInv

-----------------------------------------------------------------------------
(* Theorems *)

\* Every step keeps the invariant, and in a study that had a file a locked plan.
LEMMA NextStep ==
  ASSUME StudyInv, [Next]_vars
  PROVE  /\ StudyInv'
         /\ Created /\ file.leaf["plan"] # Absent => file'.leaf["plan"] = file.leaf["plan"]
<1>1. CASE UNCHANGED vars
  BY <1>1 DEF vars, StudyInv, Shape, IsFile, OwnGuard, OwnPlan
<1>2. ASSUME NEW c \in Calls, Start(c)
      PROVE  StudyInv' /\ file' = file
  BY <1>2, OpenStep, OpenGuardedStep, DelineateStep DEF Start, Open, OpenGuarded, Delineate
<1>3. ASSUME NEW c \in Calls, Work(c)
      PROVE  StudyInv' /\ file' = file
  <2>1. file' = file
    BY <1>3 DEF Work, WriteOutline, StoreWatershed, ReadGeometry, SetRecord, DropRecord,
                ClearSlot, SetResult, AddNote, RegisterPlan, Edit
  <2> QED
    BY <1>3, <2>1, WorkStep
<1>4. ASSUME NEW c \in Calls, BeginSave(c) \/ Compare(c) \/ Cancel(c)
      PROVE  StudyInv' /\ file' = file
  BY <1>4, BeginSaveStep, CompareStep, CancelStep DEF BeginSave, Compare, Cancel
<1>5. ASSUME NEW c \in Calls, GiveUp(c) \/ Return(c) \/ Fail(c)
      PROVE  StudyInv' /\ file' = file
  BY <1>5, EndedStep DEF GiveUp, Return, Fail
<1>6. ASSUME NEW c \in Calls, Replace(c)
      PROVE  /\ StudyInv'
             /\ Created /\ file.leaf["plan"] # Absent => file'.leaf["plan"] = file.leaf["plan"]
  BY <1>6, ReplaceStep
<1> QED
  BY <1>1, <1>2, <1>3, <1>4, <1>5, <1>6 DEF Next, SaveStep, vars

\* While a ledger tool runs, from load to return, nobody else's save comes in,
\* whatever the other calls do and die of (tools_ledger.py:43-49).
THEOREM LedgerToolsUndisturbed == Spec => []GuardedUndisturbed
<1>1. StudyInv => GuardedUndisturbed
  BY DEF StudyInv, OwnGuard, GuardedUndisturbed
<1> QED
  BY <1>1, InitStudyInv, NextStep, PTL DEF Spec

\* In a study that had a file before any of these calls, a plan once locked stays
\* as it was locked (store.py:1040).
THEOREM LockedPlanStays == Created => (Spec => PlanIsFinal)
<1> SUFFICES ASSUME Created PROVE Spec => PlanIsFinal
  OBVIOUS
<1>1. StudyInv /\ [Next]_vars =>
        [file.leaf["plan"] # Absent => file'.leaf["plan"] = file.leaf["plan"]]_vars
  BY NextStep
<1>2. StudyInv /\ [Next]_vars => StudyInv'
  BY NextStep
<1> QED
  BY <1>1, <1>2, InitStudyInv, PTL DEF Spec, PlanIsFinal

-----------------------------------------------------------------------------
(* What the steps do to a call's object *)

Active == {"open", "saving", "writing"}

Frame(c) == UNCHANGED <<file, stamp>> /\ \A d \in Calls \ {c} : call'[d] = call[d]

Kept(c) ==
    /\ call'[c].mem = call[c].mem /\ call'[c].base = call[c].base /\ call'[c].seen = call[c].seen
    /\ call'[c].out = call[c].out /\ call'[c].edited = call[c].edited /\ call'[c].left = call[c].left
    /\ call'[c].target = call[c].target

LEMMA EndShape ==
  ASSUME StudyInv, NEW c \in Calls,
         (BeginSave(c) /\ call[c].cancelled) \/ GiveUp(c) \/ Return(c) \/ Fail(c)
         \/ (Compare(c) /\ Overtaken(c) /\ Conflict(call[c].base, call[c].mem, file))
  PROVE  Frame(c) /\ call'[c] = NoCall /\ outline' = outline
<1>1. Ended(c) /\ UNCHANGED <<file, stamp, outline>>
  BY DEF BeginSave, GiveUp, Return, Fail, Compare
<1> QED
  BY <1>1 DEF Ended, Frame, StudyInv, Shape

LEMMA IdleShape ==
  ASSUME StudyInv, NEW c \in Calls,
         WriteOutline(c) \/ ReadGeometry(c) \/ Cancel(c) \/ (BeginSave(c) /\ ~call[c].cancelled)
  PROVE  /\ Frame(c) /\ Kept(c)
         /\ \/ call'[c].pc = call[c].pc
            \/ call[c].pc = "fetching" /\ call'[c].pc = "drawn"
            \/ call[c].pc = "open" /\ call'[c].pc = "saving"
<1>1. call[c] = [f \in Fields |-> call[c][f]]
  BY DEF StudyInv, Shape, IsCall
<1>2. CASE WriteOutline(c)
  BY <1>1, <1>2 DEF WriteOutline, Frame, Kept, StudyInv, Shape, Fields
<1>3. CASE ReadGeometry(c)
  BY <1>1, <1>3 DEF ReadGeometry, Frame, Kept, StudyInv, Shape, Fields
<1>4. CASE Cancel(c)
  BY <1>1, <1>4 DEF Cancel, Frame, Kept, StudyInv, Shape, Fields
<1>5. CASE BeginSave(c) /\ ~call[c].cancelled
  BY <1>1, <1>5 DEF BeginSave, Frame, Kept, StudyInv, Shape, Fields
<1> QED
  BY <1>2, <1>3, <1>4, <1>5

LEMMA DelineateShape ==
  ASSUME StudyInv, NEW c \in Calls, NEW b \in Basins, Delineate(c, b)
  PROVE  /\ Frame(c) /\ outline' = outline
         /\ call'[c].pc = "fetching" /\ call'[c].target = b
         /\ call'[c].mem = Empty /\ call'[c].base = Empty /\ call'[c].seen = FreshObject
         /\ call'[c].out = Empty /\ call'[c].edited = {}
<1>1. call' = [call EXCEPT ![c] = [NoCall EXCEPT !.pc = "fetching", !.target = b]]
  BY DEF Delineate
<1> QED
  BY <1>1 DEF Delineate, Frame, StudyInv, Shape, NoCall

LEMMA LoadShape ==
  ASSUME StudyInv, NEW c \in Calls, Open(c) \/ OpenGuarded(c)
  PROVE  /\ Frame(c) /\ outline' = outline
         /\ call'[c].pc = "open" /\ call'[c].mem = call'[c].base
         /\ call'[c].edited = {} /\ call'[c].out = Empty
         /\ Exists => call'[c].base = file /\ call'[c].seen = stamp
         /\ ~Exists => call'[c].base = Empty /\ call'[c].seen = FreshObject
<1> DEFINE k == Loaded(NoCall)
<1>1. /\ k = [f \in Fields |-> k[f]]
      /\ k.pc = "open" /\ k.mem = k.base /\ k.edited = {} /\ k.out = Empty
      /\ Exists => k.base = file /\ k.seen = stamp
      /\ ~Exists => k.base = Empty /\ k.seen = FreshObject
  BY DEF Loaded, NoCall, Fields
<1>2. \/ call' = [call EXCEPT ![c] = k]
      \/ call' = [call EXCEPT ![c] = [k EXCEPT !.guarded = TRUE]]
  BY DEF Open, OpenGuarded
<1>3. UNCHANGED <<file, stamp, outline>>
  BY DEF Open, OpenGuarded
<1> HIDE DEF k
<1> QED
  BY <1>1, <1>2, <1>3 DEF Frame, StudyInv, Shape, Fields

LEMMA StoreShape ==
  ASSUME StudyInv, NEW c \in Calls, StoreWatershed(c)
  PROVE  /\ Frame(c) /\ outline' = outline
         /\ call'[c].pc = "open" /\ call'[c].left = 0 /\ call'[c].edited = {"watershed"} \union Slots
         /\ call'[c].out = call[c].out
         /\ Exists => /\ call'[c].base = file /\ call'[c].seen = stamp
                      /\ call'[c].mem = PutWatershed(file, call[c].target)
         /\ ~Exists => /\ call'[c].base = call[c].base /\ call'[c].seen = call[c].seen
                       /\ call'[c].mem = PutWatershed(call[c].mem, call[c].target)
<1> DEFINE k == Loaded(call[c])
           m == PutWatershed(k.mem, k.target)
<1>0. call[c] = [f \in Fields |-> call[c][f]]
  BY DEF StudyInv, Shape, IsCall
<1>1. /\ k = [f \in Fields |-> k[f]]
      /\ k.pc = "open" /\ k.target = call[c].target /\ k.out = call[c].out
      /\ Exists => k.mem = file /\ k.base = file /\ k.seen = stamp
      /\ ~Exists => k.mem = call[c].mem /\ k.base = call[c].base /\ k.seen = call[c].seen
  BY <1>0 DEF Loaded, Fields
<1>2. call' = [call EXCEPT ![c] = [k EXCEPT !.mem = m, !.left = 0, !.edited = {"watershed"} \union Slots]]
  BY DEF StoreWatershed
<1>3. /\ Exists => m = PutWatershed(file, call[c].target)
      /\ ~Exists => m = PutWatershed(call[c].mem, call[c].target)
  BY <1>1
<1> HIDE DEF k, m
<1> DEFINE j == [k EXCEPT !.mem = m, !.left = 0, !.edited = {"watershed"} \union Slots]
<1>4. /\ j.pc = "open" /\ j.mem = m /\ j.left = 0 /\ j.edited = {"watershed"} \union Slots
      /\ j.base = k.base /\ j.seen = k.seen /\ j.out = k.out
  BY <1>1 DEF Fields
<1>5. call' = [call EXCEPT ![c] = j] /\ UNCHANGED <<file, stamp, outline>>
  BY <1>2 DEF StoreWatershed
<1> HIDE DEF j
<1>6. call'[c] = j /\ Frame(c) /\ outline' = outline
  BY <1>5 DEF Frame, StudyInv, Shape
<1> QED
  BY <1>1, <1>3, <1>4, <1>6

LEMMA EditShape ==
  ASSUME StudyInv, NEW c \in Calls, NEW mem, NEW edited, Edit(c, mem, edited)
  PROVE  /\ Frame(c) /\ outline' = outline /\ call[c].pc = "open" /\ call[c].left > 0
         /\ call'[c].pc = "open" /\ call'[c].mem = mem /\ call'[c].edited = call[c].edited \union edited
         /\ call'[c].base = call[c].base /\ call'[c].seen = call[c].seen /\ call'[c].out = call[c].out
<1>1. call[c] = [f \in Fields |-> call[c][f]]
  BY DEF StudyInv, Shape, IsCall
<1> QED
  BY <1>1 DEF Edit, Frame, StudyInv, Shape, Fields

LEMMA CompareShape ==
  ASSUME StudyInv, NEW c \in Calls, Compare(c), ~(Overtaken(c) /\ Conflict(call[c].base, call[c].mem, file))
  PROVE  /\ Frame(c) /\ outline' = outline /\ call[c].pc = "saving"
         /\ call'[c].pc = "writing" /\ call'[c].out = Payload(c)
         /\ call'[c].mem = call[c].mem /\ call'[c].base = call[c].base /\ call'[c].seen = call[c].seen
         /\ call'[c].edited = call[c].edited /\ call'[c].left = call[c].left
<1> DEFINE o == Payload(c)
<1>1. call[c] = [f \in Fields |-> call[c][f]]
  BY DEF StudyInv, Shape, IsCall
<1>2. /\ call' = [call EXCEPT ![c].pc = "writing", ![c].out = o]
      /\ call[c].pc = "saving" /\ UNCHANGED <<file, stamp, outline>>
  BY DEF Compare
<1> HIDE DEF o
<1> QED
  BY <1>1, <1>2 DEF Frame, StudyInv, Shape, Fields, o

LEMMA ReplaceShape ==
  ASSUME StudyInv, NEW c \in Calls, Replace(c)
  PROVE  /\ call[c].pc = "writing" /\ file' = call[c].out /\ stamp' = stamp + 1 /\ outline' = outline
         /\ \A d \in Calls \ {c} : call'[d] = call[d] /\ call[d].pc # "writing"
         /\ call'[c].pc = "open" /\ call'[c].mem = call[c].mem /\ call'[c].base = call[c].mem
         /\ call'[c].edited = {} /\ call'[c].out = call[c].out /\ call'[c].left = call[c].left
         /\ call'[c].seen = IF Overtaken(c) THEN StampUnknown ELSE stamp'
<1> DEFINE st == IF Overtaken(c) THEN StampUnknown ELSE stamp'
           k == [call[c] EXCEPT !.pc = "open", !.base = call[c].mem, !.edited = {}, !.seen = st]
<1>1. call[c] = [f \in Fields |-> call[c][f]]
  BY DEF StudyInv, Shape, IsCall
<1>2. /\ call' = [call EXCEPT ![c] = k]
      /\ call[c].pc = "writing" /\ file' = call[c].out /\ stamp' = stamp + 1 /\ outline' = outline
  BY DEF Replace
<1> HIDE DEF st
<1>3. /\ k.pc = "open" /\ k.mem = call[c].mem /\ k.base = call[c].mem /\ k.edited = {}
      /\ k.out = call[c].out /\ k.left = call[c].left /\ k.seen = st
  BY <1>1 DEF Fields
<1>4. \A d \in Calls \ {c} : call[d].pc # "writing"
  BY <1>2 DEF StudyInv, OwnGuard
<1> HIDE DEF k
<1>5. call'[c] = k /\ \A d \in Calls \ {c} : call'[d] = call[d]
  BY <1>2 DEF StudyInv, Shape
<1> QED
  BY <1>2, <1>3, <1>4, <1>5 DEF st

-----------------------------------------------------------------------------
(* What a save may change, and what it must                                   *)

NeverCleared(f) == \A l \in Records \union {"plan"} : f.leaf[l] # Cleared

\* What a call is about to write: its own object, or a merge that keeps what the call
\* did not change and has what it changed.
OwnWrite(c) ==
    /\ ~Overtaken(c) => call[c].out = call[c].mem
    /\ WasLoaded(c) => \A l \in Leaves \ call[c].edited :
           call[c].out.leaf[l] = file.leaf[l] \/ (l \in Slots /\ call[c].out.leaf[l] = Absent)
    /\ \A l \in Leaves \ Slots : call[c].mem.leaf[l] \notin {Absent, call[c].base.leaf[l]} =>
           call[c].out.leaf[l] = call[c].mem.leaf[l]

\* An object is its baseline but for what the call changed; one that is not older than the
\* file has the file for a baseline.  None sets to None what its baseline did not have.
OwnBase(c) ==
    /\ call[c].pc \notin Active => call[c].mem = Empty /\ call[c].base = Empty /\ call[c].seen = FreshObject
    /\ call[c].seen =< stamp
    /\ call[c].seen = stamp => call[c].base = file
    /\ \A l \in Leaves \ call[c].edited : call[c].mem.leaf[l] = call[c].base.leaf[l]
    /\ NeverCleared(call[c].mem) /\ NeverCleared(call[c].base) /\ NeverCleared(call[c].out)
    /\ call[c].left > 0 /\ call[c].mem.leaf["watershed"] \in Placed => call[c].base.leaf["watershed"] \in Placed
    /\ call[c].mem.leaf["watershed"] = Cleared => call[c].base.leaf["watershed"] # Absent
    /\ call[c].pc = "writing" => OwnWrite(c)

EditInv == NeverCleared(file) /\ \A c \in Calls : OwnBase(c)

LEMMA EmptyLeaves ==
  /\ \A l \in Leaves : Empty.leaf[l] = Absent
  /\ NeverCleared(Empty) /\ Empty.leaf["watershed"] \notin Placed /\ Empty.leaf["watershed"] = Absent
BY LeavesAssumption, PlanIsLeaf DEF Empty, NeverCleared, Leaves

LEMMA NoCallOwnBase ==
  ASSUME NEW c \in Calls, call[c] = NoCall, stamp \in Nat
  PROVE  OwnBase(c)
BY EmptyLeaves, LeavesAssumption DEF OwnBase, NoCall, FreshObject, Active

LEMMA InitEditInv == Init => EditInv
<1> SUFFICES ASSUME Init PROVE EditInv
  OBVIOUS
<1>1. \A c \in Calls : OwnBase(c)
  BY NoCallOwnBase DEF Init
<1>2. NeverCleared(file)
  BY LeavesAssumption, PlanIsLeaf DEF Init, NeverCleared, LeafValues, Leaves
<1> QED
  BY <1>1, <1>2 DEF EditInv

LEMMA EditFrame ==
  ASSUME EditInv, NEW c \in Calls, Frame(c), OwnBase(c)'
  PROVE  EditInv'
<1>1. ASSUME NEW d \in Calls \ {c}
      PROVE  OwnBase(d)'
  BY DEF EditInv, Frame, OwnBase, OwnWrite, Overtaken, WasLoaded, NeverCleared
<1> QED
  BY <1>1 DEF EditInv, Frame, NeverCleared

LEMMA LeafSet ==
  ASSUME NEW f, IsFile(f), NEW x \in Leaves, NEW v
  PROVE  /\ [f EXCEPT !.leaf[x] = v].leaf[x] = v
         /\ \A l \in Leaves \ {x} : [f EXCEPT !.leaf[x] = v].leaf[l] = f.leaf[l]
BY DEF IsFile

\* A change of one leaf; of the watershed only its clearing.
LEMMA EditKeepsBase ==
  ASSUME StudyInv, EditInv, NEW c \in Calls, NEW x \in Leaves, NEW v, NEW edited, x \in edited,
         Edit(c, [call[c].mem EXCEPT !.leaf[x] = v], edited),
         x \in Records \union {"plan"} => v # Cleared,
         x = "watershed" => v = Cleared /\ call[c].mem.leaf[x] \in Placed
  PROVE  EditInv'
<1> DEFINE m == [call[c].mem EXCEPT !.leaf[x] = v]
<1>0. IsFile(call[c].mem)
  BY DEF StudyInv, Shape, IsCall
<1>1. m.leaf[x] = v /\ \A l \in Leaves \ {x} : m.leaf[l] = call[c].mem.leaf[l]
  BY <1>0, LeafSet
<1>2. Edit(c, m, edited)
  OBVIOUS
<1> HIDE DEF m
<1>3. /\ Frame(c) /\ call[c].pc = "open" /\ call[c].left > 0
      /\ call'[c].pc = "open" /\ call'[c].mem = m /\ call'[c].edited = call[c].edited \union edited
      /\ call'[c].base = call[c].base /\ call'[c].seen = call[c].seen /\ call'[c].out = call[c].out
  BY <1>2, EditShape
<1>4. OwnBase(c)
  BY DEF EditInv
<1>5. \A l \in Leaves \ call'[c].edited : call'[c].mem.leaf[l] = call'[c].base.leaf[l]
  BY <1>1, <1>3, <1>4 DEF OwnBase
<1>6. NeverCleared(m)
  BY <1>1, <1>4, PlanIsLeaf DEF OwnBase, NeverCleared, Leaves
<1>7. /\ m.leaf["watershed"] \in Placed => call[c].base.leaf["watershed"] \in Placed
      /\ m.leaf["watershed"] = Cleared => call[c].base.leaf["watershed"] # Absent
  <2>1. call[c].mem.leaf["watershed"] \in Placed => call[c].base.leaf["watershed"] \in Placed
    BY <1>3, <1>4 DEF OwnBase
  <2>2. CASE x = "watershed"
    BY <1>1, <2>1, <2>2, LeavesAssumption
  <2>3. CASE x # "watershed"
    BY <1>1, <1>4, <2>1, <2>3, PlanIsLeaf DEF OwnBase
  <2> QED
    BY <2>2, <2>3
<1>8. OwnBase(c)'
  BY <1>3, <1>4, <1>5, <1>6, <1>7 DEF OwnBase, Frame, Active, NeverCleared
<1> QED
  BY <1>3, <1>8, EditFrame

LEMMA NoteKeepsBase ==
  ASSUME StudyInv, EditInv, NEW c \in Calls, NEW n \in Notes, AddNote(c, n)
  PROVE  EditInv'
<1>1. PICK ns, ed : Edit(c, [call[c].mem EXCEPT !.notes = ns], ed)
  BY DEF AddNote
<1> DEFINE m == [call[c].mem EXCEPT !.notes = ns]
<1>2. m.leaf = call[c].mem.leaf
  BY NotesIsFile DEF StudyInv, Shape, IsCall
<1>3. Edit(c, m, ed)
  BY <1>1
<1> HIDE DEF m
<1>4. /\ Frame(c) /\ call[c].pc = "open" /\ call[c].left > 0
      /\ call'[c].pc = "open" /\ call'[c].mem = m /\ call'[c].edited = call[c].edited \union ed
      /\ call'[c].base = call[c].base /\ call'[c].seen = call[c].seen /\ call'[c].out = call[c].out
  BY <1>3, EditShape
<1>5. OwnBase(c)'
  BY <1>2, <1>4 DEF EditInv, OwnBase, Frame, Active, NeverCleared
<1> QED
  BY <1>4, <1>5, EditFrame

\* A delineation leaves everything but the watershed and the results.
LEMMA WatershedLeaves ==
  ASSUME NEW f, IsFile(f), NEW b
  PROVE  LET w == PutWatershed(f, b) IN
         /\ w.leaf["watershed"] = [of |-> b, stamp |-> OutlineOf(b)]
         /\ \A s \in Slots : \/ w.leaf[s] = Absent
                             \/ /\ w.leaf[s] = f.leaf[s]
                                /\ f.leaf[s] \in Placed => f.leaf[s].stamp \in {NoBasin, OutlineOf(b)}
         /\ \A l \in Leaves \ ({"watershed"} \union Slots) : w.leaf[l] = f.leaf[l]
<1> DEFINE new == OutlineOf(b)
           changed == BasinOf(f) \notin {NoBasin, new}
           stale == {s \in Slots : /\ f.leaf[s] \in Placed
                                   /\ changed \/ f.leaf[s].stamp \notin {NoBasin, new}}
           g == Without(f, stale)
<1>1. PutWatershed(f, b) = [g EXCEPT !.leaf["watershed"] = [of |-> b, stamp |-> new]]
  BY DEF PutWatershed
<1>2. IsFile(g) /\ \A l \in Leaves \ stale : g.leaf[l] = f.leaf[l]
  BY WithoutIsFile
<1>3. \A s \in stale : s \in Slots /\ g.leaf[s] = Absent
  BY DEF Without, IsFile, Leaves
<1>4. \A s \in Slots \ stale : f.leaf[s] \in Placed => f.leaf[s].stamp \in {NoBasin, new}
  OBVIOUS
<1>5. stale \subseteq Slots /\ "watershed" \notin Slots /\ "watershed" \in Leaves /\ Slots \subseteq Leaves
  BY LeavesAssumption DEF Leaves
<1> HIDE DEF g, stale, new
<1>6. /\ PutWatershed(f, b).leaf["watershed"] = [of |-> b, stamp |-> new]
      /\ \A l \in Leaves \ {"watershed"} : PutWatershed(f, b).leaf[l] = g.leaf[l]
  BY <1>1, <1>2, <1>5, LeafSet
<1>7. \A s \in Slots : \/ PutWatershed(f, b).leaf[s] = Absent
                       \/ /\ PutWatershed(f, b).leaf[s] = f.leaf[s]
                          /\ f.leaf[s] \in Placed => f.leaf[s].stamp \in {NoBasin, new}
  <2> SUFFICES ASSUME NEW s \in Slots
               PROVE  \/ PutWatershed(f, b).leaf[s] = Absent
                      \/ /\ PutWatershed(f, b).leaf[s] = f.leaf[s]
                         /\ f.leaf[s] \in Placed => f.leaf[s].stamp \in {NoBasin, new}
    OBVIOUS
  <2>1. PutWatershed(f, b).leaf[s] = g.leaf[s]
    BY <1>5, <1>6
  <2>2. CASE s \in stale
    BY <1>3, <2>1, <2>2
  <2>3. CASE s \notin stale
    BY <1>2, <1>4, <1>5, <2>1, <2>3
  <2> QED
    BY <2>2, <2>3
<1> QED
  BY <1>2, <1>5, <1>6, <1>7 DEF new

-----------------------------------------------------------------------------
(* Which basin a delineation stores *)

DrawInv ==
    /\ outline \in Gauged \union {NoBasin}
    /\ \A c \in Calls : call[c].pc \in {"fetching", "drawn"} => call[c].target \in Basins

LEMMA InitDrawInv == Init => DrawInv
BY LeavesAssumption DEF Init, DrawInv, NoCall

\* The basin a delineation puts in the file is one with an outline.
LEMMA DrawnIsPlaced ==
  ASSUME DrawInv, NEW b \in Basins
  PROVE  [of |-> b, stamp |-> OutlineOf(b)] \in Placed
BY DEF DrawInv, OutlineOf, Placed, Basins

LEMMA StoreKeepsBase ==
  ASSUME StudyInv, EditInv, DrawInv, NEW c \in Calls, StoreWatershed(c)
  PROVE  EditInv'
<1> DEFINE b == call[c].target
           f == IF Exists THEN file ELSE call[c].mem
           w == PutWatershed(f, b)
<1>1. /\ Frame(c) /\ call'[c].pc = "open" /\ call'[c].left = 0
      /\ call'[c].edited = {"watershed"} \union Slots /\ call'[c].out = call[c].out
      /\ call'[c].mem = w
      /\ Exists => call'[c].base = file /\ call'[c].seen = stamp
      /\ ~Exists => call'[c].base = call[c].base /\ call'[c].seen = call[c].seen
  BY StoreShape
<1>2. OwnBase(c) /\ call[c].pc = "drawn" /\ stamp \in Nat /\ NeverCleared(file)
  BY DEF EditInv, StoreWatershed, StudyInv, Shape
<1>3. call[c].mem = Empty /\ call[c].base = Empty /\ call[c].seen = FreshObject
  BY <1>2 DEF OwnBase, Active
<1>4. IsFile(f) /\ NeverCleared(f) /\ f = call'[c].base
  BY <1>1, <1>2, <1>3, EmptyIsFile, EmptyLeaves DEF StudyInv, Shape
<1>5. b \in Basins
  BY <1>2 DEF DrawInv
<1> HIDE DEF f, b
<1>6. /\ w.leaf["watershed"] = [of |-> b, stamp |-> OutlineOf(b)]
      /\ \A l \in Leaves \ ({"watershed"} \union Slots) : w.leaf[l] = f.leaf[l]
  BY <1>4, WatershedLeaves
<1> HIDE DEF w
<1>7. w.leaf["watershed"] # Cleared
  BY <1>5, <1>6, DrawnIsPlaced, LeavesAssumption
<1>8. NeverCleared(w)
  BY <1>4, <1>6, LeavesAssumption, PlanIsLeaf DEF NeverCleared, Leaves
<1>9. NeverCleared(call[c].out)
  BY <1>2 DEF OwnBase
<1>10. call'[c].seen =< stamp /\ (call'[c].seen = stamp => call'[c].base = file)
  BY <1>1, <1>2, <1>3 DEF FreshObject
<1>11. \A l \in Leaves \ call'[c].edited : call'[c].mem.leaf[l] = call'[c].base.leaf[l]
  BY <1>1, <1>4, <1>6
<1>12. OwnBase(c)'
  BY <1>1, <1>4, <1>7, <1>8, <1>9, <1>10, <1>11 DEF OwnBase, Frame, Active, NeverCleared
<1> QED
  BY <1>1, <1>12, EditFrame

LEMMA LoadKeepsBase ==
  ASSUME StudyInv, EditInv, NEW c \in Calls, Open(c) \/ OpenGuarded(c)
  PROVE  EditInv'
<1>1. /\ Frame(c) /\ call'[c].pc = "open" /\ call'[c].mem = call'[c].base
      /\ call'[c].edited = {} /\ call'[c].out = Empty
      /\ Exists => call'[c].base = file /\ call'[c].seen = stamp
      /\ ~Exists => call'[c].base = Empty /\ call'[c].seen = FreshObject
  BY LoadShape
<1>2. NeverCleared(file) /\ stamp \in Nat
  BY DEF EditInv, StudyInv, Shape
<1>3. OwnBase(c)'
  BY <1>1, <1>2, EmptyLeaves, LeavesAssumption DEF OwnBase, Frame, Active, FreshObject, NeverCleared
<1> QED
  BY <1>1, <1>3, EditFrame

LEMMA DelineateKeepsBase ==
  ASSUME StudyInv, EditInv, NEW c \in Calls, NEW b \in Basins, Delineate(c, b)
  PROVE  EditInv'
<1>1. /\ Frame(c) /\ call'[c].pc = "fetching"
      /\ call'[c].mem = Empty /\ call'[c].base = Empty /\ call'[c].seen = FreshObject
      /\ call'[c].out = Empty /\ call'[c].edited = {}
  BY DelineateShape
<1>2. stamp \in Nat
  BY DEF StudyInv, Shape
<1>3. OwnBase(c)'
  BY <1>1, <1>2, EmptyLeaves, LeavesAssumption DEF OwnBase, Frame, Active, FreshObject, NeverCleared
<1> QED
  BY <1>1, <1>3, EditFrame

LEMMA IdleKeepsBase ==
  ASSUME StudyInv, EditInv, NEW c \in Calls,
         WriteOutline(c) \/ ReadGeometry(c) \/ Cancel(c) \/ (BeginSave(c) /\ ~call[c].cancelled)
  PROVE  EditInv'
<1>1. /\ Frame(c) /\ Kept(c)
      /\ \/ call'[c].pc = call[c].pc
         \/ call[c].pc = "fetching" /\ call'[c].pc = "drawn"
         \/ call[c].pc = "open" /\ call'[c].pc = "saving"
  BY IdleShape
<1>2. OwnBase(c)
  BY DEF EditInv
<1>3. call'[c].pc = "writing" => call[c].pc = "writing"
  BY <1>1
<1>4. call'[c].pc \in Active <=> call[c].pc \in Active
  BY <1>1 DEF Active
<1>5. OwnBase(c)'
  BY <1>1, <1>2, <1>3, <1>4 DEF OwnBase, Frame, Kept, NeverCleared, OwnWrite, Overtaken, WasLoaded, Active
<1> QED
  BY <1>1, <1>5, EditFrame

LEMMA EndKeepsBase ==
  ASSUME StudyInv, EditInv, NEW c \in Calls,
         (BeginSave(c) /\ call[c].cancelled) \/ GiveUp(c) \/ Return(c) \/ Fail(c)
         \/ (Compare(c) /\ Overtaken(c) /\ Conflict(call[c].base, call[c].mem, file))
  PROVE  EditInv'
<1>1. Frame(c) /\ call'[c] = NoCall
  BY EndShape
<1>2. stamp \in Nat
  BY DEF StudyInv, Shape
<1>3. OwnBase(c)'
  BY <1>1, <1>2, EmptyLeaves, LeavesAssumption DEF OwnBase, NoCall, FreshObject, Active, Frame, NeverCleared
<1> QED
  BY <1>1, <1>3, EditFrame

\* A merge takes each leaf from the object or from the file: from the file where the object
\* is its baseline, from the object where the object has another value.
LEMMA MergedLeaf ==
  ASSUME NEW base, NEW ours, NEW theirs, NEW l \in Leaves
  PROVE  LET m == Merge(base, ours, theirs).leaf[l] IN
         /\ m \in {ours.leaf[l], theirs.leaf[l]}
         /\ ours.leaf[l] = base.leaf[l] => m = theirs.leaf[l]
         /\ /\ ours.leaf[l] \notin {Absent, base.leaf[l]}
            /\ ~(ours.leaf[l] = Cleared /\ base.leaf[l] = Absent)
            => m = ours.leaf[l]
BY DEF Merge, MergeLeaf

LEMMA BasinChangeLeaf ==
  ASSUME NEW base, NEW m, IsFile(m), NEW l \in Leaves
  PROVE  LET a == ApplyBasinChange(base, m).leaf[l] IN
         a = m.leaf[l] \/ (l \in Slots /\ a = Absent)
<1> DEFINE gone == {s \in Slots : m.leaf[s] \in Placed /\ m.leaf[s].stamp # FileDigest(m)}
<1>1. ApplyBasinChange(base, m) \in {m, Without(m, gone)}
  BY DEF ApplyBasinChange
<1>2. l \in gone => l \in Slots /\ Without(m, gone).leaf[l] = Absent
  BY DEF Without
<1>3. l \notin gone => Without(m, gone).leaf[l] = m.leaf[l]
  BY WithoutIsFile
<1> HIDE DEF gone
<1> QED
  BY <1>1, <1>2, <1>3

LEMMA PayloadLeaves ==
  ASSUME StudyInv, EditInv, NEW c \in Calls, NEW l \in Leaves
  PROVE  /\ l \in Records \union {"plan"} => Payload(c).leaf[l] # Cleared
         /\ WasLoaded(c) /\ l \notin call[c].edited =>
               Payload(c).leaf[l] = file.leaf[l] \/ (l \in Slots /\ Payload(c).leaf[l] = Absent)
         /\ l \notin Slots /\ call[c].mem.leaf[l] \notin {Absent, call[c].base.leaf[l]} =>
               Payload(c).leaf[l] = call[c].mem.leaf[l]
<1>1. OwnBase(c) /\ NeverCleared(file)
  BY DEF EditInv
<1>2. CASE Overtaken(c)
  <2> DEFINE m == Merge(call[c].base, call[c].mem, file)
             a == ApplyBasinChange(call[c].base, m)
  <2>1. Payload(c) = a
    BY <1>2 DEF Payload
  <2>2. /\ m.leaf[l] \in {call[c].mem.leaf[l], file.leaf[l]}
        /\ call[c].mem.leaf[l] = call[c].base.leaf[l] => m.leaf[l] = file.leaf[l]
        /\ /\ call[c].mem.leaf[l] \notin {Absent, call[c].base.leaf[l]}
           /\ ~(call[c].mem.leaf[l] = Cleared /\ call[c].base.leaf[l] = Absent)
           => m.leaf[l] = call[c].mem.leaf[l]
    BY MergedLeaf
  <2>3. IsFile(m)
    BY MergeIsFile
  <2> HIDE DEF m
  <2>4. a.leaf[l] = m.leaf[l] \/ (l \in Slots /\ a.leaf[l] = Absent)
    BY <2>3, BasinChangeLeaf
  <2> HIDE DEF a
  <2>5. l \in Records \union {"plan"} => l \notin Slots /\ call[c].mem.leaf[l] # Cleared /\ file.leaf[l] # Cleared
    BY <1>1, LeavesAssumption DEF OwnBase, NeverCleared
  <2>6. l \notin Slots => ~(call[c].mem.leaf[l] = Cleared /\ call[c].base.leaf[l] = Absent)
    BY <1>1, <2>5 DEF OwnBase, Leaves
  <2>7. l \notin call[c].edited => call[c].mem.leaf[l] = call[c].base.leaf[l]
    BY <1>1 DEF OwnBase
  <2> QED
    BY <2>1, <2>2, <2>4, <2>5, <2>6, <2>7
<1>3. CASE ~Overtaken(c)
  <2>1. Payload(c) = call[c].mem
    BY <1>3 DEF Payload
  <2>2. WasLoaded(c) => call[c].seen = stamp /\ call[c].base = file
    BY <1>1, <1>3 DEF Overtaken, WasLoaded, OwnBase
  <2> QED
    BY <1>1, <2>1, <2>2 DEF OwnBase, NeverCleared
<1> QED
  BY <1>2, <1>3

LEMMA CompareKeepsBase ==
  ASSUME StudyInv, EditInv, NEW c \in Calls, Compare(c),
         ~(Overtaken(c) /\ Conflict(call[c].base, call[c].mem, file))
  PROVE  EditInv'
<1>1. /\ Frame(c) /\ call[c].pc = "saving"
      /\ call'[c].pc = "writing" /\ call'[c].out = Payload(c)
      /\ call'[c].mem = call[c].mem /\ call'[c].base = call[c].base /\ call'[c].seen = call[c].seen
      /\ call'[c].edited = call[c].edited /\ call'[c].left = call[c].left
  BY CompareShape
<1>2. OwnBase(c)
  BY DEF EditInv
<1>3. NeverCleared(Payload(c))
  BY PayloadLeaves, PlanIsLeaf DEF NeverCleared, Leaves
<1>4. ~Overtaken(c) => Payload(c) = call[c].mem
  BY DEF Payload
<1>5. WasLoaded(c) => \A l \in Leaves \ call[c].edited :
         Payload(c).leaf[l] = file.leaf[l] \/ (l \in Slots /\ Payload(c).leaf[l] = Absent)
  BY PayloadLeaves
<1>6. \A l \in Leaves \ Slots : call[c].mem.leaf[l] \notin {Absent, call[c].base.leaf[l]} =>
         Payload(c).leaf[l] = call[c].mem.leaf[l]
  BY PayloadLeaves
<1>7. OwnWrite(c)'
  BY <1>1, <1>4, <1>5, <1>6 DEF OwnWrite, Frame, Overtaken, WasLoaded
<1>8. OwnBase(c)'
  BY <1>1, <1>2, <1>3, <1>7 DEF OwnBase, Frame, Active, NeverCleared
<1> QED
  BY <1>1, <1>8, EditFrame

\* The new file is what the writer wrote; no other object is as new as it.
LEMMA ReplaceKeepsBase ==
  ASSUME StudyInv, EditInv, NEW c \in Calls, Replace(c)
  PROVE  EditInv'
<1>1. /\ call[c].pc = "writing" /\ file' = call[c].out /\ stamp' = stamp + 1
      /\ \A d \in Calls \ {c} : call'[d] = call[d] /\ call[d].pc # "writing"
      /\ call'[c].pc = "open" /\ call'[c].mem = call[c].mem /\ call'[c].base = call[c].mem
      /\ call'[c].edited = {} /\ call'[c].out = call[c].out /\ call'[c].left = call[c].left
      /\ call'[c].seen = IF Overtaken(c) THEN StampUnknown ELSE stamp'
  BY ReplaceShape
<1>2. stamp \in Nat /\ \A d \in Calls : call[d].seen \in Int
  BY DEF StudyInv, Shape, IsCall
<1>3. OwnBase(c) /\ OwnWrite(c)
  BY <1>1 DEF EditInv, OwnBase
<1>4. NeverCleared(file')
  BY <1>1, <1>3 DEF OwnBase
<1>5. call'[c].seen =< stamp' /\ (call'[c].seen = stamp' => call'[c].base = file')
  BY <1>1, <1>2, <1>3 DEF OwnWrite, StampUnknown
<1>6. OwnBase(c)'
  BY <1>1, <1>3, <1>5, LeavesAssumption DEF OwnBase, Active, NeverCleared
<1>7. ASSUME NEW d \in Calls \ {c}
      PROVE  OwnBase(d)'
  <2>1. OwnBase(d)
    BY DEF EditInv
  <2>2. call[d].seen =< stamp' /\ call[d].seen # stamp'
    BY <1>1, <1>2, <2>1 DEF OwnBase
  <2>3. call'[d] = call[d] /\ call[d].pc # "writing"
    BY <1>1
  <2> QED
    BY <2>1, <2>2, <2>3 DEF OwnBase, NeverCleared
<1> QED
  BY <1>4, <1>6, <1>7 DEF EditInv, NeverCleared

LEMMA WorkKeepsBase ==
  ASSUME StudyInv, EditInv, DrawInv, NEW c \in Calls, Work(c)
  PROVE  EditInv'
<1>1. CASE WriteOutline(c) \/ ReadGeometry(c)
  BY <1>1, IdleKeepsBase
<1>2. CASE StoreWatershed(c)
  BY <1>2, StoreKeepsBase
<1>3. ASSUME NEW r \in Records, NEW v \in Values, SetRecord(c, r, v) PROVE EditInv'
  <2>1. r \in Leaves /\ r # "watershed" /\ v # Cleared
    BY LeavesAssumption DEF Leaves
  <2>2. Edit(c, [call[c].mem EXCEPT !.leaf[r] = v], {r})
    BY <1>3 DEF SetRecord
  <2> QED
    BY <2>1, <2>2, EditKeepsBase
<1>4. ASSUME NEW r \in Records \intersect Clearable, DropRecord(c, r) PROVE EditInv'
  <2>1. r \in Leaves /\ r # "watershed" /\ Absent # Cleared
    BY LeavesAssumption DEF Leaves
  <2>2. Edit(c, [call[c].mem EXCEPT !.leaf[r] = Absent], {r})
    BY <1>4 DEF DropRecord
  <2> QED
    BY <2>1, <2>2, EditKeepsBase
<1>5. CASE \E l \in Clearable \ Records : ClearSlot(c, l)
  BY <1>5, EditKeepsBase, LeavesAssumption DEF ClearSlot, Leaves
<1>6. ASSUME NEW s \in Slots, SetResult(c, s) PROVE EditInv'
  <2>1. s \in Leaves /\ s # "watershed" /\ s \notin Records \union {"plan"}
    BY LeavesAssumption DEF Leaves
  <2>2. \E v : Edit(c, [call[c].mem EXCEPT !.leaf[s] = v], {s})
    BY <1>6 DEF SetResult
  <2> QED
    BY <2>1, <2>2, EditKeepsBase
<1>7. CASE \E n \in Notes : AddNote(c, n)
  BY <1>7, NoteKeepsBase
<1>8. ASSUME NEW p \in Plans, RegisterPlan(c, p) PROVE EditInv'
  <2>1. p # Cleared
    BY LeavesAssumption
  <2>2. Edit(c, [call[c].mem EXCEPT !.leaf["plan"] = p], {"plan"})
    BY <1>8 DEF RegisterPlan
  <2> QED
    BY <2>1, <2>2, EditKeepsBase, PlanIsLeaf
<1> QED
  BY <1>1, <1>2, <1>3, <1>4, <1>5, <1>6, <1>7, <1>8 DEF Work

LEMMA NextKeepsBase ==
  ASSUME StudyInv, EditInv, DrawInv, [Next]_vars
  PROVE  EditInv'
<1>1. CASE UNCHANGED vars
  BY <1>1 DEF vars, EditInv, OwnBase, OwnWrite, NeverCleared, Overtaken, WasLoaded
<1>2. ASSUME NEW c \in Calls, Start(c) PROVE EditInv'
  BY <1>2, LoadKeepsBase, DelineateKeepsBase DEF Start
<1>3. ASSUME NEW c \in Calls, Work(c) PROVE EditInv'
  BY <1>3, WorkKeepsBase
<1>4. ASSUME NEW c \in Calls, BeginSave(c) \/ Compare(c) \/ Cancel(c) PROVE EditInv'
  BY <1>4, IdleKeepsBase, EndKeepsBase, CompareKeepsBase
<1>5. ASSUME NEW c \in Calls, GiveUp(c) \/ Return(c) \/ Fail(c) PROVE EditInv'
  BY <1>5, EndKeepsBase
<1>6. ASSUME NEW c \in Calls, Replace(c) PROVE EditInv'
  BY <1>6, ReplaceKeepsBase
<1> QED
  BY <1>1, <1>2, <1>3, <1>4, <1>5, <1>6 DEF Next, SaveStep

LEMMA NextKeepsDraw ==
  ASSUME StudyInv, DrawInv, [Next]_vars
  PROVE  DrawInv'
<1>1. CASE UNCHANGED vars
  BY <1>1 DEF vars, DrawInv
<1>2. ASSUME NEW c \in Calls, Frame(c), outline' = outline,
             call'[c].pc \in {"fetching", "drawn"} => call'[c].target \in Basins
      PROVE  DrawInv'
  BY <1>2 DEF Frame, DrawInv
<1>3. ASSUME NEW c \in Calls, WriteOutline(c) PROVE DrawInv'
  <2>1. call[c].pc = "fetching" /\ outline' = IF call[c].target \in Gauged THEN call[c].target ELSE outline
    BY <1>3 DEF WriteOutline
  <2>2. Frame(c) /\ call'[c].target = call[c].target
    BY <1>3, IdleShape DEF Kept
  <2> QED
    BY <2>1, <2>2 DEF DrawInv, Frame
<1>4. ASSUME NEW c \in Calls, ReadGeometry(c) \/ Cancel(c) \/ (BeginSave(c) /\ ~call[c].cancelled)
      PROVE  DrawInv'
  <2>1. outline' = outline
    BY <1>4 DEF ReadGeometry, Cancel, BeginSave
  <2>2. /\ Frame(c) /\ call'[c].target = call[c].target
        /\ \/ call'[c].pc = call[c].pc
           \/ call[c].pc = "fetching" /\ call'[c].pc = "drawn"
           \/ call[c].pc = "open" /\ call'[c].pc = "saving"
    BY <1>4, IdleShape DEF Kept
  <2> QED
    BY <1>2, <2>1, <2>2 DEF DrawInv
<1>5. ASSUME NEW c \in Calls, Start(c) PROVE DrawInv'
  <2>1. CASE Open(c) \/ OpenGuarded(c)
    BY <1>2, <2>1, LoadShape
  <2>2. ASSUME NEW b \in Basins, Delineate(c, b) PROVE DrawInv'
    BY <1>2, <2>2, DelineateShape
  <2> QED
    BY <1>5, <2>1, <2>2 DEF Start
<1>6. ASSUME NEW c \in Calls, StoreWatershed(c) PROVE DrawInv'
  BY <1>2, <1>6, StoreShape
<1>7. ASSUME NEW c \in Calls, NEW mem, NEW edited, Edit(c, mem, edited) PROVE DrawInv'
  BY <1>2, <1>7, EditShape
<1>8. ASSUME NEW c \in Calls, Work(c) PROVE DrawInv'
  BY <1>3, <1>4, <1>6, <1>7, <1>8
     DEF Work, SetRecord, DropRecord, ClearSlot, SetResult, AddNote, RegisterPlan
<1>9. ASSUME NEW c \in Calls,
             (BeginSave(c) /\ call[c].cancelled) \/ GiveUp(c) \/ Return(c) \/ Fail(c)
             \/ (Compare(c) /\ Overtaken(c) /\ Conflict(call[c].base, call[c].mem, file))
      PROVE  DrawInv'
  BY <1>2, <1>9, EndShape DEF NoCall
<1>10. ASSUME NEW c \in Calls, Compare(c), ~(Overtaken(c) /\ Conflict(call[c].base, call[c].mem, file))
       PROVE  DrawInv'
  BY <1>2, <1>10, CompareShape
<1>11. ASSUME NEW c \in Calls, Replace(c) PROVE DrawInv'
  BY <1>11, ReplaceShape DEF DrawInv
<1> QED
  BY <1>1, <1>4, <1>5, <1>8, <1>9, <1>10, <1>11 DEF Next, SaveStep

\* The step in which a call saves puts what the call wrote in the file's place.
LEMMA SaveWrites ==
  ASSUME StudyInv, [Next]_vars, NEW c \in Calls, Saves(c)
  PROVE  file' = call[c].out /\ call[c].pc = "writing"
<1>1. PICK d \in Calls : Replace(d)
  <2>1. ASSUME NEW d \in Calls, Start(d) PROVE stamp' = stamp
    BY <2>1 DEF Start, Open, OpenGuarded, Delineate
  <2>2. ASSUME NEW d \in Calls, Work(d) PROVE stamp' = stamp
    BY <2>2 DEF Work, WriteOutline, StoreWatershed, ReadGeometry, SetRecord, DropRecord,
                ClearSlot, SetResult, AddNote, RegisterPlan, Edit
  <2>3. ASSUME NEW d \in Calls, BeginSave(d) \/ Compare(d) \/ GiveUp(d) \/ Return(d) \/ Fail(d) \/ Cancel(d)
        PROVE  stamp' = stamp
    BY <2>3 DEF BeginSave, Compare, GiveUp, Return, Fail, Cancel
  <2>4. stamp' # stamp
    BY DEF Saves
  <2> QED
    BY <2>1, <2>2, <2>3, <2>4 DEF Next, SaveStep, vars
<1>2. d = c
  BY <1>1 DEF Saves, Replace, StudyInv, OwnGuard
<1> QED
  BY <1>1, <1>2 DEF Replace

-----------------------------------------------------------------------------
(* One basin in the file *)

\* A study that was delineated before these calls: its watershed carries the digest of
\* its outline, no result is of another basin, and nobody clears the watershed.
DelineatedStart ==
    LET w == FirstFile.leaf["watershed"] IN
    /\ Created
    /\ "watershed" \notin Clearable
    /\ w \in Placed /\ w.stamp \in Basins
    /\ w.stamp = IF w.of \in Gauged THEN FirstOutline ELSE w.of
    /\ \A s \in Slots : FirstFile.leaf[s] \in Placed => FirstFile.leaf[s].stamp \in {NoBasin, w.stamp}

\* The basins such a study can come to hold: its first, or one delineated from a point.
Held == Points \union {FirstFile.leaf["watershed"].of}
FirstDigest(b) == IF b \in Gauged THEN FirstOutline ELSE b

HeldWatershed(w) == w \in Placed /\ w.of \in Held /\ w.stamp = FirstDigest(w.of)

Whole(f) ==
    /\ HeldWatershed(f.leaf["watershed"])
    /\ \A s \in Slots : f.leaf[s] \in Placed => f.leaf[s].stamp \in {NoBasin, f.leaf["watershed"].stamp}

WholeCall(c) ==
    /\ call[c].pc \in {"fetching", "drawn"} => call[c].target \in Points
    /\ call[c].pc \in Active => Whole(call[c].mem) /\ Whole(call[c].base)
    /\ call[c].pc = "writing" => Whole(call[c].out)

WholeInv == Whole(file) /\ outline = FirstOutline /\ \A c \in Calls : WholeCall(c)

\* Each basin the study can hold has a digest of its own.
LEMMA DigestsDiffer ==
  ASSUME DelineatedStart, NEW u, NEW w, HeldWatershed(u), HeldWatershed(w), u.stamp = w.stamp
  PROVE  u = w /\ u.stamp \in Basins /\ u.stamp # NoBasin
<1>1. u = [of |-> u.of, stamp |-> u.stamp] /\ w = [of |-> w.of, stamp |-> w.stamp]
  BY DEF HeldWatershed, Placed
<1>2. u.of = w.of
  BY LeavesAssumption DEF HeldWatershed, Held, FirstDigest, DelineatedStart, Basins
<1>3. u.stamp \in Basins
  BY LeavesAssumption DEF HeldWatershed, Held, FirstDigest, DelineatedStart, Basins
<1> QED
  BY <1>1, <1>2, <1>3, LeavesAssumption

LEMMA InitWholeInv == DelineatedStart /\ Init => WholeInv
<1> SUFFICES ASSUME DelineatedStart, Init PROVE WholeInv
  OBVIOUS
<1>1. Whole(file)
  BY DEF Init, Whole, DelineatedStart, HeldWatershed, Held, FirstDigest
<1>2. \A c \in Calls : WholeCall(c)
  BY DEF Init, WholeCall, NoCall, Active
<1> QED
  BY <1>1, <1>2 DEF WholeInv, Init

LEMMA WholeFrame ==
  ASSUME WholeInv, NEW c \in Calls, Frame(c), outline' = outline, WholeCall(c)'
  PROVE  WholeInv'
<1>1. ASSUME NEW d \in Calls \ {c} PROVE WholeCall(d)'
  BY DEF WholeInv, Frame, WholeCall, Whole
<1> QED
  BY <1>1 DEF WholeInv, Frame, Whole

\* An object whose watershed stays and whose results are old or of its basin.
LEMMA WholeEdit ==
  ASSUME StudyInv, WholeInv, NEW c \in Calls, NEW mem, NEW edited, Edit(c, mem, edited),
         mem.leaf["watershed"] = call[c].mem.leaf["watershed"],
         \A s \in Slots : mem.leaf[s] \in Placed =>
             \/ mem.leaf[s] = call[c].mem.leaf[s]
             \/ mem.leaf[s].stamp \in {NoBasin, BasinOf(call[c].mem)}
  PROVE  WholeInv'
<1>1. /\ Frame(c) /\ outline' = outline /\ call[c].pc = "open"
      /\ call'[c].pc = "open" /\ call'[c].mem = mem /\ call'[c].base = call[c].base
  BY EditShape
<1>2. Whole(call[c].mem) /\ Whole(call[c].base)
  BY <1>1 DEF WholeInv, WholeCall, Active
<1>3. BasinOf(call[c].mem) = mem.leaf["watershed"].stamp
  BY <1>2 DEF BasinOf, Whole, HeldWatershed
<1>4. Whole(mem)
  BY <1>2, <1>3 DEF Whole
<1>5. WholeCall(c)'
  BY <1>1, <1>2, <1>4 DEF WholeCall, Whole, Active
<1> QED
  BY <1>1, <1>5, WholeFrame

LEMMA WholeSetLeaf ==
  ASSUME StudyInv, WholeInv, NEW c \in Calls, NEW x \in Leaves \ {"watershed"}, NEW v, NEW edited,
         Edit(c, [call[c].mem EXCEPT !.leaf[x] = v], edited),
         x \in Slots => v \notin Placed \/ v.stamp \in {NoBasin, BasinOf(call[c].mem)}
  PROVE  WholeInv'
<1> DEFINE m == [call[c].mem EXCEPT !.leaf[x] = v]
<1>1. IsFile(call[c].mem)
  BY DEF StudyInv, Shape, IsCall
<1>2. m.leaf[x] = v /\ \A l \in Leaves \ {x} : m.leaf[l] = call[c].mem.leaf[l]
  BY <1>1, LeafSet
<1>3. Edit(c, m, edited)
  OBVIOUS
<1> HIDE DEF m
<1>4. m.leaf["watershed"] = call[c].mem.leaf["watershed"]
  BY <1>2, PlanIsLeaf
<1>5. \A s \in Slots : m.leaf[s] \in Placed =>
        \/ m.leaf[s] = call[c].mem.leaf[s]
        \/ m.leaf[s].stamp \in {NoBasin, BasinOf(call[c].mem)}
  BY <1>2 DEF Leaves
<1> QED
  BY <1>3, <1>4, <1>5, WholeEdit

\* A merge of objects of one basin each is of one basin: it drops the results of the
\* other basin, and where the basin did not change neither side had another.
LEMMA WholeMerge ==
  ASSUME DelineatedStart, outline = FirstOutline,
         NEW base, NEW ours, NEW theirs, Whole(base), Whole(ours), Whole(theirs)
  PROVE  Whole(ApplyBasinChange(base, Merge(base, ours, theirs)))
<1> DEFINE m == Merge(base, ours, theirs)
           w == m.leaf["watershed"]
           gone == {s \in Slots : m.leaf[s] \in Placed /\ m.leaf[s].stamp # FileDigest(m)}
<1>1. IsFile(m)
  BY MergeIsFile
<1>2. \A l \in Leaves : m.leaf[l] \in {ours.leaf[l], theirs.leaf[l]}
  BY MergedLeaf
<1>3. /\ ours.leaf["watershed"] = base.leaf["watershed"] => w = theirs.leaf["watershed"]
      /\ ours.leaf["watershed"] # base.leaf["watershed"] => w = ours.leaf["watershed"]
  <2>1. /\ base.leaf["watershed"] \in Placed /\ ours.leaf["watershed"] \in Placed
        /\ Absent \notin Placed /\ "watershed" \in Leaves
    BY LeavesAssumption, PlanIsLeaf DEF Whole, HeldWatershed
  <2> QED
    BY <2>1 DEF Merge, MergeLeaf
<1>4. ApplyBasinChange(base, m) =
        IF NoBasin \in {FileDigest(base), FileDigest(m)} \/ FileDigest(base) = FileDigest(m)
          THEN m ELSE Without(m, gone)
  BY DEF ApplyBasinChange
<1> HIDE DEF m
<1>5. HeldWatershed(w)
  BY <1>3 DEF Whole
<1>6. FileDigest(m) = w.stamp /\ FileDigest(base) = base.leaf["watershed"].stamp
  BY <1>5 DEF Whole, HeldWatershed, FileDigest, OutlineOf, FirstDigest
<1>7. w.stamp # NoBasin /\ base.leaf["watershed"].stamp # NoBasin
  BY <1>5, DigestsDiffer DEF Whole
<1>8. CASE w.stamp = base.leaf["watershed"].stamp
  <2>1. w = base.leaf["watershed"]
    BY <1>5, <1>8, DigestsDiffer DEF Whole
  <2>2. ours.leaf["watershed"] = w /\ theirs.leaf["watershed"] = w
    BY <1>3, <2>1
  <2>3. \A s \in Slots : m.leaf[s] \in Placed => m.leaf[s].stamp \in {NoBasin, w.stamp}
    BY <1>2, <2>2 DEF Whole, Leaves
  <2>4. ApplyBasinChange(base, m) = m
    BY <1>4, <1>6, <1>8
  <2> QED
    BY <1>5, <2>3, <2>4 DEF Whole, m
<1>9. CASE w.stamp # base.leaf["watershed"].stamp
  <2> DEFINE g == Without(m, gone)
  <2>1. ApplyBasinChange(base, m) = g
    BY <1>4, <1>6, <1>7, <1>9
  <2>2. \A l \in Leaves \ gone : g.leaf[l] = m.leaf[l]
    BY <1>1, WithoutIsFile
  <2>3. \A s \in gone : s \in Slots /\ g.leaf[s] = Absent
    BY DEF Without, Leaves
  <2>4. g.leaf["watershed"] = w
    BY <2>2, <2>3, LeavesAssumption, PlanIsLeaf
  <2>5. \A s \in Slots \ gone : m.leaf[s] \in Placed => m.leaf[s].stamp = w.stamp
    BY <1>6
  <2> HIDE DEF g, gone
  <2>6. \A s \in Slots : g.leaf[s] \in Placed => g.leaf[s].stamp \in {NoBasin, w.stamp}
    BY <2>2, <2>3, <2>5, LeavesAssumption DEF Leaves
  <2> QED
    BY <1>5, <2>1, <2>4, <2>6 DEF Whole, m
<1> QED
  BY <1>8, <1>9

LEMMA WholePayload ==
  ASSUME DelineatedStart, WholeInv, NEW c \in Calls, call[c].pc = "saving"
  PROVE  Whole(Payload(c))
<1>1. Whole(call[c].mem) /\ Whole(call[c].base) /\ Whole(file) /\ outline = FirstOutline
  BY DEF WholeInv, WholeCall, Active
<1> QED
  BY <1>1, WholeMerge DEF Payload

LEMMA WholeStart ==
  ASSUME DelineatedStart, StudyInv, WholeInv, NEW c \in Calls, Start(c)
  PROVE  WholeInv'
<1>1. Whole(file)
  BY DEF WholeInv
<1>2. CASE Open(c) \/ OpenGuarded(c)
  <2>1. Exists
    BY DEF Exists, DelineatedStart
  <2>2. /\ Frame(c) /\ outline' = outline /\ call'[c].pc = "open"
        /\ call'[c].mem = file /\ call'[c].base = file
    BY <1>2, <2>1, LoadShape
  <2>3. WholeCall(c)'
    BY <1>1, <2>2 DEF WholeCall, Whole
  <2> QED
    BY <2>2, <2>3, WholeFrame
<1>3. ASSUME NEW b \in Basins, Delineate(c, b) PROVE WholeInv'
  <2>1. b \in Points
    BY <1>1, <1>3 DEF Delineate, Whole, HeldWatershed, Basins
  <2>2. Frame(c) /\ outline' = outline /\ call'[c].pc = "fetching" /\ call'[c].target = b
    BY <1>3, DelineateShape
  <2>3. WholeCall(c)'
    BY <2>1, <2>2 DEF WholeCall, Active
  <2> QED
    BY <2>2, <2>3, WholeFrame
<1> QED
  BY <1>2, <1>3 DEF Start

LEMMA WholeIdle ==
  ASSUME DelineatedStart, StudyInv, WholeInv, NEW c \in Calls,
         WriteOutline(c) \/ ReadGeometry(c) \/ Cancel(c) \/ (BeginSave(c) /\ ~call[c].cancelled)
  PROVE  WholeInv'
<1>1. /\ Frame(c) /\ Kept(c)
      /\ \/ call'[c].pc = call[c].pc
         \/ call[c].pc = "fetching" /\ call'[c].pc = "drawn"
         \/ call[c].pc = "open" /\ call'[c].pc = "saving"
  BY IdleShape
<1>2. outline' = outline
  <2>1. CASE WriteOutline(c)
    BY <2>1, LeavesAssumption DEF WriteOutline, WholeInv, WholeCall
  <2>2. CASE ~WriteOutline(c)
    BY <2>2 DEF ReadGeometry, Cancel, BeginSave
  <2> QED
    BY <2>1, <2>2
<1>3. WholeCall(c)
  BY DEF WholeInv
<1>4. WholeCall(c)'
  BY <1>1, <1>3 DEF WholeCall, Kept, Whole, Active
<1> QED
  BY <1>1, <1>2, <1>4, WholeFrame

LEMMA WholeStore ==
  ASSUME DelineatedStart, StudyInv, WholeInv, NEW c \in Calls, StoreWatershed(c)
  PROVE  WholeInv'
<1> DEFINE b == call[c].target
           w == PutWatershed(file, b)
<1>1. Exists
  BY DEF Exists, DelineatedStart
<1>2. Frame(c) /\ outline' = outline /\ call'[c].pc = "open" /\ call'[c].base = file /\ call'[c].mem = w
  BY <1>1, StoreShape
<1>3. b \in Points /\ Whole(file) /\ IsFile(file)
  BY DEF StoreWatershed, WholeInv, WholeCall, StudyInv, Shape
<1>4. b \notin Gauged /\ OutlineOf(b) = b /\ b \in Basins
  BY <1>3, LeavesAssumption DEF OutlineOf, Basins
<1>5. /\ w.leaf["watershed"] = [of |-> b, stamp |-> b]
      /\ \A s \in Slots : \/ w.leaf[s] = Absent
                          \/ /\ w.leaf[s] = file.leaf[s]
                             /\ file.leaf[s] \in Placed => file.leaf[s].stamp \in {NoBasin, b}
  BY <1>3, <1>4, WatershedLeaves
<1> HIDE DEF w, b
<1>6. HeldWatershed(w.leaf["watershed"]) /\ w.leaf["watershed"].stamp = b
  BY <1>3, <1>4, <1>5 DEF HeldWatershed, Placed, Held, FirstDigest
<1>7. Whole(w)
  BY <1>5, <1>6, LeavesAssumption DEF Whole
<1>8. WholeCall(c)'
  BY <1>2, <1>3, <1>7 DEF WholeCall, Whole
<1> QED
  BY <1>2, <1>8, WholeFrame

LEMMA WholeWork ==
  ASSUME DelineatedStart, StudyInv, WholeInv, NEW c \in Calls, Work(c)
  PROVE  WholeInv'
<1>1. CASE WriteOutline(c) \/ ReadGeometry(c)
  BY <1>1, WholeIdle
<1>2. CASE StoreWatershed(c)
  BY <1>2, WholeStore
<1>3. ASSUME NEW r \in Records, NEW v, Edit(c, [call[c].mem EXCEPT !.leaf[r] = v], {r})
      PROVE  WholeInv'
  <2>1. r \in Leaves \ {"watershed"} /\ r \notin Slots
    BY LeavesAssumption DEF Leaves
  <2> QED
    BY <1>3, <2>1, WholeSetLeaf
<1>4. ASSUME NEW l \in Clearable \ Records, ClearSlot(c, l) PROVE WholeInv'
  <2>1. l \in Leaves \ {"watershed"} /\ Cleared \notin Placed
    BY LeavesAssumption DEF Leaves, DelineatedStart
  <2>2. Edit(c, [call[c].mem EXCEPT !.leaf[l] = Cleared], {l})
    BY <1>4 DEF ClearSlot
  <2> QED
    BY <2>1, <2>2, WholeSetLeaf
<1>5. ASSUME NEW s \in Slots, SetResult(c, s) PROVE WholeInv'
  <2>1. s \in Leaves \ {"watershed"}
    BY LeavesAssumption DEF Leaves
  <2>2. PICK st \in Stamps(call[c].mem, s) :
          Edit(c, [call[c].mem EXCEPT !.leaf[s] = [of |-> call[c].geom, stamp |-> st]], {s})
    BY <1>5 DEF SetResult
  <2>3. st \in {NoBasin, BasinOf(call[c].mem)}
    BY DEF Stamps
  <2>4. [of |-> call[c].geom, stamp |-> st].stamp = st
    OBVIOUS
  <2> QED
    BY <2>1, <2>2, <2>3, <2>4, WholeSetLeaf
<1>6. ASSUME NEW n \in Notes, AddNote(c, n) PROVE WholeInv'
  <2>1. PICK ns, ed : Edit(c, [call[c].mem EXCEPT !.notes = ns], ed)
    BY <1>6 DEF AddNote
  <2> DEFINE m == [call[c].mem EXCEPT !.notes = ns]
  <2>2. m.leaf = call[c].mem.leaf
    BY NotesIsFile DEF StudyInv, Shape, IsCall
  <2>3. Edit(c, m, ed)
    BY <2>1
  <2> HIDE DEF m
  <2> QED
    BY <2>2, <2>3, WholeEdit
<1>7. ASSUME NEW p \in Plans, RegisterPlan(c, p) PROVE WholeInv'
  <2>1. Edit(c, [call[c].mem EXCEPT !.leaf["plan"] = p], {"plan"})
    BY <1>7 DEF RegisterPlan
  <2> QED
    BY <2>1, WholeSetLeaf, PlanIsLeaf
<1> QED
  BY <1>1, <1>2, <1>3, <1>4, <1>5, <1>6, <1>7 DEF Work, SetRecord, DropRecord

LEMMA WholeEnd ==
  ASSUME StudyInv, WholeInv, NEW c \in Calls,
         (BeginSave(c) /\ call[c].cancelled) \/ GiveUp(c) \/ Return(c) \/ Fail(c)
         \/ (Compare(c) /\ Overtaken(c) /\ Conflict(call[c].base, call[c].mem, file))
  PROVE  WholeInv'
<1>1. Frame(c) /\ call'[c] = NoCall /\ outline' = outline
  BY EndShape
<1>2. WholeCall(c)'
  BY <1>1 DEF WholeCall, NoCall, Active
<1> QED
  BY <1>1, <1>2, WholeFrame

LEMMA WholeCompare ==
  ASSUME DelineatedStart, StudyInv, WholeInv, NEW c \in Calls, Compare(c),
         ~(Overtaken(c) /\ Conflict(call[c].base, call[c].mem, file))
  PROVE  WholeInv'
<1>1. /\ Frame(c) /\ outline' = outline /\ call[c].pc = "saving"
      /\ call'[c].pc = "writing" /\ call'[c].out = Payload(c)
      /\ call'[c].mem = call[c].mem /\ call'[c].base = call[c].base
  BY CompareShape
<1>2. Whole(Payload(c))
  BY <1>1, WholePayload
<1>3. Whole(call[c].mem) /\ Whole(call[c].base)
  BY <1>1 DEF WholeInv, WholeCall, Active
<1>4. WholeCall(c)'
  BY <1>1, <1>2, <1>3 DEF WholeCall, Whole
<1> QED
  BY <1>1, <1>4, WholeFrame

LEMMA WholeReplace ==
  ASSUME StudyInv, WholeInv, NEW c \in Calls, Replace(c)
  PROVE  WholeInv'
<1>1. /\ call[c].pc = "writing" /\ file' = call[c].out /\ outline' = outline
      /\ \A d \in Calls \ {c} : call'[d] = call[d]
      /\ call'[c].pc = "open" /\ call'[c].mem = call[c].mem /\ call'[c].base = call[c].mem
  BY ReplaceShape
<1>2. Whole(call[c].mem) /\ Whole(call[c].out)
  BY <1>1 DEF WholeInv, WholeCall, Active
<1>3. Whole(file)'
  BY <1>1, <1>2 DEF Whole
<1>4. WholeCall(c)'
  BY <1>1, <1>2 DEF WholeCall, Whole
<1>5. \A d \in Calls \ {c} : WholeCall(d)'
  BY <1>1 DEF WholeInv, WholeCall, Whole
<1> QED
  BY <1>1, <1>3, <1>4, <1>5 DEF WholeInv

LEMMA NextKeepsWhole ==
  ASSUME DelineatedStart, StudyInv, WholeInv, [Next]_vars
  PROVE  WholeInv'
<1>1. CASE UNCHANGED vars
  BY <1>1 DEF vars, WholeInv, WholeCall, Whole
<1>2. ASSUME NEW c \in Calls, BeginSave(c) \/ Compare(c) \/ Cancel(c) PROVE WholeInv'
  BY <1>2, WholeIdle, WholeEnd, WholeCompare
<1> QED
  BY <1>1, <1>2, WholeStart, WholeWork, WholeReplace, WholeEnd DEF Next, SaveStep

\* In a study that was delineated before these calls, and whose watershed nobody clears, no
\* result of one basin stays in the file beside the watershed of another, however calls
\* that store basins and results overlap (store.py:1116-1117).
THEOREM OneBasinKept == DelineatedStart => (Spec => []OneBasin)
<1> SUFFICES ASSUME DelineatedStart PROVE Spec => []OneBasin
  OBVIOUS
<1>1. Init => StudyInv /\ WholeInv
  BY InitStudyInv, InitWholeInv
<1>2. StudyInv /\ WholeInv /\ [Next]_vars => (StudyInv /\ WholeInv)'
  BY NextStep, NextKeepsWhole
<1>3. WholeInv => OneBasin
  BY DEF WholeInv, Whole, HeldWatershed, OneBasin, BasinOf
<1> QED
  BY <1>1, <1>2, <1>3, PTL DEF Spec

-----------------------------------------------------------------------------
(* What the merge of lists keeps.  The library's induction theorems take an operator,   *)
(* so induction here is over a set: its least missing number.                           *)

LEMMA LeastOf ==
  ASSUME NEW T, T \subseteq Nat, T # {}
  PROVE  \E n \in T : \A m \in T : n =< m
<1> DEFINE R == {p \in Nat \X Nat : p[1] < p[2]}
<1>1. IsWellFoundedOn(R, Nat)
  BY NatLessThanWellFounded DEF OpToRel
<1>2. \A x, y \in Nat : y < x => <<y, x>> \in R
  OBVIOUS
<1> HIDE DEF R
<1>3. PICK x \in T : \A y \in T : <<y, x>> \notin R
  BY <1>1, WFMin
<1>4. ASSUME NEW y \in T PROVE x =< y
  <2>1. x \in Nat /\ y \in Nat
    OBVIOUS
  <2>2. ~(y < x)
    BY <1>2, <1>3, <2>1
  <2> QED
    BY <2>1, <2>2
<1> QED
  BY <1>4

LEMMA SetInduction ==
  ASSUME NEW T, T \subseteq Nat, 0 \in T, \A n \in T : n + 1 \in T
  PROVE  T = Nat
<1> SUFFICES ASSUME Nat \ T # {} PROVE FALSE
  OBVIOUS
<1>1. PICK n \in Nat \ T : \A m \in Nat \ T : n =< m
  BY LeastOf
<1>2. n # 0 /\ n - 1 \in Nat /\ ~(n =< n - 1)
  OBVIOUS
<1>3. n - 1 \in T
  BY <1>1, <1>2
<1>4. (n - 1) + 1 \in T
  BY <1>3
<1> QED
  BY <1>2, <1>4

\* The comprehension over the first i members, given what it is over fewer.
OutsideAt(s, S, f, i) ==
    IF i = 0 THEN << >> ELSE IF s[i] \in S THEN f[i - 1] ELSE Append(f[i - 1], s[i])

LEMMA PrefixesExist ==
  ASSUME NEW s, NEW S, NEW n \in Nat
  PROVE  \E f : f = [i \in 0 .. n |-> OutsideAt(s, S, f, i)]
<1> DEFINE Good == {m \in Nat : \E f : f = [i \in 0 .. m |-> OutsideAt(s, S, f, i)]}
<1>1. 0 \in Good
  <2> DEFINE f == [i \in 0 .. 0 |-> << >>]
  <2>1. f = [i \in 0 .. 0 |-> OutsideAt(s, S, f, i)]
    BY DEF OutsideAt
  <2> QED
    BY <2>1
<1>2. ASSUME NEW m \in Good PROVE m + 1 \in Good
  <2>1. PICK f : f = [i \in 0 .. m |-> OutsideAt(s, S, f, i)]
    OBVIOUS
  <2> DEFINE g == [i \in 0 .. (m + 1) |-> IF i =< m THEN f[i] ELSE OutsideAt(s, S, f, i)]
  <2>2. ASSUME NEW i \in 0 .. (m + 1) PROVE g[i] = OutsideAt(s, S, g, i)
    <3>1. m \in Nat
      OBVIOUS
    <3>2. i = 0 => g[i] = << >>
      BY <2>1, <3>1 DEF OutsideAt
    <3>3. i # 0 => i - 1 \in 0 .. m /\ g[i - 1] = f[i - 1]
      BY <3>1
    <3>4. g[i] = OutsideAt(s, S, f, i)
      BY <2>1, <3>1
    <3> HIDE DEF g
    <3> QED
      BY <3>2, <3>3, <3>4 DEF OutsideAt
  <2>3. g = [i \in 0 .. (m + 1) |-> OutsideAt(s, S, g, i)]
    <3>1. DOMAIN g = 0 .. (m + 1) /\ g = [i \in 0 .. (m + 1) |-> g[i]]
      OBVIOUS
    <3> HIDE DEF g
    <3> QED
      BY <2>2, <3>1
  <2> HIDE DEF g
  <2> QED
    BY <2>3
<1> HIDE DEF Good
<1>3. Good = Nat
  <2>1. Good \subseteq Nat
    BY DEF Good
  <2> QED
    BY <1>1, <1>2, <2>1, SetInduction
<1> QED
  BY <1>3 DEF Good

LEMMA OutsideIs ==
  ASSUME NEW A, NEW s \in Seq(A), NEW S
  PROVE  \E f : /\ \A i \in 0 .. Len(s) : f[i] = OutsideAt(s, S, f, i)
                /\ Outside(s, S) = f[Len(s)]
<1> DEFINE g == CHOOSE f : f = [i \in 0 .. Len(s) |->
                    IF i = 0 THEN << >> ELSE IF s[i] \in S THEN f[i - 1] ELSE Append(f[i - 1], s[i])]
<1>1. Outside(s, S) = g[Len(s)]
  BY DEF Outside
<1>2. \E f : f = [i \in 0 .. Len(s) |->
                    IF i = 0 THEN << >> ELSE IF s[i] \in S THEN f[i - 1] ELSE Append(f[i - 1], s[i])]
  <2>1. Len(s) \in Nat
    OBVIOUS
  <2>2. \E f : f = [i \in 0 .. Len(s) |-> OutsideAt(s, S, f, i)]
    BY <2>1, PrefixesExist, Zenon
  <2> QED
    BY <2>2 DEF OutsideAt
<1>3. g = [i \in 0 .. Len(s) |->
              IF i = 0 THEN << >> ELSE IF s[i] \in S THEN g[i - 1] ELSE Append(g[i - 1], s[i])]
  BY <1>2
<1> HIDE DEF g
<1>4. \A i \in 0 .. Len(s) : g[i] = OutsideAt(s, S, g, i)
  BY <1>3 DEF OutsideAt
<1> QED
  BY <1>1, <1>4

\* The comprehension keeps the members outside S, and nothing else.
LEMMA AppendMembers ==
  ASSUME NEW A, NEW q \in Seq(A), NEW a \in A
  PROVE  Append(q, a) \in Seq(A) /\ ToSet(Append(q, a)) = ToSet(q) \union {a}
<1> DEFINE r == Append(q, a)
<1>1. /\ r \in Seq(A) /\ DOMAIN r = 1 .. (Len(q) + 1) /\ DOMAIN q = 1 .. Len(q)
      /\ r[Len(q) + 1] = a /\ \A i \in 1 .. Len(q) : r[i] = q[i]
      /\ Len(q) \in Nat
  OBVIOUS
<1> HIDE DEF r
<1>2. ASSUME NEW x \in ToSet(r) PROVE x \in ToSet(q) \union {a}
  BY <1>1 DEF ToSet
<1>3. ToSet(q) \subseteq ToSet(r) /\ a \in ToSet(r)
  BY <1>1 DEF ToSet
<1>4. ToSet(r) = ToSet(q) \union {a}
  BY <1>2, <1>3
<1> QED
  BY <1>1, <1>4 DEF r

\* The comprehension keeps the members outside S, and nothing else.
LEMMA OutsideMembers ==
  ASSUME NEW A, NEW s \in Seq(A), NEW S
  PROVE  /\ Outside(s, S) \in Seq(A)
         /\ ToSet(Outside(s, S)) = ToSet(s) \ S
<1>1. PICK f : /\ \A i \in 0 .. Len(s) : f[i] = OutsideAt(s, S, f, i)
               /\ Outside(s, S) = f[Len(s)]
  BY OutsideIs
<1> DEFINE Through(i) == {s[j] : j \in 1 .. i} \ S
           Right(i) == f[i] \in Seq(A) /\ ToSet(f[i]) = Through(i)
           Good == {i \in Nat : i =< Len(s) => Right(i)}
<1>2. Len(s) \in Nat
  OBVIOUS
<1>3. Right(0)
  <2>1. f[0] = << >>
    BY <1>1, <1>2 DEF OutsideAt
  <2>2. ToSet(<< >>) = {}
    BY DEF ToSet
  <2>3. Through(0) = {}
    OBVIOUS
  <2> QED
    BY <2>1, <2>2, <2>3
<1>4. ASSUME NEW i \in Nat, i + 1 =< Len(s), Right(i) PROVE Right(i + 1)
  <2>1. i + 1 \in 1 .. Len(s) /\ i + 1 \in 0 .. Len(s) /\ s[i + 1] \in A /\ i + 1 # 0 /\ (i + 1) - 1 = i
    BY <1>4
  <2>2. f[i] \in Seq(A) /\ ToSet(f[i]) = Through(i)
    BY <1>4
  <2>3. f[i + 1] = IF s[i + 1] \in S THEN f[i] ELSE Append(f[i], s[i + 1])
    BY <1>1, <2>1 DEF OutsideAt
  <2>4. Through(i + 1) = IF s[i + 1] \in S THEN Through(i) ELSE Through(i) \union {s[i + 1]}
    BY <2>1
  <2>5. Append(f[i], s[i + 1]) \in Seq(A) /\ ToSet(Append(f[i], s[i + 1])) = Through(i) \union {s[i + 1]}
    BY <2>1, <2>2, AppendMembers
  <2> HIDE DEF Through
  <2> QED
    BY <2>2, <2>3, <2>4, <2>5
<1> HIDE DEF Right
<1>5. Good = Nat
  <2>1. Good \subseteq Nat /\ 0 \in Good
    BY <1>3
  <2>2. ASSUME NEW i \in Good PROVE i + 1 \in Good
    BY <1>2, <1>4
  <2> HIDE DEF Good
  <2> QED
    BY <2>1, <2>2, SetInduction
<1>6. Right(Len(s))
  <2>1. Len(s) \in Good
    BY <1>2, <1>5
  <2> QED
    BY <1>2, <2>1
<1>7. Through(Len(s)) = ToSet(s) \ S
  BY DEF ToSet
<1> QED
  BY <1>1, <1>6, <1>7 DEF Right

-----------------------------------------------------------------------------
(* Types *)

CallType(k, st) ==
    /\ k.pc \in {"none", "fetching", "drawn", "open", "saving", "writing"}
    /\ IsContent(k.mem) /\ IsContent(k.base) /\ IsContent(k.out)
    /\ k.seen \in -2 .. st
    /\ k.edited \subseteq Leaves \union Notes
    /\ k.left \in 0 .. MaxEdits
    /\ {k.target, k.geom} \subseteq Basins \union {NoBasin}
    /\ {k.guarded, k.cancelled} \subseteq BOOLEAN

LEMMA EmptyContent == IsContent(Empty)
<1>1. \A l \in Leaves : Absent \in LeafValues(l)
  BY DEF LeafValues
<1> QED
  BY <1>1 DEF IsContent, Empty

LEMMA NoCallType ==
  ASSUME NEW st \in Nat
  PROVE  CallType(NoCall, st)
BY EmptyContent, LeavesAssumption DEF CallType, NoCall, FreshObject

LEMMA InitTypeOK == Init => TypeOK
<1> SUFFICES ASSUME Init PROVE TypeOK
  OBVIOUS
<1>1. FirstFile \in [leaf : [Leaves -> UNION {LeafValues(l) : l \in Leaves}], notes : Seq(Notes)]
  BY LeavesAssumption
<1>2. IsContent(file)
  BY <1>1, LeavesAssumption DEF Init, IsContent
<1>3. \A c \in Calls : CallType(call[c], stamp)
  BY NoCallType DEF Init
<1> QED
  BY <1>2, <1>3, LeavesAssumption DEF Init, TypeOK, CallType

\* Values an object may come to hold.
LEMMA LeafContent ==
  ASSUME NEW f, IsFile(f), IsContent(f), NEW x \in Leaves, NEW v \in LeafValues(x)
  PROVE  IsContent([f EXCEPT !.leaf[x] = v])
<1> DEFINE g == [f EXCEPT !.leaf[x] = v]
<1>1. g.leaf[x] = v /\ \A l \in Leaves \ {x} : g.leaf[l] = f.leaf[l]
  BY LeafSet
<1>2. DOMAIN g.leaf = Leaves /\ g.notes = f.notes
  BY DEF IsFile
<1> HIDE DEF g
<1>3. IsContent(g)
  BY <1>1, <1>2 DEF IsContent
<1> QED
  BY <1>3 DEF g

LEMMA WithoutContent ==
  ASSUME NEW f, IsFile(f), IsContent(f), NEW slots
  PROVE  IsContent(Without(f, slots))
<1> DEFINE g == Without(f, slots)
<1>1. DOMAIN g.leaf = Leaves /\ g.notes = f.notes
  BY DEF IsFile, Without
<1>2. \A l \in Leaves : g.leaf[l] \in {f.leaf[l], Absent}
  BY DEF IsFile, Without
<1>3. \A l \in Leaves : Absent \in LeafValues(l)
  BY DEF LeafValues
<1> HIDE DEF g
<1>4. IsContent(g)
  BY <1>1, <1>2, <1>3 DEF IsContent
<1> QED
  BY <1>4 DEF g

LEMMA WatershedContent ==
  ASSUME DrawInv, NEW f, IsFile(f), IsContent(f), NEW b \in Basins
  PROVE  IsContent(PutWatershed(f, b))
<1>1. PICK slots : PutWatershed(f, b) =
                     [Without(f, slots) EXCEPT !.leaf["watershed"] = [of |-> b, stamp |-> OutlineOf(b)]]
  BY DEF PutWatershed
<1>2. IsFile(Without(f, slots)) /\ IsContent(Without(f, slots))
  BY WithoutIsFile, WithoutContent
<1>3. [of |-> b, stamp |-> OutlineOf(b)] \in LeafValues("watershed")
  BY DrawnIsPlaced, LeavesAssumption DEF LeafValues
<1> QED
  BY <1>1, <1>2, <1>3, LeafContent, PlanIsLeaf

LEMMA BasinTypes ==
  ASSUME NEW f
  PROVE  BasinOf(f) \in Basins \union {NoBasin}
BY DEF BasinOf, Placed

LEMMA OutlineTypes ==
  ASSUME outline \in Gauged \union {NoBasin}, NEW b \in Basins
  PROVE  OutlineOf(b) \in Basins \union {NoBasin}
BY DEF OutlineOf, Basins

LEMMA MergeNotesType ==
  ASSUME NEW base \in Seq(Notes), NEW ours \in Seq(Notes), NEW theirs \in Seq(Notes)
  PROVE  MergeNotes(base, ours, theirs) \in Seq(Notes)
<1>1. Outside(theirs, ToSet(base) \ ToSet(ours)) \in Seq(Notes)
  BY OutsideMembers
<1>2. Outside(ours, ToSet(base) \union ToSet(theirs)) \in Seq(Notes)
  BY OutsideMembers
<1> QED
  BY <1>1, <1>2 DEF MergeNotes

LEMMA MergeContent ==
  ASSUME NEW base, NEW ours, NEW theirs, IsContent(base), IsContent(ours), IsContent(theirs)
  PROVE  IsContent(Merge(base, ours, theirs))
<1> DEFINE m == Merge(base, ours, theirs)
<1>1. \A l \in Leaves : m.leaf[l] \in {ours.leaf[l], theirs.leaf[l]}
  BY MergedLeaf
<1>2. DOMAIN m.leaf = Leaves /\ m.notes = MergeNotes(base.notes, ours.notes, theirs.notes)
  BY DEF Merge
<1>3. m.notes \in Seq(Notes)
  BY <1>2, MergeNotesType DEF IsContent
<1> HIDE DEF m
<1>4. IsContent(m)
  BY <1>1, <1>2, <1>3 DEF IsContent
<1> QED
  BY <1>4 DEF m

LEMMA PayloadContent ==
  ASSUME StudyInv, TypeOK, NEW c \in Calls
  PROVE  IsContent(Payload(c))
<1>1. IsContent(call[c].mem) /\ IsContent(call[c].base) /\ IsContent(file)
  BY DEF TypeOK
<1>2. IsContent(Merge(call[c].base, call[c].mem, file)) /\ IsFile(Merge(call[c].base, call[c].mem, file))
  BY <1>1, MergeContent, MergeIsFile
<1> QED
  BY <1>1, <1>2, WithoutContent DEF Payload, ApplyBasinChange

\* A step of one call that leaves the file keeps the types if its object's are kept.
LEMMA TypeStep ==
  ASSUME StudyInv, TypeOK, NEW c \in Calls, NEW k, call' = [call EXCEPT ![c] = k], CallType(k, stamp),
         UNCHANGED <<file, stamp>>, outline' \in Gauged \union {NoBasin},
         guard' \in Calls \union {Nobody}, cancels' \in Nat
  PROVE  TypeOK'
<1>1. \A d \in Calls : CallType(call[d], stamp)
  BY DEF TypeOK, CallType
<1>2. DOMAIN call' = Calls /\ \A d \in Calls : call'[d] = IF d = c THEN k ELSE call[d]
  BY DEF StudyInv, Shape
<1>3. \A d \in Calls : CallType(call'[d], stamp)
  BY <1>1, <1>2
<1> QED
  BY <1>2, <1>3 DEF TypeOK, CallType, IsContent

LEMMA EndType ==
  ASSUME StudyInv, TypeOK, NEW c \in Calls, Ended(c), UNCHANGED <<file, stamp, outline, cancels>>
  PROVE  TypeOK'
<1>1. CallType(NoCall, stamp)
  BY NoCallType DEF TypeOK
<1>2. /\ call' = [call EXCEPT ![c] = NoCall]
      /\ guard' \in Calls \union {Nobody} /\ outline' \in Gauged \union {NoBasin} /\ cancels' \in Nat
  BY DEF Ended, TypeOK
<1> QED
  BY <1>1, <1>2, TypeStep

LEMMA EditType ==
  ASSUME StudyInv, TypeOK, NEW c \in Calls, NEW mem, NEW edited, Edit(c, mem, edited),
         IsContent(mem), edited \subseteq Leaves \union Notes
  PROVE  TypeOK'
<1> DEFINE k == [call[c] EXCEPT !.mem = mem, !.left = @ - 1, !.edited = @ \union edited]
<1>1. call' = [call EXCEPT ![c] = k] /\ call[c].left > 0
  BY DEF Edit
<1>2. call[c] = [f \in Fields |-> call[c][f]]
  BY DEF StudyInv, Shape, IsCall
<1>3. CallType(call[c], stamp)
  BY DEF TypeOK, CallType
<1>4. /\ k.pc = call[c].pc /\ k.mem = mem /\ k.base = call[c].base /\ k.out = call[c].out
      /\ k.seen = call[c].seen /\ k.edited = call[c].edited \union edited
      /\ k.left = call[c].left - 1 /\ k.target = call[c].target /\ k.geom = call[c].geom
      /\ k.guarded = call[c].guarded /\ k.cancelled = call[c].cancelled
  BY <1>2 DEF Fields
<1> HIDE DEF k
<1>5. call[c].left - 1 \in 0 .. MaxEdits
  BY <1>1, <1>3, LeavesAssumption DEF CallType
<1>6. CallType(k, stamp)
  BY <1>3, <1>4, <1>5 DEF CallType
<1>7. UNCHANGED <<file, stamp, outline, guard, cancels>>
  BY DEF Edit
<1> QED
  BY <1>1, <1>6, <1>7, TypeStep DEF TypeOK

LEMMA LoadedType ==
  ASSUME Shape, TypeOK, NEW k, IsCall(k), CallType(k, stamp)
  PROVE  CallType(Loaded(k), stamp)
<1>1. k = [f \in Fields |-> k[f]] /\ IsContent(file) /\ stamp \in -2 .. stamp
  BY DEF IsCall, TypeOK
<1> DEFINE o == Loaded(k)
<1>2. /\ o.pc = "open" /\ o.out = k.out /\ o.edited = k.edited /\ o.left = k.left
      /\ o.target = k.target /\ o.geom = k.geom /\ o.guarded = k.guarded /\ o.cancelled = k.cancelled
      /\ o.mem \in {k.mem, file} /\ o.base \in {k.base, file} /\ o.seen \in {k.seen, stamp}
  BY <1>1 DEF Loaded, Fields
<1> HIDE DEF o
<1>3. CallType(o, stamp)
  BY <1>1, <1>2 DEF CallType
<1> QED
  BY <1>3 DEF o

LEMMA StartType ==
  ASSUME StudyInv, TypeOK, NEW c \in Calls, Start(c)
  PROVE  TypeOK'
<1>1. Shape /\ IsCall(NoCall) /\ CallType(NoCall, stamp)
  BY NoCallIsCall, NoCallType DEF StudyInv, TypeOK
<1> DEFINE k == Loaded(NoCall)
<1>2. CallType(k, stamp) /\ IsCall(k)
  BY <1>1, LoadedType, LoadedObject
<1>3. CASE Open(c)
  <2>1. call' = [call EXCEPT ![c] = k] /\ UNCHANGED <<file, stamp, outline, guard, cancels>>
    BY <1>3 DEF Open
  <2> HIDE DEF k
  <2> QED
    BY <1>2, <2>1, TypeStep DEF TypeOK
<1>4. CASE OpenGuarded(c)
  <2> DEFINE g == [k EXCEPT !.guarded = TRUE]
  <2>1. call' = [call EXCEPT ![c] = g] /\ guard' = c /\ UNCHANGED <<file, stamp, outline, cancels>>
    BY <1>4 DEF OpenGuarded
  <2> HIDE DEF k
  <2>2. k = [f \in Fields |-> k[f]]
    BY <1>2 DEF IsCall
  <2>3. /\ g.pc = k.pc /\ g.mem = k.mem /\ g.base = k.base /\ g.out = k.out /\ g.seen = k.seen
        /\ g.edited = k.edited /\ g.left = k.left /\ g.target = k.target /\ g.geom = k.geom
        /\ g.guarded = TRUE /\ g.cancelled = k.cancelled
    BY <2>2 DEF Fields
  <2> HIDE DEF g
  <2>4. CallType(g, stamp)
    BY <1>2, <2>3 DEF CallType
  <2> QED
    BY <2>1, <2>4, TypeStep DEF TypeOK
<1>5. ASSUME NEW b \in Basins, Delineate(c, b) PROVE TypeOK'
  <2> DEFINE g == [NoCall EXCEPT !.pc = "fetching", !.target = b]
  <2>1. call' = [call EXCEPT ![c] = g] /\ UNCHANGED <<file, stamp, outline, guard, cancels>>
    BY <1>5 DEF Delineate
  <2>2. CallType(g, stamp)
    BY <1>1 DEF CallType, NoCall
  <2> HIDE DEF g
  <2> QED
    BY <2>1, <2>2, TypeStep DEF TypeOK
<1> QED
  BY <1>3, <1>4, <1>5 DEF Start

\* A call whose place, geometry or cancel flag changes, and nothing else of it.
Moves(c, pc, geom, cancelled) ==
    call' = [call EXCEPT ![c] = [@ EXCEPT !.pc = pc, !.geom = geom, !.cancelled = cancelled]]

LEMMA MoveType ==
  ASSUME StudyInv, TypeOK, NEW c \in Calls, NEW pc, NEW geom, NEW cancelled,
         Moves(c, pc, geom, cancelled),
         pc \in {"none", "fetching", "drawn", "open", "saving", "writing"},
         geom \in Basins \union {NoBasin}, cancelled \in BOOLEAN,
         UNCHANGED <<file, stamp, guard>>, outline' \in Gauged \union {NoBasin}, cancels' \in Nat
  PROVE  TypeOK'
<1> DEFINE k == [call[c] EXCEPT !.pc = pc, !.geom = geom, !.cancelled = cancelled]
<1>1. call[c] = [f \in Fields |-> call[c][f]]
  BY DEF StudyInv, Shape, IsCall
<1>2. CallType(call[c], stamp)
  BY DEF TypeOK, CallType
<1>3. /\ k.pc = pc /\ k.mem = call[c].mem /\ k.base = call[c].base /\ k.out = call[c].out
      /\ k.seen = call[c].seen /\ k.edited = call[c].edited /\ k.left = call[c].left
      /\ k.target = call[c].target /\ k.geom = geom
      /\ k.guarded = call[c].guarded /\ k.cancelled = cancelled
  BY <1>1 DEF Fields
<1>4. call' = [call EXCEPT ![c] = k]
  BY DEF Moves
<1> HIDE DEF k
<1>5. CallType(k, stamp)
  BY <1>2, <1>3 DEF CallType
<1> QED
  BY <1>4, <1>5, TypeStep DEF TypeOK

LEMMA IdleType ==
  ASSUME StudyInv, TypeOK, NEW c \in Calls,
         WriteOutline(c) \/ ReadGeometry(c) \/ Cancel(c) \/ (BeginSave(c) /\ ~call[c].cancelled)
  PROVE  TypeOK'
<1>1. call[c] = [f \in Fields |-> call[c][f]]
  BY DEF StudyInv, Shape, IsCall
<1>2. CallType(call[c], stamp) /\ cancels \in Nat /\ outline \in Gauged \union {NoBasin}
  BY DEF TypeOK, CallType
<1>3. call[c].geom \in Basins \union {NoBasin} /\ call[c].cancelled \in BOOLEAN
  BY <1>2 DEF CallType
<1>4. call[c].pc \in {"none", "fetching", "drawn", "open", "saving", "writing"}
  BY <1>2 DEF CallType
<1>5. CASE WriteOutline(c)
  <2>1. Moves(c, "drawn", call[c].geom, call[c].cancelled)
    BY <1>1, <1>5 DEF WriteOutline, Fields, Moves, StudyInv, Shape
  <2>2. UNCHANGED <<file, stamp, guard, cancels>> /\ outline' \in Gauged \union {NoBasin}
    BY <1>2, <1>5 DEF WriteOutline
  <2> QED
    BY <1>2, <1>3, <1>4, <2>1, <2>2, MoveType
<1>6. CASE ReadGeometry(c)
  <2> DEFINE g == OutlineOf(file.leaf["watershed"].of)
  <2>1. Moves(c, call[c].pc, g, call[c].cancelled)
    BY <1>1, <1>6 DEF ReadGeometry, Fields, Moves, StudyInv, Shape
  <2>2. UNCHANGED <<file, stamp, guard, outline, cancels>>
    BY <1>6 DEF ReadGeometry
  <2>3. g \in Basins \union {NoBasin}
    BY <1>2, <1>6, OutlineTypes DEF ReadGeometry, Placed
  <2> HIDE DEF g
  <2> QED
    BY <1>2, <1>3, <1>4, <2>1, <2>2, <2>3, MoveType
<1>7. CASE Cancel(c)
  <2>1. Moves(c, call[c].pc, call[c].geom, TRUE)
    BY <1>1, <1>7 DEF Cancel, Fields, Moves, StudyInv, Shape
  <2>2. UNCHANGED <<file, stamp, guard, outline>> /\ cancels' \in Nat
    BY <1>2, <1>7 DEF Cancel
  <2> QED
    BY <1>2, <1>3, <1>4, <2>1, <2>2, MoveType
<1>8. CASE BeginSave(c) /\ ~call[c].cancelled
  <2>1. call' = [call EXCEPT ![c].pc = "saving"] /\ UNCHANGED <<file, stamp, guard, outline, cancels>>
    BY <1>8 DEF BeginSave
  <2>2. Moves(c, "saving", call[c].geom, call[c].cancelled)
    BY <1>1, <2>1 DEF Fields, Moves, StudyInv, Shape
  <2> QED
    BY <1>2, <1>3, <2>1, <2>2, MoveType
<1> QED
  BY <1>5, <1>6, <1>7, <1>8

LEMMA StoreType ==
  ASSUME StudyInv, DrawInv, TypeOK, NEW c \in Calls, StoreWatershed(c)
  PROVE  TypeOK'
<1> DEFINE k == Loaded(call[c])
           m == PutWatershed(k.mem, k.target)
           g == [k EXCEPT !.mem = m, !.left = 0, !.edited = {"watershed"} \union Slots]
<1>1. Shape /\ IsCall(call[c]) /\ CallType(call[c], stamp)
  BY DEF StudyInv, Shape, TypeOK, CallType
<1>2. CallType(k, stamp) /\ IsCall(k) /\ k.target = call[c].target
  BY <1>1, LoadedType, LoadedObject
<1>3. call[c].target \in Basins
  BY DEF StoreWatershed, DrawInv
<1>4. call' = [call EXCEPT ![c] = g] /\ UNCHANGED <<file, stamp, outline, guard, cancels>>
  BY DEF StoreWatershed
<1> HIDE DEF k
<1>5. IsContent(m)
  BY <1>2, <1>3, WatershedContent DEF CallType, IsCall
<1> HIDE DEF m
<1>6. k = [f \in Fields |-> k[f]]
  BY <1>2 DEF IsCall
<1>7. /\ g.pc = k.pc /\ g.mem = m /\ g.base = k.base /\ g.out = k.out /\ g.seen = k.seen
      /\ g.edited = {"watershed"} \union Slots /\ g.left = 0 /\ g.target = k.target /\ g.geom = k.geom
      /\ g.guarded = k.guarded /\ g.cancelled = k.cancelled
  BY <1>6 DEF Fields
<1> HIDE DEF g
<1>8. CallType(g, stamp)
  BY <1>2, <1>5, <1>7, LeavesAssumption DEF CallType, Leaves
<1> QED
  BY <1>4, <1>8, TypeStep DEF TypeOK

LEMMA LeafType ==
  ASSUME StudyInv, TypeOK, NEW c \in Calls, NEW x \in Leaves, NEW v \in LeafValues(x),
         Edit(c, [call[c].mem EXCEPT !.leaf[x] = v], {x})
  PROVE  TypeOK'
<1> DEFINE m == [call[c].mem EXCEPT !.leaf[x] = v]
<1>1. IsFile(call[c].mem) /\ IsContent(call[c].mem)
  BY DEF StudyInv, Shape, IsCall, TypeOK
<1>2. IsContent(m)
  BY <1>1, LeafContent
<1>3. Edit(c, m, {x})
  OBVIOUS
<1> HIDE DEF m
<1> QED
  BY <1>2, <1>3, EditType

\* The notes after add_note: those there is room for, and the new one.
LEMMA NotesAdded ==
  ASSUME StudyInv, TypeOK, NEW c \in Calls, NEW n \in Notes, AddNote(c, n)
  PROVE  \E room \in Seq(Notes) :
           /\ ToSet(room) \subseteq ToSet(call[c].mem.notes)
           /\ Append(room, n) \in Seq(Notes)
           /\ ToSet(Append(room, n)) = ToSet(room) \union {n}
           /\ Edit(c, [call[c].mem EXCEPT !.notes = Append(room, n)],
                   {n} \union (ToSet(call[c].mem.notes) \ ToSet(room)))
<1> DEFINE notes == call[c].mem.notes
           room == IF Len(notes) >= NoteLimit
                     THEN SubSeq(notes, Len(notes) - NoteLimit + 2, Len(notes))
                     ELSE notes
<1>1. Edit(c, [call[c].mem EXCEPT !.notes = Append(room, n)], {n} \union (ToSet(notes) \ ToSet(room)))
  BY DEF AddNote
<1>2. notes \in Seq(Notes) /\ NoteLimit \in Nat
  BY LeavesAssumption DEF TypeOK, IsContent
<1> HIDE DEF notes
<1>3. room \in Seq(Notes) /\ ToSet(room) \subseteq ToSet(notes)
  <2>1. CASE Len(notes) < NoteLimit
    BY <1>2, <2>1
  <2>2. CASE Len(notes) >= NoteLimit
    <3> DEFINE a == Len(notes) - NoteLimit + 2
    <3>1. room = SubSeq(notes, a, Len(notes)) /\ a \in Nat /\ a >= 2 /\ Len(notes) \in Nat
      BY <1>2, <2>2
    <3> HIDE DEF room, a
    <3>2. room \in Seq(Notes)
      BY <1>2, <3>1
    <3>3. \A i \in DOMAIN room : room[i] = notes[a + i - 1] /\ a + i - 1 \in DOMAIN notes
      BY <1>2, <3>1
    <3> QED
      BY <3>2, <3>3 DEF ToSet
  <2> QED
    BY <1>2, <2>1, <2>2
<1> HIDE DEF room
<1>4. Append(room, n) \in Seq(Notes) /\ ToSet(Append(room, n)) = ToSet(room) \union {n}
  BY <1>3, AppendMembers
<1> QED
  BY <1>1, <1>3, <1>4 DEF notes

LEMMA NoteType ==
  ASSUME StudyInv, TypeOK, NEW c \in Calls, NEW n \in Notes, AddNote(c, n)
  PROVE  TypeOK'
<1>1. PICK room \in Seq(Notes) :
        /\ Append(room, n) \in Seq(Notes)
        /\ Edit(c, [call[c].mem EXCEPT !.notes = Append(room, n)],
                {n} \union (ToSet(call[c].mem.notes) \ ToSet(room)))
  BY NotesAdded
<1> DEFINE m == [call[c].mem EXCEPT !.notes = Append(room, n)]
           edited == {n} \union (ToSet(call[c].mem.notes) \ ToSet(room))
<1>2. IsFile(call[c].mem) /\ IsContent(call[c].mem)
  BY DEF StudyInv, Shape, IsCall, TypeOK
<1>3. m.leaf = call[c].mem.leaf /\ m.notes = Append(room, n)
  BY <1>2 DEF IsFile
<1>4. edited \subseteq Leaves \union Notes
  BY <1>2 DEF IsContent, ToSet
<1>5. Edit(c, m, edited)
  BY <1>1
<1> HIDE DEF m, edited
<1>6. IsContent(m)
  BY <1>1, <1>2, <1>3 DEF IsContent
<1> QED
  BY <1>4, <1>5, <1>6, EditType

LEMMA WorkType ==
  ASSUME StudyInv, DrawInv, TypeOK, NEW c \in Calls, Work(c)
  PROVE  TypeOK'
<1>1. CASE WriteOutline(c) \/ ReadGeometry(c)
  BY <1>1, IdleType
<1>2. CASE StoreWatershed(c)
  BY <1>2, StoreType
<1>3. ASSUME NEW r \in Records, NEW v \in Values, SetRecord(c, r, v) PROVE TypeOK'
  <2>1. r \in Leaves /\ v \in LeafValues(r)
    BY DEF Leaves, LeafValues
  <2> QED
    BY <1>3, <2>1, LeafType DEF SetRecord
<1>4. ASSUME NEW r \in Records \intersect Clearable, DropRecord(c, r) PROVE TypeOK'
  <2>1. r \in Leaves /\ Absent \in LeafValues(r)
    BY DEF Leaves, LeafValues
  <2> QED
    BY <1>4, <2>1, LeafType DEF DropRecord
<1>5. ASSUME NEW l \in Clearable \ Records, ClearSlot(c, l) PROVE TypeOK'
  <2>1. l \in Leaves /\ Cleared \in LeafValues(l)
    BY LeavesAssumption DEF Leaves, LeafValues
  <2> QED
    BY <1>5, <2>1, LeafType DEF ClearSlot
<1>6. ASSUME NEW s \in Slots, SetResult(c, s) PROVE TypeOK'
  <2>1. PICK st \in Stamps(call[c].mem, s) :
          Edit(c, [call[c].mem EXCEPT !.leaf[s] = [of |-> call[c].geom, stamp |-> st]], {s})
    BY <1>6 DEF SetResult
  <2>2. st \in Basins \union {NoBasin}
    BY BasinTypes DEF Stamps
  <2>3. call[c].geom \in Basins
    BY <1>6 DEF SetResult, TypeOK
  <2>4. s \in Leaves /\ [of |-> call[c].geom, stamp |-> st] \in LeafValues(s)
    BY <2>2, <2>3, LeavesAssumption DEF Leaves, LeafValues, Placed
  <2> QED
    BY <2>1, <2>4, LeafType
<1>7. ASSUME NEW n \in Notes, AddNote(c, n) PROVE TypeOK'
  BY <1>7, NoteType
<1>8. ASSUME NEW p \in Plans, RegisterPlan(c, p) PROVE TypeOK'
  <2>1. p \in LeafValues("plan")
    BY PlanIsLeaf DEF LeafValues
  <2> QED
    BY <1>8, <2>1, LeafType, PlanIsLeaf DEF RegisterPlan
<1> QED
  BY <1>1, <1>2, <1>3, <1>4, <1>5, <1>6, <1>7, <1>8 DEF Work

LEMMA CompareType ==
  ASSUME StudyInv, TypeOK, NEW c \in Calls, Compare(c)
  PROVE  TypeOK'
<1>1. CASE Overtaken(c) /\ Conflict(call[c].base, call[c].mem, file)
  BY <1>1, EndType DEF Compare
<1>2. CASE ~(Overtaken(c) /\ Conflict(call[c].base, call[c].mem, file))
  <2> DEFINE o == Payload(c)
             k == [call[c] EXCEPT !.pc = "writing", !.out = o]
  <2>1. /\ call' = [call EXCEPT ![c] = k] /\ guard' = c
        /\ UNCHANGED <<file, stamp, outline, cancels>>
    BY <1>2 DEF Compare
  <2>2. call[c] = [f \in Fields |-> call[c][f]]
    BY DEF StudyInv, Shape, IsCall
  <2>3. IsContent(o)
    BY PayloadContent
  <2>4. CallType(call[c], stamp)
    BY DEF TypeOK, CallType
  <2> HIDE DEF o
  <2>5. /\ k.pc = "writing" /\ k.mem = call[c].mem /\ k.base = call[c].base /\ k.out = o
        /\ k.seen = call[c].seen /\ k.edited = call[c].edited /\ k.left = call[c].left
        /\ k.target = call[c].target /\ k.geom = call[c].geom
        /\ k.guarded = call[c].guarded /\ k.cancelled = call[c].cancelled
    BY <2>2 DEF Fields
  <2> HIDE DEF k
  <2>6. CallType(k, stamp)
    BY <2>3, <2>4, <2>5 DEF CallType
  <2> QED
    BY <2>1, <2>6, TypeStep DEF TypeOK
<1> QED
  BY <1>1, <1>2

LEMMA ReplaceType ==
  ASSUME StudyInv, TypeOK, NEW c \in Calls, Replace(c)
  PROVE  TypeOK'
<1> DEFINE st == IF Overtaken(c) THEN StampUnknown ELSE stamp'
           k == [call[c] EXCEPT !.pc = "open", !.base = call[c].mem, !.edited = {}, !.seen = st]
<1>1. /\ call' = [call EXCEPT ![c] = k] /\ file' = call[c].out /\ stamp' = stamp + 1
      /\ guard' = (IF call[c].guarded THEN guard ELSE Nobody) /\ UNCHANGED <<outline, cancels>>
  BY DEF Replace
<1>2. call[c] = [f \in Fields |-> call[c][f]]
  BY DEF StudyInv, Shape, IsCall
<1>3. stamp \in Nat /\ \A d \in Calls : CallType(call[d], stamp)
  BY DEF TypeOK, CallType
<1>4. st \in -2 .. stamp'
  BY <1>1, <1>3 DEF StampUnknown
<1> HIDE DEF st
<1>5. /\ k.pc = "open" /\ k.mem = call[c].mem /\ k.base = call[c].mem /\ k.out = call[c].out
      /\ k.seen = st /\ k.edited = {} /\ k.left = call[c].left
      /\ k.target = call[c].target /\ k.geom = call[c].geom
      /\ k.guarded = call[c].guarded /\ k.cancelled = call[c].cancelled
  BY <1>2 DEF Fields
<1> HIDE DEF k
<1>6. CallType(k, stamp')
  BY <1>3, <1>4, <1>5 DEF CallType
<1>7. \A d \in Calls : CallType(call[d], stamp')
  <2>1. -2 .. stamp \subseteq -2 .. stamp'
    BY <1>1, <1>3
  <2> QED
    BY <1>3, <2>1 DEF CallType
<1>8. DOMAIN call' = Calls /\ \A d \in Calls : call'[d] = IF d = c THEN k ELSE call[d]
  BY <1>1 DEF StudyInv, Shape
<1>9. \A d \in Calls : CallType(call'[d], stamp')
  BY <1>6, <1>7, <1>8
<1>10. IsContent(file)'
  BY <1>1, <1>3 DEF CallType, IsContent
<1>11. stamp' \in Nat /\ cancels' \in Nat /\ outline' \in Gauged \union {NoBasin} /\ guard' \in Calls \union {Nobody}
  BY <1>1 DEF TypeOK
<1> QED
  BY <1>8, <1>9, <1>10, <1>11 DEF TypeOK, CallType, IsContent

LEMMA NextType ==
  ASSUME StudyInv, DrawInv, TypeOK, [Next]_vars
  PROVE  TypeOK'
<1>1. CASE UNCHANGED vars
  BY <1>1 DEF vars, TypeOK, IsContent
<1>2. ASSUME NEW c \in Calls, BeginSave(c) \/ Cancel(c) PROVE TypeOK'
  BY <1>2, IdleType, EndType DEF BeginSave
<1>3. ASSUME NEW c \in Calls, GiveUp(c) \/ Return(c) \/ Fail(c) PROVE TypeOK'
  BY <1>3, EndType DEF GiveUp, Return, Fail
<1> QED
  BY <1>1, <1>2, <1>3, StartType, WorkType, CompareType, ReplaceType DEF Next, SaveStep

\* Every reachable state is well typed.
THEOREM StudyTyping == Spec => []TypeOK
<1>1. Init => StudyInv /\ DrawInv /\ TypeOK
  BY InitStudyInv, InitDrawInv, InitTypeOK
<1>2. (StudyInv /\ DrawInv /\ TypeOK) /\ [Next]_vars => (StudyInv /\ DrawInv /\ TypeOK)'
  BY NextStep, NextKeepsDraw, NextType
<1> QED
  BY <1>1, <1>2, PTL DEF Spec

-----------------------------------------------------------------------------
(* Notes that a save keeps, and that arrive with it *)

Between(s, t) == (ToSet(s) \ ToSet(t)) \union (ToSet(t) \ ToSet(s))

OwnNotes(c) ==
    /\ Between(call[c].mem.notes, call[c].base.notes) \subseteq call[c].edited
    /\ call[c].pc = "writing" =>
          /\ WasLoaded(c) => Between(file.notes, call[c].out.notes) \subseteq call[c].edited
          /\ ToSet(call[c].mem.notes) \ ToSet(call[c].base.notes) \subseteq ToSet(call[c].out.notes)

NoteInv == \A c \in Calls : OwnNotes(c)

LEMMA ConcatMembers ==
  ASSUME NEW A, NEW p \in Seq(A), NEW q \in Seq(A)
  PROVE  ToSet(p \o q) = ToSet(p) \union ToSet(q)
<1> DEFINE r == p \o q
<1>1. /\ Len(p) \in Nat /\ Len(q) \in Nat
      /\ DOMAIN r = 1 .. (Len(p) + Len(q)) /\ DOMAIN p = 1 .. Len(p) /\ DOMAIN q = 1 .. Len(q)
      /\ \A i \in DOMAIN r : r[i] = IF i =< Len(p) THEN p[i] ELSE q[i - Len(p)]
  OBVIOUS
<1> HIDE DEF r
<1>2. ToSet(r) \subseteq ToSet(p) \union ToSet(q)
  BY <1>1 DEF ToSet
<1>3. ToSet(p) \subseteq ToSet(r)
  BY <1>1 DEF ToSet
<1>4. ToSet(q) \subseteq ToSet(r)
  <2>1. ASSUME NEW i \in DOMAIN q PROVE Len(p) + i \in DOMAIN r /\ r[Len(p) + i] = q[i]
    BY <1>1
  <2> QED
    BY <2>1 DEF ToSet
<1>5. ToSet(r) = ToSet(p) \union ToSet(q)
  BY <1>2, <1>3, <1>4
<1> QED
  BY <1>5 DEF r

\* A merge of lists differs from theirs by what differs between ours and the baseline, and
\* has what we added.
LEMMA MergedNotes ==
  ASSUME NEW base \in Seq(Notes), NEW ours \in Seq(Notes), NEW theirs \in Seq(Notes)
  PROVE  LET m == MergeNotes(base, ours, theirs) IN
         /\ Between(theirs, m) \subseteq Between(ours, base)
         /\ ToSet(ours) \ ToSet(base) \subseteq ToSet(m)
<1> DEFINE m == MergeNotes(base, ours, theirs)
           kept == Outside(theirs, ToSet(base) \ ToSet(ours))
           added == Outside(ours, ToSet(base) \union ToSet(theirs))
<1>1. CASE theirs = base
  BY <1>1 DEF MergeNotes, Between
<1>2. CASE theirs # base /\ ours \in {base, theirs}
  BY <1>2 DEF MergeNotes, Between
<1>3. CASE theirs # base /\ ours \notin {base, theirs}
  <2>1. m = kept \o added
    BY <1>3 DEF MergeNotes
  <2>2. /\ kept \in Seq(Notes) /\ ToSet(kept) = ToSet(theirs) \ (ToSet(base) \ ToSet(ours))
        /\ added \in Seq(Notes) /\ ToSet(added) = ToSet(ours) \ (ToSet(base) \union ToSet(theirs))
    BY OutsideMembers
  <2> HIDE DEF kept, added, m
  <2>3. ToSet(m) = ToSet(kept) \union ToSet(added)
    BY <2>1, <2>2, ConcatMembers
  <2>4. /\ Between(theirs, m) \subseteq Between(ours, base)
        /\ ToSet(ours) \ ToSet(base) \subseteq ToSet(m)
    BY <2>2, <2>3 DEF Between
  <2> QED
    BY <2>4 DEF m
<1> QED
  BY <1>1, <1>2, <1>3

LEMMA InitNoteInv == Init => NoteInv
BY DEF Init, NoteInv, OwnNotes, NoCall, Between

LEMMA NoteFrame ==
  ASSUME NoteInv, NEW c \in Calls, Frame(c), OwnNotes(c)'
  PROVE  NoteInv'
<1>1. ASSUME NEW d \in Calls \ {c} PROVE OwnNotes(d)'
  BY DEF NoteInv, Frame, OwnNotes, WasLoaded
<1> QED
  BY <1>1 DEF NoteInv

\* A step that leaves the notes of a call that is not about to write.
LEMMA NotesLeft ==
  ASSUME NoteInv, NEW c \in Calls, Frame(c), call'[c].pc # "writing",
         Between(call'[c].mem.notes, call'[c].base.notes) \subseteq call'[c].edited
  PROVE  NoteInv'
BY NoteFrame DEF OwnNotes, Between

LEMMA StartNotes ==
  ASSUME StudyInv, NoteInv, NEW c \in Calls, Start(c)
  PROVE  NoteInv'
<1>1. CASE Open(c) \/ OpenGuarded(c)
  <2>1. Frame(c) /\ call'[c].pc = "open" /\ call'[c].mem = call'[c].base
    BY <1>1, LoadShape
  <2> QED
    BY <2>1, NotesLeft DEF Between
<1>2. ASSUME NEW b \in Basins, Delineate(c, b) PROVE NoteInv'
  <2>1. Frame(c) /\ call'[c].pc = "fetching" /\ call'[c].mem = Empty /\ call'[c].base = Empty
    BY <1>2, DelineateShape
  <2> QED
    BY <2>1, NotesLeft DEF Between
<1> QED
  BY <1>1, <1>2 DEF Start

LEMMA IdleNotes ==
  ASSUME StudyInv, NoteInv, NEW c \in Calls,
         WriteOutline(c) \/ ReadGeometry(c) \/ Cancel(c) \/ (BeginSave(c) /\ ~call[c].cancelled)
  PROVE  NoteInv'
<1>1. /\ Frame(c) /\ Kept(c)
      /\ call'[c].pc = "writing" => call[c].pc = "writing"
  BY IdleShape
<1>2. OwnNotes(c)'
  BY <1>1 DEF NoteInv, OwnNotes, Kept, Frame, WasLoaded
<1> QED
  BY <1>1, <1>2, NoteFrame

LEMMA EndNotes ==
  ASSUME StudyInv, NoteInv, NEW c \in Calls,
         (BeginSave(c) /\ call[c].cancelled) \/ GiveUp(c) \/ Return(c) \/ Fail(c)
         \/ (Compare(c) /\ Overtaken(c) /\ Conflict(call[c].base, call[c].mem, file))
  PROVE  NoteInv'
<1>1. Frame(c) /\ call'[c] = NoCall
  BY EndShape
<1>2. call'[c].pc # "writing" /\ call'[c].mem = call'[c].base
  BY <1>1 DEF NoCall
<1> QED
  BY <1>1, <1>2, NotesLeft DEF Between

\* A stored watershed: the object is the file's but for its leaves.
LEMMA StoreNotes ==
  ASSUME StudyInv, EditInv, NoteInv, NEW c \in Calls, StoreWatershed(c)
  PROVE  NoteInv'
<1>1. /\ Frame(c) /\ call'[c].pc = "open"
      /\ Exists => /\ call'[c].base = file
                   /\ call'[c].mem = PutWatershed(file, call[c].target)
      /\ ~Exists => /\ call'[c].base = call[c].base
                    /\ call'[c].mem = PutWatershed(call[c].mem, call[c].target)
  BY StoreShape
<1>2. call[c].mem = call[c].base /\ IsFile(file) /\ IsFile(call[c].mem)
  BY DEF EditInv, OwnBase, Active, StoreWatershed, StudyInv, Shape, IsCall
<1>3. ASSUME NEW f, IsFile(f), NEW b PROVE PutWatershed(f, b).notes = f.notes
  BY <1>3 DEF PutWatershed, Without, IsFile
<1>4. call'[c].mem.notes = call'[c].base.notes
  BY <1>1, <1>2, <1>3
<1> QED
  BY <1>1, <1>4, NotesLeft DEF Between

LEMMA EditNotes ==
  ASSUME StudyInv, NoteInv, NEW c \in Calls, NEW mem, NEW edited, Edit(c, mem, edited),
         Between(mem.notes, call[c].mem.notes) \subseteq edited
  PROVE  NoteInv'
<1>1. /\ Frame(c) /\ call'[c].pc = "open" /\ call'[c].mem = mem
      /\ call'[c].edited = call[c].edited \union edited /\ call'[c].base = call[c].base
  BY EditShape
<1>2. Between(call[c].mem.notes, call[c].base.notes) \subseteq call[c].edited
  BY DEF NoteInv, OwnNotes
<1>3. Between(mem.notes, call[c].base.notes) \subseteq call[c].edited \union edited
  BY <1>2 DEF Between
<1> QED
  BY <1>1, <1>3, NotesLeft

LEMMA LeafNotes ==
  ASSUME StudyInv, NoteInv, NEW c \in Calls, NEW x \in Leaves, NEW v,
         Edit(c, [call[c].mem EXCEPT !.leaf[x] = v], {x})
  PROVE  NoteInv'
<1> DEFINE m == [call[c].mem EXCEPT !.leaf[x] = v]
<1>1. IsFile(call[c].mem)
  BY DEF StudyInv, Shape, IsCall
<1>2. m.notes = call[c].mem.notes
  BY <1>1 DEF IsFile
<1>3. Edit(c, m, {x})
  OBVIOUS
<1> HIDE DEF m
<1> QED
  BY <1>2, <1>3, EditNotes DEF Between

LEMMA AddedNotes ==
  ASSUME StudyInv, TypeOK, NoteInv, NEW c \in Calls, NEW n \in Notes, AddNote(c, n)
  PROVE  NoteInv'
<1>1. PICK room \in Seq(Notes) :
        /\ ToSet(room) \subseteq ToSet(call[c].mem.notes)
        /\ ToSet(Append(room, n)) = ToSet(room) \union {n}
        /\ Edit(c, [call[c].mem EXCEPT !.notes = Append(room, n)],
                {n} \union (ToSet(call[c].mem.notes) \ ToSet(room)))
  BY NotesAdded
<1> DEFINE m == [call[c].mem EXCEPT !.notes = Append(room, n)]
           edited == {n} \union (ToSet(call[c].mem.notes) \ ToSet(room))
<1>2. IsFile(call[c].mem)
  BY DEF StudyInv, Shape, IsCall
<1>3. m.notes = Append(room, n)
  BY <1>2 DEF IsFile
<1>4. Edit(c, m, edited)
  BY <1>1
<1> HIDE DEF m
<1>5. Between(m.notes, call[c].mem.notes) \subseteq edited
  BY <1>1, <1>3 DEF Between
<1> QED
  BY <1>4, <1>5, EditNotes

LEMMA WorkNotes ==
  ASSUME StudyInv, EditInv, TypeOK, NoteInv, NEW c \in Calls, Work(c)
  PROVE  NoteInv'
<1>1. CASE WriteOutline(c) \/ ReadGeometry(c)
  BY <1>1, IdleNotes
<1>2. CASE StoreWatershed(c)
  BY <1>2, StoreNotes
<1>3. ASSUME NEW x \in Leaves, NEW v, Edit(c, [call[c].mem EXCEPT !.leaf[x] = v], {x})
      PROVE  NoteInv'
  BY <1>3, LeafNotes
<1>4. Records \subseteq Leaves /\ Slots \subseteq Leaves /\ Clearable \subseteq Leaves /\ "plan" \in Leaves
  BY LeavesAssumption DEF Leaves
<1>5. CASE \/ \E r \in Records, v \in Values : SetRecord(c, r, v)
           \/ \E r \in Records \intersect Clearable : DropRecord(c, r)
           \/ \E l \in Clearable \ Records : ClearSlot(c, l)
  BY <1>3, <1>4, <1>5 DEF SetRecord, DropRecord, ClearSlot
<1>6. CASE \E s \in Slots : SetResult(c, s)
  BY <1>3, <1>4, <1>6 DEF SetResult
<1>7. CASE \E p \in Plans : RegisterPlan(c, p)
  BY <1>3, <1>4, <1>7 DEF RegisterPlan
<1>8. CASE \E n \in Notes : AddNote(c, n)
  BY <1>8, AddedNotes
<1> QED
  BY <1>1, <1>2, <1>5, <1>6, <1>7, <1>8 DEF Work

LEMMA CompareNotes ==
  ASSUME StudyInv, EditInv, TypeOK, NoteInv, NEW c \in Calls, Compare(c),
         ~(Overtaken(c) /\ Conflict(call[c].base, call[c].mem, file))
  PROVE  NoteInv'
<1>1. /\ Frame(c)
      /\ call'[c].pc = "writing" /\ call'[c].out = Payload(c)
      /\ call'[c].mem = call[c].mem /\ call'[c].base = call[c].base /\ call'[c].seen = call[c].seen
      /\ call'[c].edited = call[c].edited
  BY CompareShape
<1>2. Between(call[c].mem.notes, call[c].base.notes) \subseteq call[c].edited
  BY DEF NoteInv, OwnNotes
<1>3. /\ WasLoaded(c) => Between(file.notes, Payload(c).notes) \subseteq call[c].edited
      /\ ToSet(call[c].mem.notes) \ ToSet(call[c].base.notes) \subseteq ToSet(Payload(c).notes)
  <2>1. CASE ~Overtaken(c)
    <3>1. Payload(c) = call[c].mem
      BY <2>1 DEF Payload
    <3>2. WasLoaded(c) => call[c].base = file
      BY <2>1 DEF Overtaken, WasLoaded, EditInv, OwnBase
    <3> QED
      BY <1>2, <3>1, <3>2 DEF Between
  <2>2. CASE Overtaken(c)
    <3> DEFINE m == Merge(call[c].base, call[c].mem, file)
    <3>1. Payload(c) = ApplyBasinChange(call[c].base, m) /\ IsFile(m)
      BY <2>2, MergeIsFile DEF Payload
    <3>2. m.notes = MergeNotes(call[c].base.notes, call[c].mem.notes, file.notes)
      BY DEF Merge
    <3> HIDE DEF m
    <3>3. Payload(c).notes = m.notes
      BY <3>1 DEF ApplyBasinChange, Without, IsFile
    <3>4. call[c].base.notes \in Seq(Notes) /\ call[c].mem.notes \in Seq(Notes) /\ file.notes \in Seq(Notes)
      BY DEF TypeOK, IsContent
    <3>5. /\ Between(file.notes, m.notes) \subseteq Between(call[c].mem.notes, call[c].base.notes)
          /\ ToSet(call[c].mem.notes) \ ToSet(call[c].base.notes) \subseteq ToSet(m.notes)
      BY <3>2, <3>4, MergedNotes
    <3> QED
      BY <1>2, <3>3, <3>5
  <2> QED
    BY <2>1, <2>2
<1>4. OwnNotes(c)'
  BY <1>1, <1>2, <1>3 DEF OwnNotes, Frame, WasLoaded
<1> QED
  BY <1>1, <1>4, NoteFrame

LEMMA ReplaceNotes ==
  ASSUME StudyInv, NoteInv, NEW c \in Calls, Replace(c)
  PROVE  NoteInv'
<1>1. /\ \A d \in Calls \ {c} : call'[d] = call[d] /\ call[d].pc # "writing"
      /\ call'[c].pc = "open" /\ call'[c].mem = call[c].mem /\ call'[c].base = call[c].mem
  BY ReplaceShape
<1>2. OwnNotes(c)'
  BY <1>1 DEF OwnNotes, Between
<1>3. \A d \in Calls \ {c} : OwnNotes(d)'
  BY <1>1 DEF NoteInv, OwnNotes
<1> QED
  BY <1>2, <1>3 DEF NoteInv

LEMMA NextNotes ==
  ASSUME StudyInv, EditInv, TypeOK, NoteInv, [Next]_vars
  PROVE  NoteInv'
<1>1. CASE UNCHANGED vars
  BY <1>1 DEF vars, NoteInv, OwnNotes, WasLoaded
<1>2. ASSUME NEW c \in Calls, BeginSave(c) \/ Compare(c) \/ Cancel(c) PROVE NoteInv'
  BY <1>2, IdleNotes, EndNotes, CompareNotes
<1>3. ASSUME NEW c \in Calls, GiveUp(c) \/ Return(c) \/ Fail(c) PROVE NoteInv'
  BY <1>3, EndNotes
<1> QED
  BY <1>1, <1>2, <1>3, StartNotes, WorkNotes, ReplaceNotes DEF Next, SaveStep

-----------------------------------------------------------------------------
(* Nothing is lost *)

StudyEdits == StudyInv /\ EditInv /\ DrawInv /\ TypeOK /\ NoteInv

LEMMA StudyEditsHolds == Spec => []StudyEdits
<1>1. Init => StudyEdits
  BY InitStudyInv, InitEditInv, InitDrawInv, InitTypeOK, InitNoteInv DEF StudyEdits
<1>2. StudyEdits /\ [Next]_vars => StudyEdits'
  BY NextStep, NextKeepsBase, NextKeepsDraw, NextType, NextNotes DEF StudyEdits
<1> QED
  BY <1>1, <1>2, PTL DEF Spec

\* A save changes only what its call changed since its last save, whatever other calls
\* saved meanwhile and however often this one saves: no call reverts or drops another's
\* leaf or note (store.py:897-899, 2049-2053).
THEOREM NothingElseChanges == Spec => OwnEditsOnly
<1>1. ASSUME StudyEdits, [Next]_vars, NEW c \in Calls, Saves(c), WasLoaded(c)
      PROVE  OwnLeavesOnly(c) /\ OwnNotesOnly(c)
  <2>1. file' = call[c].out /\ call[c].pc = "writing"
    BY <1>1, SaveWrites DEF StudyEdits
  <2>2. OwnWrite(c) /\ OwnNotes(c)
    BY <1>1, <2>1 DEF StudyEdits, EditInv, OwnBase, NoteInv
  <2> QED
    BY <1>1, <2>1, <2>2 DEF OwnWrite, OwnNotes, OwnLeavesOnly, OwnNotesOnly, Between
<1>2. StudyEdits /\ [Next]_vars =>
        [\A c \in Calls : Saves(c) /\ WasLoaded(c) => OwnLeavesOnly(c) /\ OwnNotesOnly(c)]_vars
  BY <1>1
<1> QED
  BY <1>2, StudyEditsHolds, PTL DEF Spec, OwnEditsOnly

\* What a call changed reaches the file when it saves: its value wins on a leaf both sides
\* changed, and a note it had not loaded arrives (store.py:897-899).
THEOREM ChangesArrive == Spec => EditsArrive
<1>1. ASSUME StudyEdits, [Next]_vars, NEW c \in Calls, Saves(c)
      PROVE  LeavesArrive(c) /\ NotesArrive(c)
  <2>1. file' = call[c].out /\ call[c].pc = "writing"
    BY <1>1, SaveWrites DEF StudyEdits
  <2>2. OwnWrite(c) /\ OwnNotes(c)
    BY <1>1, <2>1 DEF StudyEdits, EditInv, OwnBase, NoteInv
  <2> QED
    BY <2>1, <2>2 DEF OwnWrite, OwnNotes, LeavesArrive, NotesArrive
<1>2. StudyEdits /\ [Next]_vars =>
        [\A c \in Calls : Saves(c) => LeavesArrive(c) /\ NotesArrive(c)]_vars
  BY <1>1
<1> QED
  BY <1>2, StudyEditsHolds, PTL DEF Spec, EditsArrive

=============================================================================
