---------------------------- MODULE Series_proofs ----------------------------
(***************************************************************************)
(* What is proved about the streamflow of a study, for any number of calls, *)
(* gauges, periods and revisions, and edits by hand at any moment.           *)
(*                                                                         *)
(* Both properties speak of what is stored at the end of a call, and must be *)
(* carried through it: from the slot, whose run retained the same file       *)
(* (SlotSound), to the call that reads the file (CallSound), which finds what *)
(* it has seen there unless somebody edits it, and from there to the result   *)
(* (ResultsSound).  A file keeps what it holds because a name that *)
(* is not free stands for one content, or belongs to one call (Named).        *)
(***************************************************************************)
EXTENDS Series, TLAPS

-----------------------------------------------------------------------------
(* The inductive invariant *)

\* A call that has yet to write its file.
Live(c) == call[c].at \in {"fetching", "asking", "keeping"}

\* A file of a retained series x: its name tells its content, or it belonged to
\* a call that has let go of it.
Named(f, x) ==
    /\ f \in Names /\ f.by # "used"
    /\ f.by # "scratch" => f.of = x
    /\ f.by = "scratch" => f.of <= started /\ \A c \in Calls : Live(c) => call[c].id # f.of

Untouched(f, x) == f \notin touched => disk[f] = x

Retained(f, x) == f # None => Named(f, x) /\ Untouched(f, x)

\* x may be used for the signatures k.
Fits(k, x) == k.gauge \in Gauges => x.gauge = k.gauge /\ x.period = k.period

\* The parent run retained a series with the digest seen.
OfParent(seen, parent) == parent # None => parent \in 1..Len(runs) /\ runs[parent].digest = seen

\* What a call computed from fits its key and its parent, unless its file was
\* edited between its two reads.
Matches(k, o) ==
    /\ OfParent(o.seen, o.parent)
    /\ ~ o.raced => /\ o.used # None => Fits(k, o.used)
                    /\ o.parent # None => o.used = o.seen

Retentions == [file : Names \union {None}, digest : Contents]

RunsSound ==
    /\ runs \in Seq(Retentions)
    /\ \A i \in 1..Len(runs) : Retained(runs[i].file, runs[i].digest)

SlotSound ==
    slot # None =>
        /\ slot.run \in 1..Len(runs)
        /\ runs[slot.run].file = slot.file /\ runs[slot.run].digest = slot.digest
        /\ slot.digest.gauge = slot.gauge /\ slot.digest.period = slot.period

Fetching == [at : {"fetching"}, id : 1..MaxCalls, gauge : Gauges, period : Periods, site : Sites]
Asking == [at : {"asking"}, id : 1..MaxCalls, gauge : Gauges, period : Periods]
Keeping == [at : {"keeping"}, id : 1..MaxCalls, content : Contents]
Storing == [at : {"storing"}, content : Contents, file : Names \union {None}]
Reading == [at : {"reading"}, key : Keys, file : Names, seen : Contents, parent : Nat \union {None},
            raced : BOOLEAN]
Acquiring == [at : {"acquiring"}, key : {k \in Keys : k.gauge \in Gauges}]
Useds == Contents \union {Edited, None}
Saving == [at : {"saving"}, key : Keys, used : Useds, seen : Contents \union {None},
           parent : Nat \union {None}, raced : BOOLEAN]
Outcomes == [used : Useds, file : Names \union {None}, seen : Contents \union {None},
             parent : Nat \union {None}, raced : BOOLEAN]
Doings == {Idle} \union Fetching \union Asking \union Keeping \union Storing
              \union Reading \union Acquiring \union Saving

\* Calls at work have names of their own.
IdsSound ==
    \A c \in Calls : Live(c) =>
        /\ call[c].id \in 1..started
        /\ \A d \in Calls : Live(d) /\ c # d => call[c].id # call[d].id

CallSound(c) ==
    /\ call[c].at = "storing" => Retained(call[c].file, call[c].content)
    /\ call[c].at = "reading" =>
         /\ Named(call[c].file, call[c].seen)
         /\ Fits(call[c].key, call[c].seen) /\ OfParent(call[c].seen, call[c].parent)
         /\ ~ call[c].raced => disk[call[c].file] = call[c].seen
    /\ call[c].at = "saving" => Matches(call[c].key, call[c])

ResultsSound ==
    \A k \in Keys : results[k] # None =>
        /\ Matches(k, results[k])
        /\ results[k].file # None =>
              /\ results[k].file = [by |-> "used", of |-> results[k].used]
              /\ Untouched(results[k].file, results[k].used)

Inv ==
    /\ disk \in [Names -> Contents \union {Edited, None}]
    /\ results \in [Keys -> Outcomes \union {None}]
    /\ call \in [Calls -> Doings]
    /\ site \in Sites
    /\ started \in Nat /\ started <= MaxCalls
    /\ RunsSound /\ SlotSound /\ ResultsSound /\ IdsSound
    /\ \A c \in Calls : CallSound(c)

LEMMA InitSound == Init => Inv
BY SeriesAssumption
   DEF Init, Inv, Doings, RunsSound, SlotSound, ResultsSound, IdsSound, CallSound, Live, Idle

-----------------------------------------------------------------------------
(* What a step leaves as it is *)

\* Somebody edits the file that d is about to read again.
Disturbed(d) == call[d].at = "reading" /\ call'[d] = [call[d] EXCEPT !.raced = TRUE]

\* Only c moves, and a name it takes is new.
Moves(c) ==
    /\ started' \in Nat /\ started <= started' /\ started' <= MaxCalls
    /\ call' \in [Calls -> Doings]
    /\ \A d \in Calls : d # c => call'[d] = call[d] \/ Disturbed(d)
    /\ c \in Calls /\ Live(c)' =>
          \/ Live(c) /\ call'[c].id = call[c].id
          \/ call'[c].id = started' /\ started < started'

RunsGrow ==
    /\ runs' \in Seq(Retentions)
    /\ Len(runs) <= Len(runs')
    /\ \A i \in 1..Len(runs) : runs'[i] = runs[i]

\* f is the file of the content x and of no other.
Stands(f, x) == Named(f, x) \/ f = [by |-> "used", of |-> x]

FilesStay ==
    /\ disk' \in [Names -> Contents \union {Edited, None}]
    /\ \A f \in Names, x \in Contents \union {Edited} :
          Stands(f, x) /\ Untouched(f, x) => Untouched(f, x)'
    /\ \A c \in Calls : call'[c] = call[c] /\ call[c].at = "reading" /\ ~ call[c].raced =>
          disk'[call[c].file] = disk[call[c].file]

LEMMA DoingsAre ==
  ASSUME NEW w \in Doings
  PROVE  /\ w.at = "fetching" => w \in Fetching
         /\ w.at = "asking" => w \in Asking
         /\ w.at = "keeping" => w \in Keeping
         /\ w.at = "storing" => w \in Storing
         /\ w.at = "reading" => w \in Reading
         /\ w.at = "acquiring" => w \in Acquiring
         /\ w.at = "saving" => w \in Saving
BY DEF Doings, Idle, Fetching, Asking, Keeping, Storing, Reading, Acquiring, Saving

LEMMA DisturbedReads ==
  ASSUME Inv, NEW d \in Calls, Disturbed(d)
  PROVE  /\ call[d] \in Reading /\ call'[d] \in Reading
         /\ call'[d].at = "reading" /\ call'[d].raced
         /\ call'[d].key = call[d].key /\ call'[d].file = call[d].file
         /\ call'[d].seen = call[d].seen /\ call'[d].parent = call[d].parent
<1>1. call[d] \in Reading
  BY DoingsAre DEF Disturbed, Inv
<1> QED
  BY <1>1 DEF Disturbed, Reading

LEMMA IdsMove ==
  ASSUME Inv, NEW c, Moves(c)
  PROVE  IdsSound'
<1> SUFFICES ASSUME NEW e \in Calls, Live(e)'
             PROVE  /\ call'[e].id \in 1..started'
                    /\ \A d \in Calls : Live(d)' /\ e # d => call'[e].id # call'[d].id
  BY DEF IdsSound
<1>1. /\ call'[e].id \in 1..started'
      /\ \/ Live(e) /\ call'[e].id = call[e].id
         \/ e = c /\ call'[e].id = started' /\ started < started'
  BY DisturbedReads DEF Inv, IdsSound, Moves, Live
<1>2. ASSUME NEW d \in Calls, Live(d)', e # d
      PROVE  call'[e].id # call'[d].id
  <2>1. \/ Live(d) /\ call'[d].id = call[d].id
        \/ d = c /\ call'[d].id = started' /\ started < started'
    BY <1>2, DisturbedReads DEF Moves, Live
  <2> QED
    BY <1>1, <1>2, <2>1 DEF Inv, IdsSound
<1> QED
  BY <1>1, <1>2

LEMMA NamedMoves ==
  ASSUME Inv, NEW c, Moves(c), NEW f, NEW x, Named(f, x)
  PROVE  Named(f, x)'
<1>1. ASSUME f.by = "scratch", NEW d \in Calls, Live(d)'
      PROVE  call'[d].id # f.of
  <2>1. f.of \in 1..MaxCalls /\ f.of <= started
    BY <1>1 DEF Named, Names
  <2> QED
    BY <1>1, <2>1, SeriesAssumption, DisturbedReads DEF Named, Moves, Live, Inv
<1>2. f.by = "scratch" => f.of <= started'
  <2>1. f.by = "scratch" => f.of \in 1..MaxCalls
    BY DEF Named, Names
  <2> QED
    BY <2>1, SeriesAssumption DEF Named, Moves, Inv
<1> QED
  BY <1>1, <1>2 DEF Named

LEMMA RetainedMoves ==
  ASSUME Inv, NEW c, Moves(c), FilesStay, NEW f, NEW x \in Contents, Retained(f, x)
  PROVE  Retained(f, x)'
<1>1. CASE f = None
  BY <1>1 DEF Retained
<1>2. CASE f # None
  <2>1. Named(f, x) /\ Untouched(f, x) /\ f \in Names
    BY <1>2 DEF Retained, Named
  <2>2. Named(f, x)'
    BY <2>1, NamedMoves
  <2>3. Untouched(f, x)'
    BY <2>1 DEF FilesStay, Stands
  <2> QED
    BY <2>2, <2>3 DEF Retained
<1> QED
  BY <1>1, <1>2

LEMMA OfParentMoves ==
  ASSUME Inv, RunsGrow, NEW seen, NEW parent, OfParent(seen, parent)
  PROVE  OfParent(seen, parent)'
BY DEF OfParent, RunsGrow, Inv, RunsSound

LEMMA MatchesMoves ==
  ASSUME Inv, RunsGrow, NEW k, NEW o, Matches(k, o)
  PROVE  Matches(k, o)'
BY OfParentMoves DEF Matches, OfParent

\* A call that stays where it is keeps what it carries; so does a reader whose
\* file somebody edits.
LEMMA CarriedStays ==
  ASSUME Inv, NEW c, Moves(c), FilesStay, RunsGrow,
         NEW d \in Calls, call'[d] = call[d] \/ Disturbed(d)
  PROVE  CallSound(d)'
<1>1. CallSound(d) /\ call[d] \in Doings
  BY DEF Inv
<1>2. ASSUME call[d].at = "storing", call'[d] = call[d]
      PROVE  Retained(call[d].file, call[d].content)'
  <2>1. PICK f \in Names \union {None}, x \in Contents : f = call[d].file /\ x = call[d].content /\ Retained(f, x)
    BY <1>1, <1>2, DoingsAre DEF CallSound, Storing
  <2>2. Retained(f, x)'
    BY <2>1, RetainedMoves
  <2> QED
    BY <1>2, <2>1, <2>2
<1>3. ASSUME call[d].at = "reading"
      PROVE  /\ Named(call[d].file, call[d].seen)'
             /\ Fits(call[d].key, call[d].seen)' /\ OfParent(call[d].seen, call[d].parent)'
             /\ ~ call'[d].raced => disk'[call'[d].file] = call'[d].seen
  <2>1. PICK k, f, x, parent :
          /\ k = call[d].key /\ f = call[d].file /\ x = call[d].seen /\ parent = call[d].parent
          /\ Named(f, x) /\ Fits(k, x) /\ OfParent(x, parent)
          /\ ~ call[d].raced => disk[f] = x
    BY <1>1, <1>3 DEF CallSound
  <2>2. k = call'[d].key /\ f = call'[d].file /\ x = call'[d].seen /\ parent = call'[d].parent
    BY <2>1, DisturbedReads
  <2>3. Named(f, x)' /\ OfParent(x, parent)'
    BY <2>1, NamedMoves, OfParentMoves
  <2>4. ~ call'[d].raced => disk'[f] = x
    BY <1>3, <2>1, DisturbedReads DEF FilesStay
  <2> QED
    BY <2>1, <2>2, <2>3, <2>4 DEF Fits
<1>4. ASSUME call[d].at = "saving", call'[d] = call[d]
      PROVE  Matches(call[d].key, call[d])'
  <2>1. PICK k, o : k = call[d].key /\ o = call[d] /\ Matches(k, o)
    BY <1>1, <1>4 DEF CallSound
  <2>2. Matches(k, o)'
    BY <2>1, MatchesMoves
  <2> QED
    BY <1>4, <2>1, <2>2
<1>5. CASE call'[d] = call[d]
  BY <1>2, <1>3, <1>4, <1>5 DEF CallSound
<1>6. CASE Disturbed(d)
  <2>1. call[d].at = "reading" /\ call'[d].at = "reading"
    BY <1>6, DisturbedReads DEF Disturbed
  <2> QED
    BY <1>3, <2>1 DEF CallSound
<1> QED
  BY <1>5, <1>6

LEMMA RunsStay ==
  ASSUME Inv, NEW c, Moves(c), FilesStay, runs' = runs
  PROVE  RunsGrow /\ RunsSound'
<1>1. RunsGrow
  BY DEF RunsGrow, Inv, RunsSound
<1>2. ASSUME NEW i \in 1..Len(runs) PROVE Retained(runs[i].file, runs[i].digest)'
  <2>1. runs[i] \in Retentions
    BY DEF Inv, RunsSound
  <2>2. Retained(runs[i].file, runs[i].digest)
    BY DEF Inv, RunsSound
  <2>3. PICK f \in Names \union {None}, x \in Contents : f = runs[i].file /\ x = runs[i].digest
    BY <2>1 DEF Retentions
  <2>4. Retained(f, x)'
    BY <2>2, <2>3, RetainedMoves
  <2> QED
    BY <2>3, <2>4
<1> QED
  BY <1>1, <1>2 DEF RunsSound, Inv

LEMMA SlotStays ==
  ASSUME Inv, RunsGrow, slot' = slot
  PROVE  SlotSound'
BY DEF Inv, SlotSound, RunsSound, RunsGrow

\* A file of a result stays as it is.
LEMMA UsedStays ==
  ASSUME FilesStay, NEW p \in Outcomes, p.file # None,
         p.file = [by |-> "used", of |-> p.used], Untouched(p.file, p.used)
  PROVE  Untouched(p.file, p.used)'
<1>1. p.file \in Names /\ p.file.by = "used" /\ p.file.of = p.used
  BY DEF Outcomes
<1>2. p.used \in Contents \union {Edited}
  BY <1>1 DEF Names
<1> QED
  BY <1>1, <1>2 DEF FilesStay, Stands, Untouched

LEMMA ResultsStay ==
  ASSUME Inv, FilesStay, RunsGrow, results' = results
  PROVE  ResultsSound'
<1>1. ASSUME NEW k \in Keys, results[k] # None
      PROVE  /\ Matches(k, results[k])'
             /\ results[k].file # None =>
                   /\ results[k].file = [by |-> "used", of |-> results[k].used]
                   /\ Untouched(results[k].file, results[k].used)'
  <2>1. PICK o, f, x : /\ o = results[k] /\ f = o.file /\ x = o.used
                       /\ o \in Outcomes /\ Matches(k, o)
                       /\ f # None => f = [by |-> "used", of |-> x] /\ Untouched(f, x)
    BY <1>1 DEF Inv, ResultsSound
  <2>2. Matches(k, o)'
    BY <2>1, MatchesMoves
  <2>4. f # None => Untouched(f, x)'
    BY <2>1, UsedStays
  <2> QED
    BY <2>1, <2>2, <2>4
<1> QED
  BY <1>1 DEF ResultsSound

LEMMA StepSound ==
  ASSUME Inv, NEW c, Moves(c), FilesStay, RunsGrow,
         RunsSound', SlotSound', ResultsSound',
         results' \in [Keys -> Outcomes \union {None}],
         c \in Calls => CallSound(c)', site' \in Sites
  PROVE  Inv'
<1>1. \A d \in Calls : CallSound(d)'
  <2> TAKE d \in Calls
  <2>1. CASE d = c
    BY <2>1
  <2>2. CASE d # c
    BY <2>2, CarriedStays DEF Moves
  <2> QED
    BY <2>1, <2>2
<1> QED
  BY <1>1, IdsMove DEF Inv, Moves, FilesStay

\* A step that only moves c, to where it carries nothing or what it may carry.
LEMMA CallStep ==
  ASSUME Inv, NEW c \in Calls, Moves(c), CallSound(c)', site' \in Sites,
         UNCHANGED <<slot, results, runs, disk, touched>>
  PROVE  Inv'
<1>1. FilesStay
  BY DEF FilesStay, Untouched, Inv
<1>2. RunsGrow /\ RunsSound'
  BY <1>1, RunsStay
<1>3. SlotSound' /\ ResultsSound'
  BY <1>1, <1>2, SlotStays, ResultsStay
<1> QED
  BY <1>1, <1>2, <1>3, StepSound DEF Inv

-----------------------------------------------------------------------------
(* One lemma per action *)

LEMMA FetchStep ==
  ASSUME Inv, NEW c \in Calls, NEW g \in Gauges, NEW p \in Periods,
         StartFetch(c, g, p) \/ StartDataFetch(c, g, p)
  PROVE  Inv'
<1>1. started' = started + 1 /\ started' \in 1..MaxCalls
  BY SeriesAssumption DEF StartFetch, StartDataFetch, BeginCall, Inv
<1>2. call'[c] \in Doings /\ call'[c].at \in {"fetching", "asking"} /\ call'[c].id = started'
  BY <1>1 DEF StartFetch, StartDataFetch, Doings, Fetching, Asking, Inv
<1>3. call' \in [Calls -> Doings] /\ \A d \in Calls : d # c => call'[d] = call[d]
  BY <1>2 DEF StartFetch, StartDataFetch, Inv
<1>4. Moves(c)
  BY <1>1, <1>2, <1>3 DEF Moves, Inv
<1>5. CallSound(c)'
  BY <1>2 DEF CallSound
<1> QED
  BY <1>4, <1>5, CallStep DEF StartFetch, StartDataFetch, Inv

LEMMA ServeStep ==
  ASSUME Inv, NEW c \in Calls, Serve(c)
  PROVE  Inv'
<1>1. Live(c) /\ call[c].gauge \in Gauges /\ call[c].period \in Periods /\ call[c].id \in 1..MaxCalls
  BY DoingsAre DEF Serve, Live, Inv, Fetching, Asking
<1>2. \/ call' = [call EXCEPT ![c] = Idle]
      \/ \E x \in Contents : call' = [call EXCEPT ![c] = [at |-> "keeping", id |-> call[c].id, content |-> x]]
  BY <1>1 DEF Serve, Contents
<1>3. /\ call' \in [Calls -> Doings] /\ \A d \in Calls : d # c => call'[d] = call[d]
      /\ call'[c].at \in {"idle", "keeping"}
      /\ Live(c)' => call'[c].id = call[c].id
  BY <1>1, <1>2 DEF Doings, Keeping, Inv, Live, Idle
<1>4. started' = started
  BY DEF Serve
<1>5. Moves(c)
  BY <1>1, <1>3, <1>4 DEF Moves, Inv
<1>6. site' \in Sites
  BY <1>1 DEF Serve, Inv, Sites
<1>7. CallSound(c)'
  BY <1>3 DEF CallSound
<1>8. UNCHANGED <<slot, results, runs, disk, touched>>
  BY DEF Serve
<1> QED
  BY <1>5, <1>6, <1>7, <1>8, CallStep

\* A file of its own, or of the same content, may be written over.
LEMMA WriteFile ==
  ASSUME Inv, NEW n \in Names, NEW x \in Contents \union {Edited},
         disk' = [disk EXCEPT ![n] = x], touched' = touched \ {n},
         \A y \in Contents \union {Edited} : Stands(n, y) => y = x
  PROVE  FilesStay /\ Untouched(n, x)'
<1>1. disk' \in [Names -> Contents \union {Edited, None}] /\ Untouched(n, x)'
  BY DEF Inv, Untouched
<1>2. ASSUME NEW f \in Names, NEW y \in Contents \union {Edited}, Stands(f, y), Untouched(f, y)
      PROVE  Untouched(f, y)'
  <2>1. CASE f = n
    BY <1>1, <1>2, <2>1
  <2>2. CASE f # n
    BY <1>2, <2>2 DEF Untouched, Inv
  <2> QED
    BY <2>1, <2>2
<1>3. ASSUME NEW d \in Calls, call[d].at = "reading", ~ call[d].raced
      PROVE  disk'[call[d].file] = disk[call[d].file]
  <2>1. Named(call[d].file, disk[call[d].file]) /\ disk[call[d].file] \in Contents
    BY <1>3, DoingsAre DEF Inv, CallSound, Reading
  <2>2. call[d].file \in Names
    BY <2>1 DEF Named
  <2>3. call[d].file = n => disk[n] = x
    BY <2>1 DEF Stands
  <2> QED
    BY <2>2, <2>3 DEF Inv
<1> QED
  BY <1>1, <1>2, <1>3 DEF FilesStay

LEMMA KeepStep ==
  ASSUME Inv, NEW c \in Calls, Keep(c)
  PROVE  Inv'
<1>1. PICK x \in Contents : x = call[c].content /\ call[c].id \in 1..MaxCalls /\ Live(c)
  BY DoingsAre DEF Keep, Live, Inv, Keeping
<1>2. PICK n \in Names \union {None} :
        /\ call' = [call EXCEPT ![c] = [at |-> "storing", content |-> x, file |-> n]]
        /\ \/ n = None /\ UNCHANGED <<disk, touched>>
           \/ /\ n \in Names /\ n \in {ContentAddress(x, c), Scratch(c)}
              /\ disk' = [disk EXCEPT ![n] = x] /\ touched' = touched \ {n}
  <2>1. Scratch(c) \in Names
    BY <1>1 DEF Scratch, Names
  <2>2. [by |-> "short", of |-> x] \in Names /\ [by |-> "full", of |-> x] \in Names
    BY <1>1 DEF Names
  <2>3. ContentAddress(x, c) \in Names
    BY <2>1, <2>2 DEF ContentAddress
  <2>4. CASE \E n \in {ContentAddress(x, c), Scratch(c)} :
                /\ disk' = [disk EXCEPT ![n] = x]
                /\ touched' = touched \ {n}
                /\ call' = [call EXCEPT ![c] = [at |-> "storing", content |-> x, file |-> n]]
    BY <2>1, <2>3, <2>4
  <2>5. CASE /\ call' = [call EXCEPT ![c] = [at |-> "storing", content |-> x, file |-> None]]
             /\ UNCHANGED <<disk, touched>>
    BY <2>5
  <2> QED
    BY <1>1, <2>4, <2>5 DEF Keep
<1>3. /\ call'[c] = [at |-> "storing", content |-> x, file |-> n]
      /\ call' \in [Calls -> Doings] /\ \A d \in Calls : d # c => call'[d] = call[d]
  BY <1>1, <1>2 DEF Doings, Storing, Inv
<1>4. Moves(c)
  BY <1>3 DEF Keep, Moves, Inv, Live
<1>5. CASE n = None /\ UNCHANGED <<disk, touched>>
  <2>1. CallSound(c)'
    BY <1>3, <1>5 DEF CallSound, Retained
  <2> QED
    BY <1>4, <1>5, <2>1, CallStep DEF Keep, Inv
<1>6. CASE /\ n \in Names /\ n \in {ContentAddress(x, c), Scratch(c)}
           /\ disk' = [disk EXCEPT ![n] = x] /\ touched' = touched \ {n}
  <2>1. \/ n = [by |-> "short", of |-> x]
        \/ n = [by |-> "full", of |-> x]
        \/ n = [by |-> "scratch", of |-> call[c].id]
    BY <1>6 DEF ContentAddress, Scratch
  <2>2. ASSUME NEW y \in Contents \union {Edited}, Stands(n, y) PROVE y = x
    BY <1>1, <2>1, <2>2 DEF Stands, Named
  <2>3. FilesStay /\ Untouched(n, x)'
    BY <1>1, <1>6, <2>2, WriteFile
  <2>4. Named(n, x)'
    <3>1. ASSUME n.by = "scratch", NEW d \in Calls, Live(d)' PROVE call'[d].id # n.of
      BY <1>1, <1>3, <2>1, <3>1 DEF Inv, IdsSound, Live
    <3>2. n.by = "scratch" => n.of <= started'
      BY <1>1, <2>1 DEF Inv, IdsSound, Keep
    <3> QED
      BY <1>6, <2>1, <3>1, <3>2 DEF Named
  <2>5. CallSound(c)'
    BY <1>3, <2>3, <2>4 DEF CallSound, Retained
  <2>6. RunsGrow /\ RunsSound'
    BY <1>4, <2>3, RunsStay DEF Keep
  <2>7. SlotSound' /\ ResultsSound'
    BY <2>3, <2>6, SlotStays, ResultsStay DEF Keep
  <2> QED
    BY <1>4, <2>3, <2>5, <2>6, <2>7, StepSound DEF Keep, Inv
<1> QED
  BY <1>2, <1>5, <1>6

LEMMA AppendTo ==
  ASSUME NEW S, NEW s \in Seq(S), NEW e \in S
  PROVE  /\ Append(s, e) \in Seq(S)
         /\ Len(Append(s, e)) = Len(s) + 1
         /\ \A i \in 1..Len(s) : Append(s, e)[i] = s[i]
         /\ Append(s, e)[Len(s) + 1] = e
OBVIOUS

LEMMA StoreSlotStep ==
  ASSUME Inv, NEW c \in Calls, StoreSlot(c)
  PROVE  Inv'
<1>1. PICK x \in Contents, run \in Retentions :
        x = call[c].content /\ run = [file |-> call[c].file, digest |-> x] /\ Retained(call[c].file, x)
  BY DoingsAre DEF StoreSlot, Inv, Storing, Retentions, CallSound
<1>2. call'[c] = Idle /\ Moves(c)
  BY DEF StoreSlot, Moves, Inv, Doings, Live, Idle
<1>3. FilesStay
  BY DEF StoreSlot, FilesStay, Untouched, Inv
<1>4. /\ runs' \in Seq(Retentions) /\ Len(runs') = Len(runs) + 1 /\ Len(runs) \in Nat
      /\ runs'[Len(runs) + 1] = run
      /\ \A i \in 1..Len(runs) : runs'[i] = runs[i]
  BY <1>1, AppendTo DEF StoreSlot, Inv, RunsSound
<1>5. RunsGrow
  BY <1>4 DEF RunsGrow
<1>6. RunsSound'
  <2> SUFFICES ASSUME NEW i \in 1..Len(runs')
               PROVE  Retained(runs[i].file, runs[i].digest)'
    BY <1>4 DEF RunsSound
  <2>1. PICK f \in Names \union {None}, y \in Contents :
          f = runs'[i].file /\ y = runs'[i].digest /\ Retained(f, y)
    <3>1. CASE i = Len(runs) + 1
      BY <1>1, <1>4, <3>1 DEF Retentions
    <3>2. CASE i \in 1..Len(runs)
      <4>1. runs'[i] = runs[i] /\ runs[i] \in Retentions
        BY <1>4, <3>2 DEF Inv, RunsSound
      <4>2. Retained(runs[i].file, runs[i].digest)
        BY <3>2 DEF Inv, RunsSound
      <4> QED
        BY <4>1, <4>2 DEF Retentions
    <3> QED
      BY <1>4, <3>1, <3>2
  <2>2. Retained(f, y)'
    BY <1>2, <1>3, <2>1, RetainedMoves
  <2> QED
    BY <2>1, <2>2
<1>7. SlotSound'
  <2>1. CASE slot' = slot
    BY <1>5, <2>1, SlotStays
  <2>2. CASE slot' = [gauge |-> x.gauge, period |-> x.period, file |-> call[c].file,
                      digest |-> x, run |-> Len(runs) + 1]
    BY <1>1, <1>4, <2>2 DEF SlotSound
  <2> QED
    BY <1>1, <2>1, <2>2 DEF StoreSlot
<1>8. ResultsSound'
  BY <1>3, <1>5, ResultsStay DEF StoreSlot
<1>9. CallSound(c)'
  BY <1>2 DEF CallSound, Idle
<1> QED
  BY <1>2, <1>3, <1>5, <1>6, <1>7, <1>8, <1>9, StepSound DEF StoreSlot, Inv

LEMMA SignaturesStartStep ==
  ASSUME Inv, NEW c \in Calls, NEW k \in Keys, StartSignatures(c, k)
  PROVE  Inv'
<1>1. started' = started + 1 /\ started' \in 1..MaxCalls
  BY SeriesAssumption DEF StartSignatures, BeginCall, Inv
<1>2. CASE Verified(slot) /\ \E parent \in {slot.run, None} :
             /\ parent # None => Usable(slot, k)
             /\ k.gauge \in Gauges => Usable(slot, k)
             /\ call' = [call EXCEPT ![c] = Reader(k, parent)]
  <2>1. PICK parent \in {slot.run, None} :
             /\ parent # None => Usable(slot, k)
             /\ k.gauge \in Gauges => Usable(slot, k)
             /\ call' = [call EXCEPT ![c] = Reader(k, parent)]
    BY <1>2
  <2>2. PICK i \in 1..Len(runs), f \in Names \union {None}, x \in Contents :
          /\ i = slot.run /\ f = slot.file /\ x = slot.digest
          /\ f = runs[i].file /\ x = runs[i].digest
          /\ x.gauge = slot.gauge /\ x.period = slot.period /\ Retained(f, x)
    <3>1. slot.run \in 1..Len(runs) /\ runs[slot.run] \in Retentions
      BY <1>2 DEF Verified, Inv, SlotSound, RunsSound
    <3> QED
      BY <1>2, <3>1 DEF Verified, Inv, SlotSound, RunsSound, Retentions
  <2>3. disk[f] = x /\ f # None /\ f \in Names /\ Named(f, x)
    BY <1>2, <2>2 DEF Verified, Retained
  <2>4. i \in Nat /\ parent \in Nat \union {None}
    BY <2>1, <2>2 DEF Inv, RunsSound
  <2>5. /\ call'[c] = [at |-> "reading", key |-> k, file |-> f, seen |-> x, parent |-> parent, raced |-> FALSE]
        /\ call' \in [Calls -> Doings] /\ \A d \in Calls : d # c => call'[d] = call[d]
    BY <2>1, <2>2, <2>3, <2>4 DEF Reader, Doings, Reading, Inv
  <2>6. Moves(c)
    BY <1>1, <2>5 DEF Moves, Inv, Live
  <2>7. Fits(k, x) /\ OfParent(x, parent)
    BY <2>1, <2>2 DEF Fits, OfParent, Usable, Holds
  <2>8. UNCHANGED <<slot, results, runs, disk, touched, site>>
    BY DEF StartSignatures
  <2>9. Named(f, x)' /\ OfParent(x, parent)'
    BY <2>3, <2>6, <2>7, <2>8, NamedMoves DEF OfParent
  <2>10. CallSound(c)'
    BY <2>3, <2>5, <2>7, <2>8, <2>9 DEF CallSound, Fits
  <2> QED
    BY <2>6, <2>8, <2>10, CallStep DEF Inv
<1>3. CASE k.gauge \in Gauges /\ call' = [call EXCEPT ![c] = [at |-> "acquiring", key |-> k]]
  <2>1. call'[c].at = "acquiring" /\ Moves(c)
    BY <1>1, <1>3 DEF Moves, Inv, Live, Doings, Acquiring
  <2>2. CallSound(c)'
    BY <2>1 DEF CallSound
  <2> QED
    BY <2>1, <2>2, CallStep DEF StartSignatures, Inv
<1> QED
  BY <1>2, <1>3 DEF StartSignatures, Usable

\* What a call computes from matches its key and its parent.
LEMMA ComputedStep ==
  ASSUME Inv, NEW c \in Calls, NEW o \in Saving, o.key = call[c].key, Matches(o.key, o),
         call' = [call EXCEPT ![c] = o],
         UNCHANGED <<site, slot, results, runs, disk, touched, started>>
  PROVE  Inv'
<1>1. /\ call'[c] = o /\ o.at = "saving"
      /\ call' \in [Calls -> Doings] /\ \A d \in Calls : d # c => call'[d] = call[d]
  BY DEF Doings, Saving, Inv
<1>2. Moves(c)
  BY <1>1 DEF Moves, Inv, Live
<1>3. Matches(o.key, o)'
  BY DEF Matches, OfParent
<1>4. CallSound(c)'
  BY <1>1, <1>3 DEF CallSound
<1> QED
  BY <1>2, <1>4, CallStep DEF Inv

\* A call that has its series fetched, or is refused.
LEMMA FallBackStep ==
  ASSUME Inv, NEW c \in Calls, NEW w \in {Idle} \union Acquiring,
         call' = [call EXCEPT ![c] = w],
         UNCHANGED <<site, slot, results, runs, disk, touched, started>>
  PROVE  Inv'
<1>1. /\ call'[c] = w /\ w.at \in {"idle", "acquiring"}
      /\ call' \in [Calls -> Doings] /\ \A d \in Calls : d # c => call'[d] = call[d]
  BY DEF Doings, Acquiring, Idle, Inv
<1>2. Moves(c) /\ CallSound(c)'
  BY <1>1 DEF Moves, Inv, Live, CallSound
<1> QED
  BY <1>2, CallStep DEF Inv

LEMMA ReadSeriesStep ==
  ASSUME Inv, NEW c \in Calls, ReadSeries(c)
  PROVE  Inv'
<1> DEFINE r == call[c]
           x == disk[r.file]
           o == [at |-> "saving", key |-> r.key, used |-> x, seen |-> r.seen,
                 parent |-> r.parent, raced |-> r.raced]
<1>1. r \in Reading /\ CallSound(c) /\ r.at = "reading"
  BY DoingsAre DEF ReadSeries, Inv
<1>2. UNCHANGED <<site, slot, results, runs, disk, touched, started>>
  BY DEF ReadSeries
<1>3. CASE x # None /\ call' = [call EXCEPT ![c] = o]
  <2>1. x \in Contents \union {Edited, None}
    BY <1>1 DEF Reading, Inv
  <2>2. o \in Saving /\ o.key = r.key
    BY <1>1, <2>1 DEF Reading, Saving, Useds
  <2>3. Matches(o.key, o)
    BY <1>1 DEF CallSound, Matches, Fits
  <2> QED
    BY <1>2, <1>3, <2>2, <2>3, ComputedStep
<1>4. CASE call' = [call EXCEPT ![c] =
              IF r.key.gauge \in Gauges THEN [at |-> "acquiring", key |-> r.key] ELSE Idle]
  <2>1. (IF r.key.gauge \in Gauges THEN [at |-> "acquiring", key |-> r.key] ELSE Idle)
          \in {Idle} \union Acquiring
    BY <1>1 DEF Reading, Acquiring
  <2> QED
    BY <1>2, <1>4, <2>1, FallBackStep
<1> QED
  BY <1>3, <1>4 DEF ReadSeries, Computed

LEMMA AcquireSeriesStep ==
  ASSUME Inv, NEW c \in Calls, AcquireSeries(c)
  PROVE  Inv'
<1>1. PICK k \in Keys : k = call[c].key /\ k.gauge \in Gauges
  BY DoingsAre DEF AcquireSeries, Inv, Acquiring
<1>2. PICK x \in {None} \union {[gauge |-> k.gauge, period |-> k.period, rev |-> r] : r \in Revisions} :
        Computed(c, x, None, None, FALSE)
  BY <1>1 DEF AcquireSeries
<1> DEFINE o == [at |-> "saving", key |-> k, used |-> x, seen |-> None, parent |-> None, raced |-> FALSE]
<1>3. x \in Useds
  BY <1>1 DEF Contents, Keys, Useds
<1>4. o \in Saving /\ o.key = call[c].key
  BY <1>1, <1>3 DEF Saving
<1>5. Matches(o.key, o)
  BY <1>2 DEF Matches, OfParent, Fits
<1> QED
  BY <1>1, <1>2, <1>4, <1>5, ComputedStep DEF AcquireSeries, Computed

LEMMA StoreSignaturesStep ==
  ASSUME Inv, NEW c \in Calls, StoreSignatures(c)
  PROVE  Inv'
<1>1. PICK o \in Saving, k \in Keys, x \in Useds :
        o = call[c] /\ k = o.key /\ x = o.used /\ Matches(k, o)
  BY DoingsAre DEF StoreSignatures, Inv, Saving, CallSound
<1>2. call'[c] = Idle /\ Moves(c) /\ runs' = runs /\ slot' = slot /\ site' = site
  BY DEF StoreSignatures, Moves, Inv, Doings, Live, Idle
<1>3. CallSound(c)'
  BY <1>2 DEF CallSound, Idle
<1>4. PICK f \in Names \union {None} :
        /\ results' = [results EXCEPT ![k] = [used |-> x, file |-> f, seen |-> o.seen,
                                              parent |-> o.parent, raced |-> o.raced]]
        /\ \/ f = None /\ UNCHANGED <<disk, touched>>
           \/ /\ f = [by |-> "used", of |-> x] /\ f \in Names /\ x \in Contents \union {Edited}
              /\ disk' = [disk EXCEPT ![f] = x] /\ touched' = touched \ {f}
  <2>1. x # None => [by |-> "used", of |-> x] \in Names /\ x \in Contents \union {Edited}
    BY <1>1 DEF Names, Useds
  <2> QED
    BY <1>1, <2>1 DEF StoreSignatures
<1>5. FilesStay /\ (f # None => f = [by |-> "used", of |-> x] /\ Untouched(f, x)')
  <2>1. CASE f = None /\ UNCHANGED <<disk, touched>>
    BY <2>1 DEF FilesStay, Untouched, Inv
  <2>2. CASE /\ f = [by |-> "used", of |-> x] /\ f \in Names /\ x \in Contents \union {Edited}
             /\ disk' = [disk EXCEPT ![f] = x] /\ touched' = touched \ {f}
    <3>1. ASSUME NEW y \in Contents \union {Edited}, Stands(f, y) PROVE y = x
      BY <2>2, <3>1 DEF Stands, Named
    <3> QED
      BY <2>2, <3>1, WriteFile
  <2> QED
    BY <1>4, <2>1, <2>2
<1>6. RunsGrow /\ RunsSound'
  BY <1>2, <1>5, RunsStay
<1>7. SlotSound'
  BY <1>2, <1>6, SlotStays
<1> DEFINE q == [used |-> x, file |-> f, seen |-> o.seen, parent |-> o.parent, raced |-> o.raced]
<1>8. q \in Outcomes /\ results' \in [Keys -> Outcomes \union {None}]
  BY <1>1, <1>4 DEF Inv, Outcomes, Saving
<1>9. ResultsSound'
  <2>1. Matches(k, q)'
    <3>1. Matches(k, q)
      BY <1>1 DEF Matches
    <3> QED
      BY <1>6, <3>1, MatchesMoves
  <2>2. ASSUME NEW l \in Keys, l # k, results'[l] # None
        PROVE  /\ Matches(l, results[l])'
               /\ results'[l].file # None =>
                     /\ results'[l].file = [by |-> "used", of |-> results'[l].used]
                     /\ Untouched(results[l].file, results[l].used)'
    <3>1. PICK p, g, y : /\ p = results[l] /\ p = results'[l] /\ g = p.file /\ y = p.used
                         /\ p \in Outcomes /\ Matches(l, p)
                         /\ g # None => g = [by |-> "used", of |-> y] /\ Untouched(g, y)
      BY <1>4, <2>2 DEF Inv, ResultsSound
    <3>2. Matches(l, p)'
      BY <1>6, <3>1, MatchesMoves
    <3>3. g # None => Untouched(g, y)'
      BY <1>5, <3>1, UsedStays
    <3> QED
      BY <3>1, <3>2, <3>3
  <2>3. results'[k] = q
    BY <1>4 DEF Inv
  <2> QED
    BY <1>5, <2>1, <2>2, <2>3 DEF ResultsSound
<1> QED
  BY <1>2, <1>3, <1>5, <1>6, <1>7, <1>8, <1>9, StepSound DEF Inv

LEMMA FailSignaturesStep ==
  ASSUME Inv, NEW c \in Calls, FailSignatures(c)
  PROVE  Inv'
<1>1. call'[c] = Idle /\ Moves(c)
  BY DEF FailSignatures, Moves, Inv, Doings, Live, Idle
<1>2. CallSound(c)'
  BY <1>1 DEF CallSound, Idle
<1> QED
  BY <1>1, <1>2, CallStep DEF FailSignatures, Inv

LEMMA ClearStep ==
  ASSUME Inv, NEW w, Clear(w)
  PROVE  Inv'
<1>1. UNCHANGED <<site, runs, disk, touched, call, started>>
  BY DEF Clear
<1>2. Moves(None) /\ FilesStay /\ (None \in Calls => CallSound(None)')
  <2>1. Moves(None) /\ FilesStay
    BY <1>1 DEF Moves, FilesStay, Untouched, Inv, Live
  <2>2. RunsGrow
    BY <1>1, <2>1, RunsStay
  <2> QED
    BY <1>1, <2>1, <2>2, CarriedStays
<1>3. RunsGrow /\ RunsSound'
  BY <1>1, <1>2, RunsStay
<1>4. SlotSound'
  <2>1. CASE slot' = slot
    BY <1>3, <2>1, SlotStays
  <2>2. CASE slot' = None
    BY <2>2 DEF SlotSound
  <2> QED
    BY <2>1, <2>2 DEF Clear
<1>5. ResultsSound' /\ results' \in [Keys -> Outcomes \union {None}]
  <2>1. CASE results' = results
    BY <1>2, <1>3, <2>1, ResultsStay DEF Inv
  <2>2. CASE results' = [k \in Keys |-> None]
    BY <2>2 DEF ResultsSound
  <2> QED
    BY <2>1, <2>2 DEF Clear
<1> QED
  BY <1>1, <1>2, <1>3, <1>4, <1>5, StepSound DEF Inv

LEMMA EditFileStep ==
  ASSUME Inv, NEW n \in Names, EditFile(n)
  PROVE  Inv'
<1>1. UNCHANGED <<site, slot, results, runs, started>>
  BY DEF EditFile
<1>2. \A d \in Calls : \/ call'[d] = call[d] /\ ~ (call[d].at = "reading" /\ call[d].file = n)
                       \/ Disturbed(d)
  BY DEF EditFile, Disturbed
<1>3. call' \in [Calls -> Doings] /\ \A d \in Calls : call'[d] = call[d] \/ Disturbed(d)
  <2>1. \A d \in Calls : call'[d] \in Doings
    BY <1>2, DisturbedReads DEF Inv, Doings
  <2> QED
    BY <1>2, <2>1 DEF EditFile
<1>4. Moves(None)
  <2>1. ASSUME None \in Calls, Live(None)' PROVE Live(None) /\ call'[None].id = call[None].id
    BY <1>3, <2>1, DisturbedReads DEF Live
  <2> QED
    BY <1>1, <1>3, <2>1 DEF Moves, Inv
<1>5. FilesStay
  <2>1. disk' \in [Names -> Contents \union {Edited, None}]
    BY DEF EditFile, Inv
  <2>2. ASSUME NEW f \in Names, NEW x \in Contents \union {Edited}, Untouched(f, x)
        PROVE  Untouched(f, x)'
    BY <2>2 DEF EditFile, Untouched, Inv
  <2>3. ASSUME NEW d \in Calls, call'[d] = call[d], call[d].at = "reading", ~ call[d].raced
        PROVE  disk'[call[d].file] = disk[call[d].file]
    <3>1. call[d].file \in Names /\ call[d].raced = FALSE
      BY <2>3, DoingsAre DEF Inv, Reading
    <3>2. call[d].file # n
      BY <1>2, <2>3, DisturbedReads
    <3> QED
      BY <3>1, <3>2 DEF EditFile, Inv
  <2> QED
    BY <2>1, <2>2, <2>3 DEF FilesStay
<1>6. RunsGrow /\ RunsSound'
  BY <1>1, <1>4, <1>5, RunsStay
<1>7. SlotSound' /\ ResultsSound'
  BY <1>1, <1>5, <1>6, SlotStays, ResultsStay
<1>8. None \in Calls => CallSound(None)'
  BY <1>3, <1>4, <1>5, <1>6, CarriedStays
<1> QED
  BY <1>1, <1>4, <1>5, <1>6, <1>7, <1>8, StepSound DEF Inv

-----------------------------------------------------------------------------
(* The theorems *)

LEMMA StepIsSound == Inv /\ [Next]_vars => Inv'
<1> SUFFICES ASSUME Inv, [Next]_vars PROVE Inv'
  OBVIOUS
<1>1. ASSUME NEW c \in Calls, NEW g \in Gauges, NEW p \in Periods,
             StartFetch(c, g, p) \/ StartDataFetch(c, g, p)
      PROVE  Inv'
  BY <1>1, FetchStep
<1>2. ASSUME NEW c \in Calls, NEW k \in Keys, StartSignatures(c, k)
      PROVE  Inv'
  BY <1>2, SignaturesStartStep
<1>3. ASSUME NEW c \in Calls,
             \/ Serve(c) \/ Keep(c) \/ StoreSlot(c)
             \/ ReadSeries(c) \/ AcquireSeries(c) \/ StoreSignatures(c) \/ FailSignatures(c)
      PROVE  Inv'
  BY <1>3, ServeStep, KeepStep, StoreSlotStep, ReadSeriesStep, AcquireSeriesStep,
     StoreSignaturesStep, FailSignaturesStep
<1>4. ASSUME NEW w, Clear(w) PROVE Inv'
  BY <1>4, ClearStep
<1>5. ASSUME NEW n \in Names, EditFile(n) PROVE Inv'
  BY <1>5, EditFileStep
<1>6. CASE UNCHANGED vars
  BY <1>6 DEF vars, Inv, RunsSound, SlotSound, ResultsSound, IdsSound, CallSound, Live, Named,
              Untouched, Retained, Matches, Fits, OfParent
<1> QED
  BY <1>1, <1>2, <1>3, <1>4, <1>5, <1>6 DEF Next

LEMMA AlwaysSound == Spec => []Inv
BY InitSound, StepIsSound, PTL DEF Spec

\* Stored signatures are of the gauge and period they are stored for, and used
\* what the run they name as parent retained, unless their file was edited
\* between the two reads of their call; the digest they record for it is that
\* run's in every case (tools_analysis.py:1456-1466, 1487, 1514).
THEOREM UsedWhatTheyName == Spec => []SignaturesAreTheirs
<1>1. Inv => SignaturesAreTheirs
  BY DEF Inv, ResultsSound, Matches, Fits, OfParent, SignaturesAreTheirs
<1> QED
  BY <1>1, AlwaysSound, PTL

\* A retained file nobody edited holds what it held (streamflow_slot.py:83-108,
\* series_binding.py:140-160).
THEOREM NothingOverwritten == Spec => []RetainedStays
<1>1. ASSUME Inv PROVE RetainedStays
  <2>1. ASSUME NEW i \in DOMAIN runs, runs[i].file \notin touched \union {None}
        PROVE  disk[runs[i].file] = runs[i].digest
    <3>1. Retained(runs[i].file, runs[i].digest)
      BY <1>1, <2>1 DEF Inv, RunsSound
    <3> QED
      BY <2>1, <3>1 DEF Retained, Untouched
  <2>2. ASSUME NEW k \in Keys, results[k] # None, results[k].file \notin touched \union {None}
        PROVE  disk[results[k].file] = results[k].used
    BY <1>1, <2>2 DEF Inv, ResultsSound, Untouched
  <2> QED
    BY <2>1, <2>2 DEF RetainedStays
<1> QED
  BY <1>1, AlwaysSound, PTL
=============================================================================
