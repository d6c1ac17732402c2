---------------------------- MODULE Jobs_proofs ----------------------------
(***************************************************************************)
(* What is proved about background jobs, for any number of jobs, studies    *)
(* and scores, any number of deaths, of clears and of other watersheds.      *)
(*                                                                         *)
(* ResultIsBacked is not inductive: it speaks of what a caller was told,    *)
(* and must be carried back to what status.json said (Honest), and from     *)
(* there to where the process was when it wrote it (Ordered).               *)
(***************************************************************************)
EXTENDS Jobs, TLAPS

-----------------------------------------------------------------------------
(* Typing *)

LEMMA PlaceIsTyped ==
    ASSUME NEW k \in Kinds, NEW j \in Jobs, NEW p \in PlacesOf(k, j)
    PROVE  /\ p \in Places \union {None}
           /\ k \in Storing => p \in Places
BY DEF PlacesOf, Kinds, Storing, Places

LEMMA InitTyped == Init => TypeOK
BY JobsAssumption DEF Init, TypeOK, States, Ended, Steps, Answers, NoDescription

LEMMA SubmitTyped ==
    ASSUME TypeOK, NEW j \in Jobs, NEW k \in Kinds, NEW s \in Studies,
           NEW p \in PlacesOf(k, j), Submit(j, k, s, p)
    PROVE  TypeOK'
<1>1. job' = [job EXCEPT ![j] = [kind |-> k, study |-> s, place |-> p]]
  BY DEF Submit
<1>2. [kind |-> k, study |-> s, place |-> p] \in Described
  BY PlaceIsTyped DEF Described
<1>3. [kind |-> k, study |-> s, place |-> p] # NoDescription
  BY JobsAssumption DEF NoDescription
<1>4. job' \in [Jobs -> Described \union {NoDescription}]
  BY <1>1, <1>2 DEF TypeOK
<1>5. ASSUME NEW i \in Jobs
      PROVE  /\ job'[i] = NoDescription \/ job'[i].place \in PlacesOf(job'[i].kind, i)
             /\ (job'[i] = NoDescription) <=> (status'[i] = "absent")
             /\ (worker'[i] = "absent") <=> (status'[i] = "absent")
  BY <1>1, <1>3 DEF TypeOK, Submit
<1> QED BY <1>4, <1>5 DEF TypeOK, Submit, study, States, Ended, Steps

\* Every call that starts a job does so with a place of its kind.
Starting(j, s) ==
    \/ SubmitTraining(j, s) \/ SubmitFetch(j, s) \/ SubmitSearch(j, s)
    \/ SubmitPhysics(j, s) \/ SubmitSurrogate(j, s)

LEMMA StartingSubmits ==
    ASSUME NEW j \in Jobs, NEW s \in Studies, Starting(j, s)
    PROVE  \E k \in Kinds : \E p \in PlacesOf(k, j) : Submit(j, k, s, p)
<1> USE DEF Kinds, PlacesOf
<1>1. CASE SubmitTraining(j, s)
  BY <1>1 DEF SubmitTraining
<1>2. CASE SubmitFetch(j, s)
  BY <1>2 DEF SubmitFetch
<1>3. CASE SubmitSearch(j, s)
  BY <1>3 DEF SubmitSearch
<1>4. CASE SubmitPhysics(j, s)
  BY <1>4 DEF SubmitPhysics
<1>5. CASE SubmitSurrogate(j, s)
  BY <1>5 DEF SubmitSurrogate
<1> QED BY <1>1, <1>2, <1>3, <1>4, <1>5 DEF Starting

\* A step of a process that is there, and its last status.
LEMMA StepTyped ==
    ASSUME TypeOK, NEW j \in Jobs, worker[j] # "absent",
           NEW w \in Steps \ {"absent"}, Step(j, w),
           NEW st \in States \ {"absent"},
           status' = status \/ status' = [status EXCEPT ![j] = st],
           slot' \in [Studies -> [Places -> Jobs \union {None}]],
           {made', moved', ousted'} \subseteq SUBSET Jobs, changes' = changes
    PROVE  TypeOK'
BY DEF TypeOK, Step

\* A study file may get any results.
Slots == [Studies -> [Places -> Jobs \union {None}]]

LEMMA RewriteTyped ==
    ASSUME TypeOK, NEW new \in Slots, NEW kept_out \in SUBSET Jobs, Rewrite(new, kept_out)
    PROVE  slot' \in Slots /\ ousted' \in SUBSET Jobs
BY DEF Rewrite, TypeOK

LEMMA WorkTyped ==
    ASSUME TypeOK, NEW j \in Jobs, Work(j)
    PROVE  TypeOK'
<1> USE DEF Steps, States, Ended, study
<1>1. CASE Begin(j)
  BY <1>1, StepTyped DEF Begin, StepTo, TypeOK
<1>2. CASE Train(j)
  BY <1>2, StepTyped DEF Train, Make, TypeOK
<1>3. CASE Benchmark(j) \/ FitSurrogate(j)
  BY <1>3, StepTyped DEF Benchmark, FitSurrogate, Make, TypeOK
<1>4. CASE FetchData(j) \/ SearchModels(j)
  BY <1>4, StepTyped DEF FetchData, SearchModels, Deliver, TypeOK
<1>5. CASE Save(j)
  <2>1. PICK new \in Slots, kept_out \in SUBSET Jobs : Rewrite(new, kept_out)
    <3>1. \A x \in Jobs \union {None} : [slot EXCEPT ![job[j].study][job[j].place] = x] \in Slots
      BY DEF TypeOK, Slots
    <3> QED BY <1>5, <3>1 DEF Save
  <2>2. slot' \in Slots /\ ousted' \in SUBSET Jobs
    BY <2>1, RewriteTyped
  <2>3. UNCHANGED <<status, made, moved, changes>> /\ Step(j, "finishing") /\ worker[j] # "absent"
    BY <1>5 DEF Save
  <2> QED BY <2>2, <2>3, StepTyped DEF TypeOK, Slots
<1>6. CASE Fail(j)
  BY <1>6, StepTyped DEF Fail, StepTo, TypeOK
<1>7. CASE Finish(j)
  BY <1>7, StepTyped DEF Finish, StepTo, TypeOK
<1> QED BY <1>1, <1>2, <1>3, <1>4, <1>5, <1>6, <1>7 DEF Work

LEMMA CallTyped ==
    ASSUME TypeOK, NEW j \in Jobs,
           Die(j) \/ Cancel(j) \/ Wait(j) \/ \E s \in Studies : Ask(j, s)
    PROVE  TypeOK'
<1> USE DEF Steps, States, Ended, Answers, study
<1>1. CASE Die(j)
  BY <1>1 DEF Die, TypeOK
<1>2. CASE Cancel(j)
  <2>1. worker[j] # "absent"
    BY <1>2 DEF Cancel, TypeOK
  <2> QED BY <1>2, <2>1, StepTyped DEF Cancel, StepTo, TypeOK
<1>3. CASE Wait(j)
  BY <1>3 DEF Wait, Say, TypeOK
<1>4. ASSUME NEW s \in Studies, Ask(j, s)
      PROVE  TypeOK'
  <2>1. /\ ModelAnswer(j, s) \in Answers
        /\ FetchAnswer(j) \in Answers
        /\ StatusAnswer(j) \in Answers
    BY DEF ModelAnswer, FetchAnswer, StatusAnswer
  <2>2. told' \in [Jobs -> Answers]
    BY <1>4, <2>1 DEF Ask, Say, TypeOK
  <2> QED BY <1>4, <2>2 DEF Ask, Say, TypeOK
<1> QED BY <1>1, <1>2, <1>3, <1>4

LEMMA ChangeTyped ==
    ASSUME TypeOK, NEW s \in Studies, Clear(s) \/ WatershedReplaced(s)
    PROVE  TypeOK'
<1>1. [slot EXCEPT ![s]["model"] = None] \in Slots
  BY DEF TypeOK, Slots
<1>2. [slot EXCEPT ![s] = [p \in Places |-> IF p \in Scores THEN None ELSE slot[s][p]]] \in Slots
  BY DEF TypeOK, Slots
<1>3. slot' \in Slots /\ ousted' \in SUBSET Jobs
  <2>1. PICK new \in Slots : Rewrite(new, {})
    BY <1>1, <1>2 DEF Clear, WatershedReplaced
  <2> QED BY <2>1, RewriteTyped
<1>4. changes' \in 0..MaxChanges /\ moved' \in SUBSET Jobs
  BY JobsAssumption DEF Clear, WatershedReplaced, TypeOK
<1> QED BY <1>3, <1>4 DEF Clear, WatershedReplaced, TypeOK, Slots

LEMMA NextTyped == TypeOK /\ [Next]_vars => TypeOK'
<1> SUFFICES ASSUME TypeOK, [Next]_vars PROVE TypeOK'
  OBVIOUS
<1>1. CASE UNCHANGED vars
  BY <1>1 DEF vars, TypeOK
<1>2. ASSUME NEW j \in Jobs, NEW s \in Studies, Starting(j, s)
      PROVE  TypeOK'
  BY <1>2, StartingSubmits, SubmitTyped
<1> QED BY <1>1, <1>2, WorkTyped, CallTyped, ChangeTyped DEF Next, Starting

\* Every reachable state of the jobs is one the modules and status.json can
\* hold (start_job, the _write_status of the runners, cancel_job).
THEOREM JobTyping == Spec => []TypeOK
<1>1. Init => TypeOK
  BY InitTyped
<1>2. TypeOK /\ [Next]_vars => TypeOK'
  BY NextTyped
<1> QED BY <1>1, <1>2, PTL DEF Spec

-----------------------------------------------------------------------------
(* What a caller is told *)

\* A process that saves has made its files; one past saving has its result
\* where it belongs.
Ordered(j) ==
    /\ worker[j] = "saving" => j \in made
    /\ worker[j] = "finishing" => Backed(j)

\* "complete" is the last word of a process that got there, and only a job that
\* is complete, or a fetch, is answered with a result.
Honest(j) ==
    /\ status[j] = "complete" => worker[j] = "gone" /\ Backed(j)
    /\ told[j] = "result" => status[j] # "absent"
    /\ (told[j] = "result" /\ KindOf(j) # "fetch") => status[j] = "complete"

IInv == TypeOK /\ \A j \in Jobs : Ordered(j) /\ Honest(j)

LEMMA InitHonest == Init => IInv
BY InitTyped, JobsAssumption DEF Init, IInv, Ordered, Honest, Backed

LEMMA SubmitHonest ==
    ASSUME IInv, NEW j \in Jobs, NEW k \in Kinds, NEW s \in Studies,
           NEW p \in PlacesOf(k, j), Submit(j, k, s, p), NEW i \in Jobs
    PROVE  Ordered(i)' /\ Honest(i)'
<1>1. status[j] = "absent"
  BY DEF Submit, IInv, TypeOK
<1>2. CASE i = j
  BY <1>1, <1>2 DEF Submit, study, IInv, TypeOK, Ordered, Honest
<1>3. CASE i # j
  <2>1. /\ job'[i] = job[i] /\ status'[i] = status[i] /\ worker'[i] = worker[i]
        /\ told' = told /\ made' = made /\ slot' = slot /\ ousted' = ousted
    BY <1>3 DEF Submit, study, IInv, TypeOK
  <2> QED BY <2>1 DEF IInv, Ordered, Honest, Backed, KindOf
<1> QED BY <1>2, <1>3

\* What is in a study stays there or is ousted.
Kept ==
    \A i \in Jobs, st \in Studies, p \in Places :
        /\ i \in ousted => i \in ousted'
        /\ slot[st][p] = i => slot'[st][p] = i \/ i \in ousted'

LEMMA RewriteKeeps ==
    ASSUME NEW new, NEW kept_out, Rewrite(new, kept_out)
    PROVE  Kept
BY DEF Rewrite, Kept

\* A job whose result has a place, or none.
LEMMA BackedStays ==
    ASSUME IInv, NEW i \in Jobs, Backed(i), job'[i] = job[i], made \subseteq made', Kept
    PROVE  Backed(i)'
<1>1. KindOf(i) \in Storing => job[i].study \in Studies /\ job[i].place \in Places
  <2>1. KindOf(i) \in Storing => job[i] # NoDescription
    BY JobsAssumption DEF KindOf, NoDescription, Storing, Kinds
  <2> QED BY <2>1, PlaceIsTyped DEF IInv, TypeOK, Described, KindOf
<1> QED BY <1>1 DEF Backed, KindOf, Kept

\* A job that keeps its description, and its place in the order, stays honest.
LEMMA OthersKeep ==
    ASSUME IInv, NEW i \in Jobs,
           job' = job, made \subseteq made', Kept,
           worker'[i] = worker[i], status'[i] = status[i], told'[i] = told[i]
    PROVE  Ordered(i)' /\ Honest(i)'
BY BackedStays DEF IInv, Ordered, Honest, KindOf

LEMMA WorkKeeps ==
    ASSUME NEW j \in Jobs, Work(j)
    PROVE  job' = job /\ told' = told /\ made \subseteq made' /\ Kept
<1> USE DEF Begin, Train, Benchmark, FitSurrogate, Make, FetchData, SearchModels,
            Deliver, Save, Fail, Finish, StepTo, Step, study
<1>1. job' = job /\ told' = told /\ made \subseteq made'
  BY DEF Work
<1>2. CASE Save(j)
  BY <1>1, <1>2, RewriteKeeps
<1>3. CASE ~ Save(j)
  BY <1>1, <1>3 DEF Work, Kept
<1> QED BY <1>1, <1>2, <1>3

LEMMA SaveBacks ==
    ASSUME IInv, NEW j \in Jobs, Save(j)
    PROVE  Backed(j)'
<1>1. j \in made' /\ job' = job
  BY DEF Save, Step, IInv, Ordered
<1>2. job[j] # NoDescription
  BY DEF Save, IInv, TypeOK
<1>3. KindOf(j) \in Storing => job[j].study \in Studies /\ job[j].place \in Places
  BY <1>2, PlaceIsTyped DEF IInv, TypeOK, Described, KindOf
<1>4. KindOf(j) \in Storing => slot'[job[j].study][job[j].place] = j \/ j \in ousted'
  BY <1>3 DEF Save, Rewrite, IInv, TypeOK
<1> QED BY <1>1, <1>4 DEF Backed, KindOf

LEMMA WorkHonest ==
    ASSUME IInv, NEW j \in Jobs, Work(j), NEW i \in Jobs
    PROVE  Ordered(i)' /\ Honest(i)'
<1> USE DEF Begin, Train, Benchmark, FitSurrogate, Make, FetchData, SearchModels,
            Deliver, Save, Fail, Finish, StepTo, Step
<1>1. job' = job /\ told' = told /\ made \subseteq made' /\ Kept
  BY WorkKeeps
<1>2. CASE i # j
  <2>1. worker'[i] = worker[i] /\ status'[i] = status[i]
    BY <1>2 DEF Work, IInv, TypeOK
  <2> QED BY <1>1, <2>1, OthersKeep
<1>3. CASE i = j
  <2> USE <1>3 DEF IInv, TypeOK
  <2>1. told[j] = "result" => KindOf(j) = "fetch"
    BY DEF Work, Honest
  <2>2. status'[j] # "absent"
    BY DEF Work
  <2>3. CASE Begin(j) \/ Fail(j)
    BY <2>3, <2>1, <2>2, <1>1 DEF Ordered, Honest, KindOf
  <2>4. CASE Train(j) \/ Benchmark(j) \/ FitSurrogate(j)
    BY <2>4, <2>1, <2>2, <1>1 DEF Ordered, Honest, KindOf
  <2>5. CASE FetchData(j) \/ SearchModels(j)
    BY <2>5, <2>1, <2>2, <1>1 DEF Ordered, Honest, Backed, KindOf, Storing
  <2>6. CASE Save(j)
    <3>1. Backed(j)'
      BY <2>6, SaveBacks
    <3>2. worker'[j] = "finishing" /\ status'[j] # "complete"
      BY <2>6 DEF Honest
    <3> QED BY <2>1, <2>2, <3>1, <3>2, <1>1 DEF Ordered, Honest, KindOf
  <2>7. CASE Finish(j)
    <3>1. Backed(j)'
      BY <2>7, <1>1, BackedStays DEF Ordered
    <3> QED BY <2>7, <3>1, <2>1, <2>2, <1>1 DEF Ordered, Honest, KindOf
  <2> QED BY <2>3, <2>4, <2>5, <2>6, <2>7 DEF Work
<1> QED BY <1>2, <1>3

LEMMA CallHonest ==
    ASSUME IInv, NEW j \in Jobs,
           Die(j) \/ Cancel(j) \/ Wait(j) \/ \E s \in Studies : Ask(j, s),
           NEW i \in Jobs
    PROVE  Ordered(i)' /\ Honest(i)'
<1>1. job' = job /\ made' = made /\ slot' = slot /\ ousted' = ousted /\ Kept
  BY DEF Die, Cancel, StepTo, Step, Wait, Ask, Say, study, Kept
<1>2. CASE i # j
  <2>1. worker'[i] = worker[i] /\ status'[i] = status[i] /\ told'[i] = told[i]
    BY <1>2 DEF IInv, TypeOK, Die, Cancel, StepTo, Step, Wait, Ask, Say
  <2> QED BY <1>1, <2>1, OthersKeep
<1>3. CASE i = j
  <2> USE <1>1, <1>3 DEF IInv, TypeOK, Ordered, Honest, Backed, KindOf
  <2>1. CASE Die(j)
    BY <2>1 DEF Die
  <2>2. CASE Cancel(j)
    BY <2>2 DEF Cancel, StepTo, Step
  <2>3. CASE Wait(j)
    BY <2>3 DEF Wait, Say
  <2>4. ASSUME NEW s \in Studies, Ask(j, s)
        PROVE  Ordered(j)' /\ Honest(j)'
    <3>1. /\ status[j] # "absent"
          /\ (told'[j] = "result" /\ KindOf(j) # "fetch") => status[j] = "complete"
      BY <2>4 DEF Ask, Say, ModelAnswer, StatusAnswer, States
    <3>2. worker' = worker /\ status' = status
      BY <2>4 DEF Ask, Say
    <3> QED BY <3>1, <3>2
  <2> QED BY <2>1, <2>2, <2>3, <2>4
<1> QED BY <1>2, <1>3

LEMMA NextHonest == IInv /\ [Next]_vars => IInv'
<1> SUFFICES ASSUME IInv, [Next]_vars PROVE IInv'
  OBVIOUS
<1>1. TypeOK'
  BY NextTyped DEF IInv
<1>2. ASSUME NEW i \in Jobs
      PROVE  Ordered(i)' /\ Honest(i)'
  <2>1. CASE UNCHANGED vars
    BY <2>1, OthersKeep DEF vars, Kept
  <2>2. ASSUME NEW s \in Studies, Clear(s) \/ WatershedReplaced(s)
        PROVE  Ordered(i)' /\ Honest(i)'
    <3>1. Kept
      BY <2>2, RewriteKeeps DEF Clear, WatershedReplaced
    <3> QED BY <2>2, <3>1, OthersKeep DEF Clear, WatershedReplaced
  <2>3. ASSUME NEW j \in Jobs, NEW s \in Studies, Starting(j, s)
        PROVE  Ordered(i)' /\ Honest(i)'
    BY <2>3, StartingSubmits, SubmitHonest
  <2> QED BY <2>1, <2>2, <2>3, WorkHonest, CallHonest DEF Next, Starting
<1> QED BY <1>1, <1>2 DEF IInv

\* A caller handed the result of a training, a search or an inundation job was
\* handed one whose files were written and whose entry is in the study, unless a
\* later job, a clear or another watershed took it out or kept it out, whatever
\* was cancelled, killed or overtaken (tools_modelling.py:894-944, runner.py:191-201).
THEOREM ResultsAreBacked == Spec => []ResultIsBacked
<1>1. Init => IInv
  BY InitHonest
<1>2. IInv /\ [Next]_vars => IInv'
  BY NextHonest
<1>3. IInv => ResultIsBacked
  BY DEF IInv, Honest, ResultIsBacked
<1> QED BY <1>1, <1>2, <1>3, PTL DEF Spec

=============================================================================
