-------------------------------- MODULE Jobs --------------------------------
(***************************************************************************)
(* Background jobs: a tool call writes a configuration, starts a detached   *)
(* process and answers at once; the process (modelling/runner.py,           *)
(* runners/data_fetch_runner.py, search_runner.py, the two inundation       *)
(* runners) works alone, keeps its state in the job's status.json, and      *)
(* stores what it found in the study it was started for; later calls read   *)
(* status.json and say what became of the job.                              *)
(*                                                                         *)
(* The process can die at any step, can be cancelled by a call, and can be  *)
(* overtaken: what another process stored under the same key of the study   *)
(* since it loaded it is replaced by its own (session/store.py, _merge3),   *)
(* and a physics report is left out of a study that was given another        *)
(* watershed meanwhile (_apply_basin_change), which no status tells.         *)
(* The registry of processes is a library (aihydro_core.jobs): it is        *)
(* modelled from how these modules and tests/test_jobs.py use it.           *)
(***************************************************************************)
EXTENDS Naturals, FiniteSets

CONSTANTS
    Jobs,           \* job ids
    Studies,        \* studies the jobs are started for
    Scores,         \* csi of a physics benchmark, the key of its result
    None,           \* no job, no snapshot, no answer
    MaxDeaths,      \* bound on processes that die by themselves
    MaxChanges      \* bound on studies cleared or given another watershed

\* propose_and_train and train_hydro_model, data_fetch_background,
\* run_autoresearch, run_inundation_physics_validation, train_inundation_surrogate.
Kinds == {"training", "fetch", "search", "physics", "surrogate"}

Storing == {"training", "physics", "surrogate"}    \* kinds that write in a study

ASSUME JobsAssumption ==
    /\ None \notin Kinds \union {"result"}
    /\ {MaxDeaths, MaxChanges} \subseteq Nat

\* Where results lie in a study: one model, a physics report per csi, a
\* surrogate per job.
Places == {"model"} \union Scores \union Jobs

PlacesOf(k, j) ==
    CASE k = "training" -> {"model"}
      [] k = "physics" -> Scores
      [] k = "surrogate" -> {j}
      [] OTHER -> {None}

Ended == {"complete", "failed", "cancelled"}            \* _TERMINAL_JOB_STATES
States == {"absent", "pending", "running"} \union Ended

\* absent, started, working, then saving the study, then the last status.
Steps == {"absent", "started", "working", "saving", "finishing", "gone"}

Answers == {None, "still", "ended", "gone", "refused", "result"}

NoDescription == [kind |-> None, study |-> None, place |-> None]
Described == [kind : Kinds, study : Studies, place : Places \union {None}]

VARIABLES
    job,        \* job_config.json of a job: its kind, its study, the key it stores under
    status,     \* status.json of a job
    worker,     \* where its process is
    killed,     \* jobs whose process died by itself
    slot,       \* results in the study files: whose result is under a key
    made,       \* jobs whose own files are written (masks, model, answer of the source)
    moved,      \* benchmarks that loaded their study before its watershed was replaced
    ousted,     \* history: jobs whose result was taken out of their study, or kept out
    told,       \* what the last call about a job said of it
    changes     \* studies cleared or given another watershed so far

vars == <<job, status, worker, killed, slot, made, moved, ousted, told, changes>>
study == <<slot, moved, ousted, changes>>

\* Every variable has its type; a job has a process and a status once it exists.
TypeOK ==
    /\ job \in [Jobs -> Described \union {NoDescription}]
    /\ status \in [Jobs -> States]
    /\ worker \in [Jobs -> Steps]
    /\ slot \in [Studies -> [Places -> Jobs \union {None}]]
    /\ {killed, made, moved, ousted} \subseteq SUBSET Jobs
    /\ told \in [Jobs -> Answers]
    /\ changes \in 0..MaxChanges
    /\ \A j \in Jobs :
        /\ job[j] = NoDescription \/ job[j].place \in PlacesOf(job[j].kind, j)
        /\ (job[j] = NoDescription) <=> (status[j] = "absent")
        /\ (worker[j] = "absent") <=> (status[j] = "absent")

Init ==
    /\ job = [j \in Jobs |-> NoDescription]
    /\ status = [j \in Jobs |-> "absent"]
    /\ worker = [j \in Jobs |-> "absent"]
    /\ slot = [s \in Studies |-> [p \in Places |-> None]]
    /\ killed = {} /\ made = {} /\ moved = {} /\ ousted = {}
    /\ told = [j \in Jobs |-> None]
    /\ changes = 0

KindOf(j) == job[j].kind

\* A process goes on to its next step, with or without a new status.
Step(j, w) ==
    /\ worker' = [worker EXCEPT ![j] = w]
    /\ UNCHANGED <<job, killed, told>>

\* A study file gets other results; the jobs in kept_out do not get theirs in.
Rewrite(new, kept_out) ==
    /\ slot' = new
    /\ ousted' = ousted \union kept_out \union
            {i \in Jobs : \E s \in Studies, p \in Places : slot[s][p] = i /\ new[s][p] # i}

StepTo(j, w, st) ==
    /\ status' = [status EXCEPT ![j] = st]
    /\ Step(j, w)

-----------------------------------------------------------------------------
(* The calls that start a job *)

\* start_job: configuration, status.json "pending", the process and its entry
\* in the registry.
Submit(j, k, s, p) ==
    /\ job[j] = NoDescription
    /\ job' = [job EXCEPT ![j] = [kind |-> k, study |-> s, place |-> p]]
    /\ status' = [status EXCEPT ![j] = "pending"]
    /\ worker' = [worker EXCEPT ![j] = "started"]
    /\ UNCHANGED <<killed, made, told, study>>

\* propose_and_train, and train_hydro_model with its flat parameters: a study
\* with a gauge and the slots the model needs, for its own basin; anything else
\* is refused and starts nothing.
SubmitTraining(j, s) == Submit(j, "training", s, "model")

\* data_fetch_background names its study only in the context it notes.
SubmitFetch(j, s) == Submit(j, "fetch", s, None)

\* run_autoresearch searches over specifications; nothing of it is a result of
\* the study but what is trained from it later.
SubmitSearch(j, s) == Submit(j, "search", s, None)

\* run_inundation_physics_validation: the report's place is its score, which is
\* not known yet.
SubmitPhysics(j, s) == \E p \in Scores : Submit(j, "physics", s, p)

\* train_inundation_surrogate, on the masks of a complete physics job or on a
\* synthetic dataset: each job has a place of its own.
SubmitSurrogate(j, s) == Submit(j, "surrogate", s, j)

-----------------------------------------------------------------------------
(* The processes *)

\* The configuration is read and status.json says "running".
Begin(j) ==
    /\ worker[j] = "started"
    /\ StepTo(j, "working", "running")
    /\ UNCHANGED <<made, study>>

\* The job's own files are written; the study is loaded and the result is to be
\* saved in it.
Make(j) ==
    /\ made' = made \union {j}
    /\ Step(j, "saving")
    /\ UNCHANGED <<status, study>>

\* The model is trained and scored; a failed post_run is only logged.
Train(j) == worker[j] = "working" /\ KindOf(j) = "training" /\ Make(j)

\* The benchmark is computed and validation_masks.npz written.
Benchmark(j) == worker[j] = "working" /\ KindOf(j) = "physics" /\ Make(j)

\* The surrogate is fitted to its dataset and written.
FitSurrogate(j) == worker[j] = "working" /\ KindOf(j) = "surrogate" /\ Make(j)

\* What the job was for is there, and nothing of it goes in the study.
Deliver(j) ==
    /\ made' = made \union {j}
    /\ Step(j, "finishing")
    /\ UNCHANGED <<status, study>>

\* The source answered; a failure to write the data to a file is logged.
FetchData(j) == worker[j] = "working" /\ KindOf(j) = "fetch" /\ Deliver(j)

\* The search loop ended and its leaderboard is written.
SearchModels(j) == worker[j] = "working" /\ KindOf(j) = "search" /\ Deliver(j)

\* _apply_basin_change leaves a report out of a study whose watershed is another
\* than when the process loaded it.  Surrogates are stored under their job, and
\* models are no basin's, so neither is meant; a watershed whose outline is in the
\* same file is not told from the one before.
MayDrop(j) == j \in moved

\* put_result and save.  The merge takes the later of two results under one
\* key, also over a slot that was cleared since the study was loaded, before it
\* looks at the watershed.
Save(j) ==
    /\ worker[j] = "saving"
    /\ LET with(x) == [slot EXCEPT ![job[j].study][job[j].place] = x]
       IN  \/ Rewrite(with(j), {})
           \/ MayDrop(j) /\ Rewrite(with(None), {j})
    /\ Step(j, "finishing")
    /\ UNCHANGED <<status, made, moved, changes>>

\* Altered form: the process ends without a last status.
FailSilently(j) ==
    /\ worker[j] \in {"working", "saving"}
    /\ Step(j, "gone")
    /\ UNCHANGED <<status, made, study>>

\* Any exception: a configuration that cannot be read (data_fetch), a source or
\* a training that failed, a model with no score, a study that is busy, a last
\* status that could not be written.  status.json says "failed".
Fail(j) ==
    /\ \/ worker[j] \in {"working", "saving"}
       \/ worker[j] = "started" /\ KindOf(j) = "fetch"
       \/ worker[j] = "finishing" /\ KindOf(j) # "fetch"
    /\ StepTo(j, "gone", "failed")
    /\ UNCHANGED <<made, study>>

\* The last status, and the process ends.
Finish(j) ==
    /\ worker[j] = "finishing"
    /\ StepTo(j, "gone", "complete")
    /\ UNCHANGED <<made, study>>

\* The process is killed, or cannot write its status: nothing says so.
Die(j) ==
    /\ Cardinality(killed) < MaxDeaths
    /\ worker[j] \notin {"absent", "gone"}
    /\ worker' = [worker EXCEPT ![j] = "gone"]
    /\ killed' = killed \union {j}
    /\ UNCHANGED <<job, status, made, told, study>>

-----------------------------------------------------------------------------
(* Calls about a job *)

\* cancel_job kills the process group and marks the job; a job that has ended
\* stays as it is.
Cancel(j) ==
    /\ status[j] \in {"pending", "running"}
    /\ StepTo(j, "gone", "cancelled")
    /\ UNCHANGED <<made, study>>

Say(j, a) ==
    /\ told' = [told EXCEPT ![j] = a]
    /\ UNCHANGED <<job, status, worker, killed, made, study>>

\* wait_for_job: it polls status.json until the job has ended or the budget of
\* the call is used up, and then asks to be called again.
Wait(j) ==
    /\ status[j] # "absent"
    /\ Say(j, IF status[j] \in Ended THEN "ended" ELSE "still")

\* Altered form: a job that is no longer running is reported as trained.
AnyModel(j, s) ==
    IF KindOf(j) # "training" \/ job[j].study # s THEN "refused"
    ELSE IF status[j] \in {"pending", "running"} THEN "still" ELSE "result"

\* get_model_results(job_id): a refusal for a job of another kind or study; an
\* error for one that failed, was cancelled, or whose process is gone.
ModelAnswer(j, s) ==
    IF KindOf(j) # "training" \/ job[j].study # s THEN "refused"
    ELSE IF status[j] \in {"failed", "cancelled"} THEN "ended"
    ELSE IF status[j] = "complete" THEN "result"
    ELSE IF worker[j] = "gone" THEN "gone" ELSE "still"

\* get_data_fetch_result reads status.json itself: what is neither pending,
\* running nor failed is answered as complete.
FetchAnswer(j) ==
    CASE status[j] \in {"pending", "running"} -> "still"
      [] status[j] = "failed" -> "ended"
      [] OTHER -> "result"

\* get_inundation_physics_result, get_inundation_surrogate_result, and
\* get_leaderboard and get_training_status, which pass the status on.
StatusAnswer(j) ==
    CASE status[j] = "complete" -> "result"
      [] status[j] \in {"failed", "cancelled"} -> "ended"
      [] OTHER -> "still"

\* One of the calls that fetch the result of a job.
Ask(j, s) ==
    /\ status[j] # "absent"
    /\ Say(j, CASE KindOf(j) = "training" -> ModelAnswer(j, s)
                [] KindOf(j) = "fetch" -> FetchAnswer(j)
                [] OTHER -> StatusAnswer(j))

\* clear_session on a study: the model goes, the inundation results stay.
Clear(s) ==
    /\ changes < MaxChanges
    /\ Rewrite([slot EXCEPT ![s]["model"] = None], {})
    /\ changes' = changes + 1
    /\ UNCHANGED <<job, status, worker, killed, made, moved, told>>

\* _watershed_replaced: another watershed is stored in a study, and the physics
\* reports for the one before go.
WatershedReplaced(s) ==
    /\ changes < MaxChanges
    /\ Rewrite([slot EXCEPT ![s] = [p \in Places |-> IF p \in Scores THEN None ELSE slot[s][p]]], {})
    /\ moved' = moved \union {j \in Jobs : worker[j] = "saving" /\ KindOf(j) = "physics" /\ job[j].study = s}
    /\ changes' = changes + 1
    /\ UNCHANGED <<job, status, worker, killed, made, told>>

-----------------------------------------------------------------------------
Work(j) ==
    \/ Begin(j) \/ Train(j) \/ Benchmark(j) \/ FitSurrogate(j)
    \/ FetchData(j) \/ SearchModels(j)
    \/ Save(j) \/ Fail(j) \/ Finish(j)

Next ==
    \/ \E j \in Jobs, s \in Studies :
          \/ SubmitTraining(j, s) \/ SubmitFetch(j, s) \/ SubmitSearch(j, s)
          \/ SubmitPhysics(j, s) \/ SubmitSurrogate(j, s)
    \/ \E j \in Jobs : Work(j) \/ Die(j) \/ Cancel(j) \/ Wait(j)
    \/ \E j \in Jobs, s \in Studies : Ask(j, s)
    \/ \E s \in Studies : Clear(s) \/ WatershedReplaced(s)

Spec == Init /\ [][Next]_vars

\* A process that runs gets on: its steps are plain code with no lock held
\* across them.  The caller keeps waiting, as wait_for_job tells it to.
FairSpec ==
    /\ Spec
    /\ \A j \in Jobs : WF_vars(Work(j)) /\ WF_vars(Wait(j))

-----------------------------------------------------------------------------
(* Properties *)

\* What a result rests on: the job's own files, and for a kind that writes in
\* a study its entry there, unless that was taken out or kept out.
Backed(j) ==
    /\ j \in made
    /\ KindOf(j) \in Storing => slot[job[j].study][job[j].place] = j \/ j \in ousted

\* Safety.  A caller that was handed the result of a training, a search or an
\* inundation job was handed something that was made: the job's own files were
\* written, and its entry is in the study unless a later job of the same key,
\* clear_session or another watershed took it out since, or another watershed
\* came while it was saved; in spite of cancellations, deaths, failed saves and
\* other jobs (the order of runner.py:191-201, inundation_physics_runner.py:102-137,
\* inundation_surrogate_runner.py:72-99, and the cases of tools_modelling.py:894-924).
ResultIsBacked ==
    \A j \in Jobs :
        (told[j] = "result" /\ KindOf(j) # "fetch") => Backed(j)

\* Safety.  The same for data_fetch_background: "Retrieve the result of a
\* completed data_fetch_background job" (tools_data_async.py:247).
FetchIsBacked ==
    \A j \in Jobs :
        (told[j] = "result" /\ KindOf(j) = "fetch") => Backed(j)

\* Liveness.  A caller that keeps waiting for a job hears that it ended,
\* whether it succeeded, failed or was cancelled, unless its process was killed
\* without a word: wait_for_job asks to be called again until status.json has an
\* end (tools_modelling.py:283-308), and the runners write one on every path.
JobIsHeardOf ==
    \A j \in Jobs :
        (status[j] = "pending") ~> (told[j] \in {"ended", "result"} \/ j \in killed)

=============================================================================
