------------------------------ MODULE AicEngine ------------------------------
(***************************************************************************)
(* The engine that runs an evaluation (aic_engine.cpp: run, handle_trial and *)
(* what they call) with the bag recorder it drives (ScoringTier2.cc).  Every *)
(* call to the participant's model, the simulator or the recorder is a step; *)
(* a call may be answered, refused, or time out and be carried out later.    *)
(* The participant's side of a goal is the module AicModel.                  *)
(***************************************************************************)
EXTENDS Naturals, Sequences, FiniteSets

CONSTANTS NTrials, NTasks,
          MaxRetries,  \* MAX_RETRIES
          MaxSlow      \* bound: calls that time out, deletes that are refused

Trials == 1..NTrials
Names == {"task_board", "cable"}

ASSUME AicEngineAssumption ==
  /\ NTrials \in Nat \ {0} /\ NTasks \in Nat \ {0} /\ MaxRetries \in Nat \ {0}
  /\ MaxSlow \in Nat

VARIABLES
  engine_state, pc,
  trial, attempt,   \* index of the trial handled; attempt of a retried step
  task,             \* task of the trial
  after,            \* what follows the reset under way: "retry", "next", "error"
  state,            \* TrialState of each trial
  spawned, del,     \* spawned_entities of the trial; next one to delete
  is_first_trial, model_discovered,
  model, late,      \* lifecycle state of the model; requests it has yet to serve
  scene, pending,   \* entities in the simulator; calls it has yet to serve
  recorder,         \* ScoringTier2: recording, trial and purity of the bag
  score,            \* tier 1, and the bag that tiers 2 and 3 were computed from
  slow, logged      \* such calls so far; faults to excuse what follows from them

engineVars == <<engine_state, pc, trial, attempt, task, after, state, is_first_trial>>
modelVars == <<model, late, model_discovered>>
simVars == <<scene, pending, spawned, del>>
scoreVars == <<recorder, score>>
vars == <<engineVars, modelVars, simVars, scoreVars, slow, logged>>

Progress == <<"Uninitialized", "ModelReady", "EndpointsReady", "SimulatorReady",
              "ScoringReady", "TasksExecuting", "AllTasksCompleted">>
NoBag == [on |-> FALSE, trial |-> 0, disturbed |-> FALSE]
Bags == [on: BOOLEAN, trial: 0..NTrials, disturbed: BOOLEAN]
Transitions == {"configure", "activate", "deactivate", "cleanup", "shutdown"}
Entities == [name: Names, copy: Nat, trial: Trials]

TypeOK ==
  /\ engine_state \in {"Running", "Error", "Completed"}
  /\ pc \in {"discover", "unconfigured", "configure", "probe", "activate", "endpoints",
             "board", "tare", "cable", "record", "goal", "result", "score",
             "deactivate", "delete", "home", "cleanup", "shutdown", "done"}
  /\ trial \in 1..(NTrials + 1) /\ attempt \in 1..MaxRetries /\ task \in 1..NTasks
  /\ after \in {"retry", "next", "error"}
  /\ state \in [Trials -> {Progress[i] : i \in DOMAIN Progress}]
  /\ spawned \in Seq(Names) /\ del \in Nat \ {0}
  /\ is_first_trial \in BOOLEAN /\ model_discovered \in BOOLEAN
  /\ model \in {"unconfigured", "inactive", "active", "finalized"}
  /\ late \in Seq(Transitions)
  /\ scene \subseteq Entities
  /\ pending \subseteq [op: {"spawn", "delete"}, name: Names, trial: Trials]
  /\ recorder \in Bags /\ score \in [Trials -> [tier_1: 0..1, bag: Bags]]
  /\ slow \in 0..MaxSlow /\ logged \subseteq {"model", "delete", "slow"}

\* The model may not be the conforming node the rules ask for.
Init ==
  /\ engine_state = "Running" /\ pc = "discover" /\ trial = 1 /\ attempt = 1
  /\ task = 1 /\ after = "next" /\ state = [t \in Trials |-> "Uninitialized"]
  /\ spawned = <<>> /\ del = 1
  /\ is_first_trial = TRUE /\ model_discovered = FALSE
  /\ model \in {"unconfigured", "inactive", "active"} /\ late = <<>>
  /\ scene = {} /\ pending = {}
  /\ recorder = NoBag /\ score = [t \in Trials |-> [tier_1 |-> 0, bag |-> NoBag]]
  /\ slow = 0 /\ logged = {}

At(here) == pc = here
Goto(to) == pc' = to
Reach(s) == state' = [state EXCEPT ![trial] = s]

\* reset_after_trial, then engine_state_ = Error.
Fail == Goto("deactivate") /\ after' = "error"

\* One of the MAX_RETRIES attempts failed: once more, from there, or give up.
LastAttemptMissed == attempt > MaxRetries  \* mutated form
LastAttempt == attempt = MaxRetries
SameAttempt == attempt  \* mutated form
NextAttempt == attempt + 1

Again(there) ==
  \/ ~LastAttempt /\ attempt' = NextAttempt /\ Goto(there) /\ UNCHANGED after
  \/ LastAttempt /\ Fail /\ UNCHANGED attempt

(***************************************************************************)
(* The model's lifecycle (transition_model_lifecycle_node).                  *)
(***************************************************************************)
From == [configure |-> {"unconfigured"}, activate |-> {"inactive"},
         deactivate |-> {"active"}, cleanup |-> {"inactive"}, shutdown |-> {"unconfigured"}]
To == [configure |-> "inactive", activate |-> "active", deactivate |-> "inactive",
       cleanup |-> "unconfigured", shutdown |-> "finalized"]

Answered(transition) ==
  /\ late = <<>> /\ model \in From[transition]
  /\ model' = To[transition] /\ UNCHANGED <<late, model_discovered, slow, logged>>

\* Refused in the wrong state, or the callback failed.
Refused(transition) ==
  /\ late = <<>> /\ UNCHANGED <<modelVars, slow>>
  /\ \/ model \notin From[transition] /\ UNCHANGED logged
     \/ model \in From[transition] /\ logged' = logged \cup {"model"}

TimedOut(transition) ==
  /\ slow < MaxSlow /\ slow' = slow + 1 /\ UNCHANGED logged
  /\ late' = Append(late, transition) /\ UNCHANGED <<model, model_discovered>>

\* The executor of the model gets to the request in the end.
LateTransition ==
  /\ late # <<>> /\ late' = Tail(late)
  /\ model' = IF model \in From[Head(late)] THEN To[Head(late)] ELSE model
  /\ UNCHANGED <<engineVars, simVars, scoreVars, model_discovered, slow, logged>>

(***************************************************************************)
(* check_model.                                                             *)
(***************************************************************************)
Discover ==
  /\ At("discover")
  /\ \/ /\ model_discovered' = TRUE /\ Goto(IF is_first_trial THEN "unconfigured" ELSE "activate")
        /\ UNCHANGED after
     \/ model_discovered' = FALSE /\ Fail
  /\ UNCHANGED <<engine_state, trial, attempt, task, state, is_first_trial, model, late,
                 simVars, scoreVars, slow, logged>>

\* model_node_is_unconfigured.
IsUnconfigured ==
  /\ At("unconfigured")
  /\ \/ model = "unconfigured" /\ Goto("configure") /\ UNCHANGED after
     \/ Fail
  /\ UNCHANGED <<engine_state, trial, attempt, task, state, is_first_trial, modelVars,
                 simVars, scoreVars, slow, logged>>

Configure ==
  /\ At("configure")
  /\ \/ Answered("configure") /\ Goto("probe") /\ UNCHANGED after
     \/ (Refused("configure") \/ TimedOut("configure")) /\ Fail
  /\ UNCHANGED <<engine_state, trial, attempt, task, state, is_first_trial, simVars, scoreVars>>

\* configure_model_node: a goal sent now must be rejected within a second.
Probe ==
  /\ At("probe")
  /\ \/ Goto("activate") /\ UNCHANGED after
     \/ Fail
  /\ UNCHANGED <<engine_state, trial, attempt, task, state, is_first_trial, modelVars,
                 simVars, scoreVars, slow, logged>>

Activate ==
  /\ At("activate")
  /\ \/ /\ Answered("activate") /\ Goto("endpoints") /\ Reach("ModelReady") /\ attempt' = 1
        /\ score' = [score EXCEPT ![trial].tier_1 = 1] /\ UNCHANGED after
     \/ (Refused("activate") \/ TimedOut("activate")) /\ Fail /\ UNCHANGED <<state, attempt, score>>
  /\ UNCHANGED <<engine_state, trial, task, is_first_trial, simVars, recorder>>

CheckEndpoints ==
  /\ At("endpoints")
  /\ \/ Goto("board") /\ Reach("EndpointsReady") /\ attempt' = 1 /\ UNCHANGED after
     \/ Again("endpoints") /\ UNCHANGED state
  /\ UNCHANGED <<engine_state, trial, task, is_first_trial, modelVars, simVars, scoreVars,
                 slow, logged>>

(***************************************************************************)
(* The simulator.                                                           *)
(***************************************************************************)
\* allow_renaming: a name in use gets the first free suffix.
Copy(name) ==
  CHOOSE k \in 0..Cardinality(scene) :
    /\ \A e \in scene : e.name = name => e.copy # k
    /\ \A j \in 0..(k - 1) : \E e \in scene : e.name = name /\ e.copy = j

With(name, t) == scene \cup {[name |-> name, copy |-> Copy(name), trial |-> t]}
Without(name) == {e \in scene : ~(e.name = name /\ e.copy = 0)}

\* A call that times out may still be carried out later.
Late(op, name) ==
  /\ slow < MaxSlow /\ slow' = slow + 1 /\ logged' = logged \cup {"slow"}
  /\ pending' = pending \cup {[op |-> op, name |-> name, trial |-> trial]}
  /\ UNCHANGED scene

SimulatorCatchesUp ==
  \E call \in pending :
    /\ pending' = pending \ {call}
    /\ scene' = IF call.op = "spawn" THEN With(call.name, call.trial) ELSE Without(call.name)
    /\ UNCHANGED <<engineVars, modelVars, spawned, del, scoreVars, slow, logged>>

\* spawn_entity lists the entity before it calls the simulator; if the URDF cannot
\* be generated it does neither.
Listed(name) == spawned' = Append(spawned, name)
Spawned(name) == Listed(name) /\ scene' = With(name, trial) /\ UNCHANGED <<pending, slow, logged>>
NotSpawned(name) ==
  \/ Listed(name) /\ UNCHANGED <<scene, pending, slow, logged>>
  \/ Listed(name) /\ Late("spawn", name)
  \/ UNCHANGED <<spawned, scene, pending, slow, logged>>

\* ready_simulator: a task board that cannot be spawned is only logged.
SpawnBoard ==
  /\ At("board") /\ Goto("tare")
  /\ Spawned("task_board") \/ NotSpawned("task_board")
  /\ UNCHANGED <<engine_state, trial, attempt, task, after, state, is_first_trial, modelVars,
                 del, scoreVars>>

\* A retry deletes what this trial has spawned so far, without homing the robot.
SimulatorMissed ==
  \/ ~LastAttempt /\ attempt' = NextAttempt /\ Goto("delete") /\ after' = "retry"
  \/ LastAttempt /\ Fail /\ UNCHANGED attempt

\* The force-torque sensor, and the gripper transform the cable is placed at.
Tare ==
  /\ At("tare")
  /\ \/ Goto("cable") /\ UNCHANGED <<after, attempt>>
     \/ SimulatorMissed
  /\ UNCHANGED <<engine_state, trial, task, state, is_first_trial, modelVars, simVars,
                 scoreVars, slow, logged>>

\* The joints settle, or not: SimulatorReady either way.
SpawnCable ==
  /\ At("cable")
  /\ \/ /\ Spawned("cable") /\ Goto("record") /\ Reach("SimulatorReady") /\ attempt' = 1
        /\ UNCHANGED after
     \/ NotSpawned("cable") /\ SimulatorMissed /\ UNCHANGED state
  /\ UNCHANGED <<engine_state, trial, task, is_first_trial, modelVars, del, scoreVars>>

\* reset_simulator, one entity at a time.
DeleteSecondOn == SubSeq(spawned, 2, Len(spawned))  \* mutated form
ToDelete == spawned

DeleteEntity ==
  /\ At("delete") /\ del <= Len(ToDelete) /\ del' = del + 1
  /\ LET name == ToDelete[del] IN
     \/ scene' = Without(name) /\ UNCHANGED <<pending, slow, logged>>
     \/ /\ Without(name) # scene /\ slow < MaxSlow /\ slow' = slow + 1
        /\ logged' = logged \cup {"delete"} /\ UNCHANGED <<scene, pending>>
     \/ Late("delete", name)
  /\ recorder' = [recorder EXCEPT !.disturbed = recorder.on]
  /\ UNCHANGED <<engineVars, modelVars, spawned, score>>

Deleted ==
  /\ At("delete") /\ del > Len(ToDelete) /\ del' = 1
  /\ IF after = "retry" THEN Goto("board") /\ after' = "next" ELSE Goto("home") /\ UNCHANGED after
  /\ UNCHANGED <<engine_state, trial, attempt, task, state, is_first_trial, modelVars,
                 spawned, scene, pending, scoreVars, slow, logged>>

(***************************************************************************)
(* Recording, tasks and scores.                                             *)
(***************************************************************************)
\* ScoringTier2::Reset closes any bag still open.
NewBag(t) == [on |-> TRUE, trial |-> t, disturbed |-> FALSE]
BagKept(t) == IF recorder.on THEN recorder ELSE NewBag(t)  \* mutated form
BagOf(t) == NewBag(t)

\* StartRecording: the bag may not open, or no transform may come.
StartRecording ==
  /\ At("record")
  /\ \/ /\ recorder' = BagOf(trial) /\ Goto("goal") /\ Reach("ScoringReady")
        /\ UNCHANGED <<attempt, after>>
     \/ recorder' \in {NoBag, BagOf(trial)} /\ Again("record") /\ UNCHANGED state
  /\ UNCHANGED <<engine_state, trial, task, is_first_trial, modelVars, simVars, score, slow, logged>>

\* tasks_started: the first rejection is an error of the run, a later one is not.
SendGoal ==
  /\ At("goal")
  /\ \/ model = "active" /\ Goto("result") /\ Reach("TasksExecuting") /\ UNCHANGED after
     \/ /\ UNCHANGED state
        /\ \/ state[trial] = "ScoringReady" /\ Fail
           \/ state[trial] = "TasksExecuting" /\ Goto("score") /\ UNCHANGED after
  /\ UNCHANGED <<engine_state, trial, attempt, task, is_first_trial, modelVars, simVars,
                 scoreVars, slow, logged>>

\* The result; or it is a failure, or the time limit, where the cancel request that
\* is sent is not waited for.
Result ==
  /\ At("result")
  /\ \/ task < NTasks /\ task' = task + 1 /\ Goto("goal") /\ UNCHANGED state
     \/ task = NTasks /\ Reach("AllTasksCompleted") /\ Goto("score") /\ UNCHANGED task
     \/ Goto("score") /\ UNCHANGED <<state, task>>
  /\ UNCHANGED <<engine_state, trial, attempt, after, is_first_trial, modelVars, simVars,
                 scoreVars, slow, logged>>

\* score_trial: StopRecording fails if no transform comes, and then keeps recording.
ScoreTrial ==
  /\ At("score") /\ Goto("deactivate") /\ after' = "next"
  /\ \/ /\ recorder' = [recorder EXCEPT !.on = FALSE]
        /\ score' = [score EXCEPT ![trial].bag = [recorder EXCEPT !.on = FALSE]]
     \/ UNCHANGED scoreVars
  /\ UNCHANGED <<engine_state, trial, attempt, task, state, is_first_trial, modelVars, simVars,
                 slow, logged>>

(***************************************************************************)
(* reset_after_trial and the end of run.                                    *)
(***************************************************************************)
Asked(transition) ==
  \/ model_discovered /\ (Answered(transition) \/ Refused(transition) \/ TimedOut(transition))
  \/ ~model_discovered /\ UNCHANGED <<modelVars, slow, logged>>

NotAsked(transition) == UNCHANGED <<modelVars, slow, logged>>  \* mutated form
AskedToStop(transition) == Asked(transition)

Deactivate ==
  /\ At("deactivate") /\ AskedToStop("deactivate") /\ Goto("delete") /\ is_first_trial' = FALSE
  /\ UNCHANGED <<engine_state, trial, attempt, task, after, state, simVars, scoreVars>>

Stays(then) == FALSE  \* mutated form: the loop goes on after an error
Stops(then) == then = "error"

\* home_robot; that it failed is only logged.  The next trial is another Trial.
Home ==
  /\ At("home") /\ task' = 1 /\ attempt' = 1 /\ spawned' = <<>>
  /\ recorder' = [recorder EXCEPT !.disturbed = recorder.on]
  /\ engine_state' = IF after = "error" THEN "Error" ELSE engine_state
  /\ \/ Stops(after) /\ Goto("cleanup") /\ UNCHANGED trial
     \/ /\ ~Stops(after) /\ trial' = trial + 1
        /\ Goto(IF trial = NTrials THEN "cleanup" ELSE "discover")
  /\ UNCHANGED <<after, state, is_first_trial, modelVars, scene, pending, del, score, slow, logged>>

Cleanup ==
  /\ At("cleanup") /\ Asked("cleanup") /\ Goto("shutdown")
  /\ UNCHANGED <<engine_state, trial, attempt, task, after, state, is_first_trial, simVars, scoreVars>>

Shutdown ==
  /\ At("shutdown") /\ Asked("shutdown") /\ Goto("done")
  /\ engine_state' = IF engine_state = "Running" THEN "Completed" ELSE engine_state
  /\ UNCHANGED <<trial, attempt, task, after, state, is_first_trial, simVars, scoreVars>>

Step == \/ Discover \/ IsUnconfigured \/ Configure \/ Probe \/ Activate \/ CheckEndpoints
        \/ SpawnBoard \/ Tare \/ SpawnCable \/ DeleteEntity \/ Deleted \/ StartRecording
        \/ SendGoal \/ Result \/ ScoreTrial \/ Deactivate \/ Home \/ Cleanup \/ Shutdown
Environment == LateTransition \/ SimulatorCatchesUp

Next == Step \/ Environment

Spec == Init /\ [][Next]_vars

\* The engine runs with use_sim_time, and the deadline of each of its waits, for a
\* service, a lifecycle transition, a transform or a result, is one of that clock.
\* Only the next entity's turn and the answer to a goal request wait for no clock.
Unclocked == Deleted \/ SendGoal
Clocked == Step /\ ~At("goal") /\ ~(At("delete") /\ del > Len(ToDelete))

\* The engine is one thread; the model answers goal requests, the one wait without
\* a time limit, and its executor serves a request that was left behind.
FairSpec == Spec /\ WF_vars(Unclocked) /\ WF_vars(LateTransition)

\* Not of the code but of the simulator it waits with: simulated time goes on, so
\* that a wait ends with its answer or at its deadline.
ClockAdvances == WF_vars(Clocked)

(***************************************************************************)
(* Properties.                                                              *)
(***************************************************************************)
\* run: trials in order, an error ends the run, only a full run is "Completed".
Verdict == CASE engine_state = "Running" -> "running"
             [] engine_state = "Error" -> "error"
             [] OTHER -> "completed"
Outcome(t) ==
  IF t < trial THEN IF state[t] = "AllTasksCompleted" THEN "succeeded" ELSE "failed"
  ELSE IF t > trial \/ pc = "discover" THEN "pending"
  ELSE IF engine_state = "Error" THEN "failed" ELSE "running"
Run == INSTANCE EngineRun WITH verdict <- Verdict, result <- [t \in Trials |-> Outcome(t)]
ImplementsRun == Run!Spec

\* The tasks of a trial start with its cable in the simulator and nothing left of an
\* earlier trial or attempt, unless a simulator call timed out or a delete failed.
OwnScene ==
  pc = "goal" /\ state[trial] = "ScoringReady" /\ logged \cap {"slow", "delete"} = {} =>
    /\ \A e \in scene : e.trial = trial /\ e.copy = 0
    /\ \E e \in scene : e.name = "cable"

\* Tiers 2 and 3 of a trial come from its own bag, closed before the simulator was
\* reset; also after a trial whose bag could not be closed.
ScoresOwnBag ==
  \A t \in Trials : score[t].bag # NoBag =>
    score[t].bag.trial = t /\ ~score[t].bag.disturbed

\* challenge_rules.md, 4: the engine leaves a model it has found finalized, whatever
\* state it was found in and wherever the run stopped, unless the model refused.
EndsFinalized ==
  pc = "done" /\ model_discovered /\ late = <<>> /\ "model" \notin logged =>
    model = "finalized"

\* As long as simulated time goes on, every run ends: retries are bounded, and every
\* wait but the one for the answer to a goal has a deadline on that clock.
EngineEnds == ClockAdvances => <>(pc = "done")
=============================================================================
