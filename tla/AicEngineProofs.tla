--------------------------- MODULE AicEngineProofs ---------------------------
(***************************************************************************)
(* What an evaluation run guarantees for every number of trials, tasks,     *)
(* retries, and calls that time out or are refused; and that it is a run of *)
(* EngineRun.                                                               *)
(***************************************************************************)
EXTENDS AicEngine, FiniteSetTheorems, TLAPS

(***************************************************************************)
(* The inductive invariant.                                                 *)
(***************************************************************************)
Models == {"unconfigured", "inactive", "active", "finalized"}

\* What the model is after it has served a request.
Served(transition, m) == IF m \in From[transition] THEN To[transition] ELSE m

\* From m, the requests of the queue take the model to the state end.
Leads(m, queue, end) ==
  \E f \in [0..Len(queue) -> Models] :
    /\ f[0] = m /\ f[Len(queue)] = end
    /\ \A i \in 1..Len(queue) : f[i] = Served(queue[i], f[i - 1])

\* Once it has served what it was asked: after a trial it is not active, and each
\* step of the end of run takes it one state further.
FateOK ==
  \E fate \in Models :
    /\ Leads(model, late, fate)
    /\ model_discovered /\ "model" \notin logged =>
         /\ pc \in {"home", "cleanup"} \/ (pc = "delete" /\ after # "retry") => fate # "active"
         /\ pc = "shutdown" => fate \in {"unconfigured", "finalized"}
         /\ pc = "done" => fate = "finalized"

\* The engine is at a trial until it cleans up, which it does after an error or
\* after the last trial.
PlaceOK ==
  /\ pc \notin {"cleanup", "shutdown", "done"} => trial \in Trials /\ engine_state = "Running"
  /\ pc \in {"cleanup", "shutdown"} /\ engine_state = "Running" => trial = NTrials + 1
  /\ pc \in {"cleanup", "shutdown"} => engine_state # "Completed"
  /\ pc = "done" => engine_state # "Running"
  /\ engine_state = "Error" => trial \in Trials
  /\ engine_state = "Completed" => trial = NTrials + 1
  /\ pc # "delete" => del = 1

\* Without a call that is late or refused, whatever is in the simulator is what this
\* trial has listed and not yet deleted.
SceneOK ==
  logged \cap {"slow", "delete"} = {} =>
    /\ pending = {}
    /\ \A e \in scene : /\ e.copy = 0 /\ e.trial = trial
                        /\ \E i \in del..Len(spawned) : spawned[i] = e.name
    /\ pc \in {"discover", "unconfigured", "configure", "probe", "activate", "endpoints",
               "board", "home"} => scene = {}
    /\ pc \in {"tare", "cable"} => \A e \in scene : e.name = "task_board"
    /\ pc \in {"record", "goal", "result"} => \E e \in scene : e.name = "cable"

\* From the recording on there is one bag, of this trial and not disturbed.
BagsOK ==
  /\ pc \in {"goal", "result", "score"} => recorder = NewBag(trial)
  /\ ScoresOwnBag

TypesOK == TypeOK /\ IsFiniteSet(scene)

IInv == TypesOK /\ FateOK /\ PlaceOK /\ SceneOK /\ BagsOK

(***************************************************************************)
(* Types.                                                                   *)
(***************************************************************************)
\* A set of numbers up to n that is not empty has a smallest one.
LEMMA Smallest ==
  ASSUME NEW n \in Nat, NEW S \in SUBSET (0..n), S # {}
  PROVE  \E k \in S : \A j \in S : k <= j
<1> DEFINE T == {0..k : k \in S}
<1>1. IsFiniteSet(0..n)
  BY FS_Interval
<1>2. T \subseteq FiniteSubsetsOf(0..n) /\ T # {}
  <2>1. \A k \in S : (0..k) \in SUBSET (0..n)
    OBVIOUS
  <2>2. FiniteSubsetsOf(0..n) = SUBSET (0..n)
    BY <1>1, FS_FiniteSubsetsOfFinite
  <2>3. T \subseteq SUBSET (0..n) /\ T # {}
    BY <2>1
  <2> QED
    BY <2>2, <2>3
<1>3. IsWellFoundedOn(StrictSubsetOrdering(0..n), FiniteSubsetsOf(0..n))
  BY FS_StrictSubsetOrderingWellFounded
<1>4. PICK least \in T : \A t \in T : <<t, least>> \notin StrictSubsetOrdering(0..n)
  <2> DEFINE R == StrictSubsetOrdering(0..n)
             All == FiniteSubsetsOf(0..n)
  <2>1. T \subseteq All /\ T # {} /\ IsWellFoundedOn(R, All)
    BY <1>2, <1>3
  <2> HIDE DEF T, R, All
  <2>2. \E x \in T : \A y \in T : ~(<<y, x>> \in R)
    BY <2>1, WFMin
  <2> QED
    BY <2>2 DEF R
<1>5. PICK k \in S : least = 0..k
  OBVIOUS
<1>6. ASSUME NEW j \in S, j < k PROVE FALSE
  <2>1. /\ (0..j) \in T /\ (0..j) \in SUBSET (0..n) /\ (0..k) \in SUBSET (0..n)
        /\ (0..j) \subseteq (0..k)
    BY <1>6
  <2>2. k \in (0..k) /\ k \notin (0..j)
    BY <1>6
  <2>3. <<0..j, 0..k>> \in StrictSubsetOrdering(0..n)
    BY <2>1, <2>2 DEF StrictSubsetOrdering
  <2> QED
    BY <1>4, <1>5, <2>1, <2>3
<1> QED
  BY <1>6

\* allow_renaming finds a suffix that is free, and leaves a free name as it is.
LEMMA Copies ==
  ASSUME TypesOK, NEW name \in Names
  PROVE  /\ Copy(name) \in Nat
         /\ (\A e \in scene : e.name # name) => Copy(name) = 0
<1> DEFINE n == Cardinality(scene)
           used == {e.copy : e \in scene}
           Free(k) == \A e \in scene : e.name = name => e.copy # k
           free == {k \in 0..n : Free(k)}
<1>1. n \in Nat /\ IsFiniteSet(scene) /\ scene \subseteq Entities
  BY FS_CardinalityType DEF TypesOK, TypeOK
<1>2. \E k \in 0..n : Free(k)
  <2>1. IsFiniteSet(used) /\ Cardinality(used) <= n /\ Cardinality(used) \in Nat
    <3> DEFINE f == [e \in scene |-> e.copy]
    <3>1. f \in Surjection(scene, used)
      BY DEF Surjection
    <3> QED
      BY <1>1, <3>1, FS_Surjection, FS_CardinalityType
  <2>2. IsFiniteSet(0..n) /\ Cardinality(0..n) = n + 1
    BY <1>1, FS_Interval
  <2>3. ~(0..n \subseteq used)
    <3>1. SUFFICES ASSUME 0..n \subseteq used PROVE FALSE
      OBVIOUS
    <3>2. Cardinality(0..n) <= Cardinality(used)
      BY <2>1, <3>1, FS_Subset
    <3> QED
      BY <1>1, <2>1, <2>2, <3>2
  <2>4. PICK k \in 0..n : k \notin used
    BY <2>3
  <2> QED
    BY <2>4
<1>3. PICK k \in free : \A j \in free : ~(j < k)
  <2>1. free \in SUBSET (0..n) /\ free # {}
    BY <1>2
  <2>2. PICK k \in free : \A j \in free : k <= j
    BY <1>1, <2>1, Smallest
  <2> QED
    BY <1>1, <2>1, <2>2
<1>4. /\ \A e \in scene : e.name = name => e.copy # k
      /\ \A j \in 0..(k - 1) : \E e \in scene : e.name = name /\ e.copy = j
  <2>1. \A j \in 0..(k - 1) : j \in 0..n /\ j < k
    BY <1>1
  <2> QED
    BY <1>3, <2>1
<1>5. /\ Copy(name) \in 0..n
      /\ \A j \in 0..(Copy(name) - 1) : \E e \in scene : e.name = name /\ e.copy = j
  BY <1>4 DEF Copy
<1>6. Copy(name) \in Nat
  BY <1>1, <1>5
<1>7. ASSUME \A e \in scene : e.name # name PROVE Copy(name) = 0
  <2>1. SUFFICES ASSUME Copy(name) # 0 PROVE FALSE
    OBVIOUS
  <2>2. 0 \in 0..(Copy(name) - 1)
    BY <1>6, <2>1
  <2> QED
    BY <1>5, <1>7, <2>2
<1> QED
  BY <1>6, <1>7

\* A scene stays a finite set of entities.
LEMMA Scenes ==
  ASSUME TypesOK, NEW name \in Names
  PROVE  /\ \A t \in Trials : With(name, t) \subseteq Entities /\ IsFiniteSet(With(name, t))
         /\ Without(name) \subseteq Entities /\ IsFiniteSet(Without(name))
<1>1. IsFiniteSet(scene) /\ scene \subseteq Entities /\ Without(name) \subseteq scene
  BY DEF TypesOK, TypeOK, Without
<1>2. ASSUME NEW t \in Trials PROVE With(name, t) \subseteq Entities /\ IsFiniteSet(With(name, t))
  <2> DEFINE e == [name |-> name, copy |-> Copy(name), trial |-> t]
  <2>1. e \in Entities
    BY Copies DEF Entities
  <2>2. IsFiniteSet(scene \cup {e})
    BY <1>1, FS_AddElement
  <2> QED
    BY <1>1, <2>1, <2>2 DEF With
<1> QED
  BY <1>1, <1>2, FS_Subset

\* What a call to the model does to the model's side of the run.
LEMMA Calls ==
  ASSUME TypesOK, NEW transition \in Transitions,
         Answered(transition) \/ Refused(transition) \/ TimedOut(transition)
  PROVE  /\ model' \in Models /\ late' \in Seq(Transitions) /\ slow' \in 0..MaxSlow
         /\ logged' \subseteq {"model", "delete", "slow"} /\ model_discovered' = model_discovered
         /\ logged' \cap {"slow", "delete"} = logged \cap {"slow", "delete"}
<1> USE DEF TypesOK, TypeOK, Models
<1>1. CASE Answered(transition)
  <2>1. To[transition] \in Models
    BY DEF To, Transitions
  <2> QED
    BY <1>1, <2>1 DEF Answered
<1>2. CASE Refused(transition)
  BY <1>2 DEF Refused, modelVars
<1>3. CASE TimedOut(transition)
  <2>1. slow' \in 0..MaxSlow
    BY <1>3, AicEngineAssumption DEF TimedOut
  <2> QED
    BY <1>3, <2>1 DEF TimedOut
<1> QED
  BY <1>1, <1>2, <1>3

\* A transition asked for at the end of a trial or of the run.
LEMMA CallsAsked ==
  ASSUME TypesOK, NEW transition \in Transitions, Asked(transition)
  PROVE  /\ model' \in Models /\ late' \in Seq(Transitions) /\ slow' \in 0..MaxSlow
         /\ logged' \subseteq {"model", "delete", "slow"} /\ model_discovered' = model_discovered
         /\ logged' \cap {"slow", "delete"} = logged \cap {"slow", "delete"}
<1>1. CASE model_discovered /\ (Answered(transition) \/ Refused(transition) \/ TimedOut(transition))
  BY <1>1, Calls
<1>2. CASE ~model_discovered /\ UNCHANGED <<modelVars, slow, logged>>
  BY <1>2 DEF modelVars, TypesOK, TypeOK, Models
<1> QED
  BY <1>1, <1>2 DEF Asked

\* What a call to spawn an entity does to the simulator's side of the run.
LEMMA Spawns ==
  ASSUME TypesOK, trial \in Trials, NEW name \in Names, Spawned(name) \/ NotSpawned(name)
  PROVE  /\ spawned' \in Seq(Names) /\ scene' \subseteq Entities /\ IsFiniteSet(scene')
         /\ pending' \subseteq [op: {"spawn", "delete"}, name: Names, trial: Trials]
         /\ slow' \in 0..MaxSlow /\ logged' \subseteq {"model", "delete", "slow"}
<1> USE DEF TypesOK, TypeOK, Listed
<1>1. CASE Spawned(name)
  <2>1. With(name, trial) \subseteq Entities /\ IsFiniteSet(With(name, trial))
    BY Scenes
  <2> QED
    BY <1>1, <2>1 DEF Spawned
<1>2. CASE Late("spawn", name) /\ Listed(name)
  <2>1. slow' \in 0..MaxSlow
    BY <1>2, AicEngineAssumption DEF Late
  <2> QED
    BY <1>2, <2>1 DEF Late
<1>3. CASE UNCHANGED <<scene, pending, slow, logged>> /\ (Listed(name) \/ UNCHANGED spawned)
  <2>1. spawned \in Seq(Names) /\ Append(spawned, name) \in Seq(Names)
    OBVIOUS
  <2>2. spawned' \in Seq(Names)
    BY <1>3, <2>1
  <2>3. UNCHANGED <<scene, pending, slow, logged>>
    BY <1>3
  <2> QED
    BY <2>2, <2>3
<1> QED
  BY <1>1, <1>2, <1>3 DEF NotSpawned

\* The attempts of a retried step stay within their number.
LEMMA Attempts ==
  ASSUME TypesOK
  PROVE  /\ \A there : Again(there) => attempt' \in 1..MaxRetries /\ after' \in {"retry", "next", "error"}
                                       /\ (pc' = there \/ pc' = "deactivate")
         /\ SimulatorMissed => /\ attempt' \in 1..MaxRetries /\ after' \in {"retry", "next", "error"}
                               /\ pc' \in {"delete", "deactivate"}
<1>1. attempt \in 1..MaxRetries /\ MaxRetries \in Nat /\ after \in {"retry", "next", "error"}
  BY AicEngineAssumption DEF TypesOK, TypeOK
<1>2. ~LastAttempt => NextAttempt \in 1..MaxRetries
  BY <1>1 DEF LastAttempt, NextAttempt
<1> QED
  BY <1>1, <1>2 DEF Again, SimulatorMissed, Fail, Goto

\* Bags and the scores taken from them.
LEMMA BagTypes ==
  ASSUME TypesOK, trial \in Trials
  PROVE  /\ NoBag \in Bags /\ BagOf(trial) \in Bags /\ NewBag(trial) \in Bags
         /\ [recorder EXCEPT !.on = FALSE] \in Bags
         /\ [recorder EXCEPT !.disturbed = recorder.on] \in Bags
         /\ \A b \in Bags : [score EXCEPT ![trial].bag = b] \in [Trials -> [tier_1: 0..1, bag: Bags]]
         /\ [score EXCEPT ![trial].tier_1 = 1] \in [Trials -> [tier_1: 0..1, bag: Bags]]
<1>1. recorder \in Bags /\ score \in [Trials -> [tier_1: 0..1, bag: Bags]] /\ NTrials \in Nat
  BY AicEngineAssumption DEF TypesOK, TypeOK
<1>2. /\ [recorder EXCEPT !.on = FALSE] \in Bags
      /\ [recorder EXCEPT !.disturbed = recorder.on] \in Bags
  BY <1>1 DEF Bags
<1>3. NoBag \in Bags /\ BagOf(trial) \in Bags /\ NewBag(trial) \in Bags
  BY <1>1 DEF Bags, NoBag, BagOf, NewBag, Trials
<1>4. \A b \in Bags : [score EXCEPT ![trial].bag = b] \in [Trials -> [tier_1: 0..1, bag: Bags]]
  <2> SUFFICES ASSUME NEW b \in Bags
               PROVE  [score EXCEPT ![trial].bag = b] \in [Trials -> [tier_1: 0..1, bag: Bags]]
    OBVIOUS
  <2>1. [score[trial] EXCEPT !.bag = b] \in [tier_1: 0..1, bag: Bags]
    BY <1>1
  <2> QED
    BY <1>1, <2>1
<1>5. [score EXCEPT ![trial].tier_1 = 1] \in [Trials -> [tier_1: 0..1, bag: Bags]]
  <2>1. [score[trial] EXCEPT !.tier_1 = 1] \in [tier_1: 0..1, bag: Bags]
    BY <1>1
  <2> QED
    BY <1>1, <2>1
<1> QED
  BY <1>2, <1>3, <1>4, <1>5

\* Types: the model is asked to activate, and answers, refuses or is late.
LEMMA TypesOfActivate ==
  ASSUME IInv, Activate PROVE TypesOK'
<1>1. trial \in Trials /\ TypesOK /\ 1 \in 1..MaxRetries
  BY AicEngineAssumption DEF IInv, PlaceOK, Activate, At
<1>2. /\ model' \in Models /\ late' \in Seq(Transitions) /\ slow' \in 0..MaxSlow
      /\ logged' \subseteq {"model", "delete", "slow"} /\ model_discovered' = model_discovered
  BY <1>1, Calls DEF Activate, Transitions
<1>3. /\ pc' \in {"endpoints", "deactivate"} /\ attempt' \in 1..MaxRetries
      /\ after' \in {"error", after}
      /\ state' \in {state, [state EXCEPT ![trial] = "ModelReady"]}
      /\ score' \in {score, [score EXCEPT ![trial].tier_1 = 1]}
      /\ UNCHANGED <<engine_state, trial, task, is_first_trial, simVars, recorder>>
  BY <1>1 DEF Activate, Reach, Fail, Goto, TypesOK, TypeOK
<1>4. score' \in [Trials -> [tier_1: 0..1, bag: Bags]]
  BY <1>1, <1>3, BagTypes DEF TypesOK, TypeOK
<1>5. state' \in [Trials -> {Progress[i] : i \in DOMAIN Progress}]
  BY <1>1, <1>3 DEF TypesOK, TypeOK, Progress
<1> QED
  BY <1>1, <1>2, <1>3, <1>4, <1>5 DEF TypesOK, TypeOK, Models, simVars

\* Types: an entity is deleted at a reset.
LEMMA TypesOfDelete ==
  ASSUME IInv, DeleteEntity PROVE TypesOK'
<1>1. trial \in Trials /\ TypesOK
  BY DEF IInv, PlaceOK, DeleteEntity, At
<1>2. ToDelete[del] \in Names
  BY <1>1 DEF DeleteEntity, ToDelete, TypesOK, TypeOK
<1>3. recorder' \in Bags
  BY <1>1, BagTypes DEF DeleteEntity
<1>4. Without(ToDelete[del]) \subseteq Entities /\ IsFiniteSet(Without(ToDelete[del]))
  BY <1>1, <1>2, Scenes
<1>5. /\ scene' \in {scene, Without(ToDelete[del])} /\ slow' \in 0..MaxSlow
      /\ logged' \subseteq {"model", "delete", "slow"}
      /\ pending' \in {pending, pending \cup {[op |-> "delete", name |-> ToDelete[del],
                                                trial |-> trial]}}
  BY <1>1, AicEngineAssumption DEF DeleteEntity, Late, TypesOK, TypeOK
<1>6. pending' \subseteq [op: {"spawn", "delete"}, name: Names, trial: Trials]
  BY <1>1, <1>2, <1>5 DEF TypesOK, TypeOK
<1>7. del' \in Nat \ {0}
  BY <1>1 DEF DeleteEntity, TypesOK, TypeOK
<1> QED
  BY <1>1, <1>3, <1>4, <1>5, <1>6, <1>7 DEF DeleteEntity, TypesOK, TypeOK, engineVars, modelVars

\* Types: a recording is begun.
LEMMA TypesOfRecording ==
  ASSUME IInv, StartRecording PROVE TypesOK'
<1>1. trial \in Trials /\ TypesOK
  BY DEF IInv, PlaceOK, StartRecording, At
<1>2. recorder' \in Bags
  BY <1>1, BagTypes DEF StartRecording
<1>3. /\ attempt' \in 1..MaxRetries /\ after' \in {"retry", "next", "error"}
      /\ pc' \in {"goal", "record", "deactivate"}
  <2>1. CASE Again("record")
    BY <1>1, <2>1, Attempts
  <2>2. CASE Goto("goal") /\ UNCHANGED <<attempt, after>>
    BY <1>1, <2>2 DEF Goto, TypesOK, TypeOK
  <2> QED
    BY <2>1, <2>2 DEF StartRecording
<1>4. state' \in [Trials -> {Progress[i] : i \in DOMAIN Progress}]
  <2>1. state' \in {state, [state EXCEPT ![trial] = "ScoringReady"]}
    BY DEF StartRecording, Reach
  <2>2. "ScoringReady" \in {Progress[i] : i \in DOMAIN Progress}
    <3>1. 5 \in DOMAIN Progress /\ Progress[5] = "ScoringReady"
      BY DEF Progress
    <3> QED
      BY <3>1
  <2>3. state \in [Trials -> {Progress[i] : i \in DOMAIN Progress}]
    BY <1>1 DEF TypesOK, TypeOK
  <2> QED
    BY <2>1, <2>2, <2>3
<1>5. UNCHANGED <<engine_state, trial, task, is_first_trial, modelVars, simVars, score, slow, logged>>
  BY DEF StartRecording
<1> QED
  BY <1>1, <1>2, <1>3, <1>4, <1>5 DEF TypesOK, TypeOK, modelVars, simVars

\* Types: a trial is scored.
LEMMA TypesOfScore ==
  ASSUME IInv, ScoreTrial PROVE TypesOK'
<1>1. trial \in Trials /\ TypesOK
  BY DEF IInv, PlaceOK, ScoreTrial, At
<1>2. recorder \in Bags /\ [recorder EXCEPT !.on = FALSE] \in Bags
  BY <1>1, BagTypes DEF TypesOK, TypeOK
<1>3. [score EXCEPT ![trial].bag = [recorder EXCEPT !.on = FALSE]]
        \in [Trials -> [tier_1: 0..1, bag: Bags]]
  BY <1>1, <1>2, BagTypes
<1>4. recorder' \in Bags /\ score' \in [Trials -> [tier_1: 0..1, bag: Bags]]
  BY <1>1, <1>2, <1>3 DEF ScoreTrial, scoreVars, TypesOK, TypeOK
<1> QED
  BY <1>1, <1>4 DEF ScoreTrial, TypesOK, TypeOK, Goto, modelVars, simVars

\* Every step keeps the types.
LEMMA StepTypesOK ==
  ASSUME IInv, [Next]_vars PROVE TypesOK'
<1> USE AicEngineAssumption DEF IInv, TypesOK, TypeOK, PlaceOK, Trials, At, Goto, Reach,
                                Fail, Progress, engineVars, modelVars, simVars, scoreVars
<1>1. CASE Discover
  BY <1>1 DEF Discover
<1>2. CASE IsUnconfigured
  BY <1>2 DEF IsUnconfigured
<1>3. CASE Configure
  BY <1>3, Calls DEF Configure, Transitions, Models
<1>4. CASE Probe
  BY <1>4 DEF Probe
<1>5. CASE Activate
  BY <1>5, TypesOfActivate
<1>6. CASE CheckEndpoints
  BY <1>6, Attempts DEF CheckEndpoints
<1>7. CASE SpawnBoard
  BY <1>7, Spawns DEF SpawnBoard, Names
<1>8. CASE Tare
  BY <1>8, Attempts DEF Tare
<1>9. CASE SpawnCable
  <2>1. /\ spawned' \in Seq(Names) /\ scene' \subseteq Entities /\ IsFiniteSet(scene')
        /\ pending' \subseteq [op: {"spawn", "delete"}, name: Names, trial: Trials]
        /\ slow' \in 0..MaxSlow /\ logged' \subseteq {"model", "delete", "slow"}
    BY <1>9, Spawns DEF SpawnCable, Names
  <2>2. CASE SimulatorMissed
    <3>1. /\ attempt' \in 1..MaxRetries /\ after' \in {"retry", "next", "error"}
          /\ pc' \in {"delete", "deactivate"}
      BY <2>2, Attempts
    <3> QED
      BY <1>9, <2>1, <3>1 DEF SpawnCable
  <2> QED
    BY <1>9, <2>1, <2>2 DEF SpawnCable
<1>10. CASE DeleteEntity
  BY <1>10, TypesOfDelete
<1>11. CASE Deleted
  BY <1>11 DEF Deleted
<1>12. CASE StartRecording
  BY <1>12, TypesOfRecording
<1>13. CASE SendGoal
  BY <1>13 DEF SendGoal
<1>14. CASE Result
  BY <1>14 DEF Result
<1>15. CASE ScoreTrial
  BY <1>15, TypesOfScore
<1>16. CASE Deactivate
  BY <1>16, CallsAsked DEF Deactivate, AskedToStop, Transitions, Models
<1>17. CASE Home
  BY <1>17, BagTypes DEF Home, Stops
<1>18. CASE Cleanup
  BY <1>18, CallsAsked DEF Cleanup, Transitions, Models
<1>19. CASE Shutdown
  BY <1>19, CallsAsked DEF Shutdown, Transitions, Models
<1>20. CASE LateTransition
  BY <1>20 DEF LateTransition, To, Transitions
<1>21. CASE SimulatorCatchesUp
  BY <1>21, Scenes DEF SimulatorCatchesUp
<1>22. CASE UNCHANGED vars
  BY <1>22 DEF vars
<1> QED
  BY <1>1, <1>2, <1>3, <1>4, <1>5, <1>6, <1>7, <1>8, <1>9, <1>10, <1>11, <1>12, <1>13,
     <1>14, <1>15, <1>16, <1>17, <1>18, <1>19, <1>20, <1>21, <1>22 DEF Next, Step, Environment

(***************************************************************************)
(* The place the run is at.                                                 *)
(***************************************************************************)
\* The place in the trial agrees with what was spawned, recorded and scored.
LEMMA StepPlaceOK ==
  ASSUME IInv, [Next]_vars PROVE PlaceOK'
<1> USE AicEngineAssumption DEF PlaceOK, At, Goto
<1>1. PlaceOK /\ trial \in 1..(NTrials + 1) /\ engine_state \in {"Running", "Error", "Completed"}
  BY DEF IInv, TypesOK, TypeOK
<1>2. CASE Discover
  BY <1>1, <1>2 DEF Discover, Fail, simVars
<1>3. CASE IsUnconfigured
  BY <1>1, <1>3 DEF IsUnconfigured, Fail, simVars
<1>4. CASE Configure
  BY <1>1, <1>4 DEF Configure, Fail, simVars
<1>5. CASE Probe
  BY <1>1, <1>5 DEF Probe, Fail, simVars
<1>6. CASE Activate
  BY <1>1, <1>6 DEF Activate, Fail, simVars
<1>7. CASE CheckEndpoints
  BY <1>1, <1>7 DEF CheckEndpoints, Again, Fail, simVars
<1>8. CASE SpawnBoard
  BY <1>1, <1>8 DEF SpawnBoard
<1>9. CASE Tare
  BY <1>1, <1>9 DEF Tare, SimulatorMissed, Fail, simVars
<1>10. CASE SpawnCable
  BY <1>1, <1>10 DEF SpawnCable, SimulatorMissed, Fail
<1>11. CASE DeleteEntity
  BY <1>1, <1>11 DEF DeleteEntity, engineVars
<1>12. CASE Deleted
  BY <1>1, <1>12 DEF Deleted
<1>13. CASE StartRecording
  BY <1>1, <1>13 DEF StartRecording, Again, Fail, simVars
<1>14. CASE SendGoal
  BY <1>1, <1>14 DEF SendGoal, Fail, simVars
<1>15. CASE Result
  BY <1>1, <1>15 DEF Result, simVars
<1>16. CASE ScoreTrial
  BY <1>1, <1>16 DEF ScoreTrial, simVars
<1>17. CASE Deactivate
  BY <1>1, <1>17 DEF Deactivate, simVars
<1>18. CASE Home
  <2>1. trial \in 1..NTrials /\ engine_state = "Running"
    BY <1>1, <1>18 DEF Home, Trials
  <2>2. CASE Stops(after)
    BY <1>1, <1>18, <2>1, <2>2 DEF Home, Stops, Trials
  <2>3. CASE ~Stops(after)
    BY <1>1, <1>18, <2>1, <2>3 DEF Home, Stops, Trials
  <2> QED
    BY <2>2, <2>3
<1>19. CASE Cleanup
  BY <1>1, <1>19 DEF Cleanup, simVars
<1>20. CASE Shutdown
  BY <1>1, <1>20 DEF Shutdown, simVars
<1>21. CASE LateTransition
  BY <1>1, <1>21 DEF LateTransition, engineVars, simVars
<1>22. CASE SimulatorCatchesUp
  BY <1>1, <1>22 DEF SimulatorCatchesUp, engineVars
<1>23. CASE UNCHANGED vars
  BY <1>1, <1>23 DEF vars, engineVars, simVars
<1> QED
  BY <1>2, <1>3, <1>4, <1>5, <1>6, <1>7, <1>8, <1>9, <1>10, <1>11, <1>12, <1>13, <1>14, <1>15,
     <1>16, <1>17, <1>18, <1>19, <1>20, <1>21, <1>22, <1>23 DEF Next, Step, Environment

(***************************************************************************)
(* What the requests the model has yet to serve make of it.                 *)
(***************************************************************************)
\* Serving a request that is not refused leads where it was led already.
LEMMA Serving ==
  ASSUME NEW transition \in Transitions, NEW m \in Models
  PROVE  /\ Served(transition, m) \in Models
         /\ Served("deactivate", m) # "active"
         /\ m # "active" => Served("cleanup", m) \in {"unconfigured", "finalized"}
         /\ m \in {"unconfigured", "finalized"} => Served("shutdown", m) = "finalized"
BY DEF Served, Models, From, To, Transitions

\* Without a request left the model stays as it is; one that is added is served last,
\* and the first of the queue is served next.
LEMMA Leading ==
  ASSUME NEW m \in Models, NEW queue \in Seq(Transitions), NEW end \in Models
  PROVE  /\ Leads(m, <<>>, end) <=> m = end
         /\ \A transition \in Transitions : Leads(m, queue, end) =>
              Leads(m, Append(queue, transition), Served(transition, end))
         /\ queue # <<>> /\ Leads(m, queue, end) =>
              Leads(Served(Head(queue), m), Tail(queue), end)
<1>1. Leads(m, <<>>, end) <=> m = end
  <2>1. Leads(m, <<>>, end) => m = end
    BY DEF Leads
  <2>2. ASSUME m = end PROVE Leads(m, <<>>, end)
    <3> DEFINE f == [i \in 0..0 |-> m]
    <3>1. f \in [0..Len(<<>>) -> Models] /\ f[0] = m /\ f[Len(<<>>)] = end
      BY <2>2
    <3>2. 1..Len(<<>>) = {}
      OBVIOUS
    <3> QED
      BY <3>1, <3>2 DEF Leads
  <2> QED
    BY <2>1, <2>2
<1>2. ASSUME NEW transition \in Transitions, Leads(m, queue, end)
      PROVE  Leads(m, Append(queue, transition), Served(transition, end))
  <2> DEFINE n == Len(queue)
             longer == Append(queue, transition)
  <2>1. PICK f \in [0..n -> Models] :
          /\ f[0] = m /\ f[n] = end
          /\ \A i \in 1..n : f[i] = Served(queue[i], f[i - 1])
    BY <1>2 DEF Leads
  <2> DEFINE g == [i \in 0..(n + 1) |-> IF i <= n THEN f[i] ELSE Served(transition, end)]
  <2>2. /\ n \in Nat /\ Len(longer) = n + 1 /\ longer[n + 1] = transition
        /\ \A i \in 1..n : longer[i] = queue[i]
    OBVIOUS
  <2>3. g \in [0..Len(longer) -> Models]
    BY <2>1, <2>2, Serving
  <2>4. g[0] = m /\ g[Len(longer)] = Served(transition, end)
    BY <2>1, <2>2
  <2>5. ASSUME NEW i \in 1..Len(longer) PROVE g[i] = Served(longer[i], g[i - 1])
    <3>1. CASE i <= n
      BY <2>1, <2>2, <3>1
    <3>2. CASE i = n + 1
      BY <2>1, <2>2, <3>2
    <3> QED
      BY <2>2, <3>1, <3>2
  <2> HIDE DEF longer, g
  <2>6. Leads(m, longer, Served(transition, end))
    BY <2>3, <2>4, <2>5 DEF Leads
  <2> QED
    BY <2>6 DEF longer
<1>3. ASSUME queue # <<>>, Leads(m, queue, end)
      PROVE  Leads(Served(Head(queue), m), Tail(queue), end)
  <2> DEFINE n == Len(queue)
             rest == Tail(queue)
  <2>1. PICK f \in [0..n -> Models] :
          /\ f[0] = m /\ f[n] = end
          /\ \A i \in 1..n : f[i] = Served(queue[i], f[i - 1])
    BY <1>3 DEF Leads
  <2> DEFINE g == [i \in 0..(n - 1) |-> f[i + 1]]
  <2>2. /\ n \in Nat \ {0} /\ Len(rest) = n - 1 /\ Head(queue) = queue[1]
        /\ \A i \in 1..(n - 1) : rest[i] = queue[i + 1]
    BY <1>3
  <2>3. g \in [0..Len(rest) -> Models]
    BY <2>1, <2>2
  <2>4. g[0] = Served(Head(queue), m) /\ g[Len(rest)] = end
    BY <2>1, <2>2
  <2>5. ASSUME NEW i \in 1..Len(rest) PROVE g[i] = Served(rest[i], g[i - 1])
    BY <2>1, <2>2
  <2> HIDE DEF rest, g
  <2>6. Leads(Served(Head(queue), m), rest, end)
    BY <2>3, <2>4, <2>5 DEF Leads
  <2> QED
    BY <2>6 DEF rest
<1> QED
  BY <1>1, <1>2, <1>3

\* A call, answered or late, adds its transition to what the model is led to, unless
\* the model refuses one it could have done.
LEMMA FateOfCall ==
  ASSUME TypesOK, NEW transition \in Transitions, NEW fate \in Models,
         Leads(model, late, fate),
         Answered(transition) \/ Refused(transition) \/ TimedOut(transition)
  PROVE  \E next \in Models :
           /\ Leads(model', late', next)
           /\ "model" \notin logged' => "model" \notin logged /\ next = Served(transition, fate)
<1>1. model \in Models /\ late \in Seq(Transitions)
  BY DEF TypesOK, TypeOK, Models
<1>2. late = <<>> => fate = model
  BY <1>1, Leading
<1>3. CASE Answered(transition)
  <2>1. model' = Served(transition, fate) /\ late' = <<>> /\ logged' = logged
    BY <1>2, <1>3 DEF Answered, Served
  <2>2. model' \in Models
    BY <2>1, Serving
  <2>3. Leads(model', <<>>, model')
    BY <2>2, <1>1, Leading
  <2> QED
    BY <2>1, <2>2, <2>3
<1>4. CASE Refused(transition)
  <2>1. model' = model /\ late' = late
    BY <1>4 DEF Refused, modelVars
  <2>2. "model" \notin logged' => "model" \notin logged /\ fate = Served(transition, fate)
    BY <1>2, <1>4 DEF Refused, Served
  <2> QED
    BY <2>1, <2>2
<1>5. CASE TimedOut(transition)
  <2>1. model' = model /\ late' = Append(late, transition) /\ logged' = logged
    BY <1>5 DEF TimedOut
  <2>2. Leads(model, Append(late, transition), Served(transition, fate))
    BY <1>1, Leading
  <2> QED
    BY <2>1, <2>2, Serving
<1> QED
  BY <1>3, <1>4, <1>5

\* Every step keeps the fate of the model that the place of the run asks for.
LEMMA StepFateOK ==
  ASSUME IInv, [Next]_vars PROVE FateOK'
<1> DEFINE Good(fate) ==
      model_discovered /\ "model" \notin logged =>
        /\ pc \in {"home", "cleanup"} \/ (pc = "delete" /\ after # "retry") => fate # "active"
        /\ pc = "shutdown" => fate \in {"unconfigured", "finalized"}
        /\ pc = "done" => fate = "finalized"
<1>1. TypesOK /\ model \in Models /\ late \in Seq(Transitions)
  BY DEF IInv, TypesOK, TypeOK, Models
<1>2. PICK fate \in Models : Leads(model, late, fate) /\ Good(fate)
  BY DEF IInv, FateOK
<1>3. ASSUME NEW next \in Models, Leads(model', late', next), Good(next)' PROVE FateOK'
  BY <1>3 DEF FateOK
\* A call that is made at a place from which nothing is said of the model.
<1>4. ASSUME NEW transition \in Transitions,
             Answered(transition) \/ Refused(transition) \/ TimedOut(transition),
             pc' \notin {"home", "cleanup", "delete", "shutdown", "done"}
      PROVE  FateOK'
  <2>1. PICK next \in Models : Leads(model', late', next)
    BY <1>1, <1>2, <1>4, FateOfCall
  <2>2. Good(next)'
    BY <1>4
  <2> QED
    BY <1>3, <2>1, <2>2
\* A step that leaves the model alone.
<1>5. ASSUME UNCHANGED <<model, late>>, Good(fate)' PROVE FateOK'
  <2>1. Leads(model', late', fate)
    BY <1>2, <1>5
  <2> QED
    BY <1>3, <1>5, <2>1
<1>6. CASE Discover
  BY <1>5, <1>6 DEF Discover, Fail, Goto
<1>7. CASE IsUnconfigured
  BY <1>5, <1>7 DEF IsUnconfigured, Fail, Goto, modelVars
<1>8. CASE Configure
  BY <1>4, <1>8 DEF Configure, Fail, Goto, Transitions
<1>9. CASE Probe
  BY <1>5, <1>9 DEF Probe, Fail, Goto, modelVars
<1>10. CASE Activate
  BY <1>4, <1>10 DEF Activate, Fail, Goto, Transitions
<1>11. CASE CheckEndpoints
  BY <1>5, <1>11 DEF CheckEndpoints, Again, Fail, Goto, modelVars
<1>12. CASE SpawnBoard
  BY <1>5, <1>12 DEF SpawnBoard, Goto, modelVars
<1>13. CASE Tare
  BY <1>5, <1>13 DEF Tare, SimulatorMissed, Fail, Goto, modelVars
<1>14. CASE SpawnCable
  BY <1>5, <1>14 DEF SpawnCable, SimulatorMissed, Fail, Goto, modelVars
<1>15. CASE DeleteEntity
  <2>1. "model" \notin logged' => "model" \notin logged
    BY <1>15 DEF DeleteEntity, Late
  <2> QED
    BY <1>2, <1>5, <1>15, <2>1 DEF DeleteEntity, modelVars, engineVars
<1>16. CASE Deleted
  BY <1>2, <1>5, <1>16 DEF Deleted, Goto, At, modelVars
<1>17. CASE StartRecording
  BY <1>5, <1>17 DEF StartRecording, Again, Fail, Goto, modelVars
<1>18. CASE SendGoal
  BY <1>5, <1>18 DEF SendGoal, Fail, Goto, modelVars
<1>19. CASE Result
  BY <1>5, <1>19 DEF Result, Goto, modelVars
<1>20. CASE ScoreTrial
  BY <1>5, <1>20 DEF ScoreTrial, Goto, modelVars
<1>21. CASE Deactivate
  <2>1. CASE model_discovered
    <3>1. PICK next \in Models :
            /\ Leads(model', late', next)
            /\ "model" \notin logged' =>
                 "model" \notin logged /\ next = Served("deactivate", fate)
      BY <1>1, <1>2, <1>21, <2>1, FateOfCall
      DEF Deactivate, AskedToStop, Asked, Transitions
    <3>2. Good(next)'
      BY <1>21, <3>1, Serving DEF Deactivate, Goto, Transitions
    <3> QED
      BY <1>3, <3>1, <3>2
  <2>2. CASE ~model_discovered
    BY <1>5, <1>21, <2>2 DEF Deactivate, AskedToStop, Asked, modelVars
  <2> QED
    BY <2>1, <2>2
<1>22. CASE Home
  BY <1>2, <1>5, <1>22 DEF Home, Goto, At, modelVars
<1>23. CASE Cleanup
  <2>1. CASE model_discovered
    <3>1. PICK next \in Models :
            /\ Leads(model', late', next)
            /\ "model" \notin logged' => "model" \notin logged /\ next = Served("cleanup", fate)
      BY <1>1, <1>2, <1>23, <2>1, FateOfCall DEF Cleanup, Asked, Transitions
    <3>2. /\ pc = "cleanup" /\ pc' = "shutdown"
          /\ model_discovered' /\ "model" \notin logged' => fate # "active"
      BY <1>2, <1>23, <2>1, <3>1 DEF Cleanup, Goto, At
    <3>3. Good(next)'
      BY <3>1, <3>2, Serving DEF Transitions
    <3> QED
      BY <1>3, <3>1, <3>3
  <2>2. CASE ~model_discovered
    BY <1>5, <1>23, <2>2 DEF Cleanup, Asked, modelVars
  <2> QED
    BY <2>1, <2>2
<1>24. CASE Shutdown
  <2>1. CASE model_discovered
    <3>1. PICK next \in Models :
            /\ Leads(model', late', next)
            /\ "model" \notin logged' => "model" \notin logged /\ next = Served("shutdown", fate)
      BY <1>1, <1>2, <1>24, <2>1, FateOfCall DEF Shutdown, Asked, Transitions
    <3>2. /\ pc = "shutdown" /\ pc' = "done"
          /\ model_discovered' /\ "model" \notin logged' => fate \in {"unconfigured", "finalized"}
      BY <1>2, <1>24, <2>1, <3>1 DEF Shutdown, Goto, At
    <3>3. Good(next)'
      BY <3>1, <3>2, Serving DEF Transitions
    <3> QED
      BY <1>3, <3>1, <3>3
  <2>2. CASE ~model_discovered
    BY <1>5, <1>24, <2>2 DEF Shutdown, Asked, modelVars
  <2> QED
    BY <2>1, <2>2
<1>25. CASE LateTransition
  <2>1. late # <<>> /\ late' = Tail(late) /\ model' = Served(Head(late), model)
    BY <1>25 DEF LateTransition, Served
  <2>2. Leads(model', late', fate)
    BY <1>1, <1>2, <2>1, Leading
  <2>3. Good(fate)'
    BY <1>2, <1>25 DEF LateTransition, engineVars
  <2> QED
    BY <1>3, <2>2, <2>3
<1>26. CASE SimulatorCatchesUp
  BY <1>2, <1>5, <1>26 DEF SimulatorCatchesUp, engineVars, modelVars
<1>27. CASE UNCHANGED vars
  BY <1>2, <1>5, <1>27 DEF vars, engineVars, modelVars
<1> QED
  BY <1>6, <1>7, <1>8, <1>9, <1>10, <1>11, <1>12, <1>13, <1>14, <1>15, <1>16, <1>17, <1>18,
     <1>19, <1>20, <1>21, <1>22, <1>23, <1>24, <1>25, <1>26, <1>27
  DEF Next, Step, Environment

(***************************************************************************)
(* The simulator.                                                           *)
(***************************************************************************)
\* An entity that is spawned at once, with no other of its name there, gets that name.
LEMMA SpawnedAtOnce ==
  ASSUME TypesOK, trial \in Trials, del = 1, NEW name \in Names, Spawned(name),
         \A e \in scene : e.name # name /\ e.copy = 0 /\ e.trial = trial
                          /\ \E i \in 1..Len(spawned) : spawned[i] = e.name
  PROVE  /\ scene' = scene \cup {[name |-> name, copy |-> 0, trial |-> trial]}
         /\ UNCHANGED <<pending, logged>>
         /\ \A e \in scene' : e.copy = 0 /\ e.trial = trial
                              /\ \E i \in 1..Len(spawned') : spawned'[i] = e.name
<1>1. /\ scene' = scene \cup {[name |-> name, copy |-> 0, trial |-> trial]}
      /\ UNCHANGED <<pending, logged>> /\ spawned' = Append(spawned, name)
  BY Copies DEF Spawned, With, Listed
<1>2. /\ spawned \in Seq(Names) /\ Len(spawned') = Len(spawned) + 1 /\ Len(spawned) \in Nat
      /\ spawned'[Len(spawned) + 1] = name /\ \A i \in 1..Len(spawned) : spawned'[i] = spawned[i]
  BY <1>1 DEF TypesOK, TypeOK
<1>3. ASSUME NEW e \in scene'
      PROVE  e.copy = 0 /\ e.trial = trial /\ \E i \in 1..Len(spawned') : spawned'[i] = e.name
  <2>1. CASE e \in scene
    BY <1>2, <2>1
  <2>2. CASE e = [name |-> name, copy |-> 0, trial |-> trial]
    BY <1>2, <2>2
  <2> QED
    BY <1>1, <1>3, <2>1, <2>2
<1> QED
  BY <1>1, <1>3

\* Every step keeps the account of the entities in the simulator.
LEMMA StepSceneOK ==
  ASSUME IInv, [Next]_vars PROVE SceneOK'
<1> DEFINE Quiet == logged \cap {"slow", "delete"} = {}
           Clear == {"discover", "unconfigured", "configure", "probe", "activate", "endpoints",
                     "board", "home"}
           Mine == \A e \in scene : /\ e.copy = 0 /\ e.trial = trial
                                    /\ \E i \in del..Len(spawned) : spawned[i] = e.name
           Here == /\ pc \in Clear => scene = {}
                   /\ pc \in {"tare", "cable"} => \A e \in scene : e.name = "task_board"
                   /\ pc \in {"record", "goal", "result"} => \E e \in scene : e.name = "cable"
<1>1. /\ TypesOK /\ PlaceOK /\ SceneOK
      /\ Quiet => pending = {} /\ Mine /\ Here
  BY DEF IInv, SceneOK
<1>2. ASSUME Quiet' => pending' = {} /\ Mine' /\ Here' PROVE SceneOK'
  BY <1>2 DEF SceneOK
\* A step that leaves the simulator alone.
<1>3. ASSUME UNCHANGED <<simVars, trial>>, Quiet' => Quiet, Quiet /\ Here => Here'
      PROVE  SceneOK'
  BY <1>1, <1>2, <1>3 DEF simVars
<1>4. CASE Discover
  BY <1>3, <1>4 DEF Discover, Fail, Goto, At, simVars
<1>5. CASE IsUnconfigured
  BY <1>3, <1>5 DEF IsUnconfigured, Fail, Goto, At, simVars
<1>6. CASE Configure
  <2>1. Quiet' => Quiet
    BY <1>1, <1>6, Calls DEF Configure, Transitions
  <2> QED
    BY <1>3, <1>6, <2>1 DEF Configure, Fail, Goto, At, simVars
<1>7. CASE Probe
  BY <1>3, <1>7 DEF Probe, Fail, Goto, At, simVars
<1>8. CASE Activate
  <2>1. Quiet' => Quiet
    BY <1>1, <1>8, Calls DEF Activate, Transitions
  <2> QED
    BY <1>3, <1>8, <2>1 DEF Activate, Fail, Goto, At, simVars
<1>9. CASE CheckEndpoints
  BY <1>3, <1>9 DEF CheckEndpoints, Again, Fail, Goto, At, simVars
<1>10. CASE SpawnBoard
  <2> SUFFICES ASSUME Quiet' PROVE pending' = {} /\ Mine' /\ Here'
    BY <1>2
  <2>1. Quiet /\ ~Late("spawn", "task_board")
    BY <1>10 DEF SpawnBoard, Spawned, NotSpawned, Late
  <2>2. /\ pc = "board" /\ pc' = "tare" /\ trial \in Trials /\ del = 1 /\ del' = del
        /\ trial' = trial /\ scene = {} /\ pending = {}
    BY <1>1, <1>10, <2>1 DEF SpawnBoard, PlaceOK, At, Goto
  <2>3. CASE Spawned("task_board")
    <3>1. /\ scene' = scene \cup {[name |-> "task_board", copy |-> 0, trial |-> trial]}
          /\ pending' = pending
          /\ \A e \in scene' : e.copy = 0 /\ e.trial = trial
                               /\ \E i \in 1..Len(spawned') : spawned'[i] = e.name
      BY <1>1, <2>2, <2>3, SpawnedAtOnce DEF Names
    <3> QED
      BY <2>2, <3>1
  <2>4. CASE NotSpawned("task_board")
    BY <2>1, <2>2, <2>4 DEF NotSpawned
  <2> QED
    BY <1>10, <2>3, <2>4 DEF SpawnBoard
<1>11. CASE Tare
  BY <1>3, <1>11 DEF Tare, SimulatorMissed, Fail, Goto, At, simVars
<1>12. CASE SpawnCable
  <2> SUFFICES ASSUME Quiet' PROVE pending' = {} /\ Mine' /\ Here'
    BY <1>2
  <2>1. Quiet /\ ~Late("spawn", "cable")
    BY <1>12 DEF SpawnCable, Spawned, NotSpawned, Late
  <2>2. /\ pc = "cable" /\ trial \in Trials /\ del = 1 /\ del' = del /\ trial' = trial
        /\ pending = {} /\ Mine /\ \A e \in scene : e.name = "task_board"
    BY <1>1, <1>12, <2>1 DEF SpawnCable, PlaceOK, At
  <2>3. CASE Spawned("cable") /\ Goto("record")
    <3>1. /\ scene' = scene \cup {[name |-> "cable", copy |-> 0, trial |-> trial]}
          /\ pending' = pending
          /\ \A e \in scene' : e.copy = 0 /\ e.trial = trial
                               /\ \E i \in 1..Len(spawned') : spawned'[i] = e.name
      BY <1>1, <2>2, <2>3, SpawnedAtOnce DEF Names
    <3>2. \E e \in scene' : e.name = "cable"
      <4> DEFINE cable == [name |-> "cable", copy |-> 0, trial |-> trial]
      <4>1. cable \in scene' /\ cable.name = "cable"
        BY <3>1
      <4> QED
        BY <4>1
    <3>3. Mine'
      BY <2>2, <3>1
    <3> QED
      BY <2>2, <2>3, <3>1, <3>2, <3>3 DEF Goto
  <2>4. CASE NotSpawned("cable") /\ SimulatorMissed
    <3>1. /\ pc' \in {"delete", "deactivate"} /\ pending' = pending /\ scene' = scene
          /\ spawned' \in {spawned, Append(spawned, "cable")}
      BY <1>1, <2>1, <2>4, Attempts DEF NotSpawned, Listed
    <3>2. \A i \in 1..Len(spawned) : i \in 1..Len(spawned') /\ spawned'[i] = spawned[i]
      BY <1>1, <3>1 DEF TypesOK, TypeOK, Names
    <3> QED
      BY <2>2, <3>1, <3>2
  <2> QED
    BY <1>12, <2>3, <2>4 DEF SpawnCable
<1>13. CASE DeleteEntity
  <2> SUFFICES ASSUME Quiet' PROVE pending' = {} /\ Mine' /\ Here'
    BY <1>2
  <2>1. /\ pc = "delete" /\ pc' = pc /\ trial' = trial /\ del' = del + 1 /\ spawned' = spawned
        /\ Quiet /\ pending' = pending /\ scene' = Without(spawned[del])
    BY <1>13 DEF DeleteEntity, Late, ToDelete, At, engineVars
  <2>2. pending = {} /\ Mine /\ spawned \in Seq(Names) /\ del \in Nat \ {0}
    BY <1>1, <2>1 DEF TypesOK, TypeOK
  <2>3. ASSUME NEW e \in scene'
        PROVE  /\ e.copy = 0 /\ e.trial = trial
               /\ \E i \in (del + 1)..Len(spawned) : spawned[i] = e.name
    <3>1. e \in scene /\ e.copy = 0 /\ e.trial = trial /\ e.name # spawned[del]
      BY <2>1, <2>2, <2>3 DEF Without
    <3>2. PICK i \in del..Len(spawned) : spawned[i] = e.name
      BY <2>2, <3>1
    <3>3. i \in (del + 1)..Len(spawned)
      BY <2>2, <3>1, <3>2
    <3> QED
      BY <3>1, <3>2, <3>3
  <2> QED
    BY <2>1, <2>2, <2>3
<1>14. CASE Deleted
  <2> SUFFICES ASSUME Quiet' PROVE pending' = {} /\ Mine' /\ Here'
    BY <1>2
  <2>1. /\ Quiet /\ pending' = pending /\ scene' = scene /\ pc' \in {"board", "home"}
        /\ del > Len(spawned)
    BY <1>14 DEF Deleted, ToDelete, Goto
  <2>2. scene = {}
    BY <1>1, <2>1 DEF TypesOK, TypeOK
  <2> QED
    BY <1>1, <2>1, <2>2
<1>15. CASE StartRecording
  BY <1>3, <1>15 DEF StartRecording, Again, Fail, Goto, At, simVars
<1>16. CASE SendGoal
  BY <1>3, <1>16 DEF SendGoal, Fail, Goto, At, simVars
<1>17. CASE Result
  <2>1. UNCHANGED <<simVars, trial, logged>> /\ pc = "result" /\ pc' \in {"goal", "score"}
    BY <1>17 DEF Result, Goto, At
  <2> QED
    BY <1>3, <2>1 DEF simVars
<1>18. CASE ScoreTrial
  BY <1>3, <1>18 DEF ScoreTrial, Goto, At, simVars
<1>19. CASE Deactivate
  <2>1. Quiet' => Quiet
    BY <1>1, <1>19, CallsAsked DEF Deactivate, AskedToStop, Transitions
  <2> QED
    BY <1>3, <1>19, <2>1 DEF Deactivate, Goto, At, simVars
<1>20. CASE Home
  <2>1. /\ pc = "home" /\ pc' \in {"cleanup", "discover"} /\ logged' = logged
        /\ scene' = scene /\ pending' = pending
    BY <1>20 DEF Home, Goto, At
  <2> QED
    BY <1>1, <1>2, <2>1
<1>21. CASE Cleanup
  <2>1. Quiet' => Quiet
    BY <1>1, <1>21, CallsAsked DEF Cleanup, Transitions
  <2> QED
    BY <1>3, <1>21, <2>1 DEF Cleanup, Goto, At, simVars
<1>22. CASE Shutdown
  <2>1. Quiet' => Quiet
    BY <1>1, <1>22, CallsAsked DEF Shutdown, Transitions
  <2> QED
    BY <1>3, <1>22, <2>1 DEF Shutdown, Goto, At, simVars
<1>23. CASE LateTransition
  BY <1>3, <1>23 DEF LateTransition, engineVars, simVars
<1>24. CASE SimulatorCatchesUp
  <2>1. logged' = logged /\ pending # {}
    BY <1>24 DEF SimulatorCatchesUp
  <2> QED
    BY <1>1, <1>2, <2>1
<1>25. CASE UNCHANGED vars
  BY <1>3, <1>25 DEF vars, engineVars, simVars
<1> QED
  BY <1>4, <1>5, <1>6, <1>7, <1>8, <1>9, <1>10, <1>11, <1>12, <1>13, <1>14, <1>15, <1>16, <1>17,
     <1>18, <1>19, <1>20, <1>21, <1>22, <1>23, <1>24, <1>25 DEF Next, Step, Environment

(***************************************************************************)
(* The bags.                                                                *)
(***************************************************************************)
\* Every step keeps the account of the bags and of the scores.
LEMMA StepBagsOK ==
  ASSUME IInv, [Next]_vars PROVE BagsOK'
<1> DEFINE Taken == {"goal", "result", "score"}
<1>1. /\ BagsOK /\ score \in [Trials -> [tier_1: 0..1, bag: Bags]] /\ recorder \in Bags
      /\ pc \in Taken => recorder = NewBag(trial) /\ trial \in Trials
  BY DEF IInv, BagsOK, TypesOK, TypeOK, PlaceOK
<1>2. ASSUME score' = score, pc' \in Taken => recorder' = NewBag(trial') PROVE BagsOK'
  BY <1>1, <1>2 DEF BagsOK, ScoresOwnBag
\* A step that leaves the recorder alone and does not take its bag for that of a trial.
<1>3. ASSUME UNCHANGED <<scoreVars, trial>>, pc' \in Taken => pc \in Taken PROVE BagsOK'
  BY <1>1, <1>2, <1>3 DEF scoreVars
<1>4. CASE Discover
  BY <1>3, <1>4 DEF Discover, Fail, Goto
<1>5. CASE IsUnconfigured
  BY <1>3, <1>5 DEF IsUnconfigured, Fail, Goto
<1>6. CASE Configure
  BY <1>3, <1>6 DEF Configure, Fail, Goto
<1>7. CASE Probe
  BY <1>3, <1>7 DEF Probe, Fail, Goto
<1>8. CASE Activate
  <2>1. /\ \A t \in Trials : score'[t].bag = score[t].bag
        /\ pc' \in {"endpoints", "deactivate"}
    BY <1>1, <1>8 DEF Activate, Fail, Goto
  <2> QED
    BY <1>1, <2>1 DEF BagsOK, ScoresOwnBag
<1>9. CASE CheckEndpoints
  BY <1>3, <1>9 DEF CheckEndpoints, Again, Fail, Goto
<1>10. CASE SpawnBoard
  BY <1>3, <1>10 DEF SpawnBoard, Goto
<1>11. CASE Tare
  BY <1>3, <1>11 DEF Tare, SimulatorMissed, Fail, Goto
<1>12. CASE SpawnCable
  BY <1>3, <1>12 DEF SpawnCable, SimulatorMissed, Fail, Goto
<1>13. CASE DeleteEntity
  BY <1>2, <1>13 DEF DeleteEntity, At, engineVars
<1>14. CASE Deleted
  BY <1>3, <1>14 DEF Deleted, Goto
<1>15. CASE StartRecording
  BY <1>2, <1>15 DEF StartRecording, Again, Fail, Goto, BagOf
<1>16. CASE SendGoal
  BY <1>3, <1>16 DEF SendGoal, Fail, Goto, At
<1>17. CASE Result
  BY <1>3, <1>17 DEF Result, Goto, At
<1>18. CASE ScoreTrial
  <2>1. CASE UNCHANGED scoreVars
    BY <1>3, <1>18, <2>1 DEF ScoreTrial, Goto
  <2>2. CASE score' = [score EXCEPT ![trial].bag = [recorder EXCEPT !.on = FALSE]]
    <3>1. recorder = NewBag(trial) /\ trial \in Trials /\ pc' = "deactivate"
      BY <1>1, <1>18 DEF ScoreTrial, Goto, At
    <3>2. /\ score'[trial].bag.trial = trial /\ ~score'[trial].bag.disturbed
          /\ \A t \in Trials \ {trial} : score'[t].bag = score[t].bag
      BY <1>1, <2>2, <3>1 DEF NewBag
    <3> QED
      BY <1>1, <3>1, <3>2 DEF BagsOK, ScoresOwnBag
  <2> QED
    BY <1>18, <2>1, <2>2 DEF ScoreTrial
<1>19. CASE Deactivate
  BY <1>3, <1>19 DEF Deactivate, Goto
<1>20. CASE Home
  BY <1>2, <1>20 DEF Home, Goto
<1>21. CASE Cleanup
  BY <1>3, <1>21 DEF Cleanup, Goto
<1>22. CASE Shutdown
  BY <1>3, <1>22 DEF Shutdown, Goto
<1>23. CASE LateTransition
  BY <1>3, <1>23 DEF LateTransition, engineVars
<1>24. CASE SimulatorCatchesUp
  BY <1>3, <1>24 DEF SimulatorCatchesUp, engineVars
<1>25. CASE UNCHANGED vars
  BY <1>3, <1>25 DEF vars, engineVars
<1> QED
  BY <1>4, <1>5, <1>6, <1>7, <1>8, <1>9, <1>10, <1>11, <1>12, <1>13, <1>14, <1>15, <1>16, <1>17,
     <1>18, <1>19, <1>20, <1>21, <1>22, <1>23, <1>24, <1>25 DEF Next, Step, Environment

(***************************************************************************)
(* The theorems.                                                            *)
(***************************************************************************)
\* The engine begins with an empty simulator and no bag.
LEMMA Initially ==
  ASSUME Init PROVE IInv
<1> USE AicEngineAssumption DEF Init
<1>1. TypesOK
  <2>1. /\ NoBag \in Bags /\ 1 \in Trials /\ 0 \in 0..MaxSlow /\ 1 \in 1..(NTrials + 1)
        /\ 1 \in 1..MaxRetries /\ 1 \in 1..NTasks
    BY DEF NoBag, Bags, Trials
  <2>2. state \in [Trials -> {Progress[i] : i \in DOMAIN Progress}]
    BY DEF Progress
  <2>3. score \in [Trials -> [tier_1: 0..1, bag: Bags]]
    BY <2>1
  <2>4. IsFiniteSet(scene)
    BY FS_EmptySet
  <2>5. /\ spawned \in Seq(Names) /\ late \in Seq(Transitions) /\ scene \subseteq Entities
        /\ pending \subseteq [op: {"spawn", "delete"}, name: Names, trial: Trials]
        /\ logged \subseteq {"model", "delete", "slow"} /\ recorder \in Bags
    BY <2>1
  <2>6. /\ engine_state = "Running" /\ pc = "discover" /\ after = "next" /\ trial \in 1..(NTrials + 1)
        /\ attempt \in 1..MaxRetries /\ task \in 1..NTasks /\ del \in Nat \ {0}
        /\ slow \in 0..MaxSlow /\ model \in {"unconfigured", "inactive", "active"}
    BY <2>1
  <2>7. is_first_trial \in BOOLEAN /\ model_discovered \in BOOLEAN
    OBVIOUS
  <2> QED
    BY <2>2, <2>3, <2>4, <2>5, <2>6, <2>7 DEF TypesOK, TypeOK
<1>2. FateOK
  <2>1. model \in Models /\ <<>> \in Seq(Transitions)
    BY DEF Models
  <2>2. Leads(model, late, model)
    BY <2>1, Leading
  <2> QED
    BY <2>1, <2>2 DEF FateOK
<1>3. PlaceOK
  BY DEF PlaceOK, Trials
<1>4. SceneOK
  BY DEF SceneOK
<1>5. BagsOK
  BY DEF BagsOK, ScoresOwnBag
<1> QED
  BY <1>1, <1>2, <1>3, <1>4, <1>5 DEF IInv

\* The inductive invariant holds in every state of every run.
THEOREM Invariance == Spec => []IInv
<1>1. Init => IInv
  BY Initially
<1>2. IInv /\ [Next]_vars => IInv'
  BY StepTypesOK, StepFateOK, StepPlaceOK, StepSceneOK, StepBagsOK DEF IInv
<1> QED
  BY <1>1, <1>2, PTL DEF Spec

\* The types of the engine's state, of the calls it is waiting for and of its bags.
THEOREM TypeCorrect == Spec => []TypeOK
<1>1. IInv => TypeOK
  BY DEF IInv, TypesOK
<1> QED
  BY <1>1, Invariance, PTL

\* However many attempts, retries and trials came before: the tasks of a trial start
\* with its own cable and with nothing that another left in the simulator.
THEOREM OwnSceneHolds == Spec => []OwnScene
<1>1. IInv => OwnScene
  BY DEF IInv, SceneOK, OwnScene
<1> QED
  BY <1>1, Invariance, PTL

\* Every score of tiers 2 and 3 is of the bag of its own trial, closed before the reset.
THEOREM ScoresOwnBagHolds == Spec => []ScoresOwnBag
<1>1. IInv => ScoresOwnBag
  BY DEF IInv, BagsOK
<1> QED
  BY <1>1, Invariance, PTL

\* A model that never refuses is finalized at the end, whatever it was at the start,
\* wherever the run stopped, and however many of its answers were late.
THEOREM EndsFinalizedHolds == Spec => []EndsFinalized
<1>1. ASSUME IInv PROVE EndsFinalized
  <2>1. PICK fate \in Models :
          /\ Leads(model, late, fate)
          /\ model_discovered /\ "model" \notin logged /\ pc = "done" => fate = "finalized"
    BY <1>1 DEF IInv, FateOK
  <2>2. late = <<>> => model = fate
    BY <1>1, <2>1, Leading DEF IInv, TypesOK, TypeOK, Models
  <2> QED
    BY <2>1, <2>2 DEF EndsFinalized
<1> QED
  BY <1>1, Invariance, PTL

(***************************************************************************)
(* The engine implements EngineRun.                                         *)
(***************************************************************************)
Results == [t \in Trials |-> Outcome(t)]

\* A step within a trial, or of the end of run, shows nothing.
LEMMA WithinTrial ==
  ASSUME IInv, UNCHANGED <<engine_state, trial>>, pc = "discover" <=> pc' = "discover",
         \A t \in Trials : t # trial => state'[t] = state[t]
  PROVE  UNCHANGED <<Verdict, Results>>
<1>1. trial \in Nat /\ Trials \subseteq Nat
  BY DEF IInv, TypesOK, TypeOK, Trials
<1>2. Verdict' = Verdict
  BY DEF Verdict
<1>3. ASSUME NEW t \in Trials PROVE Outcome(t)' = Outcome(t)
  BY <1>1, <1>3 DEF Outcome
<1> QED
  BY <1>2, <1>3 DEF Results

\* check_model begins the trial.
LEMMA Starting ==
  ASSUME IInv, Discover PROVE Run!Next
<1>1. /\ pc = "discover" /\ pc' \in {"unconfigured", "activate", "deactivate"}
      /\ trial \in Trials /\ trial' = trial /\ engine_state = "Running"
      /\ engine_state' = engine_state /\ state' = state
  BY DEF IInv, PlaceOK, Discover, At, Goto, Fail
<1>2. Trials = 1..NTrials /\ NTrials \in Nat
  BY AicEngineAssumption DEF Trials
<1>3. Verdict = "running" /\ Verdict' = "running"
  BY <1>1 DEF Verdict
<1>4. /\ Outcome(trial) = "pending" /\ \A t \in 1..(trial - 1) : Outcome(t) \in {"succeeded", "failed"}
      /\ \A t \in Trials : Outcome(t)' = IF t = trial THEN "running" ELSE Outcome(t)
  BY <1>1, <1>2 DEF Outcome
<1>5. Results' = [Results EXCEPT ![trial] = "running"]
  BY <1>1, <1>4 DEF Results
<1>6. Results[trial] = "pending" /\ \A t \in 1..(trial - 1) : Results[t] \in {"succeeded", "failed"}
  BY <1>1, <1>2, <1>4 DEF Results
<1>7. Run!Start(trial)
  BY <1>3, <1>5, <1>6 DEF Run!Start, Run!Over, Results
<1> QED
  BY <1>1, <1>7 DEF Run!Next, Run!Trials, Trials

\* The robot is sent home: the trial is over, or the run is.
LEMMA Ending ==
  ASSUME IInv, Home PROVE Run!Next
<1>1. /\ pc = "home" /\ trial \in Trials /\ engine_state = "Running" /\ state' = state
  BY DEF IInv, PlaceOK, Home, At
<1>2. Trials = 1..NTrials /\ NTrials \in Nat
  BY AicEngineAssumption DEF Trials
<1>3. Verdict = "running" /\ Outcome(trial) = "running" /\ Results[trial] = "running"
  BY <1>1, <1>2 DEF Verdict, Outcome, Results
<1>4. CASE after = "error"
  <2>1. trial' = trial /\ pc' = "cleanup" /\ engine_state' = "Error"
    BY <1>4 DEF Home, Stops, Goto
  <2>2. Verdict' = "error"
    BY <2>1 DEF Verdict
  <2>3. \A t \in Trials : Outcome(t)' = IF t = trial THEN "failed" ELSE Outcome(t)
    BY <1>1, <1>2, <2>1 DEF Outcome
  <2>4. Results' = [Results EXCEPT ![trial] = "failed"]
    BY <1>1, <2>3 DEF Results
  <2>5. Run!Abort(trial)
    BY <1>3, <2>2, <2>4 DEF Run!Abort, Results
  <2> QED
    BY <1>1, <2>5 DEF Run!Next, Run!Trials, Trials
<1>5. CASE after # "error"
  <2>1. /\ trial' = trial + 1 /\ engine_state' = "Running"
        /\ pc' = IF trial = NTrials THEN "cleanup" ELSE "discover"
    BY <1>1, <1>5 DEF Home, Stops, Goto
  <2>2. Verdict' = Verdict
    BY <1>3, <2>1 DEF Verdict
  <2>3. PICK r \in {"succeeded", "failed"} :
          \A t \in Trials : Outcome(t)' = IF t = trial THEN r ELSE Outcome(t)
    BY <1>1, <1>2, <2>1 DEF Outcome
  <2>4. Results' = [Results EXCEPT ![trial] = r]
    BY <1>1, <2>3 DEF Results
  <2>5. Run!Finish(trial)
    BY <1>3, <2>2, <2>4 DEF Run!Finish, Run!Over, Results
  <2> QED
    BY <1>1, <2>5 DEF Run!Next, Run!Trials, Trials
<1> QED
  BY <1>4, <1>5

\* The last call of the end of run: a run without an error is completed.
LEMMA Completing ==
  ASSUME IInv, Shutdown PROVE [Run!Next]_<<Verdict, Results>>
<1>1. /\ pc = "shutdown" /\ pc' = "done" /\ trial' = trial /\ state' = state
      /\ engine_state \in {"Running", "Error"}
      /\ engine_state' = IF engine_state = "Running" THEN "Completed" ELSE engine_state
  BY DEF IInv, PlaceOK, TypesOK, TypeOK, Shutdown, At, Goto
<1>2. CASE engine_state = "Error"
  BY <1>1, <1>2, WithinTrial
<1>3. CASE engine_state = "Running"
  <2>1. trial = NTrials + 1 /\ Trials = 1..NTrials /\ NTrials \in Nat
    BY <1>1, <1>3, AicEngineAssumption DEF IInv, PlaceOK, Trials
  <2>2. Verdict = "running" /\ Verdict' = "completed"
    BY <1>1, <1>3 DEF Verdict
  <2>3. \A t \in Trials : Outcome(t)' = Outcome(t) /\ Outcome(t) \in {"succeeded", "failed"}
    BY <1>1, <2>1 DEF Outcome
  <2>4. Results' = Results /\ \A t \in Trials : Results[t] \in {"succeeded", "failed"}
    BY <2>3 DEF Results
  <2>5. Run!Complete
    BY <2>2, <2>4 DEF Run!Complete, Run!Over, Run!Trials, Trials, Results
  <2> QED
    BY <2>5 DEF Run!Next
<1> QED
  BY <1>1, <1>2, <1>3

\* Every step of the engine is a step of EngineRun or shows nothing.
LEMMA StepOfRun ==
  ASSUME IInv, [Next]_vars PROVE [Run!Next]_<<Verdict, Results>>
<1>1. trial \in Nat /\ DOMAIN state = Trials
  BY DEF IInv, TypesOK, TypeOK
<1>2. ASSUME UNCHANGED <<engine_state, trial>>, pc = "discover" <=> pc' = "discover",
             state' = state \/ \E s : Reach(s)
      PROVE  [Run!Next]_<<Verdict, Results>>
  <2>1. \A t \in Trials : t # trial => state'[t] = state[t]
    BY <1>1, <1>2 DEF Reach
  <2> QED
    BY <1>2, <2>1, WithinTrial
<1>3. CASE Discover
  BY <1>3, Starting
<1>4. CASE IsUnconfigured
  BY <1>2, <1>4 DEF IsUnconfigured, Fail, Goto, At
<1>5. CASE Configure
  BY <1>2, <1>5 DEF Configure, Fail, Goto, At
<1>6. CASE Probe
  BY <1>2, <1>6 DEF Probe, Fail, Goto, At
<1>7. CASE Activate
  BY <1>2, <1>7 DEF Activate, Fail, Goto, At
<1>8. CASE CheckEndpoints
  BY <1>2, <1>8 DEF CheckEndpoints, Again, Fail, Goto, At
<1>9. CASE SpawnBoard
  BY <1>2, <1>9 DEF SpawnBoard, Goto, At
<1>10. CASE Tare
  BY <1>2, <1>10 DEF Tare, SimulatorMissed, Fail, Goto, At
<1>11. CASE SpawnCable
  BY <1>2, <1>11 DEF SpawnCable, SimulatorMissed, Fail, Goto, At
<1>12. CASE DeleteEntity
  BY <1>2, <1>12 DEF DeleteEntity, engineVars
<1>13. CASE Deleted
  BY <1>2, <1>13 DEF Deleted, Goto, At
<1>14. CASE StartRecording
  BY <1>2, <1>14 DEF StartRecording, Again, Fail, Goto, At
<1>15. CASE SendGoal
  BY <1>2, <1>15 DEF SendGoal, Fail, Goto, At
<1>16. CASE Result
  BY <1>2, <1>16 DEF Result, Goto, At
<1>17. CASE ScoreTrial
  BY <1>2, <1>17 DEF ScoreTrial, Goto, At
<1>18. CASE Deactivate
  BY <1>2, <1>18 DEF Deactivate, Goto, At
<1>19. CASE Home
  BY <1>19, Ending
<1>20. CASE Cleanup
  BY <1>2, <1>20 DEF Cleanup, Goto, At
<1>21. CASE Shutdown
  BY <1>21, Completing
<1>22. CASE LateTransition
  BY <1>2, <1>22 DEF LateTransition, engineVars
<1>23. CASE SimulatorCatchesUp
  BY <1>2, <1>23 DEF SimulatorCatchesUp, engineVars
<1>24. CASE UNCHANGED vars
  BY <1>2, <1>24 DEF vars, engineVars
<1> QED
  BY <1>3, <1>4, <1>5, <1>6, <1>7, <1>8, <1>9, <1>10, <1>11, <1>12, <1>13, <1>14, <1>15, <1>16,
     <1>17, <1>18, <1>19, <1>20, <1>21, <1>22, <1>23, <1>24 DEF Next, Step, Environment

\* Every run of the engine is a run of EngineRun: one trial at a time and in order,
\* none begun after an error, and completed only when every trial was processed.
THEOREM RunImplemented == Spec => ImplementsRun
<1>1. Init => Run!Init
  <2> SUFFICES ASSUME Init PROVE Run!Init
    OBVIOUS
  <2>1. Verdict = "running" /\ \A t \in Trials : Outcome(t) = "pending"
    BY AicEngineAssumption DEF Init, Verdict, Outcome, Trials
  <2> QED
    BY <2>1 DEF Run!Init, Run!Trials, Trials
<1>2. IInv /\ [Next]_vars => [Run!Next]_<<Verdict, [t \in Trials |-> Outcome(t)]>>
  BY StepOfRun DEF Results
<1> QED
  BY <1>1, <1>2, Invariance, PTL DEF Spec, ImplementsRun, Run!Spec
=============================================================================
