------------------------------- MODULE GzScene -------------------------------
(***************************************************************************)
(* The simulated world across trials: the plugins of aic_gazebo that hold    *)
(* the cable, watch forbidden contacts and reset the joints, and the engine  *)
(* calls they serve (spawn, delete and home_robot of aic_engine.cpp).  An     *)
(* iteration of the simulator executes at most one command, then PreUpdate   *)
(* of each plugin, then physics; entities whose removal was requested vanish *)
(* when it ends.  Spawns and deletes that fail are the subject of AicEngine.  *)
(***************************************************************************)
EXTENDS Naturals, Sequences, FiniteSets

CONSTANTS NRounds,  \* trials of the run
          MaxSlow   \* bound: calls of home_robot that time out

Rounds == 1..NRounds

ASSUME GzSceneAssumption == NRounds \in Nat \ {0} /\ MaxSlow \in Nat

VARIABLES
  round, eng,            \* of the engine: the trial (a round of the world), what it asks for next
  phase,                 \* of the iteration
  board, cable,          \* entity in the world, by the trial that spawned it; 0 = none
  dying,                 \* what is being removed in this iteration
  cableState, joint0, static, touched, subscribed, \* of the CablePlugin
  made, doomed,          \* entities it has made; those whose removal it has requested
  event,                 \* insertions published for the cable
  offLimitEntities,      \* of the OffLimitContactsPlugin
  contact, published,    \* what the robot touches in a sample; whether that was published
  controller, switches,  \* aic_controller is active; switch requests not served yet
  resets,                \* requests the ResetJointsPlugin has not applied yet
  jumped,                \* the joints were reset under an active controller
  slow

engineVars == <<round, eng>>
worldVars == <<board, cable, dying>>
cableVars == <<cableState, joint0, static, touched, subscribed, made, doomed, event>>
contactVars == <<offLimitEntities, contact, published>>
homeVars == <<controller, switches, resets, jumped, slow>>
sceneVars == <<engineVars, phase, worldVars, cableVars, contactVars, homeVars>>

\* Off-limit models: the enclosure and its walls, and the task board of a trial.
Enclosure == 0
OffLimitModels == {Enclosure} \cup Rounds

\* Each link is fixed to a static model named after it.
Connections == {"connection_0", "connection_1"}
Links == Connections \cup {"end_effector"}
Joints(links) == [joint: links]
Static(links) == [model: links]
Entities == Joints(Links \cup {"grip"}) \cup Static(Links)

SceneTypeOK ==
  /\ round \in 1..(NRounds + 1)
  /\ eng \in {"board", "cable", "run", "delete_board", "delete_cable", "deactivate",
              "deactivating", "resetting", "activating", "done"}
  /\ phase \in {"commands", "cable", "contacts", "reset", "physics"}
  /\ board \in 0..NRounds /\ cable \in 0..NRounds /\ dying \subseteq {"board", "cable"}
  /\ cableState \in {"HARNESS", "WAITING", "CREATE_CONNECTIONS", "CABLE_ATTACHED_TO_GRIPPER",
                     "ATTACH_CABLE_TO_PORT", "COMPLETED", "CABLE_REMOVED"}
  /\ joint0 \in {"none", "grip", "end_effector"} /\ static \in BOOLEAN
  /\ touched \in BOOLEAN /\ subscribed \in BOOLEAN
  /\ made \subseteq Entities /\ doomed \subseteq made /\ event \in 0..1
  /\ offLimitEntities \subseteq OffLimitModels /\ contact \subseteq OffLimitModels
  /\ published \in BOOLEAN
  /\ controller \in BOOLEAN /\ switches \in Seq(BOOLEAN)
  /\ resets \in Nat /\ jumped \in BOOLEAN /\ slow \in 0..MaxSlow

NoPlugin == cableState' = "HARNESS" /\ joint0' = "none" /\ static' = FALSE
            /\ touched' = FALSE /\ subscribed' = FALSE /\ event' = 0

SceneInit ==
  /\ round = 1 /\ eng = "board" /\ phase = "commands" /\ board = 0 /\ cable = 0 /\ dying = {}
  /\ cableState = "CABLE_REMOVED" /\ joint0 = "none" /\ static = FALSE
  /\ touched = FALSE /\ subscribed = FALSE /\ made = {} /\ doomed = {} /\ event = 0
  /\ offLimitEntities = {} /\ contact = {} /\ published = FALSE
  /\ controller = TRUE /\ switches = <<>> /\ resets = 0 /\ jumped = FALSE /\ slow = 0

(***************************************************************************)
(* Commands of the engine, executed at the start of an iteration.            *)
(***************************************************************************)
Command(from, to) ==
  /\ phase = "commands" /\ phase' = "cable" /\ eng = from /\ eng' = to
  /\ UNCHANGED <<round, contactVars, homeVars>>

NoCommand ==
  /\ phase = "commands" /\ phase' = "cable"
  /\ UNCHANGED <<engineVars, worldVars, cableVars, contactVars, homeVars>>

SpawnBoard ==
  /\ Command("board", "cable") /\ board' = round
  /\ UNCHANGED <<cable, dying, cableVars>>

\* CablePlugin::Configure of the new cable.
SpawnCable ==
  /\ Command("cable", "run") /\ cable' = round
  /\ NoPlugin /\ UNCHANGED <<board, dying, made, doomed>>

DeleteBoard ==
  /\ Command("delete_board", "delete_cable") /\ dying' = {"board"}
  /\ UNCHANGED <<board, cable, cableVars>>

DeleteCable ==
  /\ Command("delete_cable", "deactivate") /\ dying' = {"cable"}
  /\ UNCHANGED <<board, cable, cableVars>>

\* The tasks are over, or the trial failed earlier.
EndTrial ==
  /\ eng = "run" /\ eng' = "delete_board"
  /\ UNCHANGED <<round, phase, worldVars, cableVars, contactVars, homeVars>>

(***************************************************************************)
(* CablePlugin::PreUpdate.                                                  *)
(***************************************************************************)
MakeStatic(links) == made' = made \cup Joints(links) \cup Static(links)
RequestRemove(entities) == doomed' = doomed \cup entities

\* What Cleanup removes: the joints it has a handle of, and the static models.
CleanupUnlocked ==  \* mutated form: the joint that locks the end effector is forgotten
  IF static THEN Joints(Connections) \cup Static(Links) ELSE Static(Links)
HeldEntities ==
  Static(Links) \cup (IF static THEN Joints(Connections) ELSE {})
  \cup (IF joint0 = "none" THEN {} ELSE Joints({joint0}))

Cleanup ==
  /\ "cable" \in dying /\ cableState # "CABLE_REMOVED"
  /\ RequestRemove(HeldEntities \cap made) /\ cableState' = "CABLE_REMOVED"
  /\ UNCHANGED <<joint0, static, touched, subscribed, made, event>>

In(state) == "cable" \notin dying /\ cableState = state

\* Both ends are fixed in the air; without a delay they are released by the same call.
Harness ==
  /\ In("HARNESS") /\ MakeStatic(Connections)
  /\ \/ cableState' = "WAITING" /\ static' = TRUE /\ UNCHANGED doomed
     \/ /\ cableState' = "CREATE_CONNECTIONS" /\ UNCHANGED static
        /\ RequestRemove(Joints(Connections))
  /\ UNCHANGED <<joint0, touched, subscribed, event>>

Waiting ==
  /\ In("WAITING")
  /\ cableState' = "CREATE_CONNECTIONS" /\ static' = FALSE /\ RequestRemove(Joints(Connections))
  /\ UNCHANGED <<joint0, touched, subscribed, made, event>>

CreateConnections ==
  /\ In("CREATE_CONNECTIONS") /\ made' = made \cup Joints({"grip"}) /\ joint0' = "grip"
  /\ cableState' = "CABLE_ATTACHED_TO_GRIPPER" /\ subscribed' = (board # 0)
  /\ UNCHANGED <<static, touched, doomed, event>>

\* Touched: the gripper's joint is to be removed, and the call returns.
ReleaseAndFix ==  \* mutated form: it does not return
  /\ In("CABLE_ATTACHED_TO_GRIPPER") /\ touched /\ MakeStatic(Connections) /\ static' = TRUE
  /\ RequestRemove(Joints({"grip"})) /\ joint0' = "none" /\ cableState' = "ATTACH_CABLE_TO_PORT"
  /\ UNCHANGED <<touched, subscribed, event>>

Release ==
  /\ In("CABLE_ATTACHED_TO_GRIPPER") /\ touched
  /\ RequestRemove(Joints({"grip"})) /\ joint0' = "none" /\ cableState' = "ATTACH_CABLE_TO_PORT"
  /\ UNCHANGED <<static, touched, subscribed, made, event>>

\* Until a port's topic is found, it is looked for in every call.
AwaitTouch ==
  /\ In("CABLE_ATTACHED_TO_GRIPPER") /\ ~touched /\ subscribed' = (subscribed \/ board # 0)
  /\ UNCHANGED <<cableState, joint0, static, touched, made, doomed, event>>

PublishForever ==  \* mutated form: never completed
  /\ In("ATTACH_CABLE_TO_PORT") /\ MakeStatic(Links) /\ static' = TRUE /\ event' = event + 1
  /\ joint0' = "end_effector" /\ UNCHANGED <<cableState, touched, subscribed, doomed>>

\* The cable is fixed where it is, then the gripper, and the insertion is published.
AttachToPort ==
  /\ In("ATTACH_CABLE_TO_PORT") /\ MakeStatic(Links) /\ static' = TRUE /\ event' = event + 1
  /\ joint0' = "end_effector" /\ cableState' = "COMPLETED"
  /\ UNCHANGED <<touched, subscribed, doomed>>

\* No cable, links not found yet, the delay has not passed, or nothing left to do.
Idle ==
  /\ cableState = "CABLE_REMOVED" \/ In("HARNESS") \/ In("WAITING") \/ In("COMPLETED")
  /\ UNCHANGED cableVars

CablePreUpdate ==
  /\ phase = "cable" /\ phase' = "contacts"
  /\ \/ Cleanup \/ Harness \/ Waiting \/ CreateConnections \/ Release \/ AwaitTouch
     \/ AttachToPort \/ Idle
  /\ UNCHANGED <<engineVars, worldVars, contactVars, homeVars>>

\* The callback of a port's touch topic, on a thread of its own.
Touch ==
  /\ subscribed /\ cableState = "CABLE_ATTACHED_TO_GRIPPER" /\ touched' = TRUE /\ ~touched
  /\ UNCHANGED <<engineVars, phase, worldVars, cableState, joint0, static, subscribed, made,
                 doomed, event, contactVars, homeVars>>

(***************************************************************************)
(* OffLimitContactsPlugin::PreUpdate: a sample, or throttled.               *)
(***************************************************************************)
Names == 2  \* "enclosure" with its walls, and "task_board"

\* InitializeOffLimitEntities, once for each name.
Resolved ==
  IF Cardinality(offLimitEntities) = Names THEN offLimitEntities
  ELSE offLimitEntities \cup {Enclosure} \cup (IF board = 0 THEN {} ELSE {board})

ResolvedAtOnce ==  \* mutated form: nothing before every name is found
  IF Cardinality(offLimitEntities) = Names \/ board = 0 THEN offLimitEntities
  ELSE {Enclosure, board}
TrackedEntities == Resolved

ContactsPreUpdate ==
  /\ phase = "contacts" /\ phase' = "reset"
  /\ \/ /\ offLimitEntities' = TrackedEntities
        /\ contact' \in SUBSET ({Enclosure} \cup (IF board = 0 THEN {} ELSE {board}))
        /\ published' = (contact' \cap offLimitEntities' # {})
     \/ UNCHANGED offLimitEntities /\ contact' = {} /\ published' = FALSE
  /\ UNCHANGED <<engineVars, worldVars, cableVars, homeVars>>

(***************************************************************************)
(* home_robot: the controller is switched off, the joints are reset, the     *)
(* controller is switched on; the first call that fails ends it.             *)
(***************************************************************************)
\* Only logged; with it ends reset_after_trial.
NextTrial == round' = round + 1 /\ eng' = IF round = NRounds THEN "done" ELSE "board"
Switch(on) == switches' = Append(switches, on)

Deactivate ==
  /\ eng = "deactivate" /\ cable = 0 /\ eng' = "deactivating" /\ Switch(FALSE)
  /\ UNCHANGED <<round, phase, worldVars, cableVars, contactVars, controller, resets, jumped, slow>>

\* The request to switch the controller on or off that home_robot waits for.
Awaited == Len(switches) = 1 /\ eng \in {"deactivating", "activating"}
AskReset == eng' = "resetting" /\ resets' = resets + 1 /\ UNCHANGED round

\* The controller manager serves the requests in order.
Switched ==
  /\ switches # <<>> /\ controller' = Head(switches) /\ switches' = Tail(switches)
  /\ \/ Awaited /\ eng = "deactivating" /\ AskReset
     \/ Awaited /\ eng = "activating" /\ NextTrial /\ UNCHANGED resets
     \/ ~Awaited /\ UNCHANGED <<engineVars, resets>>
  /\ UNCHANGED <<phase, worldVars, cableVars, contactVars, jumped, slow>>

\* Mutated form: a failed deactivation is not noticed.
ResetAnyway == IF eng = "deactivating" THEN AskReset ELSE NextTrial /\ UNCHANGED resets
EndHoming == NextTrial /\ UNCHANGED resets

\* The request is refused, or an answer does not come within ten seconds.
HomeFails ==
  /\ slow < MaxSlow /\ slow' = slow + 1
  /\ \/ Awaited /\ switches' = <<>> /\ EndHoming
     \/ eng \in {"deactivating", "activating", "resetting"} /\ UNCHANGED switches /\ EndHoming
  /\ UNCHANGED <<phase, worldVars, cableVars, contactVars, controller, jumped>>

(***************************************************************************)
(* ResetJointsPlugin::PreUpdate: the service thread waits for one request at *)
(* a time, the next is taken up after it.  A call may be throttled.          *)
(***************************************************************************)
ResetPreUpdate ==
  /\ phase = "reset" /\ phase' = "physics"
  /\ \/ UNCHANGED <<engineVars, homeVars>>
     \/ /\ resets > 0 /\ resets' = resets - 1 /\ jumped' = (jumped \/ controller)
        /\ IF resets = 1 /\ eng = "resetting"
           THEN eng' = "activating" /\ Switch(TRUE) /\ UNCHANGED round
           ELSE UNCHANGED <<engineVars, switches>>
        /\ UNCHANGED <<controller, slow>>
  /\ UNCHANGED <<worldVars, cableVars, contactVars>>

\* The end of an iteration: what was to be removed is gone.
Physics ==
  /\ phase = "physics" /\ phase' = "commands"
  /\ board' = (IF "board" \in dying THEN 0 ELSE board)
  /\ cable' = (IF "cable" \in dying THEN 0 ELSE cable)
  /\ dying' = {} /\ made' = made \ doomed /\ doomed' = {}
  /\ UNCHANGED <<engineVars, cableState, joint0, static, touched, subscribed, event,
                 contactVars, homeVars>>

Iteration == \/ NoCommand \/ SpawnBoard \/ SpawnCable \/ DeleteBoard \/ DeleteCable
             \/ CablePreUpdate \/ ContactsPreUpdate \/ ResetPreUpdate \/ Physics
SceneNext == Iteration \/ EndTrial \/ Touch \/ Deactivate \/ Switched \/ HomeFails

SceneSpec == SceneInit /\ [][SceneNext]_sceneVars

(***************************************************************************)
(* Properties.                                                              *)
(***************************************************************************)
\* Whenever a trial's cable is deleted, in whatever state its plugin was, the next
\* trial begins with a free gripper and without static models of the old cable.
FreeGripper == phase = "commands" /\ cable = 0 => made = {}

\* In no physics step is the plug fixed to the gripper and to the world at once.
OneHold ==
  phase \in {"contacts", "reset", "physics"} =>
    ~({[joint |-> "grip"], [joint |-> "connection_0"]} \subseteq made)

\* The joints are never reset under an active controller, also when an answer was
\* late and its request is carried out in a later trial.
ResetUnderControl == ~jumped

\* A contact of the robot with the enclosure, or with the first task board there was,
\* is published in the iteration that samples it, whatever else is spawned or deleted.
FirstContactsSeen ==
  phase = "reset" /\ (Enclosure \in contact \/ 1 \in contact) => published

(* Stated by the repository, and not what the code does. *)
\* scoring_tests.md: the plugin monitors enclosure, walls and task board.
ContactsSeen == phase = "reset" /\ contact # {} => published
=============================================================================
