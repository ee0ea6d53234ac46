--------------------------- MODULE AicController ----------------------------
(***************************************************************************)
(* The impedance controller (aic_controller.cpp).  update() runs in the      *)
(* real-time loop, where the controller is also activated and deactivated;   *)
(* command callbacks and the service change_target_mode run, one at a time,   *)
(* on a thread of the executor.  They share everything below, mostly without  *)
(* a lock: every access of one to what the other writes is a step.  What is   *)
(* known of a position is where it comes from: home, a command, or the zeros  *)
(* an empty joint message is read as.                                        *)
(***************************************************************************)
EXTENDS Naturals

CONSTANT Targets  \* positions that are commanded

Home == "home"
Zeros == "zeros"
None == "none"
Empty == "empty"  \* a default-constructed message, MODE_UNSPECIFIED
Poses == Targets \cup {Home, Zeros}
Kinds == {"cartesian", "joint"}
Messages == Targets \cup {Empty}

ASSUME AicControllerAssumption == Targets # {} /\ {Home, Zeros, None, Empty} \cap Targets = {}

VARIABLES
  pose,                    \* of the robot
  active,                  \* lifecycle state is ACTIVE
  target_mode_value,
  motion_update_received,
  motion_update_rt,        \* box shared with update(), by kind of command
  motion_update,           \* message taken from the box
  target_state,            \* None or a position
  last_reference,          \* last_tool_reference_, last_joint_reference_
  current,                 \* current_state_: what update() read last
  pc, command, reference,  \* update(): next access, message taken, new references
  cb, message,             \* executor: next access, message of the callback
  goal,                    \* mode that is switched to
  since, held,             \* history: positions seen since activation or accepted then; since the last switch
  crossed,                 \* history: accepted before the last activation, stored after it
  raced                    \* history: a callback overlapped what it must not

updateVars == <<pc, command, reference>>
callbackVars == <<cb, message, goal>>
ghosts == <<since, held, crossed, raced>>
shared == <<motion_update_received, motion_update_rt, motion_update, target_state, last_reference>>
vars == <<pose, active, target_mode_value, shared, current, updateVars, callbackVars, ghosts>>

Switching == {"forget", "empty", "unflag", "untarget", "hold", "mode"}

TypeOK ==
  /\ pose \in Poses /\ active \in BOOLEAN /\ current \in Poses
  /\ target_mode_value \in Kinds /\ motion_update_received \in BOOLEAN
  /\ motion_update_rt \in [Kinds -> Messages] /\ motion_update \in [Kinds -> Messages]
  /\ target_state \in [Kinds -> Poses \cup {None}]
  /\ last_reference \in [Kinds -> Poses] /\ reference \in [Kinds -> Poses]
  /\ pc \in {"idle", "flag", "get", "assign", "refs", "check", "interpolate", "impedance",
             "compute", "write", "error", "crashed"}
  /\ command \in [kind : Kinds, body : Messages]
  /\ cb \in {"idle", "store", "flag"} \cup Switching
  /\ message \in Messages /\ goal \in Kinds
  /\ {since, held, crossed} \subseteq SUBSET Poses /\ raced \in BOOLEAN

Init ==
  /\ pose = Home /\ active = FALSE /\ current = Home
  /\ target_mode_value = "cartesian" /\ motion_update_received = FALSE
  /\ motion_update_rt = [k \in Kinds |-> Empty] /\ motion_update = [k \in Kinds |-> Empty]
  /\ target_state = [k \in Kinds |-> None]
  /\ last_reference = [k \in Kinds |-> Home] /\ reference = last_reference
  /\ pc = "idle" /\ command = [kind |-> "cartesian", body |-> Empty] /\ cb = "idle" /\ message = Empty /\ goal = "cartesian"
  /\ since = {Home} /\ held = {Home} /\ crossed = {} /\ raced = FALSE

(***************************************************************************)
(* Lifecycle, in the real-time loop.                                        *)
(***************************************************************************)
\* The boxes are emptied, one by one; a callback may be storing into one.
Emptied ==
  motion_update_rt' \in {[k \in Kinds |-> Empty]}
     \cup (IF cb = "store" THEN {[k \in Kinds |-> IF k = target_mode_value
                                                  THEN motion_update_rt[k] ELSE Empty]} ELSE {})
Forget == Emptied /\ motion_update' = [k \in Kinds |-> Empty] /\ motion_update_received' = FALSE

ReferencesKept == last_reference  \* mutated form
ReferencesHere == [k \in Kinds |-> pose]

Activate ==
  /\ pc = "idle" /\ ~active /\ active' = TRUE
  /\ current' = pose /\ last_reference' = ReferencesHere
  /\ Forget
  /\ since' = {pose} /\ held' = {pose} /\ raced' = (cb # "idle")
  /\ crossed' = IF cb = "store" THEN {message} ELSE {}
  /\ UNCHANGED <<pose, target_mode_value, target_state, updateVars, callbackVars>>

\* On request, or by the controller manager after update() returned ERROR.
Deactivate ==
  /\ pc \in {"idle", "error"} /\ active /\ active' = FALSE /\ pc' = "idle"
  /\ Forget /\ target_state' = [k \in Kinds |-> None]
  /\ UNCHANGED <<pose, target_mode_value, last_reference, current, command, reference,
                 callbackVars, ghosts>>

\* While it is inactive the joints are reset.
ResetJoints ==
  /\ ~active /\ pose' = Home
  /\ UNCHANGED <<active, target_mode_value, shared, current, updateVars, callbackVars, ghosts>>

(***************************************************************************)
(* update().                                                                *)
(***************************************************************************)
At(here) == pc = here
Goto(there) == pc' = there

Sense ==
  /\ At("idle") /\ active /\ Goto("flag") /\ current' = pose
  /\ raced' = (raced \/ cb \in Switching) /\ UNCHANGED <<since, held, crossed>>
  /\ UNCHANGED <<pose, active, target_mode_value, shared, command, reference, callbackVars>>

ReadFlag ==
  /\ At("flag") /\ Goto(IF motion_update_received THEN "get" ELSE "refs")
  /\ UNCHANGED <<pose, active, target_mode_value, shared, current, command, reference,
                 callbackVars, ghosts>>

\* try_get fails while the callback holds the box.
Take ==
  LET k == target_mode_value IN
  /\ At("get")
  /\ \/ /\ Goto("assign") /\ command' = [kind |-> k, body |-> motion_update_rt[k]]
        /\ motion_update' = [motion_update EXCEPT ![k] = motion_update_rt[k]]
     \/ cb \in {"store", "empty"} /\ Goto("refs") /\ UNCHANGED <<command, motion_update>>
  /\ UNCHANGED <<pose, active, target_mode_value, motion_update_received, motion_update_rt,
                 target_state, last_reference, current, reference, callbackVars, ghosts>>

\* A position, or for an empty joint message the zeros JointState makes of it.
Assign ==
  LET k == command.kind IN
  /\ At("assign") /\ Goto("refs")
  /\ target_state' = [target_state EXCEPT ![k] =
       IF command.body # Empty THEN command.body ELSE IF k = "joint" THEN Zeros ELSE @]
  /\ UNCHANGED <<pose, active, target_mode_value, motion_update_received, motion_update_rt,
                 motion_update, last_reference, current, command, reference, callbackVars, ghosts>>

CopyReferences ==
  /\ At("refs") /\ Goto("check") /\ reference' = last_reference
  /\ UNCHANGED <<pose, active, target_mode_value, shared, current, command, callbackVars, ghosts>>

\* "If target_state_ has a value ... else, maintain the current position."
HasTarget ==
  /\ At("check")
  /\ Goto(IF target_state[target_mode_value] # None THEN "interpolate" ELSE "impedance")
  /\ UNCHANGED <<pose, active, target_mode_value, shared, current, command, reference,
                 callbackVars, ghosts>>

\* The target is gone by now, or the message that says how to get there.
Interpolate ==
  LET k == target_mode_value IN
  /\ At("interpolate")
  /\ IF target_state[k] = None \/ motion_update[k] = Empty
     THEN Goto("error") /\ UNCHANGED reference
     ELSE Goto("impedance") /\ reference' = [reference EXCEPT ![k] = target_state[k]]
  /\ UNCHANGED <<pose, active, target_mode_value, shared, current, command, callbackVars, ghosts>>

\* interpolate_impedance_parameters: an empty joint message has no stiffness to read.
Impedance ==
  /\ At("impedance")
  /\ IF motion_update_received /\ target_mode_value = "joint" /\ motion_update["joint"] = Empty
     THEN Goto("crashed") ELSE Goto("compute")
  /\ UNCHANGED <<pose, active, target_mode_value, shared, current, command, reference,
                 callbackVars, ghosts>>

\* Cartesian only: if the error does not change for a while the target is dropped.
Compute ==
  /\ At("compute") /\ Goto("write")
  /\ \/ UNCHANGED <<shared, reference>>
     \/ /\ target_mode_value = "cartesian" /\ motion_update_received
        /\ reference["cartesian"] # current
        /\ reference' = [reference EXCEPT !["cartesian"] = current]
        /\ target_state' = [target_state EXCEPT !["cartesian"] = None]
        /\ motion_update_received' = FALSE
        /\ UNCHANGED <<motion_update_rt, motion_update, last_reference>>
  /\ UNCHANGED <<pose, active, target_mode_value, current, command, callbackVars, ghosts>>

\* The effort follows the reference; the robot gets there or stays.
Output == reference[target_mode_value]

Write ==
  /\ At("write") /\ Goto("idle") /\ last_reference' = reference
  /\ pose' \in {pose, Output}
  /\ since' = since \cup {pose'} /\ held' = held \cup {pose'} /\ UNCHANGED <<crossed, raced>>
  /\ UNCHANGED <<active, target_mode_value, motion_update_received, motion_update_rt,
                 motion_update, target_state, current, command, reference, callbackVars>>

Update == \/ Sense \/ ReadFlag \/ Take \/ Assign \/ CopyReferences \/ HasTarget
          \/ Interpolate \/ Impedance \/ Compute \/ Write

(***************************************************************************)
(* The executor: command callbacks and change_target_mode.                   *)
(***************************************************************************)
Callback(from, to) == cb = from /\ cb' = to
AcceptsAnyKind(kind) == active  \* mutated form
Accepts(kind) == active /\ target_mode_value = kind

\* A well-formed message of either topic.
Receive ==
  /\ Callback("idle", "store")
  /\ \E kind \in Kinds, target \in Targets :
       Accepts(kind) /\ message' = target /\ goal' = kind /\ since' = since \cup {target}
  /\ UNCHANGED <<pose, active, target_mode_value, shared, current, updateVars, held, crossed,
                 raced>>

Store ==
  /\ Callback("store", "flag")
  /\ motion_update_rt' = [motion_update_rt EXCEPT ![goal] = message]
  /\ held' = held \cup {message} /\ UNCHANGED <<since, crossed, raced>>
  /\ UNCHANGED <<pose, active, target_mode_value, motion_update_received, motion_update,
                 target_state, last_reference, current, updateVars, message, goal>>

Flag ==
  /\ Callback("flag", "idle") /\ motion_update_received' = TRUE
  /\ UNCHANGED <<pose, active, target_mode_value, motion_update_rt, motion_update,
                 target_state, last_reference, current, updateVars, message, goal, ghosts>>

\* A request for the other mode; the mode being left is still target_mode_value.
Request ==
  /\ Callback("idle", "forget") /\ goal' \in Kinds \ {target_mode_value}
  /\ raced' = (raced \/ pc # "idle") /\ UNCHANGED <<since, held, crossed>>
  /\ UNCHANGED <<pose, active, target_mode_value, shared, current, updateVars, message>>

ForgetMessage ==
  /\ Callback("forget", "empty")
  /\ motion_update' = [motion_update EXCEPT ![target_mode_value] = Empty]
  /\ UNCHANGED <<pose, active, target_mode_value, motion_update_received, motion_update_rt,
                 target_state, last_reference, current, updateVars, message, goal, ghosts>>

\* try_set fails while update() holds the box.
EmptyBox ==
  /\ Callback("empty", "unflag")
  /\ \/ motion_update_rt' = [motion_update_rt EXCEPT ![target_mode_value] = Empty]
     \/ At("get") /\ UNCHANGED motion_update_rt
  /\ UNCHANGED <<pose, active, target_mode_value, motion_update_received, motion_update,
                 target_state, last_reference, current, updateVars, message, goal, ghosts>>

Unflag ==
  /\ Callback("unflag", "untarget") /\ motion_update_received' = FALSE
  /\ UNCHANGED <<pose, active, target_mode_value, motion_update_rt, motion_update,
                 target_state, last_reference, current, updateVars, message, goal, ghosts>>

DefaultTarget == Empty  \* mutated form
DropTarget == None

Untarget ==
  /\ Callback("untarget", "hold")
  /\ target_state' = [target_state EXCEPT ![target_mode_value] = DropTarget]
  /\ UNCHANGED <<pose, active, target_mode_value, motion_update_received, motion_update_rt,
                 motion_update, last_reference, current, updateVars, message, goal, ghosts>>

KeptReference == last_reference[goal]  \* mutated form
HeldReference == current

Hold ==
  /\ Callback("hold", "mode")
  /\ last_reference' = [last_reference EXCEPT ![goal] = HeldReference]
  /\ UNCHANGED <<pose, active, target_mode_value, motion_update_received, motion_update_rt,
                 motion_update, target_state, current, updateVars, message, goal, ghosts>>

SetMode ==
  /\ Callback("mode", "idle") /\ target_mode_value' = goal
  /\ held' = {pose, current} /\ UNCHANGED <<since, crossed, raced>>
  /\ UNCHANGED <<pose, active, shared, current, updateVars, message, goal>>

ChangeTargetMode == \/ Request \/ ForgetMessage \/ EmptyBox \/ Unflag \/ Untarget \/ Hold
                    \/ SetMode

Next == \/ Activate \/ Deactivate \/ ResetJoints \/ Update
        \/ Receive \/ Store \/ Flag \/ ChangeTargetMode

Spec == Init /\ [][Next]_vars

(***************************************************************************)
(* Properties.                                                              *)
(***************************************************************************)
\* Between trials the controller is deactivated, the robot brought home and the
\* controller activated: from then on update() sends the robot only where it has been
\* since, or where a command asked for whose callback accepted it since; of what an
\* earlier trial commanded it can only follow the one message whose callback was past
\* its check of the lifecycle state and had not stored it when on_activate ran.
NoReplay == At("write") => Output \in since \cup crossed

\* After a change of mode that met no update() the robot stays where it is until a
\* command of the new mode is stored.
SwitchHolds == At("write") /\ ~raced => Output \in held

\* update() only returns ERROR, which stops the controller, if a change of mode met
\* an update() or a callback was under way during activation.
ErrorsOnlyRaced == At("error") => raced

(* Stated by the repository, and not what the code does. *)
\* update(): without a target, "maintain the current position of the robot".
Maintains == At("write") /\ target_state[target_mode_value] = None => Output \in held
=============================================================================
