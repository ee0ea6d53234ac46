------------------------------ MODULE MCMotion ------------------------------
(***************************************************************************)
(* How the arm is moved, from two sides that share no state: the controller   *)
(* that carries commands out (AicController) and the collection policy that   *)
(* gives them (CollectLoop).  A behaviour is one of one side.                 *)
(*   AicController: one commanded position.                                   *)
(*   CollectLoop: a trial of one row with two attempts and one lost waypoint. *)
(* The guard makes no difference to board-view, and without it descent        *)
(* differs from board-view only in the frames it asks for.                    *)
(***************************************************************************)
EXTENDS AicController

CONSTANTS Settings, CollectSteps, MaxAttempts, StableObs, BaselineObs, HoldTicks,
          Tolerance, MinClearance, Horizon, Spoilt

VARIABLES conf, stage, status, now, latest, robot, collected, loop, move, guard,
          baseline, settle, shot, touch, rows

policyVars == <<conf, stage, status, now, latest, robot, collected, loop, move, guard,
                baseline, settle, shot, touch, rows>>
Collect == INSTANCE CollectLoop WITH pc <- stage

MCSettings == {[policy |-> "board-view", haptic |-> FALSE],
               [policy |-> "descent", haptic |-> TRUE],
               [policy |-> "near-port", haptic |-> TRUE],
               [policy |-> "near-port", haptic |-> FALSE]}

ASSUME MCMotionAssumption == Collect!CollectAssumption /\ Collect!HoldAssumption

-----------------------------------------------------------------------------
\* No policy runs.
NoPolicy == conf = [policy |-> "none", haptic |-> FALSE]
Absent ==
    /\ NoPolicy /\ stage = "done" /\ status = "" /\ now = 1 /\ latest = <<>>
    /\ robot = <<>> /\ collected = 0 /\ loop = [lost |-> 0] /\ move = <<>>
    /\ guard = <<>> /\ baseline = <<>> /\ settle = <<>> /\ shot = <<>>
    /\ touch = FALSE /\ rows = <<>>

MCInit == \/ Init /\ Absent
          \/ Collect!Init /\ Init
MCNext == \/ NoPolicy /\ Next /\ UNCHANGED policyVars
          \/ ~NoPolicy /\ Collect!Next /\ UNCHANGED vars
MCSpec == /\ MCInit /\ [][MCNext]_<<vars, policyVars>>
          /\ WF_policyVars(~Collect!Sleeps /\ Collect!Policy)

CapturedAtRest == Collect!CapturedAtRest
NoPressOn      == Collect!NoPressOn
Terminates     == Collect!Terminates
=============================================================================
