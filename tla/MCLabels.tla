------------------------------ MODULE MCLabels ------------------------------
(***************************************************************************)
(* The life of a label in three parts that share no state: how it comes about *)
(* (TrialInputs), what it says of space (PoseLabels) and how it is edited     *)
(* (AnnotationEditor).  A behaviour is one of one part.                       *)
(*   Editor: two tabs, one capture with two views, one more to come.          *)
(*   PoseLabels: a port turned every way about an axis up, down or level, a   *)
(* turned plug, a sample of each kind, two captures with a plug that may slip *)
(* between them.                                                              *)
(*   TrialInputs: command lines with every kind of plan, valid and not, three *)
(* NIC rails and two SC rails, three depth frames and a buffer of two.        *)
(***************************************************************************)
EXTENDS AnnotationEditor

CONSTANTS i1, i2, i3, t1, t2, whole, flat, malformed

OneCapture == <<{i1, i2}>>
OneMore == <<{i3}>>
\* A label as it should be; one with a flat box and a line that is no annotation.
LabelFiles == {{whole}, {flat, malformed}}
\* The directory of one camera; the server starts with the whole dataset.
OpenedPaths == {{i2, i3}}
EditorSymmetry == Permutations({t1, t2})

-----------------------------------------------------------------------------
CONSTANTS Starts, Samples, Slips, SfpOffset, ToolTcp, Optical, TrialTolerance, PoseCaptures

VARIABLES scene, offset, stage, plan, constants, trial, rows

poseVars == <<scene, offset, stage, plan, constants, trial, rows>>
Poses == INSTANCE PoseLabels WITH Captures <- PoseCaptures
Geometry == INSTANCE Frames

Quarter(axis, k) == Geometry!axis_angle_quaternion(axis, k)
At(q, t) == [t |-> t, q |-> q]
MCStarts ==
    {[port |-> At(Geometry!matrix_quaternion(r), <<5, -3, 2>>),
      tip |-> At(Quarter(<<1, 0, 0>>, 3), <<1, 2, 7>>),
      tcp |-> At(Quarter(<<0, 1, 0>>, 1), <<1, 4, 9>>),
      board |-> At(<<0, 0, 0, 1>>, <<6, -2, 1>>)] :
      r \in {r \in Geometry!Rotations : r[2][3] = 0 /\ r[1][3] >= 0}}

Sample(view, xyz, rpy, distance) ==
    [view |-> view, x |-> xyz[1], y |-> xyz[2], z |-> xyz[3],
     roll |-> rpy[1], pitch |-> rpy[2], yaw |-> rpy[3], distance |-> distance]
MCSamples == {Sample(FALSE, <<1, 0, -1>>, <<0, 0, 1>>, 3),
              Sample(FALSE, <<0, 2, 0>>, <<1, 3, 2>>, 1),
              Sample(TRUE, <<1, -2, 0>>, <<3, 0, 1>>, 6)}

Moved(t, q) == [t |-> t, r |-> Geometry!quaternion_matrix(q)]
MCSlips  == {Moved(<<0, 0, 0>>, <<0, 0, 0, 1>>), Moved(<<0, 0, 1>>, <<0, 0, 1, 1>>)}
MCSfpOffset == <<0, 1, 2>>
MCToolTcp == Moved(<<0, 0, 2>>, <<0, 0, 1, 1>>)
MCOptical == [center |-> Moved(<<1, 0, 1>>, <<1, 1, 1, 1>>),
              left |-> Moved(<<0, 1, 1>>, <<0, 1, 0, 1>>)]

-----------------------------------------------------------------------------
CONSTANTS ArgSets, SfpRails, ScRails, PortCount, ScSlots, Translations, RailEnd,
          MinClearance, DescentMin, XyLimit, Infinite, MaxFrames, MaxSkew, LastStamp

VARIABLES args, step, task, fixtures, policy, left, plans, manifest, ports, frames,
          wanted, depth, labels

inputVars == <<args, step, task, fixtures, policy, left, plans, manifest, ports, frames,
               wanted, depth, labels>>
Inputs == INSTANCE TrialInputs WITH trial <- task, samples <- plans

ASSUME MCLabelsAssumption ==
    /\ Inputs!DepthAssumption /\ Inputs!BoardAssumption /\ Inputs!ArgsAssumption
    /\ Poses!PoseAssumption

\* A line that passes every guard, and lines that differ from it.
Usual ==
    [port_type |-> "sfp", min_card_count |-> 1, steps |-> 1, policy |-> "near-port",
     base |-> 20, near |-> 1, board |-> <<24, 32>>, start |-> 32, dx |-> <<-4, 4>>,
     dz |-> <<0, 4>>, turn |-> <<-2, 2>>, turn_max |-> 0, lateral |-> 2, angle |-> 2,
     tiers |-> <<2, 4>>, weights |-> <<1, 1>>, min_visible |-> 2, annotate |-> TRUE,
     randomize_lighting |-> TRUE, template |-> TRUE]
Unlabelled == [Usual EXCEPT !.port_type = "sc", !.min_card_count = 2, !.annotate = FALSE]
MCArgSets ==
    {Usual,
     [Usual EXCEPT !.port_type = "sc", !.policy = "descent", !.randomize_lighting = FALSE],
     [Unlabelled EXCEPT !.steps = 3, !.turn_max = 1],
     [Unlabelled EXCEPT !.steps = 3, !.weights = <<1, 99>>, !.near = 2],
     [Unlabelled EXCEPT !.steps = 2, !.tiers = <<99, 99>>, !.template = FALSE],
     [Unlabelled EXCEPT !.steps = 2, !.dz = <<4, 0>>],
     [Unlabelled EXCEPT !.steps = 2, !.dz = <<0, -4>>],
     [Unlabelled EXCEPT !.steps = 2, !.dz = <<-4, 4>>],
     [Unlabelled EXCEPT !.steps = 2, !.policy = "board-view"],
     [Unlabelled EXCEPT !.steps = 3, !.policy = "descent", !.angle = 0],
     [Usual EXCEPT !.min_card_count = 4], [Usual EXCEPT !.base = 10],
     [Usual EXCEPT !.weights = <<1>>], [Usual EXCEPT !.near = 0]}

-----------------------------------------------------------------------------
NoPoses ==
    /\ scene = CHOOSE s \in Starts : TRUE
    /\ offset = <<0, 0, 0>> /\ stage = "none" /\ plan = [held |-> TRUE]
    /\ constants = <<>> /\ trial = <<>> /\ rows = <<>>
NoInputs ==
    /\ args = Usual /\ step = "none" /\ task = <<>> /\ fixtures = <<>>
    /\ policy = <<>> /\ left = <<>> /\ plans = <<>> /\ manifest = <<>> /\ ports = {}
    /\ frames = <<>> /\ wanted = 0 /\ depth = <<>> /\ labels = <<>>
\* The server was never started, and nothing is left to happen.
NoEditor ==
    /\ file = [i \in Images |-> [image |-> Here(Missing), label |-> Here(Missing)]]
    /\ samples = <<>> /\ server = [up |-> FALSE, entries |-> <<>>] /\ request = Idle
    /\ tab = [t \in Tabs |-> NoImage] /\ captured = Len(Captures)
    /\ spent = [changes |-> MaxChanges, mishaps |-> MaxMishaps] /\ late = {} /\ broken = {} /\ raced = {}

MCInit == \/ Init /\ NoPoses /\ NoInputs
          \/ Poses!Init /\ NoEditor /\ NoInputs
          \/ Inputs!Init /\ NoEditor /\ NoPoses
MCNext == \/ Next /\ UNCHANGED poseVars /\ UNCHANGED inputVars
          \/ Poses!Next /\ UNCHANGED vars /\ UNCHANGED inputVars
          \/ Inputs!Next /\ UNCHANGED vars /\ UNCHANGED poseVars
MCSpec == MCInit /\ [][MCNext]_<<vars, poseVars, inputVars>>

\* What is planned is reached, and what is stored gives back what was seen.
Reproduced       == Poses!PlanHitsSample /\ Poses!RowJoins
PlanIsSafe       == Inputs!PlanIsSafe
LabelsMatchScene == Inputs!LabelsMatchScene
NearestDepth     == Inputs!NearestDepth
OnOwnRail        == Inputs!OnOwnRail
OccludedAreKept  == Inputs!OccludedAreKept
=============================================================================
