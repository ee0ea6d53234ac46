---------------------------- MODULE MCFinalPolicy ----------------------------
(***************************************************************************)
(* The policy and what it sees and shows, in three parts that share no state. *)
(* A behaviour is one of one part.                                            *)
(*   FinalPolicy: two goals, two classes of port, two places.                 *)
(*   PortVision: two ports, five things YOLO may see, two of them per camera.  *)
(*   Dashboard: two tasks and one that is not valid, one restart.             *)
(***************************************************************************)
EXTENDS FinalPolicy, TLC

CONSTANTS a, b, spot1, spot2

MCGoals == {1, 2}
Symmetry == Permutations({a, b}) \cup Permutations({spot1, spot2})

-----------------------------------------------------------------------------
CONSTANTS VisionTasks, Ports, Detections, MaxSeen, Shifts, Slips, Rails, PortIndices,
          SyncMax, ReprojectionMax, TrackReprojectionMax, JumpMax, Workspace

VARIABLES target, stage, shift, seen, place

visionVars == <<target, stage, shift, seen, place>>
Vision == INSTANCE PortVision WITH Tasks <- VisionTasks, estimate <- place

ASSUME MCFinalPolicyAssumption == Vision!VisionAssumption

At3(m, d, h) == [m |-> m, d |-> d, h |-> h]
Named3(rail) == [port_type |-> "sfp", rail |-> rail, port |-> 0]
MCVisionTasks == {Named3(1), Named3(9), [Named3(1) EXCEPT !.port_type = "sc"]}
MCPorts == {At3(0, 4, 0), At3(4, 4, 0)}
Sure(port, uv) == [class |-> <<"SFP", 1, port>>, sure |-> TRUE, points |-> TRUE, uv |-> uv]
MCDetections == {Sure(0, <<4, 0>>), Sure(0, <<0, 0>>), Sure(0, <<-4, 0>>), Sure(0, <<2, 2>>),
                 Sure(1, <<0, 0>>)}
MCWorkspace == <<At3(-20, 0, -20), At3(20, 20, 20)>>

-----------------------------------------------------------------------------
CONSTANTS Streams, FrameTasks, FixedCables, MaxTasks, MaxReceived, MaxRestarts

VARIABLES mailbox, published, fixed, frames, callback, live, filtered, page,
          streamed, received, restarts

boardVars == <<mailbox, published, fixed, frames, callback, live, filtered, page,
               streamed, received, restarts>>
Board == INSTANCE Dashboard WITH Cameras <- Streams, Tasks <- FrameTasks

MCFrameTasks == {[cable |-> "c1", port |-> "p1", valid |-> TRUE],
                 [cable |-> "c2", port |-> "p2", valid |-> TRUE],
                 [cable |-> "c1", port |-> "p2", valid |-> FALSE]}

-----------------------------------------------------------------------------
NoPolicy == /\ now = Horizon /\ task = [g \in Goals |-> a]
            /\ thread = [g \in Goals |-> At("done")] /\ estimate = None /\ misses = 0
            /\ shared_target = NoClass /\ wanted = [g \in Goals |-> NoClass] /\ overtaken = {}
NoVision == target = <<>> /\ stage = "none" /\ shift = 0 /\ seen = <<>> /\ place = <<>>
NoBoard == /\ mailbox = <<>> /\ published = <<>> /\ fixed = "none" /\ frames = <<>>
           /\ callback = "none" /\ live = <<>> /\ filtered = "none"
           /\ page = [snapshot |-> [task |-> <<>>], tabs |-> <<>>]
           /\ streamed = <<>> /\ received = 0 /\ restarts = 0

\* The parts that did not begin have no steps.
MCInit == \/ Init /\ NoVision /\ NoBoard
          \/ Vision!Init /\ NoPolicy /\ NoBoard
          \/ Board!Init /\ NoPolicy /\ NoVision
MCNext == \/ Next /\ UNCHANGED visionVars /\ UNCHANGED boardVars
          \/ Vision!Next /\ UNCHANGED vars /\ UNCHANGED boardVars
          \/ fixed # "none" /\ Board!Next /\ UNCHANGED vars /\ UNCHANGED visionVars
MCSpec == MCInit /\ [][MCNext]_<<vars, visionVars, boardVars>>

EveryCameraAgrees    == Vision!EveryCameraAgrees
SnapshotIsOfOneTrial == Board!SnapshotIsOfOneTrial
=============================================================================
