----------------------------- MODULE PoseLabels -----------------------------
(***************************************************************************)
(* What a capture of phy_data_collection says about space: motion.py plans   *)
(* a TCP pose from a sample, the robot goes there with the plug in its        *)
(* gripper, dataset.py labels what it finds and splits the label over         *)
(* constants.json, trials.jsonl and samples.jsonl, and a reader of the three  *)
(* files puts it together again.                                             *)
(***************************************************************************)
EXTENDS Frames

CONSTANTS Starts,     \* poses [port, tip, tcp, board] a trial may begin with
          Samples,    \* samples of the policy in use
          Slips,      \* how the plug may slip in the gripper, as matrices
          SfpOffset,  \* the reference offset of an SFP plug
          ToolTcp,    \* tool0_T_tcp, as a matrix
          Optical,    \* tool0_T_camera_optical of each camera
          TrialTolerance, \* TRIAL_CONSTANT_TRANSLATION_ATOL_M
          Captures    \* bound: captures of the trial

VARIABLES scene,      \* port, tip, tcp and board now, as transforms; the port
                      \* and the board are the snapshots insert_cable took
          offset,     \* plug_reference_offset of this policy
          stage,      \* "plan", "go", "there", "done"
          plan,       \* the planned pose, its state and the sample
          constants,  \* connector geometry of constants.json, <<>> when absent
          trial,      \* the row of trials.jsonl, <<>> when absent
          rows        \* the rows of samples.jsonl

vars == <<scene, offset, stage, plan, constants, trial, rows>>

Cameras == DOMAIN Optical
NoPlan  == [held |-> TRUE]

\* Poses and motions of integer coordinates that map axes to axes.
Vectors == Int \X Int \X Int
IsPose(tf)  == tf = [t |-> tf.t, q |-> tf.q] /\ tf.t \in Vectors /\ Exact(tf.q)
IsMotion(M) == M = [t |-> M.t, r |-> M.r] /\ M.t \in Vectors /\ M.r \in Rotations
IsSample(s) ==
    /\ s.view \in BOOLEAN
    /\ \A f \in {"x", "y", "z", "roll", "pitch", "yaw", "distance"} : s[f] \in Int

PoseAssumption ==
    /\ \A s \in Starts : /\ s = [port |-> s.port, tip |-> s.tip, tcp |-> s.tcp, board |-> s.board]
                         /\ IsPose(s.port) /\ IsPose(s.tip) /\ IsPose(s.tcp) /\ IsPose(s.board)
    /\ \A s \in Samples : IsSample(s)
    /\ \A slip \in Slips : IsMotion(slip)
    /\ IsMotion(ToolTcp) /\ \A c \in Cameras : IsMotion(Optical[c])
    /\ "center" \in Cameras /\ SfpOffset \in Vectors /\ Captures \in Nat

-----------------------------------------------------------------------------
(* dataset.py: the plug's reference point and the label.                    *)

\* shift_origin: the rotation is kept.
shift_origin(tf, off) ==
    [tf EXCEPT !.t = Plus(@, Apply(quaternion_matrix(tf.q), off))]

target_xyz(port, plug) == Minus(port.t, plug.t)

\* plug_reference_offset: only SFP plugs have a reference point of their own.
plug_reference_offset(sfp) == IF sfp THEN SfpOffset ELSE Zero
Offsets == {plug_reference_offset(sfp) : sfp \in BOOLEAN}

Reference(s) == shift_origin(s.tip, offset)

-----------------------------------------------------------------------------
(* motion.py: planning.                                                     *)

\* Planner.build_pose: where the TCP is when the plug, held as it is held now,
\* stands at the port's approach axis.
build_pose(port, plug, grip, z) ==
    LET portR == quaternion_matrix(port.q)
        axis  == Apply(portR, <<0, 0, -1>>)
        tcpFromPlug == Apply(Rotate(portR, Transpose(quaternion_matrix(plug.q))),
                             Minus(grip.t, plug.t))
    IN  [pose |-> [t |-> Plus(Plus(port.t, Times(z, axis)), tcpFromPlug),
                   q |-> multiply_quaternions(
                           multiply_quaternions(port.q, Conjugate(plug.q)), grip.q)],
         axis |-> axis, tcpFromPlug |-> tcpFromPlug]

\* _port_axes: the port's x and y axes made orthogonal to the approach axis.
port_axes(port, axis) ==
    LET R == quaternion_matrix(port.q)
        Across(v) == Minus(v, Times(Dot(v, axis), axis))
    IN  <<Across(Column(R, 1)), Across(Column(R, 2)), axis>>

\* The rotation of a sample about three axes: roll first, yaw last.
Turn(sample, axes) ==
    multiply_quaternions(axis_angle_quaternion(axes[3], sample.yaw),
      multiply_quaternions(axis_angle_quaternion(axes[2], sample.pitch),
                           axis_angle_quaternion(axes[1], sample.roll)))

\* Mutant: the TCP turns in place and the plug swings around it.
apply_sample_about_tcp(built, port, sample) ==
    LET axes  == port_axes(port, built.axis)
        shift == Plus(Plus(Times(sample.x, axes[1]), Times(sample.y, axes[2])),
                      Times(sample.z, axes[3]))
    IN  [t |-> Plus(built.pose.t, shift),
         q |-> multiply_quaternions(Turn(sample, axes), built.pose.q)]

\* _apply_sample: turn about the plug, not about the TCP.
apply_sample(built, port, sample) ==
    LET axes  == port_axes(port, built.axis)
        delta == Turn(sample, axes)
        shift == Plus(Plus(Times(sample.x, axes[1]), Times(sample.y, axes[2])),
                      Times(sample.z, axes[3]))
        correction == Minus(Apply(quaternion_matrix(delta), built.tcpFromPlug),
                            built.tcpFromPlug)
    IN  [t |-> Plus(built.pose.t, Plus(shift, correction)),
         q |-> multiply_quaternions(delta, built.pose.q)]

\* _actual_sampling_offset: the label in port axes, less the planned distance.
actual_sampling_offset(label, port, axis, clearance) ==
    LET axes == port_axes(port, axis)
    IN  <<-Dot(label, axes[1]), -Dot(label, axes[2]), -Dot(label, axes[3]) - clearance>>

\* Mutant: the camera's mount taken in the tool's frame.
ToolToOptical(camera) == Optical[camera]

\* The camera as the TCP carries it.
TcpToOptical(camera) == Compose(Inverse(ToolTcp), Optical[camera])

\* _board_view_pose: the center camera looks down at the board from a distance.
board_view_pose(board, sample) ==
    LET down == <<1, 0, 0, 0>>
        q == multiply_quaternions(Turn(sample, Identity), down)
        R == quaternion_matrix(q)
        camera == Rotate(R, TcpToOptical("center").r)
        origin == Plus(Plus(Minus(board.t, Times(sample.distance, Column(camera, 3))),
                            Times(sample.x, Column(camera, 1))),
                       Times(sample.y, Column(camera, 2)))
    IN  [t |-> Minus(origin, Apply(R, TcpToOptical("center").t)), q |-> q]

-----------------------------------------------------------------------------
(* se3.py and dataset.py: labels.                                           *)

\* capture_pose_residual_labels: the camera poses follow from the TCP pose.
BaseCamera(tcp, camera) ==
    Compose(Compose(transform_matrix(tcp), Inverse(ToolTcp)), Optical[camera])

\* _base_to_camera, the same the other way round.
base_to_camera(tcp, camera) == Inverse(BaseCamera(tcp, camera))

Residual(A, B) == se3_log(Compose(Inverse(A), B))

\* pose_residual_labels: absolute poses and relative residuals of one capture.
pose_labels(s, port) ==
    [tcp |-> pose_record(transform_matrix(s.tcp)),
     tip |-> pose_record(transform_matrix(s.tip)),
     plug |-> pose_record(transform_matrix(Reference(s))),
     port |-> pose_record(transform_matrix(port)),
     cameras |-> [c \in Cameras |-> pose_record(BaseCamera(s.tcp, c))]]

residual_labels(s, port) ==
    LET plug == transform_matrix(Reference(s))
        base == transform_matrix(port)
    IN  [tcp_plug |-> Residual(transform_matrix(s.tcp), plug),
         tip_plug |-> Residual(transform_matrix(s.tip), plug),
         plug_port |-> Residual(plug, base),
         camera_plug |-> [c \in Cameras |-> Residual(BaseCamera(s.tcp, c), plug)],
         camera_port |-> [c \in Cameras |-> Residual(BaseCamera(s.tcp, c), base)]]

\* _transform_error: translation squared, whether the rotations differ, and the log.
transform_error(reference, actual) ==
    LET delta == Compose(Inverse(reference), actual)
    IN  [t2 |-> Dot(delta.t, delta.t), turned |-> delta.r # Identity,
         log |-> se3_log(delta)]

-----------------------------------------------------------------------------
(* The capture, from plan to row.                                           *)

Init ==
    /\ scene \in Starts
    /\ offset \in Offsets
    /\ stage = "plan" /\ plan = NoPlan
    /\ constants \in {<<>>} \cup {<<pose_record([t |-> o, r |-> Identity])>> : o \in Offsets}
    /\ trial = <<>> /\ rows = <<>>

\* A waypoint: board-view looks at the board, the others plan from the port.
Plan ==
    /\ stage = "plan" /\ Len(rows) < Captures
    /\ \E sample \in Samples :
         LET built == build_pose(scene.port, Reference(scene), scene.tcp, sample.distance)
         IN  plan' = [held |-> TRUE, sample |-> sample, axis |-> built.axis,
                      pose |-> IF sample.view THEN board_view_pose(scene.board, sample)
                               ELSE apply_sample(built, scene.port, sample)]
    /\ stage' = "go"
    /\ UNCHANGED <<scene, offset, constants, trial, rows>>

\* The robot gets there; the plug may slip in its gripper on the way.
Arrive ==
    /\ stage = "go"
    /\ \E slip \in Slips :
         LET grasp == Compose(Inverse(transform_matrix(scene.tcp)), transform_matrix(scene.tip))
         IN  /\ scene' = [scene EXCEPT !.tcp = plan.pose,
                            !.tip = pose_record(Compose(Compose(transform_matrix(plan.pose),
                                                                grasp), slip))]
             /\ plan' = [plan EXCEPT !.held = slip = [t |-> Zero, r |-> Identity]]
    /\ stage' = "there"
    /\ UNCHANGED <<offset, constants, trial, rows>>

\* _ensure_dataset_constants: the first policy names the connector geometry,
\* the others must agree with it.
NominalConnector(actual) ==
    IF constants = <<>> THEN actual ELSE matrix_from_pose_record(constants[1])

ConnectorAgrees(actual) ==
    LET e == transform_error(NominalConnector(actual), actual) IN e.t2 = 0 /\ ~e.turned

\* _ensure_trial_record: the first capture names the trial's port and grasp; only
\* the port is held to them.
TrialOf(port, tcpPlug) ==
    IF trial # <<>> THEN trial[1]
    ELSE [port |-> pose_record(port), tcp_plug |-> pose_record(tcpPlug)]

PortHolds(record, port) ==
    LET e == transform_error(matrix_from_pose_record(record.port), port)
    IN  e.t2 <= TrialTolerance * TrialTolerance /\ ~e.turned

\* _normalized_sample_residuals: deltas from the constants and the trial, and
\* the relative poses a network learns from.
normalized_residuals(residuals, connectorDelta, portDelta, tcpDelta) ==
    [connector |-> connectorDelta, port |-> portDelta, tcp_plug |-> tcpDelta,
     plug_port |-> residuals.plug_port, camera_plug |-> residuals.camera_plug,
     camera_port |-> residuals.camera_port]

\* _normalized_reconstruction_error is zero: the three files give the poses back.
Reconstructs(poses, res, connector, port, tcpPlug) ==
    LET M(record) == matrix_from_pose_record(record)
        base == Compose(port, se3_exp(res.port))
    IN  /\ Compose(Compose(M(poses.tip), connector), se3_exp(res.connector)) = M(poses.plug)
        /\ Compose(Compose(M(poses.tcp), tcpPlug), se3_exp(res.tcp_plug)) = M(poses.plug)
        /\ Compose(M(poses.plug), se3_exp(res.plug_port)) = base
        /\ \A c \in Cameras :
             /\ Compose(M(poses.cameras[c]), se3_exp(res.camera_plug[c])) = M(poses.plug)
             /\ Compose(M(poses.cameras[c]), se3_exp(res.camera_port[c])) = base

\* What the scene is by the labels of its capture.
Actual(poses, residuals) ==
    [connector |-> se3_exp(residuals.tip_plug), tcp_plug |-> se3_exp(residuals.tcp_plug),
     port |-> matrix_from_pose_record(poses.port)]

\* What it is nominally: by constants.json and the trial's row.
Nominal(record, actual) ==
    [connector |-> NominalConnector(actual.connector),
     port |-> matrix_from_pose_record(record.port),
     tcp_plug |-> matrix_from_pose_record(record.tcp_plug)]

Residuals(residuals, nominal, actual) ==
    normalized_residuals(residuals,
        transform_error(nominal.connector, actual.connector).log,
        transform_error(nominal.port, actual.port).log,
        transform_error(nominal.tcp_plug, actual.tcp_plug).log)

\* The row, checked against the trial and against itself before it is written.
WriteRow(poses, res, record, nominal, actual) ==
    LET label == target_xyz(scene.port, Reference(scene))
    IN  rows' = IF PortHolds(record, actual.port)
                   /\ Reconstructs(poses, res, nominal.connector, nominal.port,
                                   nominal.tcp_plug)
                THEN Append(rows,
                       [label |-> label, res |-> res, seen |-> scene,
                        poses |-> [poses EXCEPT !.port = <<>>],
                        actual |-> actual_sampling_offset(label, scene.port, plan.axis,
                          IF plan.sample.view THEN 0 ELSE plan.sample.distance)])
                ELSE rows

\* Constants and trial stay written when the row is not.
WriteFiles(poses, residuals, record, nominal, actual) ==
    /\ constants' = <<pose_record(nominal.connector)>>
    /\ trial' = <<record>>
    /\ WriteRow(poses, Residuals(residuals, nominal, actual), record, nominal, actual)

\* save_sample: the labels of the scene, checked against the constants first.
SaveSample(poses, residuals, actual) ==
    LET record == TrialOf(actual.port, actual.tcp_plug)
    IN  IF ~ConnectorAgrees(actual.connector) THEN UNCHANGED <<constants, trial, rows>>
        ELSE WriteFiles(poses, residuals, record, Nominal(record, actual), actual)

Capture ==
    /\ stage = "there"
    /\ LET poses == pose_labels(scene, scene.port)
           residuals == residual_labels(scene, scene.port)
       IN  SaveSample(poses, residuals, Actual(poses, residuals))
    /\ stage' = IF rows' = rows THEN "done" ELSE "plan"
    /\ UNCHANGED <<scene, offset, plan>>

Next == Plan \/ Arrive \/ Capture
Spec == Init /\ [][Next]_vars

-----------------------------------------------------------------------------
\* A plan reaches what its sample asks for.  A plug that does not slip ends so
\* far along the approach axis, so far off it in port axes, turned about itself,
\* and the row reports the planned offset (motion.py:61-131, 241-315); a
\* board-view pose puts the board in front of the center camera at the sample's
\* distance, off its optical axis by x and y (motion.py:330-378).  Orders of
\* rotation, frames and signs must agree over seven functions.
PlanHitsSample ==
    LET s == plan.sample
        plug == Reference(scene)
        axes == port_axes(scene.port, plan.axis)
        ToBoard == base_to_camera(scene.tcp, "center")
    IN  /\ stage = "there" /\ plan.held /\ ~s.view =>
             /\ plug.t = Plus(scene.port.t,
                    Plus(Times(s.distance + s.z, axes[3]),
                         Plus(Times(s.x, axes[1]), Times(s.y, axes[2]))))
             /\ quaternion_matrix(plug.q)
                  = Rotate(quaternion_matrix(Turn(s, axes)), quaternion_matrix(scene.port.q))
             /\ actual_sampling_offset(target_xyz(scene.port, plug), scene.port,
                                       plan.axis, s.distance) = <<s.x, s.y, s.z>>
        /\ stage = "there" /\ s.view =>
             Plus(Apply(ToBoard.r, scene.board.t), ToBoard.t) = <<-s.x, -s.y, s.distance>>

\* Whatever captures follow, a row joined with the trial and the constants gives
\* back the port, the plug and every camera of its capture, by each of the ways
\* the files offer, and its target is the way from the plug to the port
\* (dataset.py:1071-1254, 1606-1625).
RowJoins ==
    \A i \in DOMAIN rows :
      LET row == rows[i]
          M(record) == matrix_from_pose_record(record)
          port == transform_matrix(row.seen.port)
          plug == transform_matrix(Reference(row.seen))
      IN  /\ Compose(M(trial[1].port), se3_exp(row.res.port)) = port
          /\ Compose(Compose(M(row.poses.tcp), M(trial[1].tcp_plug)),
                     se3_exp(row.res.tcp_plug)) = plug
          /\ Compose(Compose(M(row.poses.tip), M(constants[1])),
                     se3_exp(row.res.connector)) = plug
          /\ Plus(plug.t, row.label) = port.t
          /\ \A c \in Cameras :
               LET camera == BaseCamera(row.seen.tcp, c)
               IN  /\ Compose(camera, se3_exp(row.res.camera_port[c])) = port
                   /\ Compose(camera, se3_exp(row.res.camera_plug[c])) = plug

=============================================================================
