---------------------------- MODULE TrialInputs ----------------------------
(***************************************************************************)
(* From the command line to the first labelled capture: runner/main.py        *)
(* validates the arguments, scenario.py draws a board and names it in the     *)
(* task id, the engine, its launch file and the board's xacro put the board   *)
(* up, PortOffsetCollect reads the arguments back from its environment and    *)
(* plans its samples, reads the board back from the task id, and waits for    *)
(* the depth frame that tells which ports a camera really sees.               *)
(* A set of rails stands for a card mask: rail i is in it when bit i is set.  *)
(* Lengths are millimetres, and arguments divide where samples divide them.   *)
(***************************************************************************)
EXTENDS Integers, Sequences, FiniteSets, FiniteSetsExt, SequencesExt

CONSTANTS ArgSets,      \* command lines
          SfpRails, ScRails, PortCount,  \* SFP_NIC_RAIL_COUNT, SC_RAIL_COUNT, SFP_PORT_COUNT
          ScSlots,      \* SC ports the launch file knows
          Translations, \* where on its rail a card may be put
          RailEnd,      \* the engine's limit of a translation
          MinClearance, DescentMin,      \* MIN_CLEARANCE_MM, DESCENT_MIN_CLEARANCE_MM
          XyLimit,      \* default of the largest tier
          Infinite,     \* the number that is read from "inf"
          MaxFrames, MaxSkew,  \* length of a depth buffer, annotation_depth_max_skew_ns
          LastStamp     \* bound: the last stamp of a depth frame

DepthAssumption == {MaxFrames, MaxSkew, LastStamp} \subseteq Nat

\* Cards are put within the limits the runner gives the engine; the launch file
\* knows an SC port for each SC rail.
BoardAssumption ==
    /\ {SfpRails, ScRails, ScSlots, RailEnd} \subseteq Nat /\ PortCount \in Nat \ {0}
    /\ ScRails <= ScSlots /\ Translations \subseteq -RailEnd .. RailEnd
    /\ \A a \in ArgSets : a.port_type \in {"sfp", "sc"}

\* The types and choices of the command line.
ArgsAssumption ==
    /\ {MinClearance, DescentMin, XyLimit} \subseteq Int
    /\ MinClearance <= DescentMin /\ XyLimit > 0
    /\ \A a \in ArgSets :
         /\ a.policy \in {"near-port", "board-view", "descent"}
         /\ {a.steps, a.base, a.near, a.start, a.lateral, a.angle, a.turn_max} \subseteq Int
         /\ {a.board, a.dx, a.dz, a.turn} \subseteq Int \X Int
         /\ {a.tiers, a.weights} \subseteq Seq(Int)

VARIABLES args,      \* the arguments
          step,      \* how far the trial is
          trial,     \* task, its metadata, the board asked for and the world
          fixtures,  \* what stands on the board: fixture -> [present, at]
          policy,    \* what PortOffsetCollect made of the arguments
          left,      \* samples each tier has yet to get
          samples,   \* the plan
          manifest,  \* data.yaml and yolo_pose.yaml
          ports,     \* annotation_ports
          frames,    \* depth frames delivered so far, by stamp
          wanted,    \* stamp of the image that waits for its depth frame
          depth,     \* the frame in use, late after a timeout; since: the oldest held then
          labels     \* [file, rows] of the capture

vars == <<args, step, trial, fixtures, policy, left, samples, manifest, ports, frames,
          wanted, depth, labels>>

None == <<>>

Init ==
    /\ args \in ArgSets
    /\ step = "args"
    /\ trial = None /\ fixtures = None /\ policy = None /\ left = None
    /\ samples = None /\ manifest = None
    /\ ports = {} /\ frames = <<>> /\ wanted = 0
    /\ depth = None /\ labels = None

-----------------------------------------------------------------------------
(* runner: arguments, scenario, world.                                      *)

RailCount(a) == IF a.port_type = "sfp" THEN SfpRails ELSE ScRails

\* _parse_positive_csv: "inf" is a positive number.
PositiveCsv(values) == values # <<>> /\ \A i \in DOMAIN values : values[i] > 0

\* Mutant: any range of dz.
AcceptsAnyDz(a) ==
    /\ a.steps >= 1 /\ a.min_card_count \in 1 .. RailCount(a)
    /\ PositiveCsv(a.tiers) /\ PositiveCsv(a.weights) /\ Len(a.tiers) = Len(a.weights)
    /\ a.base >= DescentMin /\ a.near >= MinClearance
    /\ a.board[1] >= a.base /\ a.board[2] >= a.board[1] /\ a.start >= a.base
    /\ a.lateral >= 0 /\ a.angle >= 0 /\ a.min_visible \in 1 .. 3

\* _prepare_args; the bounds of dz are not compared with each other.
Accepts(a) ==
    /\ a.steps >= 1 /\ a.min_card_count \in 1 .. RailCount(a)
    /\ PositiveCsv(a.tiers) /\ PositiveCsv(a.weights) /\ Len(a.tiers) = Len(a.weights)
    /\ a.dz[1] >= 0
    /\ a.base >= DescentMin /\ a.near >= MinClearance
    /\ a.board[1] >= a.base /\ a.board[2] >= a.board[1] /\ a.start >= a.base
    /\ a.lateral >= 0 /\ a.angle >= 0 /\ a.min_visible \in 1 .. 3

PrepareArgs ==
    /\ step = "args"
    /\ step' = IF Accepts(args) THEN "trial" ELSE "rejected"
    /\ UNCHANGED <<args, trial, fixtures, policy, left, samples, manifest, ports, frames,
                   wanted, depth, labels>>

\* _sample_combination_mask
Masks(rails, atLeast) == {mask \in SUBSET (0 .. rails - 1) : Cardinality(mask) >= atLeast}

\* f"{mask:0{rails}b}": the highest rail comes first.
Bits(mask, rails) == [i \in 1 .. rails |-> (rails - i) \in mask]

Present(at) == [present |-> TRUE, at |-> at]
Absent      == [present |-> FALSE, at |-> 0]

\* _mount_rails
Mounts == {"lc_mount", "sfp_mount", "sc_mount"} \X {0, 1}
mount_rails(portType) ==
    [m \in Mounts |->
       IF m \in (IF portType = "sc"
                 THEN {<<"sfp_mount", 0>>, <<"sc_mount", 0>>, <<"lc_mount", 1>>}
                 ELSE {<<"lc_mount", 0>>, <<"sfp_mount", 0>>, <<"sc_mount", 0>>,
                       <<"lc_mount", 1>>})
       THEN Present(0) ELSE Absent]

\* _nic_rails and _sc_rails: the cards of the mask, where poses puts them.
Rails(kind, count, poses) ==
    [r \in {kind} \X (0 .. count - 1) |->
       IF r[2] \in DOMAIN poses THEN Present(poses[r[2]]) ELSE Absent]

Joined(f, g) == [x \in DOMAIN f \cup DOMAIN g |-> IF x \in DOMAIN g THEN g[x] ELSE f[x]]

\* _scenario_metadata
Metadata(portType, mask, rail, port, nicAt, scAt) ==
    [port_type |-> portType, rail_idx |-> rail, sfp_port_idx |-> port,
     combination_mask |-> mask, combination_bits |-> Bits(mask, RailCount(args)),
     active_rails |-> mask, nic_translation |-> nicAt, sc_translation |-> scAt]

\* The task id is the mask, the rail and the port; the module is the rail's.
Task(portType, mask, rail, port) ==
    [connector |-> portType, cards |-> Bits(mask, RailCount(args)),
     target_module |-> <<IF portType = "sfp" THEN "nic" ELSE "sc", rail>>, port |-> port]

\* _make_sfp_trial: NIC cards of the mask, one SC mount in the background.
make_sfp_trial(mask, rail, port, poses, background) ==
    [task |-> Task("sfp", mask, rail, port),
     metadata |-> Metadata("sfp", mask, rail, port, poses[rail], background),
     board |-> Joined(Joined(Rails("nic", SfpRails, poses),
                             Rails("sc", ScRails, [r \in {0} |-> background])),
                      mount_rails("sfp"))]

\* _make_sc_trial: SC mounts of the mask, no NIC card.
make_sc_trial(mask, rail, poses) ==
    [task |-> Task("sc", mask, rail, 0),
     metadata |-> Metadata("sc", mask, rail, -1, 0, poses[rail]),
     board |-> Joined(Joined(Rails("nic", SfpRails, [r \in {} |-> 0]),
                             Rails("sc", ScRails, poses)), mount_rails("sc"))]

\* make_trial_config
Trials(a) ==
    UNION {UNION {IF a.port_type = "sfp"
                  THEN {make_sfp_trial(mask, rail, port, poses, background) :
                          rail \in mask, port \in 0 .. PortCount - 1,
                          background \in Translations}
                  ELSE {make_sc_trial(mask, rail, poses) : rail \in mask}
                  : poses \in [mask -> Translations]}
           : mask \in Masks(RailCount(a), a.min_card_count)}

\* write_randomized_world: a file and the lights in it, or the default world.
Worlds(a) ==
    IF ~a.randomize_lighting \/ ~a.template THEN {[file |-> FALSE, enabled |-> FALSE]}
    ELSE {[file |-> TRUE, enabled |-> TRUE]}

\* _prepare_trial
PrepareTrial ==
    /\ step = "trial"
    /\ \E t \in Trials(args), w \in Worlds(args) :
         trial' = [task |-> t.task, board |-> t.board, world |-> w.file,
                   metadata |-> Joined(t.metadata, [lighting |-> w.enabled])]
    /\ step' = "spawn"
    /\ UNCHANGED <<args, fixtures, policy, left, samples, manifest, ports, frames, wanted,
                   depth, labels>>

-----------------------------------------------------------------------------
(* engine, launch file and xacro: the board.                                *)

Clamp(lo, hi, v) == Min({hi, Max({lo, v})})

\* spawn_entity: parameters for five NIC rails, two SC rails and the mounts.
EngineRails == ({"nic"} \X (0 .. SfpRails - 1)) \cup ({"sc"} \X (0 .. ScRails - 1))
Parameter(config, rail) ==
    IF rail \in DOMAIN config /\ config[rail].present
    THEN Present(Clamp(-RailEnd, RailEnd, config[rail].at)) ELSE Absent
BoardParameters(config) == [rail \in EngineRails \cup Mounts |-> Parameter(config, rail)]

\* task_board.urdf.xacro: the SC rail that a port of the board is fixed to.
ScRailOf(slot) == IF slot <= 2 THEN 0 ELSE 1

\* spawn_task_board.launch.py: what it declares is absent unless it is asked for,
\* and every value is handed to the xacro argument of its name.
DeclaredMounts  == [m \in Mounts |-> Absent]
DeclaredScPorts == [s \in {"sc"} \X (0 .. ScSlots - 1) |-> Absent]
DeclaredNics    == [n \in {"nic"} \X (0 .. SfpRails - 1) |-> Absent]
MountsOf(given)  == [m \in DOMAIN DeclaredMounts |-> Joined(DeclaredMounts, given)[m]]
ScPortsOf(given) == [s \in DOMAIN DeclaredScPorts |-> Joined(DeclaredScPorts, given)[s]]
NicsOf(given)    == [n \in DOMAIN DeclaredNics |-> Joined(DeclaredNics, given)[n]]

SpawnBoard ==
    /\ step = "spawn"
    /\ LET given == BoardParameters(trial.board)
       IN  fixtures' = Joined(Joined(MountsOf(given), ScPortsOf(given)), NicsOf(given))
    /\ step' = "policy"
    /\ UNCHANGED <<args, trial, policy, left, samples, manifest, ports, frames, wanted,
                   depth, labels>>

\* The port frames of a board: each NIC card has PortCount SFP ports, an SC
\* mount has one.
PortFrames(board) ==
    {frame \in ({x \in DOMAIN board : board[x].present} \X (0 .. PortCount - 1)) :
       frame[1][1] = "nic" \/ (frame[1][1] = "sc" /\ frame[2] = 0)}

-----------------------------------------------------------------------------
(* PortOffsetCollect: configuration and plan.                               *)

\* _range_from_env: the lower bound is the lesser one, whatever its name.
Ordered(range) == IF range[1] <= range[2] THEN range ELSE <<range[2], range[1]>>

\* _env_float_list: what is not finite is dropped.
Finite == Int \ {Infinite}
FiniteOnes(values) ==
    FoldLeft(LAMBDA finite, v : IF v \in Finite THEN Append(finite, v) ELSE finite, <<>>, values)

\* __init__, over _policy_environment
Configured(a) ==
    LET base  == Max({MinClearance, IF a.policy = "near-port" THEN a.near ELSE a.base})
        tiers == IF FiniteOnes(a.tiers) = <<>> THEN <<XyLimit>> ELSE FiniteOnes(a.tiers)
        weights == FiniteOnes(a.weights)
    IN  [kind |-> a.policy, steps |-> Max({1, a.steps}), base |-> base,
         board |-> Ordered(<<Max({base, a.board[1]}), Max({base, a.board[2]})>>),
         start |-> Max({base, a.start}),
         lateral |-> Max({0, a.lateral}), angle |-> Max({0, a.angle}),
         ranges |-> [x |-> Ordered(a.dx), z |-> Ordered(a.dz), turn |-> Ordered(a.turn)],
         turn_max |-> Max({0, a.turn_max}),
         tiers |-> tiers,
         weights |-> IF Len(weights) = Len(tiers) THEN weights
                     ELSE [i \in DOMAIN tiers |-> 1],
         min_visible |-> Max({1, a.min_visible}), annotate |-> a.annotate]

Construct ==
    /\ step = "policy"
    /\ policy' = Configured(args)
    /\ step' = "sample"
    /\ UNCHANGED <<args, trial, fixtures, left, samples, manifest, ports, frames, wanted,
                   depth, labels>>

\* _axis_samples: one value of each of count equal parts, in any order; the
\* values of a part stand for its two ends.
Orders(count) == {o \in [1 .. count -> 1 .. count] : IsInjective(o)}
AxisSamples(range, count) ==
    {[i \in 1 .. count |-> range[1] + ((order[i] - 1 + end[i]) * (range[2] - range[1])) \div count] :
       order \in Orders(count), end \in [1 .. count -> {0, 1}]}

Planned(x, z, turn, tier, distance) ==
    [x |-> x, z |-> z, turn |-> turn, tier |-> tier, distance |-> distance]

\* Sorted distances, the greatest first, from the start to the base.
Descents(count) ==
    {[i \in 1 .. count |-> IF i = 1 THEN policy.start
                           ELSE IF i = count THEN policy.base ELSE down[i]] :
       down \in {d \in AxisSamples(<<policy.base, policy.start>>, count) :
                   \A i, j \in 1 .. count : i <= j => d[i] >= d[j]}}

\* _build_view_samples
SampleViews ==
    /\ step = "sample" /\ policy.kind # "near-port" /\ samples = None
    /\ LET n == policy.steps
       IN  \E d \in IF policy.kind = "descent" THEN Descents(n) ELSE AxisSamples(policy.board, n),
              x \in AxisSamples(<<-policy.lateral, policy.lateral>>, n),
              t \in AxisSamples(<<-policy.angle, policy.angle>>, n) :
             samples' = [i \in 1 .. n |-> Planned(x[i], 0, t[i], 0, d[i])]
    /\ step' = "manifest"
    /\ UNCHANGED <<args, trial, fixtures, policy, left, manifest, ports, frames,
                   wanted, depth, labels>>

\* The places of counts[i] samples for each tier i; their number is the sum.
Places(counts) == UNION {{i} \X (1 .. counts[i]) : i \in DOMAIN counts}
Total(counts)  == Cardinality(Places(counts))

\* The numbers of samples of the tiers: shares of the steps rounded down, the
\* rest to the largest remainders; equal remainders in any order.
Counts ==
    LET W == policy.weights
        Share == [i \in DOMAIN W |-> (W[i] * policy.steps) \div Total(W)]
        Remainder(i) == (W[i] * policy.steps) % Total(W)
    IN  {[i \in DOMAIN W |-> Share[i] + IF i \in more THEN 1 ELSE 0] :
           more \in {S \in SUBSET (DOMAIN W) :
                       /\ Cardinality(S) = policy.steps - Total(Share)
                       /\ \A i \in S, j \in DOMAIN W \ S : Remainder(i) >= Remainder(j)}}

\* The tiers that have samples, and the largest of them.
Waiting(counts) == {i \in DOMAIN counts : counts[i] > 0}
Largest(counts) ==
    {i \in Waiting(counts) : \A j \in Waiting(counts) : policy.tiers[j] <= policy.tiers[i]}

\* build_samples: the first sample is the port's axis, in the first of the largest
\* tiers; the others follow tier by tier, the largest first, equal ones in any order.
SampleZero ==
    /\ step = "sample" /\ policy.kind = "near-port" /\ samples = None
    /\ \E counts \in Counts :
         \E first \in Largest(counts) :
           /\ \A i \in Largest(counts) : first <= i
           /\ samples' = <<Planned(0, 0, 0, policy.tiers[first], policy.base)>>
           /\ left' = [counts EXCEPT ![first] = @ - 1]
    /\ step' = IF Waiting(left') = {} THEN "manifest" ELSE "sample"
    /\ UNCHANGED <<args, trial, fixtures, policy, manifest, ports, frames,
                   wanted, depth, labels>>

\* The samples of a tier: every range scaled by the tier, rotations cut to their
\* largest norm.
SampleTier ==
    /\ step = "sample" /\ samples # None
    /\ \E i \in Largest(left) :
         LET tier == policy.tiers[i]
             n    == left[i]
             largest == Max(Range(policy.tiers))
             Scaled(range) == <<(range[1] * tier) \div largest, (range[2] * tier) \div largest>>
             Cut(t) == IF policy.turn_max > 0
                       THEN Clamp(-policy.turn_max, policy.turn_max, t) ELSE t
         IN  /\ \E x \in AxisSamples(Scaled(policy.ranges.x), n),
                   z \in AxisSamples(Scaled(policy.ranges.z), n),
                   t \in AxisSamples(Scaled(policy.ranges.turn), n) :
                  samples' = samples \o [k \in 1 .. n |->
                               Planned(x[k], z[k], Cut(t[k]), tier, policy.base)]
             /\ left' = [left EXCEPT ![i] = 0]
    /\ step' = IF Waiting(left') = {} THEN "manifest" ELSE "sample"
    /\ UNCHANGED <<args, trial, fixtures, policy, manifest, ports, frames,
                   wanted, depth, labels>>

-----------------------------------------------------------------------------
(* What the data set says of itself.                                         *)

\* ANNOTATION_PRESERVE_OCCLUDED_POLICIES; ANNOTATION_MIN_VISIBLE_KEYPOINTS is
\* what a port that is seen has and a hidden one has not.
PreserveOccluded == policy.kind = "near-port"

\* write_manifest: the ranges of the plan that the kind of policy has.
Sampling ==
    [collection_policy |-> policy.kind, clearance |-> policy.base,
     distances |-> IF policy.kind = "board-view" THEN policy.board
                   ELSE <<policy.base, IF policy.kind = "descent" THEN policy.start
                                       ELSE policy.base>>,
     tiers     |-> IF policy.kind = "near-port" THEN Range(policy.tiers) ELSE {0},
     lateral   |-> IF policy.kind = "near-port" THEN 0 ELSE policy.lateral]

\* _write_yolo_pose_config: PORT_CLASS_NAMES.
ClassNames == 0 .. SfpRails * PortCount

\* write_manifest, the end of __init__.
WriteManifest ==
    /\ step = "manifest"
    /\ manifest' = [data |-> [sampling |-> Sampling, preserve |-> PreserveOccluded],
                    yolo |-> [names |-> IF policy.annotate THEN ClassNames ELSE {}]]
    /\ step' = "task"
    /\ UNCHANGED <<args, trial, fixtures, policy, left, samples, ports, frames,
                   wanted, depth, labels>>

-----------------------------------------------------------------------------
(* PortOffsetCollect: the ports of the board, from the task id.             *)

\* port_annotation_class
port_annotation_class(connector, rail, port) ==
    IF connector = "sfp" THEN rail * PortCount + port ELSE SfpRails * PortCount

\* Mutant: the mask read from the left.
DecodedFromLeft(bits) == {rail \in 0 .. Len(bits) - 1 : bits[rail + 1]}

\* The rails of a card mask, read from the right.
Decoded(bits) == {rail \in 0 .. Len(bits) - 1 : bits[Len(bits) - rail]}

\* _annotation_port_frames
annotation_port_frames(task) ==
    {[class |-> port_annotation_class(task.connector, rail, port),
      frame |-> <<<<task.target_module[1], rail>>, port>>] :
       rail \in Decoded(task.cards),
       port \in 0 .. (IF task.connector = "sfp" THEN PortCount ELSE 1) - 1}

TargetFrame(task) == <<task.target_module, task.port>>

\* insert_cable until the snapshots are taken: a frame that nothing publishes
\* ends the trial.
Snapshot ==
    /\ step = "task"
    /\ LET asked == IF policy.annotate THEN annotation_port_frames(trial.task) ELSE {}
           found == /\ TargetFrame(trial.task) \in PortFrames(fixtures)
                    /\ \A p \in asked : p.frame \in PortFrames(fixtures)
       IN  /\ step' = IF found THEN "observe" ELSE "failed"
           /\ ports' = IF found THEN asked ELSE {}
    /\ UNCHANGED <<args, trial, fixtures, policy, left, samples, manifest, frames, wanted,
                   depth, labels>>

-----------------------------------------------------------------------------
(* The capture: depth frames arrive on one thread, the capture waits on       *)
(* another; both hold _depth_condition.                                      *)

\* _on_depth_image: a deque of MaxFrames; the camera's stamps grow, and frames
\* get lost.
DepthImage ==
    /\ step \in {"observe", "wait", "label"} /\ policy.annotate
    /\ \E stamp \in 1 .. LastStamp :
         /\ \A i \in DOMAIN frames : frames[i] < stamp
         /\ frames' = Append(frames, stamp)
    /\ UNCHANGED <<args, step, trial, fixtures, policy, left, samples, manifest, ports,
                   wanted, depth, labels>>

Buffered == Range(SubSeq(frames, Max({1, Len(frames) - MaxFrames + 1}), Len(frames)))

\* The images the target can be in; how a port shows in one: outside, with few
\* keypoints that neither the robot nor a nearer surface hides, or seen.
VisibleImages == 0 .. 3
Views == {"outside", "hidden", "seen"}

\* save_sample: the target must be in enough images before anything is labelled.
Observe ==
    /\ step = "observe"
    /\ \E stamp \in 1 .. LastStamp, visible \in VisibleImages :
         /\ wanted' = stamp
         /\ step' = CASE visible < policy.min_visible -> "refused"
                      [] visible >= policy.min_visible /\ policy.annotate -> "wait"
                      [] OTHER -> "label"
    /\ UNCHANGED <<args, trial, fixtures, policy, left, samples, manifest, ports, frames,
                   depth, labels>>

Away(stamp) == Max({stamp - wanted, wanted - stamp})
Candidates  == {s \in Buffered : Away(s) <= MaxSkew}
Nearest     == CHOOSE s \in Candidates : \A t \in Candidates :
                 Away(s) < Away(t) \/ (Away(s) = Away(t) /\ s <= t)

\* Mutant: the first frame that is near enough.
CandidateHeld == Candidates # {}

\* depth_image_at is content when a frame is near enough and one is not older
\* than the image: no later frame can be nearer.
Settled == Candidates # {} /\ \E s \in Buffered : s >= wanted

FindDepth ==
    /\ step = "wait" /\ Settled
    /\ depth' = [stamp |-> Nearest, late |-> FALSE, since |-> Min(Buffered)]
    /\ step' = "label"
    /\ UNCHANGED <<args, trial, fixtures, policy, left, samples, manifest, ports, frames,
                   wanted, labels>>

\* The wait is over: the nearest of what there is, or no capture.
DepthTimeout ==
    /\ step = "wait" /\ ~Settled
    /\ depth' = IF Candidates = {} THEN None
                ELSE [stamp |-> Nearest, late |-> TRUE, since |-> Min(Buffered)]
    /\ step' = IF Candidates = {} THEN "refused" ELSE "label"
    /\ UNCHANGED <<args, trial, fixtures, policy, left, samples, manifest, ports, frames,
                   wanted, labels>>

\* _card_mask and _image_relative_path: rail 0 comes first in a file name.
card_mask(task) == Reverse(task.cards)
image_relative_path(task) ==
    [connector |-> task.connector, cards |-> card_mask(task),
     rail |-> task.target_module[2], port |-> task.port]

\* _annotation_rows_by_camera and the files, for one camera. Only a
\* near-port policy keeps what is hidden.
SaveSample ==
    /\ step = "label"
    /\ \E target, others \in Views :
         LET View(p) == IF p.frame = TargetFrame(trial.task) THEN target ELSE others
             kept == IF PreserveOccluded THEN {"hidden", "seen"} ELSE {"seen"}
         IN  labels' = [file |-> image_relative_path(trial.task),
                        rows |-> {[class |-> p.class, view |-> View(p)] :
                                    p \in {q \in ports : View(q) \in kept}}]
    /\ step' = "done"
    /\ UNCHANGED <<args, trial, fixtures, policy, left, samples, manifest, ports, frames,
                   wanted, depth>>

-----------------------------------------------------------------------------
(* The editor's Auto Visibility on the labels of the capture.                *)

\* load_collection_policy: what yolo_pose.yaml says under "sampling".
load_collection_policy ==
    IF "sampling" \in DOMAIN manifest.yolo
    THEN manifest.yolo.sampling.collection_policy ELSE "none"

\* auto_visibility and apply_auto_visibility: the robot's mask covers a port, or
\* so many keypoints of it that few are seen. Of the trial only files are left.
AutoVisibility ==
    /\ step = "done"
    /\ \E masked \in {{}} \cup {{row} : row \in labels.rows}, covered \in BOOLEAN :
         LET preserve == load_collection_policy = "near-port"
             Judged(row) == [row EXCEPT !.view =
                               IF row \in masked \/ (preserve /\ @ = "hidden")
                               THEN "hidden" ELSE "seen"]
             removed == IF covered /\ ~preserve THEN masked ELSE {}
         IN  labels' = [file |-> labels.file, before |-> labels.rows,
                        rows |-> {Judged(row) : row \in labels.rows \ removed}]
    /\ step' = "reviewed"
    /\ trial' = None /\ fixtures' = None /\ policy' = None /\ left' = None
    /\ samples' = None /\ ports' = {} /\ frames' = <<>> /\ wanted' = 0 /\ depth' = None
    /\ UNCHANGED <<args, manifest>>

Next ==
    \/ PrepareArgs \/ PrepareTrial \/ SpawnBoard \/ Construct
    \/ SampleViews \/ SampleZero \/ SampleTier \/ WriteManifest
    \/ Snapshot \/ DepthImage \/ Observe \/ FindDepth \/ DepthTimeout \/ SaveSample
    \/ AutoVisibility
Spec == Init /\ [][Next]_vars

-----------------------------------------------------------------------------
Planning == step \in {"task", "observe", "wait", "label", "done", "refused"}

\* Whatever arguments main.py lets pass with dz's bounds in order, the policy
\* plans one sample a step, none nearer to the port than the clearance that is
\* allowed and none outside of what data.yaml says was planned; a near-port plan
\* starts on the axis and shrinks tier by tier, a descent never goes back up and
\* ends at its base (main.py:467-513, motion.py:134-238, dataset.py:1287-1343).
PlanIsSafe ==
    Planning /\ args.dz[1] <= args.dz[2] =>
      /\ Len(samples) = args.steps
      /\ \A i \in DOMAIN samples : samples[i].distance + samples[i].z >= MinClearance
      /\ policy.kind = "near-port" =>
           /\ samples[1].x = 0 /\ samples[1].z = 0 /\ samples[1].turn = 0
           /\ \A i, j \in DOMAIN samples : i <= j => samples[i].tier >= samples[j].tier
      /\ policy.kind = "descent" =>
           /\ samples[1].distance = args.start
           /\ args.steps > 1 => samples[args.steps].distance = args.base
           /\ \A i, j \in DOMAIN samples :
                i <= j => samples[i].distance >= samples[j].distance
      /\ LET said == manifest.data.sampling
         IN  \A i \in DOMAIN samples :
               /\ samples[i].distance + samples[i].z >= said.clearance
               /\ samples[i].distance \in said.distances[1] .. said.distances[2]
               /\ samples[i].tier \in said.tiers
               /\ policy.kind # "near-port" =>
                    samples[i].x \in -said.lateral .. said.lateral

\* The ports that are labelled are the ports of the connector that stand on the
\* board, the target among them, no two SFP ports with one class; looking them
\* up never fails; the metadata and the file name say what stands there, and the
\* rows are of the classes and of the visibility that the data set declares.
\* The mask is written by the runner and read in three places, in two orders
\* (scenario.py:361, PortOffsetCollect.py:449, dataset.py:750).
LabelsMatchScene ==
    /\ step # "failed"
    /\ step \in {"observe", "wait", "label", "done"} =>
         LET kind == trial.task.target_module[1]
             standing == {f[2] : f \in {x \in DOMAIN fixtures :
                                          x[1] = kind /\ fixtures[x].present}}
             metadata == trial.metadata
         IN  /\ policy.annotate =>
                  /\ {p.frame : p \in ports} = {f \in PortFrames(fixtures) : f[1][1] = kind}
                  /\ \E p \in ports : p.frame = TargetFrame(trial.task)
             /\ kind = "nic" => Cardinality({p.class : p \in ports}) = Cardinality(ports)
             /\ metadata.active_rails = standing
             /\ fixtures[trial.task.target_module].at =
                  IF kind = "nic" THEN metadata.nic_translation ELSE metadata.sc_translation
             /\ metadata.lighting = trial.world
             /\ step = "done" =>
                  /\ \A r \in 0 .. Len(labels.file.cards) - 1 :
                       labels.file.cards[r + 1] <=> r \in standing
                  /\ {row.class : row \in labels.rows} \subseteq manifest.yolo.names
                  /\ ~manifest.data.preserve => \A row \in labels.rows : row.view # "hidden"

\* The depth frame that judges what an image shows is the nearest in time of all
\* frames the camera ever delivers, unless it left the buffer before it was
\* asked for or the wait ran out (PortOffsetCollect.py:350-373).
NearestDepth ==
    depth # None /\ ~depth.late =>
      \A i \in DOMAIN frames :
        Away(depth.stamp) <= Away(frames[i])
        \/ frames[i] < depth.since

\* "SC_PORT_0 on SC_RAIL_0 and SC_PORT_1 on SC_RAIL_1"
\* (docs/qualification_phase.md:59).
OnOwnRail ==
    fixtures # None =>
      \A f \in DOMAIN fixtures :
        f[1] = "sc" /\ fixtures[f].present => ScRailOf(f[2]) = f[2]

\* "A `sampling.collection_policy: near-port` dataset does not have completely
\* occluded objects deleted" (tools/bounding_box_tool/README.md:93).
OccludedAreKept ==
    step = "reviewed" /\ args.policy = "near-port" =>
      {row.class : row \in labels.before} = {row.class : row \in labels.rows}

=============================================================================
