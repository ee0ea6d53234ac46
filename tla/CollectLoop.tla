---------------------------- MODULE CollectLoop ----------------------------
(***************************************************************************)
(* The collection policy of phy_data_collection: PortOffsetCollect.py and   *)
(* the stages of motion.py (lift, approach, collect) with the waits of      *)
(* dataset.py, run by one policy thread against a robot that moves, a       *)
(* controller that follows the last command and an adapter whose            *)
(* observations are older than they are when they are read.                 *)
(*                                                                         *)
(* Poses lie on a line: 0 is where the trial starts, Port is the port, one   *)
(* tick of a free robot is one step.  Stamps are compared within one attempt *)
(* only, so each attempt restarts the clock (Rebase); Horizon bounds the     *)
(* ticks of one attempt, Spoilt the waypoints the environment may spoil.     *)
(* Counters that only the summary shows are left out.                       *)
(***************************************************************************)
EXTENDS HapticGuard, FiniteSets

CONSTANTS Settings,      \* the policies, each with and without the haptic guard
          CollectSteps,  \* AIC_COLLECT_STEPS
          MaxAttempts,   \* AIC_COLLECT_MAX_ATTEMPTS
          StableObs,     \* AIC_COLLECT_SETTLE_STABLE_OBSERVATIONS
          BaselineObs,   \* AIC_COLLECT_HAPTIC_BASELINE_SAMPLES
          Tolerance,     \* AIC_COLLECT_SYNC_TOLERANCE_MS
          MinClearance,  \* AIC_NEAR_PORT_MIN_CAPTURE_CLEARANCE_M
          Horizon,       \* bound: ticks of one attempt
          Spoilt         \* bound: waypoints lost to contact, clearance or sight

CollectAssumption ==
    /\ Settings \subseteq [policy : {"board-view", "descent", "near-port"},
                           haptic : BOOLEAN]
    /\ {CollectSteps, MaxAttempts, StableObs, BaselineObs} \subseteq Nat \ {0}
    /\ {Tolerance, MinClearance, Spoilt} \subseteq Nat
    /\ Horizon \in Nat \ {0, 1}   \* an attempt begins at 2

VARIABLES conf,      \* what the constructor read: policy, haptic
          pc,        \* where the policy thread stands
          status,    \* episode_summary.json's status, "" while it runs
          now,       \* ROS time
          latest,    \* what get_observation returns
          robot,     \* cmd, ref, tcp, at rest, cmd late
          collected, \* the summary's collect_steps
          loop,      \* waypoint_index, sample_attempts, len(samples), lost
          move,      \* stage, start, target, path position, command stamp
          guard,     \* HapticGuard
          baseline,  \* prepare_haptic_guard: frames taken, last stamp
          settle,    \* wait_for_pose_convergence: last pair, stable, stamp
          shot,      \* the observation accepted for the capture
          touch,     \* ghost: a contact was declared and is not yet undone
          rows       \* ghost: the rows written, with what they show

task  == <<conf, status, collected, loop>>
world == <<now, latest>>
work  == <<move, guard, baseline, settle, shot, touch, rows>>
vars  == <<conf, pc, status, now, latest, robot, collected, loop,
           move, guard, baseline, settle, shot, touch, rows>>

Port    == 3
None    == [cam |-> 0, img |-> 0, at |-> 0, tcp |-> 0, ref |-> 0, hit |-> FALSE]
NoPair  == [last |-> 0, tcp |-> 0, ref |-> 0, stable |-> 0, at |-> 0]
NoFrame == [taken |-> 0, last |-> 0]
Abs(n)  == IF n < 0 THEN -n ELSE n
Ended   == pc = "done"

-----------------------------------------------------------------------------
(* Settings of the constructor and the frames the TF tree offers.           *)

\* Only these two policies prepare a guard, when the guard is enabled.
Guarded == conf.haptic /\ conf.policy \in {"near-port", "descent"}

\* _port_frame prefers the entrance frame and falls back on the port link.
PortFrame(tf) == IF "entrance" \in tf THEN "entrance" ELSE "port"

\* A sample's target on the line; waypoints alternate in depth.
Target(k) == 1 + (k % 2)

\* The stages of a policy, in order; board-view and descent do not approach.
NextStage(stage) ==
    IF stage = "lift" /\ conf.policy = "near-port" THEN "approach" ELSE "collect"

Init ==
    /\ conf \in Settings
    /\ pc = "begin" /\ status = ""
    /\ now = 1 /\ latest = None
    /\ robot = [cmd |-> 0, ref |-> 0, tcp |-> 0, rest |-> TRUE, late |-> FALSE]
    /\ collected = 0
    /\ loop = [wp |-> 0, tries |-> 0, planned |-> CollectSteps, lost |-> 0]
    /\ move = [stage |-> "lift", start |-> 0, to |-> 0, pos |-> 0, stamp |-> 0]
    /\ guard = NoGuard /\ baseline = NoFrame /\ settle = NoPair
    /\ shot = None /\ touch = FALSE /\ rows = <<>>

-----------------------------------------------------------------------------
(* The robot, the adapter and the model node.                               *)

Toward(p, q) == IF p < q THEN p + 1 ELSE IF p > q THEN p - 1 ELSE p

\* One step of the robot: the controller takes the last command as its
\* reference, at most one tick late; a robot under way moves on, or comes to rest short of, at or one
\* step past its reference (an impedance controller holds an offset), and then
\* keeps still until the reference changes.
RobotMoves ==
    \E q \in {robot.cmd} \cup (IF robot.late THEN {} ELSE {robot.ref}), rest \in BOOLEAN :
      LET p == robot.tcp
          still == robot.rest /\ q = robot.ref
      IN  \E to \in (IF still THEN {p}
                    ELSE IF ~rest THEN {Toward(p, q)}
                    ELSE IF p = q THEN {p, q + 1}
                    ELSE {p, Toward(p, q)}) :
            /\ (still \/ p = q) => rest
            /\ robot' = [robot EXCEPT !.ref = q, !.tcp = to,
                                      !.rest = rest, !.late = q # robot.cmd]

\* The adapter delivers controller and force of the present tick with cameras
\* of it or of the tick before; cam 0 is a frame whose cameras disagree.  A
\* force or an image that nobody looks at is not varied.
Observed ==
    \E cam \in (IF pc \in {"settle", "observe"} THEN {now', now, 0} ELSE {now'}),
       hit \in (IF Guarded THEN BOOLEAN ELSE {FALSE}) :
      latest' = [cam |-> cam, at |-> now', tcp |-> robot'.tcp, ref |-> robot'.ref,
                 img |-> IF cam = now THEN robot.tcp ELSE robot'.tcp, hit |-> hit]

\* A tick, with or without an observation.  Where the policy thread reads
\* nothing a tick commutes with its step, so it is taken before the step.
Tick ==
    /\ now < Horizon /\ pc \notin {"begin", "collect", "save", "done"}
    /\ now' = now + 1
    /\ RobotMoves
    /\ Observed \/ UNCHANGED latest
    /\ UNCHANGED <<task, pc, work>>

-----------------------------------------------------------------------------
(* Helpers of the stages.                                                   *)

\* set_pose_target.  The ghost keeps a declared contact until the pose the
\* motion started from has been commanded.
Send(p) ==
    /\ robot' = [robot EXCEPT !.cmd = p]
    /\ touch' = (touch /\ p # move.start)

\* The guard looks at an observation.
Feel(o) == guard' = ObserveForce(guard, o)

\* Stamps are compared within one attempt only, so an attempt starts the clock
\* again: what was delivered is older than any command the attempt will send,
\* and so are its images.
Rebase ==
    /\ now' = 2
    /\ latest' = [latest EXCEPT !.at = 1, !.cam = 0, !.img = latest.tcp]

Finish(s) == pc' = "done" /\ status' = s

\* Mutant: A given-up waypoint keeps its number.
SkipKeepsWaypoint == loop' = [loop EXCEPT !.tries = 0, !.lost = @ + 1]

\* A waypoint given up for good: the next one starts with fresh attempts.
SkipWaypoint == loop' = [loop EXCEPT !.wp = @ + 1, !.tries = 0, !.lost = @ + 1]

-----------------------------------------------------------------------------
(* insert_cable and its stages.                                             *)

\* insert_cable up to its stages: every early return writes a summary with its
\* own status.  fails is a TF lookup that raises although the frame was seen.
Begin ==
    /\ pc = "begin"
    /\ \E record, annotate, fails \in BOOLEAN,
          tf \in SUBSET {"port", "entrance", "tip", "board"} :
         IF ~record THEN Finish("recording_disabled")
         ELSE IF ~({PortFrame(tf), "tip"} \subseteq tf) THEN Finish("tf_unavailable")
         ELSE IF fails THEN Finish("port_tf_snapshot_failed")
         ELSE IF annotate /\ "entrance" \notin tf
              THEN Finish("annotation_port_tf_snapshot_failed")
         ELSE IF conf.policy = "board-view" /\ "board" \notin tf
              THEN Finish("board_tf_unavailable")
         ELSE pc' = "lift" /\ UNCHANGED status
    /\ UNCHANGED <<conf, collected, loop, world, robot, work>>

\* lift: no observation yet ends the trial; a zero AIC_DISTANCE_INITIAL_LIFT_M
\* skips the motion.  An unguarded path reads nothing on its way, so its last
\* command stands for all of them.
Lift ==
    /\ pc = "lift"
    /\ \/ latest = None /\ Finish("lift_up_failed") /\ UNCHANGED <<robot, touch, move>>
       \/ /\ move' = [move EXCEPT !.stage = NextStage("lift")]
          /\ pc' = NextStage("lift") /\ UNCHANGED status
          /\ \/ latest # None /\ Send(latest.tcp - 1)
             \/ UNCHANGED <<robot, touch>>
    /\ UNCHANGED <<conf, collected, loop, world, guard, baseline, settle, shot, rows>>

\* approach: start and target, then the baseline of the guard when one is asked
\* for, else the whole path.
Approach ==
    /\ pc = "approach"
    /\ \/ Finish("approach_failed") /\ UNCHANGED <<robot, touch, move, guard, baseline>>
       \/ /\ latest # None
          /\ move' = [move EXCEPT !.start = latest.tcp, !.pos = latest.tcp, !.to = 1,
                                  !.stage = IF conf.haptic THEN @ ELSE "collect"]
          /\ guard' = NoGuard /\ baseline' = NoFrame
          /\ UNCHANGED status
          /\ IF conf.haptic THEN pc' = "baseline" /\ UNCHANGED <<robot, touch>>
             ELSE Send(1) /\ pc' = "collect"
    /\ UNCHANGED <<conf, collected, loop, world, settle, shot, rows>>

\* prepare_haptic_guard takes one more force frame with a stamp of its own; the
\* guard built from them has observed none of them.
Baseline ==
    /\ pc = "baseline"
    /\ latest.at # baseline.last
    /\ baseline' = [taken |-> baseline.taken + 1, last |-> latest.at]
    /\ pc' = IF baseline'.taken < BaselineObs THEN pc
             ELSE IF move.stage = "approach" \/ conf.policy = "descent"
             THEN "follow" ELSE "command"
    /\ UNCHANGED <<task, world, robot, move, guard, settle, shot, touch, rows>>

\* The baseline's time is over: approach gives the trial up, collect the attempt.
BaselineTimeout ==
    /\ pc = "baseline"
    /\ IF move.stage = "approach" THEN Finish("approach_failed")
       ELSE pc' = "collect" /\ UNCHANGED status
    /\ UNCHANGED <<conf, collected, loop, world, robot, work>>

\* _follow with a guard: command the next waypoint of the path ...
FollowCommand ==
    /\ pc = "follow"
    /\ LET p == Toward(move.pos, move.to)
       IN  Send(p) /\ move' = [move EXCEPT !.pos = p]
    /\ pc' = "feel"
    /\ UNCHANGED <<task, world, guard, baseline, settle, shot, rows>>

\* ... and look at the newest observation after it: a contact is answered with
\* the observed pose and ends the path.
FollowFeel ==
    /\ pc = "feel"
    /\ Feel(latest)
    /\ IF guard'.contact
       THEN /\ robot' = [robot EXCEPT !.cmd = latest.tcp]
            /\ touch' = TRUE
            /\ pc' = "retreat"
       ELSE /\ UNCHANGED <<robot, touch>>
            /\ pc' = IF move.pos # move.to THEN "follow"
                     ELSE IF move.stage = "approach" THEN "collect" ELSE "command"
    /\ move' = IF pc' = "collect" THEN [move EXCEPT !.stage = "collect"] ELSE move
    /\ UNCHANGED <<task, world, baseline, settle, shot, rows>>

\* Mutant: retreat_to_pose without a path.
RetreatStays ==
    /\ pc = "retreat"
    /\ UNCHANGED <<robot, touch>>
    /\ IF move.stage = "approach"
       THEN Finish("approach_failed") /\ UNCHANGED loop
       ELSE pc' = "collect" /\ SkipWaypoint /\ UNCHANGED status
    /\ UNCHANGED <<conf, collected, world, move, guard, baseline, settle, shot, rows>>

\* retreat_to_pose: an unguarded path back to where the motion started; after
\* an approach the trial is given up, in collect the waypoint.
Retreat ==
    /\ pc = "retreat"
    /\ Send(move.start)
    /\ IF move.stage = "approach"
       THEN Finish("approach_failed") /\ UNCHANGED loop
       ELSE pc' = "collect" /\ SkipWaypoint /\ UNCHANGED status
    /\ UNCHANGED <<conf, collected, world, move, guard, baseline, settle, shot, rows>>

-----------------------------------------------------------------------------
(* collect: one attempt after the other until enough samples are saved.     *)

\* The head of the loop: enough rows, waypoints to add, attempts left; the locals
\* of the last attempt are forgotten.  Lost
\* waypoints restore the attempts, so nothing in the code bounds them: Spoilt
\* does.
Attempt ==
    /\ pc = "collect" /\ loop.lost <= Spoilt
    /\ LET planned == IF loop.wp >= loop.planned
                      THEN loop.planned + CollectSteps ELSE loop.planned
       IN  IF collected >= CollectSteps THEN Finish("ok") /\ UNCHANGED loop
           ELSE IF loop.tries >= MaxAttempts
           THEN Finish("collect_failed") /\ loop' = [loop EXCEPT !.planned = planned]
           ELSE /\ loop' = [loop EXCEPT !.planned = planned, !.tries = @ + 1]
                /\ pc' = "plan" /\ UNCHANGED status
    /\ guard' = NoGuard /\ baseline' = NoFrame /\ settle' = NoPair /\ shot' = None
    /\ UNCHANGED <<conf, collected, world, robot, move, touch, rows>>

\* ... and the target of the attempt; a failed TF lookup or a missing pose
\* costs the attempt.
Plan ==
    /\ pc = "plan"
    /\ \/ pc' = "collect" /\ UNCHANGED <<world, work>>
       \/ /\ latest # None
          /\ Rebase
          /\ move' = [move EXCEPT !.start = latest.tcp, !.pos = latest.tcp,
                                  !.to = Target(loop.wp), !.stamp = 0]
          /\ pc' = IF Guarded THEN "baseline" ELSE "command"
          /\ UNCHANGED <<guard, baseline, settle, shot, touch, rows>>
    /\ UNCHANGED <<task, robot>>

\* The final command of the attempt and its stamp.
Command ==
    /\ pc = "command"
    /\ Send(move.to)
    /\ move' = [move EXCEPT !.stamp = now]
    /\ pc' = "settle"
    /\ UNCHANGED <<task, world, guard, baseline, settle, shot, rows>>

\* Mutant: A repeated frame counts as a second frame of a robot that stands still.
ConvergeOnOneFrame(s, o) ==
    IF o.at <= move.stamp THEN s
    ELSE LET still == s.last # 0 /\ o.tcp = s.tcp /\ o.ref = s.ref
             stable == IF still THEN s.stable + 1 ELSE 0
         IN  [last |-> o.at, tcp |-> o.tcp, ref |-> o.ref, stable |-> stable,
              at |-> IF stable >= StableObs THEN o.at ELSE 0]

\* wait_for_pose_convergence counts a frame newer than the command and new to
\* it; the robot is still when neither tcp nor reference changed since the last.
Converge(s, o) ==
    IF o.at <= move.stamp \/ o.at = s.last THEN s
    ELSE LET still == s.last # 0 /\ o.tcp = s.tcp /\ o.ref = s.ref
             stable == IF still THEN s.stable + 1 ELSE 0
         IN  [last |-> o.at, tcp |-> o.tcp, ref |-> o.ref, stable |-> stable,
              at |-> IF stable >= StableObs THEN o.at ELSE 0]

\* One poll that finds a new frame: the guard has the first say.
SettlePoll ==
    /\ pc = "settle"
    /\ latest.at > guard.last \/ Converge(settle, latest) # settle
    /\ IF Guarded THEN Feel(latest) ELSE UNCHANGED guard
    /\ IF guard'.contact
       THEN pc' = "hold" /\ touch' = TRUE /\ UNCHANGED settle
       ELSE /\ settle' = Converge(settle, latest)
            /\ pc' = IF settle'.at # 0 THEN "observe" ELSE pc
            /\ UNCHANGED touch
    /\ UNCHANGED <<task, world, robot, move, baseline, shot, rows>>

\* Mutant: A settling that times out starts the waypoint's attempts over.
SettleTimeoutForgives ==
    /\ pc = "settle"
    /\ pc' = "collect" /\ loop' = [loop EXCEPT !.tries = 0]
    /\ UNCHANGED <<conf, status, collected, world, robot, work>>

SettleTimeout ==
    /\ pc = "settle"
    /\ pc' = "collect"
    /\ UNCHANGED <<task, world, robot, work>>

\* A contact while settling: hold the pose of a newly read observation first.
Hold ==
    /\ pc = "hold"
    /\ Send(latest.tcp)
    /\ pc' = "retreat"
    /\ UNCHANGED <<task, world, move, guard, baseline, settle, shot, rows>>

\* observation_sync and the freshness test of wait_for_observation.
Acceptable(o) ==
    /\ o.cam # 0
    /\ Abs(o.at - o.cam) <= Tolerance
    /\ o.cam > settle.at

WaitForObservation ==
    /\ pc = "observe" /\ Acceptable(latest)
    /\ shot' = latest
    /\ pc' = "tf"
    /\ UNCHANGED <<task, world, robot, move, guard, baseline, settle, touch, rows>>

\* The last look at the deadline found nothing acceptable.
ObservationTimeout ==
    /\ pc = "observe" /\ ~Acceptable(latest)
    /\ pc' = "collect"
    /\ UNCHANGED <<task, world, robot, work>>

\* The plug's pose at the stamp of an observation's cameras.
PlugAt(o) == o.img

\* lookup_transform_at and tf_sync: the lookup may raise or be too far off; a
\* near-port capture too close to the port is given up like a contact.
LookupPlug ==
    /\ pc = "tf"
    /\ \/ pc' = "collect"
       \/ pc' = IF conf.policy = "near-port" /\ Port - PlugAt(shot) < MinClearance
                THEN "retreat" ELSE "save"
    /\ UNCHANGED <<task, world, robot, work>>

\* save_sample: saved, the port not in enough views, or any other failure.
Save ==
    /\ pc = "save"
    /\ \/ /\ collected' = collected + 1
          /\ loop' = [loop EXCEPT !.wp = @ + 1, !.tries = 0]
          /\ rows' = Append(rows, [wp |-> loop.wp, img |-> shot.img, tcp |-> shot.tcp,
                                   plug |-> PlugAt(shot),
                                   fresh |-> shot.cam > move.stamp])
       \/ SkipWaypoint /\ UNCHANGED <<collected, rows>>
       \/ UNCHANGED <<collected, loop, rows>>
    /\ pc' = "collect"
    /\ UNCHANGED <<conf, status, world, robot, move, guard, baseline, settle, shot, touch>>

-----------------------------------------------------------------------------
Policy == \/ Begin \/ Lift \/ Approach \/ Baseline \/ BaselineTimeout
          \/ FollowCommand \/ FollowFeel \/ Retreat
          \/ Attempt \/ Plan \/ Command \/ SettlePoll \/ SettleTimeout \/ Hold
          \/ WaitForObservation \/ ObservationTimeout \/ LookupPlug \/ Save

Next == Policy \/ Tick

\* The stages with a sleep_for, or with a wait whose polls sleep.  It sleeps on the
\* node's clock, which is simulated (use_sim_time), also in the loops whose
\* deadlines are of the monotonic clock.
Sleeps == pc \in {"begin", "lift", "approach", "baseline", "feel", "retreat",
                  "collect", "command", "settle", "observe"}

\* The policy thread runs whenever it does not sleep.
Spec == Init /\ [][Next]_vars /\ WF_vars(~Sleeps /\ Policy)

\* Not of the code but of the simulator it sleeps with: simulated time goes on, so
\* that a sleep ends.
ClockAdvances == WF_vars(Sleeps /\ Policy)

-----------------------------------------------------------------------------
Stamp == 0 .. Horizon
Frame == [cam : Stamp, img : Int, at : Stamp, tcp : Int, ref : Int, hit : BOOLEAN]

\* The types of the state, and what its parts owe each other: only a trial that
\* has ended has a status, "ok" has all its rows, one row to a saved waypoint.
TypeOK ==
    /\ conf \in Settings
    /\ pc \in {"begin", "lift", "approach", "baseline", "follow", "feel", "retreat",
              "collect", "plan", "command", "settle", "hold", "observe", "tf",
              "save", "done"}
    /\ (status # "") = Ended
    /\ now \in 1 .. Horizon /\ {latest, shot} \subseteq Frame
    /\ robot \in [cmd : Int, ref : Int, tcp : Int, rest : BOOLEAN, late : BOOLEAN]
    /\ collected = Len(rows) /\ (status = "ok" => collected = CollectSteps)
    /\ loop.wp = collected + loop.lost /\ loop.tries \in 0 .. MaxAttempts
    /\ move.stage \in {"lift", "approach", "collect"}
    /\ {move.start, move.to, move.pos} \subseteq Int /\ move.stamp \in Stamp
    /\ settle.stable \in 0 .. StableObs /\ touch \in BOOLEAN

\* A row is of a robot at rest at the waypoint it was sent to: the image, the
\* plug label of the image's stamp and the TCP of an older or newer controller
\* state agree, and the image was taken after the command (motion.py:617-649,
\* dataset.py:565-579): late frames, repeated frames and a late reference must
\* not pass for rest.
CapturedAtRest ==
    \A i \in DOMAIN rows :
      /\ rows[i].img = rows[i].tcp /\ rows[i].plug = rows[i].img
      /\ rows[i].fresh

\* From a declared contact until the motion's start has been commanded again,
\* the robot is sent nowhere but to where it was observed or to that start,
\* whatever stage the contact interrupts (motion.py:699-762, 998-1026).
NoPressOn ==
    [][touch /\ robot'.cmd # robot.cmd
       => robot'.cmd \in {latest.tcp, move.start}]_vars

\* As long as simulated time goes on, and unless waypoints are lost for ever, the
\* trial ends with a status, whatever the robot, the adapter and the TF tree do:
\* attempts that fail are counted, and every wait has its deadline
\* (motion.py:877-902).
Terminates == ClockAdvances => <>(Ended \/ loop.lost > Spoilt)

=============================================================================
