# TLA+ models of the aic-physic repository

The repository holds Team Physic's entry for an "AI for Industry" challenge: a robot arm
inserts cable plugs into ports of a task board, in Gazebo, under ROS 2. All code is under
`src/ws_aic/src/`: the organizers' toolkit (`aic/`), the team's data collection and
final policy (`phy/`), two browser tools (`tools/`) and a training notebook (`train/`).
This directory models the parts whose correctness depends on the order in which processes,
threads, messages and failures meet, and the conversions on which a dataset's meaning
depends. TLC checks small instances; TLAPS proves theorems for all values of the constants.

- [1. Inventory](#1-inventory): components, state, interactions, hard behaviours
- [2. Modules](#2-modules): what models what, and how
- [3. Runs](#3-runs): what is checked, bounds, fairness
- [4. Disagreements](#4-disagreements-found-while-modelling) between the code and what the repository says of it
- [5. Proofs](#5-proofs)
- [6. Plan](#6-plan) and [7. what is not modelled](#7-not-modelled)

Run inside this directory: `tlc -workers 2 -config MCCollector_worker.cfg MCCollector`
(a `.cfg` is named after its MC module), `tlapm ProcessProofs.tla`.

## 1. Inventory

### Components and how they interact

    data collection                                   evaluation
    ---------------                                   ----------
    command line                                      aic_engine --lifecycle, goals, cancel--> aic_model
      | arguments, scenario, board                     |  |                                     | thread per goal
      v                                                |  +--start/stop/score--> recorder       v
    parent --starts, signals--> worker (one of n)      |                                     final policy
      ^   <--progress events-----  |                   +--spawn, delete, reset--> Gazebo        | commands,
      |                            | launches, per trial|                                       | mode requests
      |                            v                   +--(de)activate---------> aic_controller<+
      |                   simulator, policy, recorder
      |                            | images, rows (several processes, one lock)
      |                            v
      +--report <--reads---- dataset store <--edits-- bounding box editor (browser tabs)
                                                      dashboard <--topics-- final policy, controller

| Component | State it keeps | Operations | Hard behaviour | Correct when |
|---|---|---|---|---|
| Arguments, scenario, board (`runner/main.py`, `scenario.py`, `world.py`, `spawn_task_board.launch.py`, `task_board.urdf.xacro`, `motion.py`, `dataset.py`) | a task, its metadata, the board, a plan of samples, `data.yaml` | validate, draw, spawn, plan, choose ports and a depth frame | one card mask written once and read in three places and two orders; arguments that pass through environment variables; depth frames on another thread | what is labelled is what stands on the board, and no sample is nearer than allowed |
| Parent of a collection (`runner/main.py`) | processes, progress, exit codes | start, monitor, interrupt, join, judge | children that die in any way, lines that arrive late, Ctrl-C at any step | exit code 0 and the display tell the truth |
| Collection worker (`runner/main.py`, `lifecycle.py`, `runtime.py`) | owned process groups, registry file, trial results, exit code | run trials, tear down, clean up after an interrupt, `--cleanup` after a crash | SIGINT anywhere, kills that fail, a simulator that appears inside a container later than its wrapper, recycled process-group ids | no process group is lost silently; exit code 0 means what it says; strangers are not signalled |
| Collection policy (`PortOffsetCollect.py`, `motion.py`) | stage, waypoint, attempts, haptic guard | lift, approach, collect, retreat, retry | observations older than the command, contacts at any time | a row is of a robot at rest; after a contact the robot is led away; the trial ends |
| Dataset store (`policy/dataset.py`) | images, `constants.json`, `trials.jsonl`, `samples.jsonl`, file lock | `save_sample` and its undo | several processes, `os._exit` at any point, failed and torn writes, resumed runs | a visible row is a whole synchronized capture and stays so |
| Poses and labels (`se3.py`, `geometry.py`, `motion.py`, `dataset.py`) | none across calls | plan a TCP pose, label a capture, split the label over three files | frames, signs and the order of rotations spread over many functions | what is planned is reached; what is stored gives back what was seen |
| Report (`reporting/evaluation.py`) | none | summarize, compare predictions | no lock beside appending policies | both sections add up, and only cut lines make it fail |
| Participant node (`aic_model`) | lifecycle state, goal handle, policy thread, result slot | lifecycle callbacks, goal, accept, cancel and execute callbacks, `cancel_task` | reentrant callbacks, policy threads that cannot be stopped | goals end; a result is that of its goal; the node is never locked out |
| Final policy (`phy_policy`) | estimate, misses, stage, background YOLO | detect during the lift, lock, track, approach, recover | the thread of a canceled goal beside its successor; results of images long past | it goes to its own port, on evidence as fresh as the decision |
| Evaluation engine (`aic_engine`, with the recorder of `aic_scoring`) | trial states, spawned entities, scores, recording | run trials: discover, configure, activate, spawn, task goals, score, reset | calls that time out and are carried out later, retries, errors at every step | trials in order, a score from the trial's own bag, the model left finalized |
| Simulator plugins (`aic_gazebo`) | cable joints and static models, off-limit entities, pending joint resets | hold and release the cable, publish contacts, reset joints | the ECM's deferred removal, deletions in every state, late requests | free gripper for the next trial; contacts seen; no reset under control |
| Impedance controller (`aic_controller`) | mode, command boxes, targets, references | `update()`, command callbacks, `change_target_mode`, lifecycle | a real-time thread and an executor thread without a common lock | the robot goes only where it was told since activation |
| Bounding box editor (`tools/bounding_box_tool`) | open dataset, revision of a label, staged deletions; drafts in tabs | open, save, delete image, auto visibility | several tabs with stale indices, other writers, partial failure, a kill | nothing is overwritten unseen, a failed deletion changes nothing |
| Policy dashboard (`tools/policy_dashboard`) | values and readings of the current trial, history | ROS callbacks, web answers | callbacks that give up the lock between two writes, pages that stay open | a page shows one trial |
| Observation adapter (`aic_adapter`) | latest image per camera, queues of states | join into an observation | reordered and late messages | (planned) |

`PROJECT.json` lists the remaining parts (tiers, controller numerics, launch files,
assets, example policies, training utilities) with the reason each is left out.

### Hazards

`PROJECT.json` lists the hazards at their lines, each with the property that covers it. Four
groups matter most: *lost handles* (a process, a late simulator call or a cable joint nobody can
name any more), *lost updates* (a slot, handle, label or reference written back by somebody who read
it before another's write), *half-done work made visible* (rows without images, bags left open,
cleared flags) and *stale evidence* (an observation, detection, depth frame or progress line of before
the decision it is used for).

## 2. Modules

One specification per component, and MC modules that give values to constants. An MC module may
join several specifications that share no state (`MCLabels`, `MCMotion`, `MCFinalPolicy`,
`MCParallelRun`): the host is extended, the others are instances, and a behaviour is one of one part,
so that the state space is the sum of the parts'. `*Proofs` modules hold the theorems.
Definitions keep the source's names; `map` in `PROJECT.json` gives the lines behind every
definition. Definitions marked *mutated form* or *Mutant* are not part of the specification: they are a
plausible mistake in the definition that follows them, used to check that a property notices it.

### `TrialInputs`: from the command line to the first labelled capture

`step` follows one trial through five programs. `PrepareArgs` is `_prepare_args`; `PrepareTrial` draws
a scenario (`make_sfp_trial`, `make_sc_trial`) with its task, metadata and world; `SpawnBoard` is the
engine's parameters, the launch file's declared arguments and the xacro's fixtures; `Construct` is the
policy's reading of its environment; `SampleViews`, `SampleZero` and `SampleTier` are `build_samples`;
`WriteManifest` is what `data.yaml` and `yolo_pose.yaml` say of it; `Snapshot` looks up the ports of
the card mask as TF frames; `Observe`, `DepthImage`, `FindDepth` and `DepthTimeout` are the capture and
the depth thread; `SaveSample` names the file and keeps the rows that are visible enough;
`AutoVisibility` is what the editor later makes of them.

Abstractions: a pose on a rail is one number, six axes of a sample are three, a stratum stands for its
two ends, a port in an image is outside, hidden (too few keypoints seen) or seen, lights are on or off.
`data.yaml` is a file of one trial here; in the code every policy process of a dataset rewrites it, so
that it is of the last writer (a `--resume` with other arguments changes what it says of earlier
trials). That `labels` may exist and not be the expected symlink is left out.

### `Collector`: one collection worker

`pc` follows `_run_worker` and `_run_trial`; `owned` is `ctx.active_groups`, `registry` the
file `active_groups` is persisted to, `up` the groups that really have live members. One action
per step of the code at which a signal or a crash makes a difference: `Spawn` (Popen),
`Adopt` (append), `Persist` (write the file), `Discover` (the simulator inside the
container), `Scan` and `PollAgain` (the two looks of `wait_for_trial_summary`), the four
stops of the teardown, the interrupt cleanup, and `--cleanup`, signal by signal: the marker is looked at once per record (`StaleCheck`), then
`terminate_pgid` sends up to three signals to the bare id with a grace period after each (`StaleSignal`, `StaleWait`). The environment
delivers SIGINTs, kills the worker, starts the simulator proper, ends processes and recycles ids, also in the middle of a stop.
`--cleanup` may be invoked again as long as it leaves a registry file.

Abstractions: the local assignment after Popen and the append to `active_groups` are one step,
and so are, for a discovered simulator, its append and its persist; the order "inner before
wrapper" stands for the `reversed` list;
an id is recycled only if it belongs to an earlier trial or after the worker's exit; the stops of a worker's own groups
are one step each (`StopPolicy` and the others), since their ids are not recycled while it runs that trial; the
stop file is the business of `DatasetStore`.

### `ParallelRun`: the parent and its workers

The parent deals trials round robin, starts workers one after the other (`StartWorker`,
`AppendProcess`: a child that runs and one that is in the list are two things), follows one queue of
progress events (`Receive`, per worker in order, between workers in any), joins, judges exit codes
and counts the dataset. A worker works through its trials; the lines its policy prints reach the
queue through a forwarder nobody joins (`Forward`), so that they may come after the next trial has
begun. Ctrl-C reaches the parent with or without its workers; a worker may be killed, crash or be
interrupted before its handler is there. `ProgressLines` is what the display adds up. What one trial does is
the subject of `Collector` and `DatasetStore`.

### `CollectLoop` and `HapticGuard`: the collection policy

One policy thread against a robot on a line, a controller that takes the last command up to a tick
late, and an adapter whose observation may be repeated or old. `pc` follows `insert_cable`, `lift`,
`approach`, `collect` and their waits; `settle` is `wait_for_pose_convergence`, `baseline`
`prepare_haptic_guard`, `guard` the `HapticGuard` (a pure operator, `ObserveForce`). `rows` and `touch` are
history variables: what a row shows, and that a contact is not yet undone. Time restarts with every
attempt, as stamps are compared within one attempt only.

### `DatasetStore`, refining `CaptureLog`

`CaptureLog` is the promise to whoever trains on a dataset: captures appear whole, all
images of one shot, in order, and are never changed or withdrawn. `DatasetStore` follows
`save_sample`: three images, the lock, `constants.json`, the trial's row, the sample's
row, and the undo of each. A process dies between any two steps (`os._exit` by the
stop-file watcher, or an uncaught exception), every write may fail, an append may be
cut short and spoils the row glued to it. The first process to write `constants.json` fixes the
camera's calibration; the others compare theirs with it, up to a scale and a tolerance. The refinement mapping
takes the rows of `samples.jsonl` that can be read and joined, with the images they name.

Abstractions: label files and visibility tests are left out (`TrialInputs` has them); the unlinks of an
undo are one step; `constants.json` is replaced atomically (it is); a row is written whole or
torn; there is one connector type, and of a calibration one camera, its size and focal length.

### `Frames` and `PoseLabels`: what a label says of space

`Frames` are the operators of `se3.py` and `geometry.py` over the 24 rotations that map axes to axes and
integer positions, so that each formula is evaluated exactly (quaternions up to a positive factor,
which the code divides out; `Exact` says that the division leaves no rest). `PoseLabels` plans a TCP pose from a sample (`apply_sample`, board views),
lets the robot go there with a plug that may slip in the gripper, labels what it finds, normalises the
label over `constants.json`, `trials.jsonl` and `samples.jsonl`, and joins the three again.

### `Evaluation`: the report

`Summarize` and `Evaluate` read the two files one after the other, without the lock, while policies
append a trial's row and its captures (`BeginTrial`, `BeginSample`, `Finish`); a line may be read half
written, or stay cut (`CutShort`). The boxes of the coverage are 2, 5, 10 and 50 mm whatever the tiers are (`Boxes`). `summarize_dataset`, `_prediction_metrics` and `_percentile` are
operators; every `ValueError` of the code is a value of `why`.

### `AicModel`: the participant's node

`loop[g]` is the program counter of `insert_cable_execute_callback` for goal `g`: `wait`
(the one-second loop), the three checks and the exits of each. `handle`, `actionThread`
and `shared` are the node's single `goal_handle`, `_action_thread` and
`_action_thread_result`. `answer` is a history variable: what the goal's own policy run
returned. The accept and execute callbacks are started in one go by rclpy and are merged;
`Return` models rclpy, which aborts a goal that its callback leaves active. A policy thread
cannot be stopped: `PolicyEnds` may come at any time.

### `FinalPolicy`, `PortVision`

`FinalPolicy` is `insert_cable` of the final policy for several goals, each in a thread of its own: detection during
the lift (`LiftStart`, `LiftWaypoint`, `LockFound`), the lock after several agreeing images, the approach whose
waypoints are cleared by `GuardPoll` and `GuardTrack` on a background YOLO result and optical flow,
and `RecoverPoll` when the path was stopped. `_target`, `_estimate` and the miss counter are one per node: the thread
of a canceled goal, which may not even have come to its first line, shares them with its successor. `InsertCable`, `ForgetEstimate` and
`MakeVision` are the beginning of `insert_cable`: it writes `_target`, publishes, clears the estimate, and reads `_target` again.
`wanted` is the class its `PortVision` was made for, `overtaken` a history variable: goals whose target was written over in between. An image is its stamp, an estimate a class, a place and a stamp.

`PortVision` is what makes the estimate: `_estimate_candidates` pairs and triples detections of three
cameras in a row, triangulates and sorts them by error; `track` moves an estimate by optical flow and
rejects jumps. Pixels are even, so a triangulation is exact; the four corners of a port are one pixel.

### `Dashboard`

Every callback of the ROS thread is split where it gives up the lock; the web server's thread may answer a page
in between. A value is its frame, its sequence number and, as history, the trial it was stored in. Pages
build tabs from the answers and outlive a restart of the server.

### `AicEngine`, refining `EngineRun`

`EngineRun` is the order of a run: trials one at a time, an error ends the run, only a run
with all trials processed is completed. `AicEngine` follows `aic_engine.cpp` from discovery
to shutdown, one action per service call or wait, including the recording of
`ScoringTier2`. A call is answered, refused or times out; one that timed out is carried out
later (`LateTransition`, `SimulatorCatchesUp`), at most `MaxSlow` times. `OwnScene`,
`ScoresOwnBag` and `EndsFinalized` relate scene, bags and the model's lifecycle to the
trial.

Abstractions: one cable and one board per trial (all entities of a trial are spawned in
one loop and fail alike); the simulator is a set of entities; the shutdown signal and the
`skip_*` flags of the engine are not modelled; time is not a variable: a wait may end with its answer or without; the model answers goal requests, which
the code waits for without a limit.

### `GzScene`: simulator plugins around a trial

`phase` follows one Gazebo iteration: user commands, the three plugins' `PreUpdate`,
physics, where `dying` and `doomed` (removal requests) take effect. `cableState` is the state machine of
`CablePlugin`, `made` the joints and static models it has created; `offLimitEntities`
of `OffLimitContactsPlugin` remembers which trial's board it watches; `ResetPreUpdate` serves joint
reset requests; the engine's `home_robot` deactivates the controller, resets, and activates it again.

Abstractions: spawns and deletions succeed (their failures are the subject of
`AicEngine`), one command per iteration, one cable, throttled work is done or not
nondeterministically, the controller manager and the reset service each serve requests in
order, `MaxSlow` bounds the calls of `home_robot` that fail. `home_robot`'s early return
leaves `controller` FALSE for the trials that follow, as the code does.

### `AicController`: two threads in one controller

`pc` is the next access of `update()` to something the executor's callbacks write, `cb` the
next access of a callback to something `update()` reads. Each action is one such access. `since` and
`held` are history variables: positions sensed since activation or asked for by a command whose callback accepted it since, and those since the last
switch of mode. `crossed` is the command, if any, that was accepted before a deactivation and is stored after the next activation. `raced` records that a callback overlapped what the code has no protection against.

Abstractions: a position is known by where it comes from (home, a command, the zeros an empty
joint message is turned into); interpolation ends at its target; velocity commands,
which integrate the same references, are left out; so are stiffness and wrenches, except
that reading them from an empty joint message ends the process. Each access is atomic: torn
reads of a C++ object that is being assigned are undefined behaviour and left out.

### `AnnotationEditor`

Tabs work on one dataset through one server that runs requests one at a time under its lock. A tab names an
image by its position in the list it was last sent; a save carries the revision of the label the tab
loaded and the draft as it was when it was sent. A deletion stages files under `.deleting`, rewrites
`samples.jsonl`, then unlinks (`DeleteReads`, `StageFile`, `SaveSamples`, `Unlink`), each of which may fail,
with the restore failing as well; the server may be killed anywhere. Other processes append captures and
rewrite labels at any time, during a request too; `raced` is a history variable: the tabs whose image was rewritten while a request of theirs read or
replaced its label. A label is a set of lines, some
of which cannot be read (`Malformed`) or can be loaded but not saved (`Flat`: a box too small, a visibility of 3).

Abstractions: a revision is the content; a tab may ask for any position, as one with an old list may; the
requests of one tab do not overtake each other. `OpenPath` lists the images and replaces the dataset in one step, although the code lists them before
it takes the model's lock (`editor.py:172-176`): the server's handlers run in one event loop and do not await while they are in the model
(`web.py:73-78`), so no request runs in between, and a file another process writes there might as well have been written after the replacement.

## 3. Runs

Every property of a passing run has a mutant in `PROJECT.json`: a change to one mapped
definition under which the run's own configuration finds the property violated.

| Run | Instance | Shows |
|---|---|---|
| `collector_worker` | 1 trial with recorder, 2 SIGINTs, failing kills and launches, one recycled id, fair | every live group is in the registry or lost in a recorded way, and what is lost is told (`Named`); exit code (`CleanExit`), teardown order (`TeardownOrder`); `--cleanup` signals no stranger but one that takes over an id while its group is being stopped (`StaleSparesStrangers`); the worker ends (`WorkerEnds`) |
| `aic_model` | 2 goals, 6 transitions, cancels, `cancel_task`, fair | unless a goal was cut short, results are real and the goal's own (`OwnResultUnlessCutShort`); cancel and deactivation are answered (`CancelEnds`); a sequential client is never refused (`NeverLockedOut`) |
| `aic_model_result` | 2 goals | violation, see 4.1 |
| `dataset_workers` | 2 processes, 2 trials of 1 capture, 2 attempts, failing disk, five camera calibrations, fair | rows join, agree in their nominal geometry, and no ended trial leaves orphan images (`Referenced`); "ok" trials are complete (`OkIsComplete`); refinement of `CaptureLog` (`ImplementsLog`); every trial ends although captures fail and processes die holding the lock (`AllTrialsEnd`) |
| `engine_run` | 2 trials, 2 tasks, 3 attempts, 1 slow call or refused deletion, fair | refinement of `EngineRun` (`ImplementsRun`); `OwnScene`, `ScoresOwnBag`, `EndsFinalized`; the run ends if the clock goes on (`EngineEnds`) |
| `scene_trials` | 4 trials, 2 failed `home_robot` calls | the plug is never held twice (`OneHold`), no reset under control (`ResetUnderControl`), contacts of the first trial are seen (`FirstContactsSeen`) |
| `arm_motion` | controller: 1 commanded position; collection policy: 1 row, 2 attempts, 1 lost waypoint, 4 settings, fair | the robot goes where it was told since activation (`NoReplay`); outside an overlap a change of mode holds still (`SwitchHolds`); a row is of a robot at rest (`CapturedAtRest`); after a contact the arm is led away (`NoPressOn`); the trial ends if the clock goes on (`Terminates`) |
| `final_policy` | 2 goals, 4 images; 3 cameras; 2 tasks, 1 restart | a goal approaches a port of its own class, unless its target was written over before it read it again (`OwnPort`); a waypoint is cleared on a fresh view (`FreshLicence`); a stopped path resumes on images taken since (`StoppedEvidence`); an estimate agrees with every camera that sees it (`EveryCameraAgrees`); an answer of the dashboard is of one trial (`SnapshotIsOfOneTrial`) |
| `labels` | 2 tabs, 2 images and 1 to come, 2 changes, 1 mishap; 12 starts, 3 samples, 2 captures; 14 command lines, 5 rails, 3 depth frames | no file is lost, and a deletion is done or undone (`NothingLost`, `AllOrNothing`); no label is overwritten that its tab has not seen, unless it is rewritten while the save or the load looks at it (`NoUnseenOverwrite`); plans are reached and labels give back what was seen (`Reproduced`); plans are safe and within what `data.yaml` says (`PlanIsSafe`); labels, metadata and file names say what stands on the board (`LabelsMatchScene`); the depth frame is the nearest (`NearestDepth`) |
| `sc_rails` | as `labels` | violation, see 4.2 |
| `editor_policy` | as `labels` | violation, see 4.3 |
| `parallel_run` | 2 workers, 3 trials, 2 mishaps; 2 trials of 2 captures under a report | exit code 0 means all trials are ok and whole (`ExitTellsTruth`); the display never counts too much and its last totals are right (`NeverOvercounts`); both sections of a report add up, and only unreadable lines, or insertions that are no booleans, make it fail (`ReportAddsUp`) |

**Why the bounds are enough.** *Trials*: state that survives a trial (registry, slots, scene,
references, lock of a target) is carried into exactly one next trial, so two trials show every inheritance;
`GzScene` takes four so that two late requests can be carried out in later trials; the worker's loop over
trials is proved. *SIGINTs*: two in the run of a fair worker, so that one meets the handling of another; the theorems hold for any number. *Recycled
ids*: one stranger is enough to be hit. *Goals*: two, because the node has one slot of everything, so any
confusion is between two goals. *Transitions*: six, enough for configure, activate, deactivate, clean up and a
second activation. *Attempts and captures*: two, so that a success follows a failure and a number follows a
number. *Calibrations*: with tolerance 1, one that scales, one off by the tolerance, one by more, one of another
aspect ratio. *MaxRetries* is 3 where the code has 5: the loop's body does not depend on the count. *MaxSlow* 1 in
the engine: the late request already meets every later step. *Targets*: one position suffices to tell command, home and
zeros apart; two (11 million states) agree. *Collection policy*: one row; a second begins where the first
began, and `Horizon` 5 ticks leave room for a repeated, a late and a fresh observation. *Final policy*: one lift and one
approach step, `Horizon` 4 images: lock (two), one of before a stop, one after it. *PortVision*: four sure
detections of one port class at several pixels and one of another port, at most two per camera: enough for a true
place, a false pairing of the same class and a pairing of two ports. *Dashboard*: two values, and fewer trials than
`maxStoredTrials`. *Editor*: two contents, drafts among them the empty one, two changes (an edit and a rewrite, or two
edits), one mishap, and one other directory that may be opened, that of one image and of the one to come. *PoseLabels*: 12 of the 24 rotations, those whose port axis is up, down or
level in one direction (the remaining level ones are left out for size). *TrialInputs*: three NIC rails where the code has five, a buffer of two depth frames
where it has 32, command lines of every kind of plan and of every refused bound that changes a plan.
*Evaluation*: two trials, so that one is under way while the other is read; a writer is of no interest once the report is
written; tiers of 3 and 5 mm, so that one of them is a box of the coverage and one is not, and extents of 3 and 6.  *ParallelRun*: one event of a worker on its way (`MaxQueue`) beside any number of lines that have not reached the
queue; two mishaps, so that a second meets the handling of the first.

Deadlock is not checked in the runs, as each system may stop: the worker exits, the engine is
done, a node is finalized, a controller stays inactive. `parallel_run` is the exception: a parent that waits for
ever for a child that has ended would be found.

**Fairness.** `Collector`: weak fairness of the worker, a running Python thread whose waits have
deadlines, and strong fairness of `GiveUp`: the deadline passes after finitely many polls.
`AicModel`: weak fairness of each goal's loop and of the accept callback, which the executor
schedules; this assumes that the node's clock advances (the loop's timer runs on it; with a
simulated clock that has stopped, no cancellation is noticed). No fairness of the policy:
it may never return. `DatasetStore`: weak fairness of each process, and the assumption that
skipped waypoints end (`<>[][~Skipped(w)]_vars`): the code's own loop resets its attempt
counter on a skip and is bounded only by time limits outside it. `AicEngine` and `CollectLoop`: weak
fairness of the engine's and of the policy's thread for the steps that wait for no clock, and of late lifecycle requests. Everything else these
two threads do waits on the *simulated* clock (`use_sim_time`: `aic_gz_bringup.launch.py:251`, `runtime.py:455`): the engine's deadlines
(`aic_engine.cpp:141-144`, `1175-1198`, `1259-1290`, `1748-1762`) and the policy's `sleep_for`, which also paces the loops whose deadlines are monotonic. A simulator that stalls stops them,
and the code has nothing against it. `EngineEnds` and `Terminates` therefore are implications from a named assumption, `ClockAdvances`: weak fairness
of the steps that such a wait precedes, be it with the answer or at the deadline. For the engine it is further assumed that the model answers goal requests;
nothing else is assumed of simulator, robot, adapter and TF. The processes of `DatasetStore` are these policies, so its weak fairness also supposes a clock that goes on.

## 4. Disagreements found while modelling

1. **A goal can be answered with another goal's result** (`aic_model_result`, `ResultIsOwn`).
   `InsertCable.action:8` says `success` is "True if the task succeeded". A canceled goal's policy
   thread runs on and writes the one `_action_thread_result` (`aic_model.py:237`), which the next
   goal's callback sends.
2. **Two SC ports stand on one rail** (`sc_rails`, `OnOwnRail`). `docs/qualification_phase.md:59` and
   `aic_bringup/README.md:222` put `SC_PORT_1` on `SC_RAIL_1`; `task_board.urdf.xacro:211-213` fixes `sc_port_1` at the
   rail of `sc_port_0`.
3. **The editor does not know the collection policy** (`editor_policy`, `OccludedAreKept`).
   `bounding_box_tool/README.md:93` promises that Auto Visibility keeps completely occluded objects of a near-port dataset.
   `load_collection_policy` looks for `sampling` in `yolo_pose.yaml`; the collector writes it to `data.yaml`. So
   the policy is never known, occluded objects are deleted, and keypoints judged occluded by depth are set visible.

The models also show the following, which no run states separately. Properties named here are defined in the modules:

- `Collector`: an `OSError` from Popen is not caught in the trial loop, so the remaining trials
  are dropped (`README.md:125-126` of `phy_data_collection` says the worker goes on with the
  next index). On interrupt, `terminate_owned_group` looks at no ownership marker: a group
  whose processes are gone but which stayed in `active_groups` (its bag did not validate) is
  signalled again, under an id the kernel may have given away (`main.py:394`, `:435`). `RemnantReported` therefore
  excludes interrupts and OS errors, and `AccountedFor` names the ways to lose a group. The last of them is a
  SIGINT in the outer `finally` block, which skips the last save of the registry (`main.py:864-865`). `cleanup_stale_processes` promises to signal "only
  owned PGIDs" (`lifecycle.py:286`), but it looks at the marker once (`lifecycle.py:308`) and then signals the id up to three times, seconds
  apart (`:136-151`): a group that ends and whose id is taken over in that time has a stranger killed. `StaleSparesStrangers` names exactly those strangers.
- `ParallelRun`: a child that was started but is not yet in the list is not signalled on an interrupt, and the
  interpreter's exit waits for it; terminated children are not waited for; with `--resume` the captures of earlier
  runs count toward the expected number (`ExitTellsTruth` holds all the same, by the exit codes); lines of a trial that arrive after
  its end are dropped, so that the display may count too few.
- `TrialInputs`: `_range_from_env` sorts a pair, so a negative `--dz-max-mm` passes `main.py:491-492`, which looks
  at the lower bound only, and plans samples nearer than the clearance; `PlanIsSafe` leaves out command lines with `dz_max < dz_min`.
  A weight of `inf` passes the runner and is dropped by the policy, which then takes all weights as 1. Rounding
  may leave no trial for training.
- `DatasetStore`: the calibration tolerance is not transitive: two captures may differ by twice of it. On `--resume` a row may
  show another shot (`RowIsOneShot`): image paths carry no run id, so a resumed run can overwrite images of earlier rows.
- `Evaluation`: a cut line in either file makes every later report fail, one in `trials.jsonl` also every later new trial
  (`_read_trial_record`). The two sections of one report may be of different moments.
- `AicModel`: the loop of an aborted goal clears `goal_handle` up to a second later, whoever owns
  it by then (`aic_model.py:296`); a client that does not wait for results can get a third goal accepted beside a second.
- `AicEngine`: a board that fails to spawn is only logged (`aic_engine.cpp:1333`; `aic_engine.hpp:87`
  says both are spawned), so the trial runs without a port. A trial whose task runs into its
  time limit keeps the state `TasksExecuting`, where `aic_engine.hpp:90` promises the next one.
  The compliance check for motion before activation listens to topics nobody publishes.
- `GzScene`: contacts with the boards of later trials are not published (`ContactsSeen`): the plugin resolves names to entities
  only while some are missing.
- `AicController`: a change of mode can be undone by the control cycle it meets (`Maintains`): `update()` copies the
  references (`aic_controller.cpp:867-868`) and writes them back (1060-1061). `update()` returns ERROR, and the controller manager then stops the
  controller, when a change of mode empties a message or target it has just tested
  (`ErrorsOnlyRaced` shows it needs such an overlap). A first joint command whose box is busy when
  `update()` tries it leaves an empty message, whose stiffness is then read (`:1731`). The tracking timeout
  clears `motion_update_received_` although a newer command may just have arrived (`:982`). A command whose callback has seen the
  controller active and is delayed until after a deactivation and the next activation drives the robot to a position of the earlier trial;
  `NoReplay` excepts that one command (`crossed`).
- `FinalPolicy`: `insert_cable` writes `self._target` and reads it again after a publish (`FinalPolicy.py:478-486`). When the thread of a canceled goal
  comes to these lines in between, or the successor's does, the arm goes to the port of the other task; `OwnPort` says that there is no other way.
- `PortVision`: with two cameras that see the target, detections of two different ports can pair up to a place where there is
  none; `EveryCameraAgrees` asks for all three.
- `Dashboard`: a page that stays open when the server is restarted mixes two trials in one tab (`TabIsOfOneTrial`).
- `AnnotationEditor`: a deletion names an image by its index only, and after another tab's deletion removes another image than the
  one confirmed. Between the revision check and the replace another process may write the label (`editor.py:267-274`; `README.md:76-78` says the
  save is refused), and between the two reads of a load or a save the tab may be given a revision its annotations are not of (`233-236`, `274-275`): the next save
  then replaces what the tab has not shown. `NoUnseenOverwrite` excepts exactly these tabs (`raced`) and nothing else; without the exception it
  is violated. A save drops the lines that could not be read, of
  which the tab shows a warning. Labels with a flat box or a visibility of 3 load and cannot be saved. Edits made while
  a save is on its way are replaced by its answer (`app.js`, `markSaved`), and a late answer to Auto Visibility may land
  on another image; both need two requests of one tab, which the model does not have.

## 5. Proofs

| Module | Theorems | Argument |
|---|---|---|
| `ProcessProofs` | of `Collector`: `Invariance`, `TypeCorrect`, `NamedHolds`, `RecordedHolds`, `AccountedForHolds`, `CleanExitHolds`, `RemnantReportedHolds`, `TeardownOrderHolds`, `StaleCleansHolds`, `StaleSparesStrangersHolds`; of `AicModel`: `NodeInvariance`, `NodeTypeCorrect`, `SuccessIsRealHolds`, `OwnResultHolds`, `NeverLockedOutHolds`; of `GzScene`: `SceneInvariance`, `SceneTypeCorrect`, `FreeGripperHolds`, `OneHoldHolds`, `ResetUnderControlHolds`, `FirstContactsSeenHolds` | inductive invariants `IInv` of `Collector`, `NodeInv` of `AicModel` and `SceneInv`, defined there |
| `MotionProofs` | of `AicController`: `Invariance`, `TypeCorrect`, `NoReplayHolds`, `SwitchHoldsAlways`, `ErrorsOnlyRacedHolds`; of `CollectLoop`: `CollectInvariance`, `CollectTypeCorrect`, `CapturedAtRestHolds`, `NoPressOnHolds` | inductive invariants `IInv` and `CollectInv`, defined there |
| `LabelProofs` | of `AnnotationEditor`: `KeptInvariant`, `EditorTypeCorrect`, `NothingLostHolds`, `DeletionInvariant`, `AllOrNothingHolds`, `ShownInvariant`, `NoUnseenOverwriteHolds`; of `TrialInputs`: `NearestDepthHolds`, `LabelsMatchSceneHolds`, `PlanIsSafeHolds` | inductive invariants `KeptInv`, `DeletionInv`, `ShownOK`, `DepthInv`, `SceneInv` and `PlanInv`, defined there; lemmas about filters over sequences and totals |
| `PoseProofs` | of `PoseLabels`: `ReproducedHolds` | inductive invariant `PoseInv`, defined there; lemmas about vectors, matrices, rotations and motions |
| `ParallelRunProofs` | of `ParallelRun`: `ExitCode`, `NeverOvercountsHolds`; of `Evaluation`: `ReportAddsUpHolds` | inductive invariants `IInv`, `QInv` and `ReportInv`, defined there; lemmas about sums |
| `FinalPolicyProofs` | of `FinalPolicy`: `Invariance`, `TypeCorrect`, `OwnPortHolds`, `FreshLicenceHolds`, `StoppedEvidenceHolds`; of `Dashboard`: `BoardInvariance`, `SnapshotIsOfOneTrialHolds`; of `PortVision`: `EveryCameraAgreesHolds` | inductive invariants `IInv`, `BoardInv` and `VisionInv`, defined there |
| `AicEngineProofs` | `Invariance`, `TypeCorrect`, `OwnSceneHolds`, `ScoresOwnBagHolds`, `EndsFinalizedHolds`, `RunImplemented` | inductive invariant `IInv`, and the step simulation of `EngineRun` |
| `DatasetStoreProofs` | `Invariance`, `TypeCorrect`, `ReferencedHolds`, `OkIsCompleteHolds`, `RowIsOneShotHolds`, `LogImplemented` | inductive invariant `IInv`, and the step simulation of `CaptureLog` |

Each module proves that `Init` implies the invariant, that every action preserves it (one step per
action), and that it implies the properties. All constants are arbitrary within the named assumptions
of the specification (`CollectorAssumption`, `AicModelAssumption`, `EditorAssumption`, ...; those of the instances of an MC module are stated there, as
`MCLabelsAssumption`, `MCFinalPolicyAssumption` and `MCParallelRunAssumption`). Theorems without a run
(`RecordedHolds`, `AccountedForHolds`, `RemnantReportedHolds`, `StaleCleansHolds`, `SuccessIsRealHolds`, `FreeGripperHolds`,
`ErrorsOnlyRacedHolds`, `RowIsOneShotHolds`) state parts of a property a run checks, or what the property rests on.

*Collector.* `AccountedFor` speaks only of the moments between trials, so it is strengthened to every
control point: `Held` says a live group is owned, lost, or in flight (about to be adopted or
discovered); `Ahead` and `BornOK` say which groups do not exist yet, so that a launch never revives one that
was given up; `LateInner` says a simulator whose last discovery has passed is already born or written
off. `TornDown` carries what the teardown has verified from stop to stop, `Reported` carries it
across trials, `StaleOK` through the `--cleanup` loop; `AimOK` says that the only strangers with the id being stopped came after the look at the marker.

*AicModel.* `GoalOK` ties a goal's status to its loop, thread and answer for every client.
`SlotOK` says that with a sequential client only one goal is busy, so the node's single slots are
its own; `ResultOK` that, unless another goal was cut off, nobody else can write the result slot.

*GzScene.* `FreeGripper` speaks of a world without a cable. `WorldOK` says that removals are
carried out in the iteration that requested them, so a removed cable's plugin has run its
cleanup; `HandlesOK` which handles the plugin has in each state; `HeldOK` that these handles,
with the removals requested, account for everything it ever made. `HomeOK`: while the controller
is on, or a request to turn it on is queued, no reset is pending. `ContactsOK`: the names stay
open until two are found, and in the first trial those two can only be the enclosure and its board.

*AicController.* `NoReplay` is about one write at the end of a cycle. `SinceOK` follows the
positions to it: every target, message, box and local copy `update()` may still act on was seen
since activation or is of the one command in `crossed`, except a box that `on_activate` found busy (it is filled again before it is read) and the
zeros of an empty joint message, which are never interpolated. `CalmOK` says the same of the
positions of the current mode since the last switch, as long as nothing overlapped, and that the
other mode has none. `PlacesOK` ties local copies to the program counter.

*CollectLoop.* `CapturedAtRest` rests on what two equal frames prove, although the controller may take up a command a tick
late and an observation may be read twice or not at all. `Nearer`: a robot that follows its command and is not at rest is
at least one step nearer to it for each tick between two frames, so two frames of it cannot be equal. `Followed` says
of the newest frame and of the last one counted that a reference equal to the command means a robot at rest or such a
robot, and that only the first frame after the command may show another reference; two different frames of after the command that
agree therefore show the command as their reference and a robot at rest (`Settled`). It stays at rest until the next command
(`ObserveOK`), which is why an image of a tick before its controller state shows the same pose (`ShotOK`). `TouchOK`: a contact that is not
undone finds the policy at the two steps that undo it, which is `NoPressOn`. Positions are any integers, since a contact
after a retreat that overshot may move the next start further.

*ParallelRun.* `ExitCodes`: only a dead worker has an exit code, the trials of a live one are to come, under way or ended,
and one that exits with 0 had no failure and left nothing. `Verdict`: the parent reaches 0 only past the exit codes of all
workers. `Whole`: an "ok" trial has its captures. `Births`: workers are started in order, each once. With `Dealt`, every trial is
some worker's.

`NeverOvercounts` compares what the parent has counted with what is in the dataset. `QInv` follows a capture on its way: each line of
a worker and each event of the queue tells of a capture that is in the dataset (`Told`), no two of one trial tell of the same one
(`Counted`), the parent's number of a trial is at most that of its captures (`Tallied`), and the ends on display with those still on
the way are the trials that ended (`Lossless`, `Drained`). The comparison of trials carries over to the sums by lemmas on `Total`: induction on the size of a set
is out of reach, so they take a smallest subset for which the statement fails.

*Evaluation.* `LinesOK` says that a trial's line is the only one of it and comes before those of its captures, whose numbers are at most
the trial's count, so the next number is new (`WriterOK`). What the reader holds is a beginning of the files, with a trial for
each capture (`ReadOK`): no row is inconsistent. What is counted by a feature adds up to all that has it (`CountsAddUp`), for splits, tiers
and the tiers within a box. Between the sections lines are only added, so no split loses a capture (`Counting`). A percentile lies between two
ranked values, and a value of a rank is one of the values (`RankedIs`). `EvaluationAssumption`: tiers and errors are
naturals, tiers finitely many.

*FinalPolicy.* Every property is of one thread; what the threads share is `estimate`, and of it the proof needs only that it
is of an image taken before (`Given`), and `shared_target`, of which it needs only that a goal which reads it back and is not in `overtaken` finds its own. `Stamps`: no image is of the future, and a guard's image and a stop are of the time since
that guard was called. `Hits`: each hit stands for an image of its own among those after the stop (`Evidence`), although
a result may be read twice, and one begun before the stop may arrive after it. `Licensed`: where a waypoint is sent, its
licence is of the task's class, of the locked place, fresh, and after a stop backed by `ReacquireHits` such hits.

*Dashboard.* A page may be answered between the two locks of `_on_task`, when the callbacks' frames are already of the next task and
the state is still of the last. `Shows` says of the live state what the page must show; `FramesOK` that the frames looked up
are those of the task shown, except at that moment, when no orientation of the cable is there to be of the wrong one and, the
executor being single-threaded, nobody writes. A restart returns to the empty state, the page keeps its snapshot.

*PortVision.* Three exact detections of one port make a candidate whose error is zero in each camera. Candidates are finite, so one
is the least by error, then by the order of the loops: `Best` exists, its error is zero too, and as an error is a sum of squares, it is
zero in each camera (`VisionInv`, for the estimate sent and the one kept). `VisionAssumption` says that ports stand in the workspace, before the cameras.

*AnnotationEditor.* `KeptInv`: every row of a label, and every row a save or a deletion is about to write, has its files, and what
a deletion has set aside is put back or has no row. `DeletionInv` adds what a deletion under way finds and leaves (`DeletionOK`), which rows a writer
may still add (`FutureOK`) and that no two rows have the same image (`EntriesOK`). The latter needs `OwnImages`: image paths carry no run, so a `--resume` may use
one again, as under `OwnDirectories` below. `ShownOK` says of a request that its revision is that of the text its tab has shown, and that the file
still has it when the save replaces it, unless the tab is in `raced`; a tab leaves it when it is shown what its revision says.

*TrialInputs.* `NearestDepth` is of the frame the policy takes, by then of several. `DepthInv`: stamps grow, so once a held frame is
not older than the image, each later one is farther from it; until then the policy waits, or its time is over.

`LabelsMatchScene` follows the mask from the runner to the labels. `SceneInv`: the bits of the task id are those of a set of
rails which read back give that set (`BitsAre`), the rail of the target among them (`TaskOK`); the board that is asked for has the
cards of that set where the metadata says (`BoardOK`), and so has the board that stands, whatever the launch file declares
beside (`FixturesOK`); therefore every port that is asked for is found (`AskedFound`), and the rows are of classes the
data set names. Two SFP ports have two classes since a port's index is less than `PortCount` (`ClassInjective`).

`PlanIsSafe` adds up what the plan has and what it lacks. `PlanInv`: arguments that were accepted give a configuration in order
(`ConfigOK`); as long as a near-port plan is under way, its samples and what its tiers have yet to get are as many as the steps, and no tier
that waits is larger than one that had its samples (`Underway`). The shares rounded down and the rest that goes to the largest
remainders are the steps by their definition, which `CountsAre` shows with totals as numbers of places (`TotalMore`, `TotalTaken`): a sum by
recursion could not be reasoned about. Every value of a stratified axis is within its range (`AxisValues`), and a range scaled
to a tier stays one that does not start below 0 (`ScaledRange`), so no sample is nearer than the base.

`BoardAssumption` says what the runner and the launch file agree on: translations within the limits `scenario.py` draws from, an SC port for
each SC rail, the choices of `--port-type`; `ArgsAssumption` the types and choices of the other arguments, and that the
clearance of a descent is not less than that of a port.

*PoseLabels.* `Reproduced` is an equation over products of rotations. A rotation is a matrix that some integer quaternion
names (`Names`: its norm times an entry is what `quaternion_matrix` enters before it divides). The product of two quaternions names the
product of their matrices (`NamesProduct`), the conjugate the transpose (`NamesConjugate`), the transpose is the inverse
(`NamesOrthogonal`), and `matrix_quaternion` gives back a quaternion of the matrix whichever of its four branches it takes, since
each branch is a multiple of the one that was there and its factor is not zero (`NamesBack`). Hence motions are a group
(`ComposeCompose`, `ComposeInverse`) and what is written as a pose or as a logarithm is read back (`RecordBack`, `LogExp`). From there on `Reproduced` is
algebra of motions: a plan that does not slip takes the plug to `PlugThere`, where the products with the port's axes give the offset of
the sample back (`PlacedIs`), a board view puts the board along the camera's columns (`HitView`), and a row joins with whatever
motions it was written against (`WrittenJoins`). `PoseInv`: constants and trial name motions, which a later capture keeps (`AppendJoined`); the plan under way
is one for a sample from the scene as it is (`PlanFor`). `PoseAssumption`: poses, slips and mounts are of the 24 rotations,
each by any quaternion of it, at any whole position; samples turn by quarters; how many there are, and the number of
captures, is arbitrary. Rotations by other angles stay outside: the code's arithmetic on them is not exact.

*AicEngine.* `EndsFinalized` is about a model that may still have requests to serve that the engine has given up on.
`FateOK` says where they lead it (`Leads`, a path through the queue): once a trial is over, not to "active", and each transition of
the end of run takes that state one further. `SceneOK`: as long as no simulator call was late and no
delete failed, every entity is of this trial and listed, so that the deletes of the reset, retried or not, remove them all;
`BagsOK`: from the recording on there is one bag and it is the trial's. `PlaceOK` ties place, trial and engine state
together. For `RunImplemented`, a step within a trial changes no result (`WithinTrial`), and each of the others is a step of `EngineRun`.

*DatasetStore.* `LockOK` puts one worker at a file at a time, `ConstantsOK` and `TrialOK` carry what it found there to its row:
`constants.json`, once written, stays, and is within the tolerance of its candidate; the trial's row is there.
`RowsOK` says which rows exist already, so that numbers are not used twice; `CountOK` and `ImagesOK` which rows and images there are, until an
append is cut short: from then on nobody can append a row that is read (`OnceTorn`).
`LogImplemented` assumes `OwnDirectories`: no two trials share an image directory. The trials of one run do not (each has its index in
its path); a `--resume` counts from 0 again, and `RowIsOneShot` may then fail (section 4). Under it, the images of a
capture under way are of its own shot (`ShownOK`), those of a row are never written again
(`RowKept`), and a step shows readers the next capture or nothing (`StepOfLog`).
`DatasetStoreAssumption` says that a trial is one policy process (it occurs once in the queues) and that a camera occurs once in
the order of the images.

The invariants of `Collector` and `AicModel` were checked by TLC with their runs' instances, as were those of the others,
before the proof.

Only model-checked: all liveness properties (fairness and ENABLED are out of the prover's reach).

## 6. Plan

Done: the collection from its command line to its report (`TrialInputs`, `ParallelRun`, `Collector`, `CollectLoop`,
`DatasetStore` refining `CaptureLog`, `Frames`, `PoseLabels`, `Evaluation`), the tools on it (`AnnotationEditor`, `Dashboard`), the
evaluation (`AicEngine` refining `EngineRun`, `AicModel`, `GzScene`, `AicController`) and the final policy (`FinalPolicy`,
`PortVision`); proofs of `Collector`, `AicModel`, `GzScene`, `AicController`, `CollectLoop`, `FinalPolicy`, `PortVision`, `Dashboard`, `AnnotationEditor`, of `AicEngine` and
`DatasetStore` with their refinements, of the exit code and the counts of `ParallelRun`, of `Evaluation`, and of the labels, plans and depth frames of `TrialInputs`, of the poses of `PoseLabels`.

Next, most important first:

1. `AicEngine` composed with `AicModel` in place of its abstract model, to replace the assumption that goals are answered.
2. `Adapter` (joining of messages) and `ScoringRecorder` (subscriptions and locks of the recorder).

## 7. Not modelled

- Numerics: controller laws, kinematics, interpolation, tier scores, vision on pixels, wrenches. TLC and TLAPS
  have no use for real arithmetic; what is exact on integers (`Frames`, `PortVision`) is modelled.
- `aic_adapter` and the locks of `ScoringTier2`: planned. The part of both that others depend on is in `CollectLoop` and `FinalPolicy`
  (observations that lag or repeat) and in `AicEngine` (start, wait, stop and reset of a recording).
- Launch files other than the board's, assets, message definitions, YAML layouts, log texts, environments of processes: configuration and data.
- The training notebook, other simulators (`aic_utils`), teleoperation and example policies: clients of interfaces modelled here, with no
  protocol of their own.
