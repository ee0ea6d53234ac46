----------------------------- MODULE Dashboard -----------------------------
(***************************************************************************)
(* The policy dashboard (tools/policy_dashboard): ROS callbacks, one at a     *)
(* time, write what FinalPolicy and the controller publish into a             *)
(* DashboardState; the web server's thread reads it for every open page.  The  *)
(* state has a lock, but a callback takes it once for each value it writes,    *)
(* so that a page may be answered between two of them.                        *)
(* A value is the frame it is of, its sequence number and, as a ghost, the     *)
(* trial during which it was stored; coordinates are left out.                *)
(***************************************************************************)
EXTENDS Integers, Sequences, FiniteSets

CONSTANTS Cameras,      \* CAMERAS
          Tasks,        \* tasks a policy may publish: [cable, port, valid]
          FixedCables,  \* --cable-frame: a frame, or NoFrame
          MaxTasks,     \* bound: tasks published
          MaxReceived,  \* bound: values, images and readings received
          MaxRestarts   \* bound: restarts of the server

VARIABLES mailbox,    \* the task topic: the newest task not taken, depth 1
          published,  \* the task the policy published last, and how many there were
          fixed,      \* _fixed_cable_frame
          frames,     \* _task_cable_frame, _task_port_frame
          callback,   \* the callback under way, by what it writes next
          live,       \* DashboardState
          filtered,   \* the torque filter's state: none, reset, blended
          page,       \* an open page: its snapshot and its tabs
          streamed,   \* sequence of the last image of each stream
          received,   \* values received, for the bound
          restarts

vars == <<mailbox, published, fixed, frames, callback, live, filtered, page,
          streamed, received, restarts>>

None    == <<>>
NoFrame == ""
Sources == {"port", "ee", "cable"}

Empty ==
    [trial |-> 0, task |-> None, point |-> None, wrench |-> None,
     images |-> [c \in Cameras |-> 0],
     positions |-> [s \in Sources |-> None],
     orientations |-> [s \in {"ee", "cable"} |-> None]]

Init ==
    /\ mailbox = None /\ published = [task |-> None, count |-> 0]
    /\ fixed \in FixedCables
    /\ frames = [cable |-> NoFrame, port |-> NoFrame]
    /\ callback = "none" /\ live = Empty /\ filtered = "none"
    /\ page = [snapshot |-> Empty, tabs |-> None]
    /\ streamed = [c \in Cameras |-> 0] /\ received = 0 /\ restarts = 0

Page == <<page, streamed>>

-----------------------------------------------------------------------------
(* The policy's side.                                                       *)

PublishTask ==
    /\ published.count < MaxTasks
    /\ \E t \in Tasks :
         /\ mailbox' = <<t>>
         /\ published' = [task |-> <<t>>, count |-> published.count + 1]
    /\ UNCHANGED <<fixed, frames, callback, live, filtered, Page, received, restarts>>

-----------------------------------------------------------------------------
(* DashboardState: each of these is one section under the lock.             *)

Sequence(value) == IF value = None THEN 1 ELSE value[1].sequence + 1
Value(old, frame) == <<[frame |-> frame, sequence |-> Sequence(old), trial |-> live.trial]>>
Received == received < MaxReceived /\ received' = received + 1

WritePosition(source, frame) ==
    /\ Received
    /\ live' = [live EXCEPT !.positions[source] = Value(@, frame)]

\* An orientation has no sequence number; a quaternion of length zero is refused.
WriteOrientation(source, frame) ==
    /\ live' \in {live, [live EXCEPT !.orientations[source] = Value(None, frame)]}
    /\ UNCHANGED received

\* Mutant: only the point of the trial before is discarded.
DiscardsPoint(l) == [l EXCEPT !.point = None]

\* What a new trial discards of the one before.
Discards(l) == [l EXCEPT !.point = None, !.positions = [s \in Sources |-> None]]

-----------------------------------------------------------------------------
(* The callbacks of a SingleThreadedExecutor.                               *)

Cable(t) == IF fixed = NoFrame THEN t.cable ELSE fixed

\* _on_task: names that cannot be frames are ignored; the cable's orientation
\* goes first.
OnTask ==
    /\ callback = "none" /\ mailbox # None
    /\ mailbox' = None
    /\ LET t == mailbox[1] IN
         IF t.valid
         THEN /\ frames' = [cable |-> Cable(t), port |-> t.port]
              /\ live' = [live EXCEPT !.orientations["cable"] = None]
              /\ callback' = "task"
         ELSE UNCHANGED <<frames, live, callback>>
    /\ UNCHANGED <<published, fixed, filtered, Page, received, restarts>>

\* update_task
UpdateTask ==
    /\ callback = "task"
    /\ live' = [Discards(live) EXCEPT !.trial = @ + 1, !.task = <<frames>>]
    /\ callback' = "none"
    /\ UNCHANGED <<mailbox, published, fixed, frames, filtered, Page, received, restarts>>

\* _on_controller_state: a position, then an orientation.
OnControllerState ==
    /\ \/ /\ callback = "none"
          /\ WritePosition("ee", "gripper/tcp") /\ callback' = "ee"
       \/ /\ callback = "ee"
          /\ WriteOrientation("ee", "gripper/tcp") /\ callback' = "none"
    /\ UNCHANGED <<mailbox, published, fixed, frames, filtered, Page, restarts>>

\* _update_spatial_transforms: the cable's position and orientation if there is
\* a transform, then the port's position.
CableFrame == IF fixed = NoFrame THEN frames.cable ELSE fixed
OnTimer ==
    /\ \/ /\ callback = "none"
          /\ \/ UNCHANGED <<live, received>> /\ callback' = "port"
             \/ /\ CableFrame # NoFrame
                /\ WritePosition("cable", CableFrame) /\ callback' = "cable"
       \/ /\ callback = "cable"
          /\ WriteOrientation("cable", CableFrame) /\ callback' = "port"
       \/ /\ callback = "port" /\ callback' = "none"
          /\ \/ UNCHANGED <<live, received>>
             \/ frames.port # NoFrame /\ WritePosition("port", frames.port)
    /\ UNCHANGED <<mailbox, published, fixed, frames, filtered, Page, restarts>>

\* _on_point
OnPoint ==
    /\ callback = "none" /\ Received
    /\ live' = [live EXCEPT !.point = Value(@, "base_link")]
    /\ UNCHANGED <<mailbox, published, fixed, frames, callback, filtered, Page, restarts>>

\* _on_image, of a message that can be encoded
OnImage(c) ==
    /\ callback = "none" /\ Received
    /\ live' = [live EXCEPT !.images[c] = @ + 1]
    /\ UNCHANGED <<mailbox, published, fixed, frames, callback, filtered, Page, restarts>>

\* _on_wrench: after a pause the filter starts from the raw torque.
OnWrench ==
    /\ callback = "none" /\ Received
    /\ filtered' \in IF filtered = "none" THEN {"reset"} ELSE {"reset", "blended"}
    /\ live' = [live EXCEPT !.wrench = Value(@, filtered')]
    /\ UNCHANGED <<mailbox, published, fixed, frames, callback, Page, restarts>>

-----------------------------------------------------------------------------
(* The web server and the page.                                             *)

\* appendTrace: a trace takes a value with another sequence number than the last
\* one (points that hardly moved, which are not drawn, count here too).
Traced(trace, value) ==
    IF value = None \/ (trace # <<>> /\ trace[Len(trace)].sequence = value[1].sequence)
    THEN trace ELSE Append(trace, value[1])

\* updateCoordinateViewer: the tab of the trial that is shown (fewer trials than
\* maxStoredTrials).
Viewed(tabs, s) ==
    IF s.task = None THEN tabs
    ELSE LET old == IF s.trial \in DOMAIN tabs THEN tabs[s.trial]
                    ELSE [ee |-> <<>>, cable |-> <<>>]
             new == [ee |-> Traced(old.ee, s.positions["ee"]),
                     cable |-> Traced(old.cable, s.positions["cable"])]
         IN  [n \in DOMAIN tabs \cup {s.trial} |-> IF n = s.trial THEN new ELSE tabs[n]]
\* api_state answers from snapshot, which copies the state under the lock.
Poll ==
    /\ page' = [snapshot |-> live, tabs |-> Viewed(page.tabs, live)]
    /\ UNCHANGED <<mailbox, published, fixed, frames, callback, live, filtered,
                   streamed, received, restarts>>

\* stream: an image is sent once, and images that were replaced are skipped.
Stream(c) ==
    /\ live.images[c] \notin {0, streamed[c]}
    /\ streamed' = [streamed EXCEPT ![c] = live.images[c]]
    /\ UNCHANGED <<mailbox, published, fixed, frames, callback, live, filtered,
                   page, received, restarts>>

\* The server is stopped and started; the task topic is TRANSIENT_LOCAL, so that
\* the last task is delivered again.  Streams break, pages stay open.
Restart ==
    /\ restarts < MaxRestarts
    /\ restarts' = restarts + 1
    /\ live' = Empty /\ callback' = "none" /\ filtered' = "none"
    /\ frames' = [cable |-> NoFrame, port |-> NoFrame]
    /\ mailbox' = published.task
    /\ streamed' = [c \in Cameras |-> 0]
    /\ UNCHANGED <<published, fixed, page, received>>

Next ==
    \/ PublishTask \/ OnTask \/ UpdateTask \/ OnControllerState \/ OnTimer
    \/ OnPoint \/ OnWrench \/ Poll \/ Restart
    \/ \E c \in Cameras : OnImage(c) \/ Stream(c)
Spec == Init /\ [][Next]_vars

-----------------------------------------------------------------------------
\* "Start an observed trial and discard its predecessor's live values"
\* (models/dashboard.py:200).  Whenever a page is answered, also in the middle of
\* a callback, the positions and the point it shows were received during the
\* trial it shows, and port and cable are the frames of that trial's task.
SnapshotIsOfOneTrial ==
    LET s == page.snapshot IN
    s.task # None =>
      /\ \A p \in {s.positions[x] : x \in Sources} \cup {s.point} :
           p # None => p[1].trial = s.trial
      /\ \A v \in {s.positions["cable"], s.orientations["cable"]} :
           v # None => v[1].frame = s.task[1].cable
      /\ s.positions["port"] # None => s.positions["port"][1].frame = s.task[1].port

\* README.md of the tool: traces are kept in a tab for each trial.  A page that
\* stays open when the server is restarted takes up "Trial 1" again, and the tab
\* mixes two trials: a trace holds one sequence number twice.
TabIsOfOneTrial ==
    \A n \in DOMAIN page.tabs :
      \A i, j \in DOMAIN page.tabs[n].ee :
        page.tabs[n].ee[i].sequence = page.tabs[n].ee[j].sequence => i = j
=============================================================================
