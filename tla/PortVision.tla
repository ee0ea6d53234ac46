----------------------------- MODULE PortVision -----------------------------
(***************************************************************************)
(* final_policy_vision.py: from three images to the place of the port.        *)
(* The cameras stand in a row and look the same way: camera c, of -1, 0 and 1, *)
(* sees the point [m, d, h] at the pixel u = m - c * d, v = h, where d is the  *)
(* inverse of its distance and m and h are its bearings from the center;      *)
(* before an image is taken the arm may have moved all of them by shift.      *)
(* With even pixels a triangulation is exact.  The four keypoints of a port are *)
(* one pixel; the normal of their plane is left out.                          *)
(***************************************************************************)
EXTENDS Integers, Sequences, FiniteSets, SequencesExt

CONSTANTS Tasks,       \* tasks: [port_type, rail, port], as the task's names spell them
          Ports,       \* places a port can be at
          Detections,  \* detections: [class, sure, points, uv]
          MaxSeen,     \* bound: detections of a camera in one image
          Shifts,      \* how far the arm has moved
          Slips,       \* what optical flow may be wrong by, in pixels
          Rails,       \* VALID_RAILS
          PortIndices, \* VALID_PORTS
          SyncMax,     \* sync_max_ns
          ReprojectionMax, TrackReprojectionMax,   \* squares of pixels
          JumpMax,     \* track_max_3d_jump_m, squared
          Workspace    \* workspace_min and workspace_max

VARIABLES target,    \* the class looked for, None before and without one
          stage,     \* "task", "look", "track", "done"
          shift,     \* the arm at the newest image
          seen,      \* the detections an estimate was chosen from, by camera
          estimate   \* the estimate, None without one

vars == <<target, stage, shift, seen, estimate>>

Cameras == {-1, 0, 1}
None    == <<>>
Nothing == [c \in Cameras |-> <<>>]

Init == target = None /\ stage = "task" /\ shift = 0 /\ seen = Nothing /\ estimate = None

-----------------------------------------------------------------------------
(* The class of the task.                                                   *)

\* parse_model_class: SFP_<rail><port> in range, or an error.
ModelClasses == {"SFP"} \X Rails \X PortIndices
parse_model_class(class) == IF class \in ModelClasses THEN <<class>> ELSE None

\* target_from_task: only SFP tasks, whose module and port name a rail and a port.
target_from_task(task) ==
    IF task.port_type = "sfp" THEN parse_model_class(<<"SFP", task.rail, task.port>>) ELSE None

TargetFromTask ==
    /\ stage = "task"
    /\ \E t \in Tasks :
         /\ target' = target_from_task(t)
         /\ stage' = IF target' = None THEN "done" ELSE "look"
    /\ UNCHANGED <<shift, seen, estimate>>

-----------------------------------------------------------------------------
(* Pixels and points.                                                       *)

Square(x)   == x * x
Away(p, q)  == Square(p[1] - q[1]) + Square(p[2] - q[2])
Apart(x, y) == Square(x.m - y.m) + Square(x.d - y.d) + Square(x.h - y.h)

\* project_point
project_point(c, x) == <<x.m - shift - c * x.d, x.h>>

\* triangulate_point, in cameras a < b: the rows need not agree.
triangulate_point(a, b, p, q) ==
    LET d == (p[1] - q[1]) \div (b - a)
    IN  [m |-> p[1] + a * d + shift, d |-> d, h |-> (p[2] + q[2]) \div 2]

InWorkspace(x) ==
    /\ Workspace[1].m <= x.m /\ x.m <= Workspace[2].m
    /\ Workspace[1].d <= x.d /\ x.d <= Workspace[2].d
    /\ Workspace[1].h <= x.h /\ x.h <= Workspace[2].h

\* A port stands in the workspace, before the cameras.
VisionAssumption ==
    /\ Shifts \cup Slips \subseteq Int /\ ReprojectionMax \in Nat
    /\ \A d \in Detections : d.uv \in Int \X Int
    /\ \A p \in Ports : p \in [m : Int, d : Int, h : Int] /\ InWorkspace(p) /\ p.d > 0

\* YOLO's results for an image: no detection twice, in any order.
Results == {r \in BoundedSeq(Detections, MaxSeen) : IsInjective(r)}

\* The one of a set of numbers that is its n-th.
Nth(numbers, n) ==
    CHOOSE k \in numbers : Cardinality({l \in numbers : l <= k}) = n

\* What _detect keeps of YOLO's results, in their order: the target's class, above the
\* confidence thresholds, with four finite keypoints.
Passing(results) ==
    {k \in DOMAIN results :
       parse_model_class(results[k].class) = target /\ results[k].sure /\ results[k].points}
Detected(results) ==
    [n \in 1 .. Cardinality(Passing(results)) |-> results[Nth(Passing(results), n)]]

-----------------------------------------------------------------------------
(* _estimate_candidates.                                                    *)

Seeing(found) == {c \in Cameras : found[c] # <<>>}

\* Every pair of cameras, every pair of their detections, and the order of the loops.
Pairs(found) ==
    UNION {[a : {c[1]}, b : {c[2]}, i : DOMAIN found[c[1]], j : DOMAIN found[c[2]]] :
             c \in {<<-1, 0>>, <<-1, 1>>, <<0, 1>>}}
Before(p, q) ==
    \/ p.a < q.a
    \/ p.a = q.a /\ p.b < q.b
    \/ p.a = q.a /\ p.b = q.b /\ p.i < q.i
    \/ p.a = q.a /\ p.b = q.b /\ p.i = q.i /\ p.j < q.j

Placed(found, p) == triangulate_point(p.a, p.b, found[p.a][p.i].uv, found[p.b][p.j].uv)

\* The detection of a camera that a pair is compared with: the pair's own, or the
\* one nearest to where the point should be seen.
Matched(found, p, c) ==
    CASE c = p.a -> found[c][p.i].uv
      [] c = p.b -> found[c][p.j].uv
      [] OTHER -> LET at == project_point(c, Placed(found, p))
                      near == CHOOSE k \in DOMAIN found[c] : \A l \in DOMAIN found[c] :
                                Away(found[c][k].uv, at) < Away(found[c][l].uv, at)
                                \/ (Away(found[c][k].uv, at) = Away(found[c][l].uv, at) /\ k <= l)
                  IN  found[c][near].uv

Error(found, p, c) == Away(Matched(found, p, c), project_point(c, Placed(found, p)))

\* Mutant: a third camera is not asked.
ComparedPair(found, p) == {p.a, p.b}

\* The cameras whose error counts: all that see the target.
Compared(found, p) == Seeing(found)

\* A candidate is in the workspace, before the cameras, and near a detection in
\* each camera compared.
Valid(found, p) ==
    /\ InWorkspace(Placed(found, p)) /\ Placed(found, p).d > 0
    /\ \A c \in Compared(found, p) : Error(found, p, c) <= ReprojectionMax

\* The mean is over the same number of cameras for all candidates.
reprojection(found, p) ==
    LET Of(c) == IF c \in Compared(found, p) THEN Error(found, p, c) ELSE 0
    IN  Of(-1) + Of(0) + Of(1)

\* The candidates by their error; equal ones stay in their order.
Candidates(found) == {p \in Pairs(found) : Valid(found, p)}
Best(found) ==
    IF Candidates(found) = {} THEN None
    ELSE LET best == CHOOSE p \in Candidates(found) : \A q \in Candidates(found) :
                       reprojection(found, p) < reprojection(found, q)
                       \/ (reprojection(found, p) = reprojection(found, q) /\ ~Before(q, p))
         IN  <<[xyz |-> Placed(found, best),
                uv |-> [c \in Seeing(found) |-> Matched(found, best, c)]]>>

-----------------------------------------------------------------------------
(* estimate and track.                                                      *)

\* _projection_data: all three images, taken at one time, with a transform.
Synchronized(stamps, transform) ==
    /\ \A c \in Cameras : stamps[c] # 0
    /\ \A a, b \in Cameras : stamps[a] - stamps[b] <= SyncMax
    /\ transform
Usable == \E stamps \in [Cameras -> 0 .. 2], transform \in BOOLEAN : Synchronized(stamps, transform)

Estimate ==
    /\ stage = "look"
    /\ \/ /\ \E stamps \in [Cameras -> 0 .. 2], transform \in BOOLEAN :
               ~Synchronized(stamps, transform)
          /\ UNCHANGED <<seen, estimate>> /\ stage' = "done"
       \/ /\ Usable
          /\ \E results \in [Cameras -> Results] :
               seen' = [c \in Cameras |-> Detected(results[c])]
          /\ estimate' = Best(seen')
          /\ stage' = IF estimate' = None THEN "done" ELSE "moved"
    /\ UNCHANGED <<target, shift>>

Move ==
    /\ stage = "moved"
    /\ shift' \in Shifts /\ stage' = "track" /\ seen' = Nothing
    /\ UNCHANGED <<target, estimate>>

\* Where optical flow finds the keypoints of the last estimate: where they are
\* now, or off by a slip; or it loses them.
Flowed(c, lost, slip) ==
    IF c \in DOMAIN estimate[1].uv /\ c \notin lost
    THEN <<[uv |-> <<estimate[1].uv[c][1] - shift + slip[c], estimate[1].uv[c][2]>>]>>
    ELSE <<>>

\* The flows that do not end far from where the port was.
Selected(lost, slip) ==
    [c \in Cameras |->
       LET flow == Flowed(c, lost, slip)
       IN  IF \A k \in DOMAIN flow : Away(flow[k].uv, project_point(c, estimate[1].xyz))
                                       <= TrackReprojectionMax
           THEN flow ELSE <<>>]

\* track: two cameras must be left, and the port must not have jumped.  Images that
\* are not usable, or not newer, give nothing.
Track ==
    /\ stage = "track"
    /\ \/ estimate' = None /\ UNCHANGED seen
       \/ \E lost \in SUBSET Cameras, slip \in [Cameras -> Slips] :
           LET best == IF Cardinality(Seeing(Selected(lost, slip))) < 2 THEN None
                       ELSE Best(Selected(lost, slip))
           IN  /\ seen' = Selected(lost, slip)
               /\ estimate' = IF best # None /\ Apart(best[1].xyz, estimate[1].xyz) <= JumpMax
                              THEN best ELSE None
    /\ stage' = "done"
    /\ UNCHANGED <<target, shift>>

Next == TargetFromTask \/ Estimate \/ Move \/ Track
Spec == Init /\ [][Next]_vars

-----------------------------------------------------------------------------
AgreeOn(x) ==
    \A c \in Seeing(seen) : \E k \in DOMAIN seen[c] : seen[c][k].uv = project_point(c, x)

\* A place is believed only if every camera that sees the target sees it there,
\* and detections of other things do not win over a port that all three cameras
\* agree on, whatever YOLO's order of them is (final_policy_vision.py:417-489).
EveryCameraAgrees ==
    stage \in {"moved", "done"} /\ estimate # None =>
      LET x == estimate[1].xyz IN
      /\ \A c \in Seeing(seen) : \E k \in DOMAIN seen[c] :
           Away(seen[c][k].uv, project_point(c, x)) <= ReprojectionMax
      /\ Seeing(seen) = Cameras /\ (\E p \in Ports : AgreeOn(p)) => AgreeOn(x)
=============================================================================
