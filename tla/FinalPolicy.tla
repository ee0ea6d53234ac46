---------------------------- MODULE FinalPolicy ----------------------------
(***************************************************************************)
(* phy_policy's FinalPolicy: insert_cable lifts the arm while YOLO looks for  *)
(* the port of the task, locks on a port that several images agree on, and    *)
(* approaches it waypoint by waypoint, each one cleared by a guard that       *)
(* tracks the port from image to image.  Every goal runs in a thread of its   *)
(* own with a pool of one YOLO worker; the participant node starts the next   *)
(* goal as soon as the one before is canceled, so the thread of a canceled    *)
(* goal, which may not even have begun, still shares _target, _estimate and   *)
(* the miss counter with its successor.                                       *)
(*                                                                         *)
(* An image is its stamp; an estimate [cls, spot, at] says that a port of     *)
(* class cls was seen at a spot in the image of stamp at.  Two positions are  *)
(* within the lock radius of each other exactly when their spots are equal.   *)
(***************************************************************************)
EXTENDS Integers, Sequences, FiniteSets

CONSTANTS Goals,         \* 1 .. n, in the order in which their threads begin
          Classes,       \* port classes a task may name
          Spots,         \* places at which a port can be seen
          LiftSteps,     \* AIC_DISTANCE_INITIAL_LIFT_STEPS
          ApproachSteps, \* AIC_APPROACH_STEPS
          LockHits,      \* AIC_TARGET_LOCK_HITS
          ReacquireHits, \* AIC_TRACK_REACQUIRE_HITS
          VisionRetries, \* AIC_APPROACH_VISION_RETRIES
          MaxMisses,     \* AIC_TRACK_MAX_MISSES
          Horizon        \* bound: images of the run

ASSUME FinalPolicyAssumption ==
    /\ Goals = 1 .. Cardinality(Goals) /\ IsFiniteSet(Goals)
    /\ {LiftSteps, ApproachSteps, LockHits, ReacquireHits, VisionRetries,
        MaxMisses} \subseteq Nat \ {0}
    /\ Horizon \in Nat
    /\ "none" \notin Classes  \* stands for no class

VARIABLES now,       \* stamp of the newest observation, 0 before the first
          task,      \* the class the goal's task names
          thread,    \* the goal's thread: where it stands and its locals
          shared_target, \* self._target, its class
          wanted,    \* the class the goal's PortVision was made for
          estimate,  \* self._estimate
          misses,    \* self._background_yolo_misses
          overtaken  \* ghost: goals whose target another thread wrote over
                     \* before it was read again

aims == <<shared_target, wanted, overtaken>>
vars == <<now, task, thread, aims, estimate, misses>>

NoClass == "none"
None == [cls |-> NoClass, spot |-> 0, at |-> 0]
Estimates == [cls : Classes, spot : Spots, at : 1 .. Horizon]

\* The future of the pool: the stamp of the image it looks at.
NoFuture == 0
submit_latest == now

\* A thread: step counts the waypoints of the current path, tries the turns
\* of the current loop; confirmations belongs to the lift, locked, image (the
\* observation the guard looks at) and hits, last, stop (the recovery, stop
\* being the stamp of the observation it began with) to the approach.  Ghosts:
\* entered, the newest image when the guard was called; row, the images in which
\* the last results in a row showed the locked port, since the stop; licence,
\* the estimate that cleared the waypoint.
At(place) ==
    [pc |-> place, step |-> 0, tries |-> 0, future |-> NoFuture,
     confirmations |-> <<>>, locked |-> None, image |-> 0,
     hits |-> 0, last |-> 0, stop |-> 0,
     entered |-> 0, row |-> {}, licence |-> None]

pc(g) == thread[g].pc
future(g) == thread[g].future
Return(g) == thread' = [thread EXCEPT ![g] = At("done")]

\* Mutant: any port at the place of the lock will do.
MatchesAnyClass(locked, e) == e # None /\ e.spot = locked.spot

\* _matches_locked_target.
Matches(locked, e) == e # None /\ e.cls = locked.cls /\ e.spot = locked.spot

Init ==
    /\ now = 0
    /\ task \in [Goals -> Classes]
    /\ thread = [g \in Goals |-> At("idle")]
    /\ shared_target = NoClass /\ wanted = [g \in Goals |-> NoClass] /\ overtaken = {}
    /\ estimate = None /\ misses = 0

-----------------------------------------------------------------------------
(* The adapter and the YOLO workers.                                        *)

Observe ==
    /\ now < Horizon
    /\ now' = now + 1
    /\ UNCHANGED <<task, thread, aims, estimate, misses>>

\* vision.estimate of the image submitted, chosen when the result is taken:
\* nothing (no synchronized images, no TF, no detection, an exception), or a port
\* of the class this goal's vision looks for.
Results(g) == {None} \cup {e \in Estimates : e.cls = wanted[g] /\ e.at = future(g)}

\* vision.track: optical flow from an estimate to a newer image; what it finds
\* carries the class of the goal's own vision, wherever the flow has led.
Tracked(g, from, image) ==
    {None} \cup {e \in Estimates :
                    e.cls = wanted[g] /\ from # None /\ image > from.at /\ e.at = image}

-----------------------------------------------------------------------------
(* insert_cable up to the lock.                                             *)

\* The threads that have written self._target and not read it again.
Reading == {h \in Goals : pc(h) \in {"told", "cleared"}}

\* insert_cable writes the target of the task, and publishes the task; a task that
\* is not understood ends the goal.  The thread of a canceled goal may come to this
\* line after its successor's, so goals are numbered in the order in which they do.
InsertCable(g) ==
    /\ pc(g) = "idle" /\ \A h \in Goals : h < g => pc(h) # "idle"
    /\ \/ Return(g) /\ UNCHANGED aims
       \/ /\ thread' = [thread EXCEPT ![g].pc = "told"]
          /\ shared_target' = task[g] /\ overtaken' = overtaken \cup Reading
          /\ UNCHANGED wanted
    /\ UNCHANGED <<now, task, estimate, misses>>

ForgetEstimate(g) ==
    /\ pc(g) = "told"
    /\ estimate' = None /\ thread' = [thread EXCEPT ![g].pc = "cleared"]
    /\ UNCHANGED <<now, task, aims, misses>>

\* PortVision is made for the target read again; its model may not load.
MakeVision(g) ==
    /\ pc(g) = "cleared"
    /\ wanted' = [wanted EXCEPT ![g] = shared_target]
    /\ Return(g) \/ thread' = [thread EXCEPT ![g].pc = "lift"]
    /\ UNCHANGED <<now, task, shared_target, overtaken, estimate, misses>>

\* _stage_lift_up_detect: without an observation there is no start pose; the
\* first estimate is under way when the path begins.
LiftStart(g) ==
    /\ pc(g) = "lift"
    /\ IF now = 0 THEN Return(g)
       ELSE thread' = [thread EXCEPT ![g].pc = "lifting", ![g].future = submit_latest]
    /\ UNCHANGED <<now, task, aims, estimate, misses>>

\* accept: an image counts once, and an estimate that disagrees with those
\* before it starts the row over.
Accept(seen, e) ==
    IF e = None \/ (seen # <<>> /\ e.at <= seen[Len(seen)].at) THEN seen
    ELSE IF seen # <<>> /\ e.spot # seen[Len(seen)].spot THEN <<e>>
    ELSE Append(seen, e)

LockFound(g) == Len(thread[g].confirmations) >= LockHits

\* The result is taken; without a lock the next image follows if asked for.
Taken(g, e, resubmit) ==
    LET seen == Accept(thread[g].confirmations, e)
    IN  [thread[g] EXCEPT !.confirmations = seen,
           !.future = IF resubmit /\ Len(seen) < LockHits THEN submit_latest ELSE NoFuture]

\* detect_guard and the waypoint it lets through whatever it saw: the result is
\* taken if YOLO is done with it.
LiftWaypoint(g) ==
    /\ pc(g) = "lifting" /\ thread[g].step < LiftSteps
    /\ \E t \in {thread[g]} \cup {Taken(g, e, TRUE) : e \in Results(g)} :
         /\ t # thread[g] => ~LockFound(g) /\ future(g) # NoFuture
         /\ thread' = [thread EXCEPT ![g] = [t EXCEPT !.step = @ + 1]]
    /\ UNCHANGED <<now, task, aims, estimate, misses>>

\* After the path: one estimate at a time, waiting for each.
LiftRetry(g) ==
    /\ pc(g) = "lifting" /\ thread[g].step = LiftSteps
    /\ ~LockFound(g) /\ thread[g].tries < VisionRetries
    /\ \/ /\ future(g) = NoFuture
          /\ thread' = [thread EXCEPT ![g].future = submit_latest]
       \/ /\ future(g) # NoFuture
          /\ \E e \in Results(g) :
               thread' = [thread EXCEPT ![g] = [Taken(g, e, FALSE) EXCEPT !.tries = @ + 1]]
    /\ UNCHANGED <<now, task, aims, estimate, misses>>

\* The end of the lift: a lock is published to self._estimate, or the goal fails.
LiftEnd(g) ==
    /\ pc(g) = "lifting" /\ thread[g].step = LiftSteps
    /\ \/ /\ LockFound(g)
          /\ estimate' = thread[g].confirmations[Len(thread[g].confirmations)]
          /\ thread' = [thread EXCEPT ![g].pc = "settle", ![g].future = NoFuture]
       \/ /\ ~LockFound(g) /\ thread[g].tries = VisionRetries
          /\ Return(g) /\ UNCHANGED estimate
    /\ UNCHANGED <<now, task, aims, misses>>

-----------------------------------------------------------------------------
(* _stage_approach.                                                         *)

\* The lock is read back from self._estimate; a target too far away, or none,
\* ends the goal.
ApproachStart(g) ==
    /\ pc(g) = "settle"
    /\ \/ Return(g) /\ UNCHANGED misses
       \/ /\ estimate # None
          /\ misses' = 0
          /\ thread' = [thread EXCEPT ![g] = [At("guard") EXCEPT !.locked = estimate,
                                                !.future = submit_latest]]
    /\ UNCHANGED <<now, task, aims, estimate>>

\* The three ways a guard goes on; t is the thread after the result was taken.
Clear(g, t, e) ==
    /\ thread' = [thread EXCEPT ![g] = [t EXCEPT !.pc = "go", !.licence = e]]
    /\ estimate' = e

\* _recover_target begins: only images after the newest one count.
Stop(g, t) ==
    /\ thread' = [thread EXCEPT ![g] = [t EXCEPT !.pc = "recover", !.tries = 0,
                    !.hits = 0, !.last = now - 1, !.stop = now]]
    /\ UNCHANGED estimate

Track(g, t) ==
    /\ thread' = [thread EXCEPT ![g] = [t EXCEPT !.pc = "track"]]
    /\ UNCHANGED estimate

\* Mutant: a result is taken as it is.
ReanchoredAsIs(g, e) == {e}

\* The estimate a background result is brought to the present as: itself, the
\* flow from it, or nothing.
Reanchored(g, e) == IF e.at = now THEN {e} ELSE Tracked(g, e, now)

\* _track_guard, first half: poll_yolo takes the result if there is one and
\* submits the next image.  Without an estimate the path ends; a result of
\* another port, or too many empty ones, stops it.
GuardPoll(g) ==
    /\ pc(g) = "guard"
    /\ IF thread[g].tries = 0 /\ estimate = None THEN Return(g) /\ UNCHANGED <<estimate, misses>>
       ELSE LET t == [thread[g] EXCEPT !.image = now,
                        !.entered = IF thread[g].tries = 0 THEN now ELSE @]
                u == [t EXCEPT !.future = submit_latest]
            IN  \/ Track(g, t) /\ UNCHANGED misses
                \/ \E e \in Results(g) :
                     \/ /\ e = None
                        /\ misses' = misses + 1
                        /\ IF misses' >= MaxMisses THEN Stop(g, u) ELSE Track(g, u)
                     \/ /\ e # None /\ ~Matches(thread[g].locked, e)
                        /\ Stop(g, u) /\ UNCHANGED misses
                     \/ /\ Matches(thread[g].locked, e)
                        /\ misses' = 0
                        /\ \E now_at \in Reanchored(g, e) :
                             IF Matches(thread[g].locked, now_at)
                             THEN Clear(g, u, now_at) ELSE Track(g, u)
    /\ UNCHANGED <<now, task, aims>>

\* _track_guard, second half: the flow from self._estimate, which another
\* thread may have taken away (an exception unless the images are unusable);
\* after MaxMisses failures the path stops.
GuardTrack(g) ==
    /\ pc(g) = "track"
    /\ \/ estimate = None /\ Return(g) /\ UNCHANGED estimate
       \/ \E e \in Tracked(g, estimate, thread[g].image) :
            IF Matches(thread[g].locked, e) THEN Clear(g, thread[g], e)
            ELSE IF thread[g].tries + 1 = MaxMisses THEN Stop(g, thread[g])
            ELSE /\ thread' = [thread EXCEPT ![g].tries = @ + 1, ![g].pc = "guard"]
                 /\ UNCHANGED estimate
    /\ UNCHANGED <<now, task, aims, misses>>

\* Mutant: the image under way when the path was stopped counts too.
CountsUnderWay(t, e) == e.at > t.last /\ Matches(t.locked, e)

\* A result that counts towards the recovery.
Counts(t, e) == e.at > t.stop /\ e.at > t.last /\ Matches(t.locked, e)

\* _recover_target: wait for the next result; enough of them in a row that
\* count bring the lock back, any other one starts the row over.
RecoverPoll(g) ==
    /\ pc(g) = "recover" /\ thread[g].tries < VisionRetries
    /\ \E e \in Results(g) :
         LET hits == IF Counts(thread[g], e) THEN thread[g].hits + 1 ELSE 0
             t == [thread[g] EXCEPT !.future = submit_latest, !.tries = @ + 1, !.hits = hits,
                     !.last = IF hits > 0 THEN e.at ELSE @,
                     !.row = IF Matches(thread[g].locked, e) THEN @ \cup {e.at} ELSE {}]
         IN  IF hits >= ReacquireHits THEN Clear(g, t, e) /\ misses' = 0
             ELSE thread' = [thread EXCEPT ![g] = t] /\ UNCHANGED <<estimate, misses>>
    /\ UNCHANGED <<now, task, aims>>

RecoverFails(g) ==
    /\ pc(g) = "recover" /\ thread[g].tries = VisionRetries
    /\ Return(g)
    /\ UNCHANGED <<now, task, aims, estimate, misses>>

\* _follow: the cleared waypoint is commanded; after the last one the goal ends.
ApproachWaypoint(g) ==
    /\ pc(g) = "go"
    /\ IF thread[g].step + 1 = ApproachSteps THEN Return(g)
       ELSE thread' = [thread EXCEPT ![g] = [At("guard") EXCEPT !.step = thread[g].step + 1,
                         !.locked = thread[g].locked, !.future = thread[g].future]]
    /\ UNCHANGED <<now, task, aims, estimate, misses>>

-----------------------------------------------------------------------------
Goal(g) ==
    \/ InsertCable(g) \/ ForgetEstimate(g) \/ MakeVision(g)
    \/ LiftStart(g) \/ LiftWaypoint(g) \/ LiftRetry(g) \/ LiftEnd(g)
    \/ ApproachStart(g) \/ GuardPoll(g) \/ GuardTrack(g) \/ RecoverPoll(g)
    \/ RecoverFails(g) \/ ApproachWaypoint(g)

Next == Observe \/ \E g \in Goals : Goal(g)

Spec == Init /\ [][Next]_vars

-----------------------------------------------------------------------------
TypeOK ==
    /\ now \in 0 .. Horizon /\ task \in [Goals -> Classes]
    /\ estimate \in Estimates \cup {None} /\ overtaken \subseteq Goals
    /\ shared_target \in Classes \cup {NoClass} /\ wanted \in [Goals -> Classes \cup {NoClass}]
    /\ misses \in Nat
    /\ \A g \in Goals : /\ pc(g) \in {"idle", "told", "cleared", "lift", "lifting", "settle", "guard", "track",
                                         "recover", "go", "done"}
                         /\ future(g) \in 0 .. now
                         /\ thread[g].hits \in 0 .. VisionRetries

\* The arm approaches the port of its own task.  A waypoint is cleared by an
\* estimate of the class that the goal's PortVision looks for, at the place of a lock
\* of that class, even when the thread of a canceled goal has overwritten _estimate
\* between the lock and the approach (FinalPolicy.py:276, 395): the goal then fails.
\* That class is the task's, unless the thread of another goal wrote self._target
\* between this goal's write (:478) and the line that reads it again (:486); then
\* the arm is sent to the port of that other task.
OwnPort ==
    \A g \in Goals : pc(g) = "go" =>
        LET t == thread[g]
        IN  /\ t.licence.cls = wanted[g] /\ t.locked.cls = wanted[g]
            /\ t.licence.spot = t.locked.spot
            /\ g \notin overtaken => wanted[g] = task[g]

\* No waypoint is sent on what the cameras saw before the guard of this waypoint
\* was called: a YOLO result that is older is first brought to the present by
\* optical flow (FinalPolicy.py:350-356).
FreshLicence ==
    \A g \in Goals : pc(g) = "go" => thread[g].licence.at >= thread[g].entered

\* A path that was stopped goes on only after ReacquireHits results in a row, of
\* different images all taken after the stop, showed the locked port
\* (FinalPolicy.py:288), although YOLO may still work on an older image then.
StoppedEvidence ==
    \A g \in Goals : pc(g) = "go" /\ thread[g].stop # 0 =>
        Cardinality({at \in thread[g].row : at > thread[g].stop}) >= ReacquireHits
=============================================================================
