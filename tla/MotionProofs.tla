---------------------------- MODULE MotionProofs ----------------------------
(***************************************************************************)
(* What the two sides of MCMotion guarantee: AicController for every set of  *)
(* commanded positions, and CollectLoop for every policy, every number of    *)
(* samples, attempts and observations, every tolerance and every length of   *)
(* an attempt.                                                              *)
(***************************************************************************)
EXTENDS MCMotion, Integers, Sequences, TLAPS

(***************************************************************************)
(* The controller: its inductive invariant.                                 *)
(***************************************************************************)
Working == {"check", "interpolate", "impedance", "compute", "write"}

\* What a callback is about, and that update() only runs in an active controller.
PlacesOK ==
  /\ cb \in {"store", "flag"} => goal = target_mode_value /\ message \in Targets
  /\ cb \in Switching => goal # target_mode_value
  /\ ~active => pc = "idle" /\ target_state = [k \in Kinds |-> None]

\* A box that on_activate could not empty is filled again before it is read.
Skipped(k) == cb = "store" /\ k = goal /\ ~motion_update_received /\ pc # "get"
\* The zeros of an empty joint message are a target update() cannot interpolate to.
Unusable(k) == \/ motion_update[k] = Empty
               \/ pc = "assign" /\ command.kind = k /\ command.body # Empty

\* Every position the controller may act upon has been seen or accepted since its
\* activation, or crossed it in a callback.
SinceOK ==
  active =>
    /\ cb = "store" => message \in since \cup crossed
    /\ pose \in since /\ current \in since
    /\ pc = "assign" => /\ command.body \in since \cup crossed \cup {Empty}
                        /\ command.body = Empty => motion_update[command.kind] = Empty
    /\ \A k \in Kinds :
         /\ last_reference[k] \in since \cup crossed
         /\ motion_update_rt[k] \in since \cup crossed \cup {Empty} \/ Skipped(k)
         /\ target_state[k] \in since \cup crossed \cup {None} \/ Unusable(k)
         /\ pc \in Working => reference[k] \in since \cup crossed

\* Without an overlap the same holds of the mode's positions since the last switch,
\* the other mode has none, and a target comes with the message it was taken from.
CalmOK ==
  LET M == target_mode_value IN
  active /\ ~raced =>
    /\ pc # "error" /\ (cb \in Switching => pc = "idle")
    /\ pose \in held /\ current \in held /\ last_reference[M] \in held
    /\ cb = "mode" => last_reference[goal] = current
    /\ motion_update_rt[M] \in held \cup {Empty}
    /\ target_state[M] \in held \cup {None}
    /\ \A k \in Kinds \ {M} : motion_update_rt[k] = Empty /\ target_state[k] = None
    /\ cb \in {"unflag", "untarget", "hold", "mode"} => motion_update_rt[M] = Empty
    /\ cb \in {"untarget", "hold", "mode"} => ~motion_update_received
    /\ cb \in {"hold", "mode"} => target_state[M] = None
    /\ cb = "flag" \/ (cb \notin Switching /\ (motion_update_received \/ pc = "get"))
         => motion_update_rt[M] # Empty
    /\ cb \notin Switching /\ target_state[M] # None => motion_update[M] # Empty
    /\ pc = "assign" => /\ command.kind = M /\ command.body = motion_update[M]
                        /\ command.body \in held /\ command.body # Empty
    /\ pc \in Working => reference[M] \in held
    /\ pc = "interpolate" => target_state[M] # None

IInv == TypeOK /\ PlacesOK /\ SinceOK /\ CalmOK

(* Nothing has been commanded and the controller is not active. *)
LEMMA InitEstablishesIInv == Init => IInv
<1> SUFFICES ASSUME Init PROVE IInv
  OBVIOUS
<1>1. TypeOK
  BY AicControllerAssumption
  DEF Init, TypeOK, Poses, Kinds, Messages, Switching, Home, Zeros, None, Empty
<1>2. PlacesOK
  BY AicControllerAssumption
  DEF Init, PlacesOK, Poses, Kinds, Messages, Switching, Home, Zeros, None, Empty
<1>3. SinceOK
  BY AicControllerAssumption
  DEF Init, SinceOK, Poses, Kinds, Messages, Switching, Home, Zeros, None, Empty
<1>4. CalmOK
  BY AicControllerAssumption
  DEF Init, CalmOK, Poses, Kinds, Messages, Switching, Home, Zeros, None, Empty
<1> QED
  BY <1>1, <1>2, <1>3, <1>4 DEF IInv

(* No access changes the type of anything. *)
LEMMA StepPreservesTypeOK == TypeOK /\ PlacesOK /\ [Next]_vars => TypeOK'
<1> SUFFICES ASSUME TypeOK, PlacesOK, [Next]_vars PROVE TypeOK'
  OBVIOUS
<1> USE AicControllerAssumption
    DEF TypeOK, Switching, Poses, Kinds, Messages, Home, Zeros, None, Empty,
        At, Goto, Callback, shared, updateVars, callbackVars, ghosts
<1>1. CASE Activate
  <2>1. /\ active' \in BOOLEAN /\ motion_update_received' \in BOOLEAN
        /\ raced' \in BOOLEAN /\ since' \subseteq Poses /\ held' \subseteq Poses
        /\ crossed' \subseteq Poses
    BY <1>1 DEF Activate, Forget, Emptied, ReferencesHere, PlacesOK
  <2>2. /\ motion_update_rt' \in [Kinds -> Messages]
        /\ motion_update' \in [Kinds -> Messages]
    BY <1>1 DEF Activate, Forget, Emptied, ReferencesHere
  <2>3. /\ target_state' \in [Kinds -> Poses \cup {None}]
        /\ last_reference' \in [Kinds -> Poses] /\ reference' \in [Kinds -> Poses]
    BY <1>1 DEF Activate, Forget, Emptied, ReferencesHere
  <2> QED
    BY <2>1, <2>2, <2>3, <1>1 DEF Activate, Forget, Emptied, ReferencesHere
<1>2. CASE Deactivate
  <2>1. /\ active' \in BOOLEAN /\ motion_update_received' \in BOOLEAN
        /\ raced' \in BOOLEAN /\ since' \subseteq Poses /\ held' \subseteq Poses
        /\ crossed' \subseteq Poses
    BY <1>2 DEF Deactivate, Forget, Emptied
  <2>2. /\ motion_update_rt' \in [Kinds -> Messages]
        /\ motion_update' \in [Kinds -> Messages]
    BY <1>2 DEF Deactivate, Forget, Emptied
  <2>3. /\ target_state' \in [Kinds -> Poses \cup {None}]
        /\ last_reference' \in [Kinds -> Poses] /\ reference' \in [Kinds -> Poses]
    BY <1>2 DEF Deactivate, Forget, Emptied
  <2> QED
    BY <2>1, <2>2, <2>3, <1>2 DEF Deactivate, Forget, Emptied
<1>3. CASE ResetJoints
  BY <1>3 DEF ResetJoints
<1>4. CASE Sense
  BY <1>4 DEF Sense
<1>5. CASE ReadFlag
  BY <1>5 DEF ReadFlag
<1>6. CASE Take
  BY <1>6 DEF Take
<1>7. CASE Assign
  BY <1>7 DEF Assign
<1>8. CASE CopyReferences
  BY <1>8 DEF CopyReferences
<1>9. CASE HasTarget
  BY <1>9 DEF HasTarget
<1>10. CASE Interpolate
  BY <1>10 DEF Interpolate
<1>11. CASE Impedance
  BY <1>11 DEF Impedance
<1>12. CASE Compute
  <2>1. /\ active' \in BOOLEAN /\ motion_update_received' \in BOOLEAN
        /\ raced' \in BOOLEAN /\ since' \subseteq Poses /\ held' \subseteq Poses
        /\ crossed' \subseteq Poses
    BY <1>12 DEF Compute
  <2>2. /\ motion_update_rt' \in [Kinds -> Messages]
        /\ motion_update' \in [Kinds -> Messages]
    BY <1>12 DEF Compute
  <2>3. /\ target_state' \in [Kinds -> Poses \cup {None}]
        /\ last_reference' \in [Kinds -> Poses] /\ reference' \in [Kinds -> Poses]
    BY <1>12 DEF Compute
  <2> QED
    BY <2>1, <2>2, <2>3, <1>12 DEF Compute
<1>13. CASE Write
  BY <1>13 DEF Write, Output
<1>14. CASE Receive
  BY <1>14 DEF Receive, Accepts
<1>15. CASE Store
  <2>1. /\ active' \in BOOLEAN /\ motion_update_received' \in BOOLEAN
        /\ raced' \in BOOLEAN /\ since' \subseteq Poses /\ held' \subseteq Poses
        /\ crossed' \subseteq Poses
    BY <1>15 DEF Store, PlacesOK
  <2>2. /\ motion_update_rt' \in [Kinds -> Messages]
        /\ motion_update' \in [Kinds -> Messages]
    BY <1>15 DEF Store
  <2>3. /\ target_state' \in [Kinds -> Poses \cup {None}]
        /\ last_reference' \in [Kinds -> Poses] /\ reference' \in [Kinds -> Poses]
    BY <1>15 DEF Store
  <2> QED
    BY <2>1, <2>2, <2>3, <1>15 DEF Store
<1>16. CASE Flag
  BY <1>16 DEF Flag
<1>17. CASE Request
  BY <1>17 DEF Request
<1>18. CASE ForgetMessage
  BY <1>18 DEF ForgetMessage
<1>19. CASE EmptyBox
  BY <1>19 DEF EmptyBox
<1>20. CASE Unflag
  <2>1. /\ active' \in BOOLEAN /\ motion_update_received' \in BOOLEAN
        /\ raced' \in BOOLEAN /\ since' \subseteq Poses /\ held' \subseteq Poses
        /\ crossed' \subseteq Poses
    BY <1>20 DEF Unflag
  <2>2. /\ motion_update_rt' \in [Kinds -> Messages]
        /\ motion_update' \in [Kinds -> Messages]
    BY <1>20 DEF Unflag
  <2>3. /\ target_state' \in [Kinds -> Poses \cup {None}]
        /\ last_reference' \in [Kinds -> Poses] /\ reference' \in [Kinds -> Poses]
    BY <1>20 DEF Unflag
  <2> QED
    BY <2>1, <2>2, <2>3, <1>20 DEF Unflag
<1>21. CASE Untarget
  BY <1>21 DEF Untarget, DropTarget
<1>22. CASE Hold
  BY <1>22 DEF Hold, HeldReference
<1>23. CASE SetMode
  BY <1>23 DEF SetMode
<1>24. CASE UNCHANGED vars
  BY <1>24 DEF vars
<1> QED
  BY <1>1, <1>2, <1>3, <1>4, <1>5, <1>6, <1>7, <1>8, <1>9, <1>10, <1>11, <1>12, <1>13, <1>14, <1>15, <1>16, <1>17, <1>18, <1>19, <1>20, <1>21, <1>22, <1>23, <1>24 DEF Next, Update, ChangeTargetMode

(* One case per access of update() or of a callback.  The vocabulary of the
   invariant is expanded once, each case expands its action. *)
LEMMA StepPreservesIInv == IInv /\ [Next]_vars => IInv'
<1> SUFFICES ASSUME IInv, [Next]_vars PROVE IInv'
  OBVIOUS
<1>0. TypeOK /\ TypeOK'
  BY StepPreservesTypeOK DEF IInv
<1> USE AicControllerAssumption, <1>0
    DEF IInv, TypeOK, PlacesOK, SinceOK, CalmOK, Skipped, Unusable, Working, Switching,
        Poses, Kinds, Messages, Home, Zeros, None, Empty, At, Goto, Callback,
        shared, updateVars, callbackVars, ghosts
<1>1. CASE Activate
  <2>1. PlacesOK'
    BY <1>1 DEF Activate, Forget, Emptied, ReferencesHere
  <2>2. SinceOK'
    BY <1>1 DEF Activate, Forget, Emptied, ReferencesHere
  <2>3. CalmOK'
    <3>1. CASE cb # "idle"
      BY <1>1, <3>1 DEF Activate
    <3>2. CASE cb = "idle"
      <4>1. /\ motion_update_rt' = [k \in Kinds |-> Empty]
            /\ target_state' = [k \in Kinds |-> None] /\ ~motion_update_received'
            /\ cb' = "idle" /\ pc' = "idle"
        BY <1>1, <3>2 DEF Activate, Forget, Emptied
      <4>2. /\ held' = {pose} /\ current' = pose /\ pose' = pose
            /\ last_reference' = [k \in Kinds |-> pose]
            /\ target_mode_value' \in Kinds
        BY <1>1 DEF Activate, ReferencesHere
      <4> QED
        BY <4>1, <4>2
    <3> QED
      BY <3>1, <3>2
  <2> QED
    BY <2>1, <2>2, <2>3
<1>2. CASE Deactivate
  <2>1. PlacesOK'
    BY <1>2 DEF Deactivate, Forget, Emptied
  <2>2. SinceOK'
    BY <1>2 DEF Deactivate, Forget, Emptied
  <2>3. CalmOK'
    BY <1>2 DEF Deactivate, Forget, Emptied
  <2> QED
    BY <2>1, <2>2, <2>3
<1>3. CASE ResetJoints
  <2>1. PlacesOK'
    BY <1>3 DEF ResetJoints
  <2>2. SinceOK'
    BY <1>3 DEF ResetJoints
  <2>3. CalmOK'
    BY <1>3 DEF ResetJoints
  <2> QED
    BY <2>1, <2>2, <2>3
<1>4. CASE Sense
  <2>1. PlacesOK'
    BY <1>4 DEF Sense
  <2>2. SinceOK'
    BY <1>4 DEF Sense
  <2>3. CalmOK'
    BY <1>4 DEF Sense
  <2> QED
    BY <2>1, <2>2, <2>3
<1>5. CASE ReadFlag
  <2>1. PlacesOK'
    BY <1>5 DEF ReadFlag
  <2>2. SinceOK'
    BY <1>5 DEF ReadFlag
  <2>3. CalmOK'
    BY <1>5 DEF ReadFlag
  <2> QED
    BY <2>1, <2>2, <2>3
<1>6. CASE Take
  <2>1. PlacesOK'
    BY <1>6 DEF Take
  <2>2. SinceOK'
    BY <1>6 DEF Take
  <2>3. CalmOK'
    BY <1>6 DEF Take
  <2> QED
    BY <2>1, <2>2, <2>3
<1>7. CASE Assign
  <2>1. PlacesOK'
    BY <1>7 DEF Assign
  <2>2. SinceOK'
    BY <1>7 DEF Assign
  <2>3. CalmOK'
    BY <1>7 DEF Assign
  <2> QED
    BY <2>1, <2>2, <2>3
<1>8. CASE CopyReferences
  <2>1. PlacesOK'
    BY <1>8 DEF CopyReferences
  <2>2. SinceOK'
    BY <1>8 DEF CopyReferences
  <2>3. CalmOK'
    BY <1>8 DEF CopyReferences
  <2> QED
    BY <2>1, <2>2, <2>3
<1>9. CASE HasTarget
  <2>1. PlacesOK'
    BY <1>9 DEF HasTarget
  <2>2. SinceOK'
    BY <1>9 DEF HasTarget
  <2>3. CalmOK'
    BY <1>9 DEF HasTarget
  <2> QED
    BY <2>1, <2>2, <2>3
<1>10. CASE Interpolate
  <2>1. PlacesOK'
    BY <1>10 DEF Interpolate
  <2>2. SinceOK'
    BY <1>10 DEF Interpolate
  <2>3. CalmOK'
    BY <1>10 DEF Interpolate
  <2> QED
    BY <2>1, <2>2, <2>3
<1>11. CASE Impedance
  <2>1. PlacesOK'
    BY <1>11 DEF Impedance
  <2>2. SinceOK'
    BY <1>11 DEF Impedance
  <2>3. CalmOK'
    BY <1>11 DEF Impedance
  <2> QED
    BY <2>1, <2>2, <2>3
<1>12. CASE Compute
  <2>1. PlacesOK'
    BY <1>12 DEF Compute
  <2>2. SinceOK'
    BY <1>12 DEF Compute
  <2>3. CalmOK'
    BY <1>12 DEF Compute
  <2> QED
    BY <2>1, <2>2, <2>3
<1>13. CASE Write
  <2>1. PlacesOK'
    BY <1>13 DEF Write, Output
  <2>2. SinceOK'
    BY <1>13 DEF Write, Output
  <2>3. CalmOK'
    BY <1>13 DEF Write, Output
  <2> QED
    BY <2>1, <2>2, <2>3
<1>14. CASE Receive
  <2>1. PlacesOK'
    BY <1>14 DEF Receive, Accepts
  <2>2. SinceOK'
    BY <1>14 DEF Receive, Accepts
  <2>3. CalmOK'
    BY <1>14 DEF Receive, Accepts
  <2> QED
    BY <2>1, <2>2, <2>3
<1>15. CASE Store
  <2>1. PlacesOK'
    BY <1>15 DEF Store
  <2>2. SinceOK'
    BY <1>15 DEF Store
  <2>3. CalmOK'
    BY <1>15 DEF Store
  <2> QED
    BY <2>1, <2>2, <2>3
<1>16. CASE Flag
  <2>1. PlacesOK'
    BY <1>16 DEF Flag
  <2>2. SinceOK'
    BY <1>16 DEF Flag
  <2>3. CalmOK'
    BY <1>16 DEF Flag
  <2> QED
    BY <2>1, <2>2, <2>3
<1>17. CASE Request
  <2>1. PlacesOK'
    BY <1>17 DEF Request
  <2>2. SinceOK'
    BY <1>17 DEF Request
  <2>3. CalmOK'
    BY <1>17 DEF Request
  <2> QED
    BY <2>1, <2>2, <2>3
<1>18. CASE ForgetMessage
  <2>1. PlacesOK'
    BY <1>18 DEF ForgetMessage
  <2>2. SinceOK'
    BY <1>18 DEF ForgetMessage
  <2>3. CalmOK'
    BY <1>18 DEF ForgetMessage
  <2> QED
    BY <2>1, <2>2, <2>3
<1>19. CASE EmptyBox
  <2>1. PlacesOK'
    BY <1>19 DEF EmptyBox
  <2>2. SinceOK'
    BY <1>19 DEF EmptyBox
  <2>3. CalmOK'
    BY <1>19 DEF EmptyBox
  <2> QED
    BY <2>1, <2>2, <2>3
<1>20. CASE Unflag
  <2>1. PlacesOK'
    BY <1>20 DEF Unflag
  <2>2. SinceOK'
    BY <1>20 DEF Unflag
  <2>3. CalmOK'
    BY <1>20 DEF Unflag
  <2> QED
    BY <2>1, <2>2, <2>3
<1>21. CASE Untarget
  <2>1. PlacesOK'
    BY <1>21 DEF Untarget, DropTarget
  <2>2. SinceOK'
    BY <1>21 DEF Untarget, DropTarget
  <2>3. CalmOK'
    BY <1>21 DEF Untarget, DropTarget
  <2> QED
    BY <2>1, <2>2, <2>3
<1>22. CASE Hold
  <2>1. PlacesOK'
    BY <1>22 DEF Hold, HeldReference
  <2>2. SinceOK'
    BY <1>22 DEF Hold, HeldReference
  <2>3. CalmOK'
    BY <1>22 DEF Hold, HeldReference
  <2> QED
    BY <2>1, <2>2, <2>3
<1>23. CASE SetMode
  <2>1. PlacesOK'
    BY <1>23 DEF SetMode
  <2>2. SinceOK'
    BY <1>23 DEF SetMode
  <2>3. CalmOK'
    BY <1>23 DEF SetMode
  <2> QED
    BY <2>1, <2>2, <2>3
<1>24. CASE UNCHANGED vars
  BY <1>24 DEF vars
<1> QED
  BY <1>1, <1>2, <1>3, <1>4, <1>5, <1>6, <1>7, <1>8, <1>9, <1>10, <1>11, <1>12, <1>13, <1>14, <1>15, <1>16, <1>17, <1>18, <1>19, <1>20, <1>21, <1>22, <1>23, <1>24 DEF Next, Update, ChangeTargetMode

(* The invariant holds for every set of commanded positions. *)
THEOREM Invariance == Spec => []IInv
  BY InitEstablishesIInv, StepPreservesIInv, PTL DEF Spec

(* The controller's state is well typed. *)
THEOREM TypeCorrect == Spec => []TypeOK
<1>1. IInv => TypeOK
  BY DEF IInv
<1> QED
  BY <1>1, Invariance, PTL

(* After the robot was brought home, nothing commanded before is acted upon: every
   reference update() may write has been seen or accepted since on_activate, or was
   in a callback that had accepted it and not stored it when on_activate ran. *)
THEOREM NoReplayHolds == Spec => []NoReplay
<1>1. IInv => NoReplay
  BY DEF IInv, TypeOK, PlacesOK, SinceOK, NoReplay, Output, At, Working
<1> QED
  BY <1>1, Invariance, PTL

(* A change of mode that met no update() keeps the robot still until a command. *)
THEOREM SwitchHoldsAlways == Spec => []SwitchHolds
<1>1. IInv => SwitchHolds
  BY DEF IInv, TypeOK, PlacesOK, CalmOK, SwitchHolds, Output, At, Working
<1> QED
  BY <1>1, Invariance, PTL

(* Without an overlap update() never returns the ERROR that stops the controller. *)
THEOREM ErrorsOnlyRacedHolds == Spec => []ErrorsOnlyRaced
<1>1. IInv => ErrorsOnlyRaced
  BY DEF IInv, PlacesOK, CalmOK, ErrorsOnlyRaced, At
<1> QED
  BY <1>1, Invariance, PTL

(***************************************************************************)
(* The invariant of the collection policy.                                  *)
(***************************************************************************)
Moments == 0 .. Horizon
Loops == [wp : Nat, tries : Nat, planned : Nat, lost : Nat]
Motions == [stage : {"lift", "approach", "collect"}, start : Int, to : Int, pos : Int,
            stamp : Moments]
Pairs == [last : Moments, tcp : Int, ref : Int, stable : Nat, at : Moments]
Rows == [wp : Nat, img : Int, tcp : Int, plug : Int, fresh : BOOLEAN]

\* Between two attempts, and before the first, nothing has settled.
Unsettled == {"begin", "lift", "approach", "baseline", "follow", "feel", "plan", "command"}

Stages == {"begin", "lift", "approach", "baseline", "follow", "feel", "retreat", "collect",
           "plan", "command", "settle", "hold", "observe", "tf", "save", "done"}

\* The trial: a row for every capture, and never more than were asked for.
TrialTypes ==
    /\ conf \in Settings /\ stage \in Stages /\ touch \in BOOLEAN
    /\ collected \in Nat /\ loop \in Loops /\ loop.wp = collected + loop.lost
    /\ loop.tries <= MaxAttempts
    /\ collected <= CollectSteps /\ (status = "ok" => collected = CollectSteps)
    /\ stage \notin {"collect", "done"} => collected < CollectSteps

\* The summary is written last.
StatusOK == status = "" <=> stage # "done"

RowTypes == rows \in Seq(Rows) /\ collected = Len(rows)

\* Nothing is observed before it happens.
WorldTypes ==
    /\ now \in 1 .. Horizon /\ latest \in Collect!Frame /\ shot \in Collect!Frame
    /\ latest.at <= now /\ latest.cam <= latest.at
    /\ robot \in [cmd : Int, ref : Int, tcp : Int, rest : BOOLEAN, late : BOOLEAN]
    /\ move \in Motions

PairTypes ==
    /\ settle \in Pairs /\ settle.stable <= StableObs
    /\ stage \in Unsettled => settle = Collect!NoPair
    /\ stage = "settle" => settle.at = 0 /\ settle.stable < StableObs

CollectTypes == TrialTypes /\ StatusOK /\ RowTypes /\ WorldTypes /\ PairTypes

\* The robot has stopped where its last command left it.
AtRest == robot.rest /\ robot.ref = robot.cmd

\* Who is on the way to the command is one step nearer at every tick.
Distance(p) == Collect!Abs(p - robot.cmd)
Nearer(p, at, q, later) == Distance(q) + (later - at) <= Distance(p)

\* A frame f of the time after the command, and what has become of the robot it
\* shows. Only the first of these frames may show an older reference.
Followed(f, at) ==
    at > move.stamp =>
      /\ f.ref = robot.cmd =>
           AtRest \/ (robot.ref = robot.cmd /\ Nearer(f.tcp, at, robot.tcp, now))
      /\ f.ref # robot.cmd => at = move.stamp + 1

SettleOK ==
    stage = "settle" =>
      /\ move.stamp <= now
      /\ now > move.stamp => robot.ref = robot.cmd \/ (robot.late /\ now = move.stamp + 1)
      /\ Followed(latest, latest.at)
      /\ settle.last # 0 =>
           /\ settle.last > move.stamp /\ settle.last <= latest.at
           /\ Followed(settle, settle.last)
           /\ latest.at > settle.last /\ settle.ref = robot.cmd =>
                \/ AtRest /\ robot.tcp = latest.tcp
                \/ Nearer(settle.tcp, settle.last, latest.tcp, latest.at)

\* Once it has settled the robot stands still, so that an image and the controller's
\* state of any later tick agree.
ObserveOK ==
    stage = "observe" =>
      /\ settle.at > move.stamp /\ settle.at <= now /\ AtRest
      /\ latest.cam > settle.at => latest.img = latest.tcp

ShotOK == stage \in {"tf", "save"} => shot.img = shot.tcp /\ shot.cam > move.stamp

\* A contact is answered at once.
TouchOK == touch => stage \in {"hold", "retreat"}

CollectInv ==
    CollectTypes /\ SettleOK /\ ObserveOK /\ ShotOK /\ TouchOK /\ CapturedAtRest

(***************************************************************************)
(* What the robot and the settling do.                                      *)
(***************************************************************************)
\* A waypoint that is given up is counted as lost.
LEMMA Skips ==
    ASSUME loop \in Loops, Collect!SkipWaypoint
    PROVE  /\ loop' \in Loops /\ loop'.wp = loop.wp + 1 /\ loop'.tries = 0
           /\ loop'.lost = loop.lost + 1
<1>1. loop.wp + 1 \in Nat /\ loop.lost + 1 \in Nat
  BY DEF Loops
<1>2. loop' \in Loops
  BY <1>1 DEF Loops, Collect!SkipWaypoint
<1> QED
  BY <1>2 DEF Loops, Collect!SkipWaypoint

\* A step that writes no row: the count of waypoints stays right.
LEMMA Kept ==
    ASSUME TrialTypes, UNCHANGED <<conf, collected>>, touch' \in BOOLEAN, stage # "done",
           \/ stage' = "done" /\ status' = "approach_failed"
           \/ stage' = "collect" /\ status' = status,
           UNCHANGED loop \/ Collect!SkipWaypoint, MaxAttempts \in Nat
    PROVE  TrialTypes'
<1>1. /\ loop \in Loops /\ loop.wp \in Nat /\ loop.lost \in Nat
      /\ loop.wp = collected + loop.lost /\ collected \in Nat
  BY DEF TrialTypes, Loops
<1>2. /\ loop' \in Loops /\ loop'.wp = collected + loop'.lost /\ loop'.tries <= MaxAttempts
  BY <1>1, Skips DEF TrialTypes
<1> QED
  BY <1>2 DEF TrialTypes, Stages

\* At a tick the robot keeps its command, and takes it as its reference at the second
\* tick at the latest; at rest it stays until the reference changes.
LEMMA Moved ==
    ASSUME robot \in [cmd : Int, ref : Int, tcp : Int, rest : BOOLEAN, late : BOOLEAN],
           Collect!RobotMoves
    PROVE  /\ robot' \in [cmd : Int, ref : Int, tcp : Int, rest : BOOLEAN, late : BOOLEAN]
           /\ robot'.cmd = robot.cmd
           /\ robot'.ref = robot.cmd \/ (robot'.late /\ ~robot.late)
           /\ robot.ref = robot.cmd => robot'.ref = robot.cmd
           /\ AtRest => AtRest' /\ robot'.tcp = robot.tcp
           /\ robot.ref = robot.cmd =>
                \/ AtRest'
                \/ /\ robot.tcp # robot.cmd
                   /\ robot'.tcp = Collect!Toward(robot.tcp, robot.cmd)
<1>1. PICK q \in {robot.cmd} \cup (IF robot.late THEN {} ELSE {robot.ref}), rest \in BOOLEAN :
         \E to \in (IF robot.rest /\ q = robot.ref THEN {robot.tcp}
                   ELSE IF ~rest THEN {Collect!Toward(robot.tcp, q)}
                   ELSE IF robot.tcp = q THEN {robot.tcp, q + 1}
                   ELSE {robot.tcp, Collect!Toward(robot.tcp, q)}) :
           /\ ((robot.rest /\ q = robot.ref) \/ robot.tcp = q) => rest
           /\ robot' = [robot EXCEPT !.ref = q, !.tcp = to, !.rest = rest,
                                    !.late = q # robot.cmd]
  BY Zenon DEF Collect!RobotMoves
<1> DEFINE late == q # robot.cmd
<1>2. /\ q \in {robot.cmd, robot.ref} /\ (q = robot.cmd \/ ~robot.late)
      /\ late \in BOOLEAN /\ (late <=> q # robot.cmd)
  BY <1>1
<1>3. PICK to : /\ robot' = [robot EXCEPT !.ref = q, !.tcp = to, !.rest = rest, !.late = late]
                /\ to \in {robot.tcp, Collect!Toward(robot.tcp, q), q + 1}
                /\ (robot.rest /\ q = robot.ref => rest /\ to = robot.tcp)
                /\ (~rest => robot.tcp # q /\ to = Collect!Toward(robot.tcp, q))
  BY <1>1, Zenon
<1> HIDE DEF late
<1>4. q \in Int /\ to \in Int
  <2>1. \A p, r \in Int : Collect!Toward(p, r) \in Int /\ r + 1 \in Int
    BY DEF Collect!Toward
  <2> QED
    BY <1>2, <1>3, <2>1
<1>5. robot' \in [cmd : Int, ref : Int, tcp : Int, rest : BOOLEAN, late : BOOLEAN]
  BY <1>2, <1>3, <1>4
<1>6. robot'.cmd = robot.cmd /\ robot'.ref = q /\ robot'.tcp = to
  BY <1>3
<1>7. robot'.rest <=> rest
  BY <1>3
<1>8. robot'.late <=> late
  BY <1>2, <1>3
<1>9. robot'.ref = robot.cmd \/ (robot'.late /\ ~robot.late)
  BY <1>2, <1>6, <1>8, Zenon
<1>10. AtRest => AtRest' /\ robot'.tcp = robot.tcp
  <2>1. AtRest => q = robot.cmd /\ robot.rest /\ q = robot.ref
    BY <1>2, Zenon DEF AtRest
  <2> QED
    BY <1>3, <1>6, <1>7, <2>1, Zenon DEF AtRest
<1>11. robot.ref = robot.cmd => q = robot.cmd
  BY <1>2, Zenon
<1>12. robot.ref = robot.cmd =>
         AtRest' \/ (robot.tcp # robot.cmd /\ robot'.tcp = Collect!Toward(robot.tcp, robot.cmd))
  BY <1>3, <1>6, <1>7, <1>11, Zenon DEF AtRest
<1> QED
  BY <1>5, <1>6, <1>9, <1>10, <1>11, <1>12, Zenon

\* A robot under way is nearer after each tick.
LEMMA Approaches ==
    ASSUME robot \in [cmd : Int, ref : Int, tcp : Int, rest : BOOLEAN, late : BOOLEAN],
           robot'.cmd = robot.cmd, robot.tcp # robot.cmd,
           robot'.tcp = Collect!Toward(robot.tcp, robot.cmd)
    PROVE  Distance(robot'.tcp) + 1 <= Distance(robot.tcp)
  BY DEF Distance, Collect!Abs, Collect!Toward

\* The count of equal frames ends with the number that is asked for.
LEMMA Converged ==
    ASSUME PairTypes, stage = "settle", StableObs \in Nat \ {0}, latest.at \in Moments,
           latest.tcp \in Int, latest.ref \in Int, move.stamp \in Nat
    PROVE  LET c == Collect!Converge(settle, latest)
           IN  /\ c \in Pairs /\ c.stable <= StableObs
               /\ c.at = 0 => c.stable < StableObs
<1>1. /\ settle \in Pairs /\ settle.stable \in Nat /\ settle.at = 0 /\ settle.stable < StableObs
  BY DEF PairTypes, Pairs
<1>2. CASE Collect!Converge(settle, latest) = settle
  BY <1>1, <1>2
<1>3. ASSUME NEW n \in {0, settle.stable + 1}, latest.at # 0,
             Collect!Converge(settle, latest) =
             [last |-> latest.at, tcp |-> latest.tcp, ref |-> latest.ref, stable |-> n,
              at |-> IF n >= StableObs THEN latest.at ELSE 0]
      PROVE  /\ Collect!Converge(settle, latest) \in Pairs
             /\ Collect!Converge(settle, latest).stable <= StableObs
             /\ Collect!Converge(settle, latest).at = 0 =>
                  Collect!Converge(settle, latest).stable < StableObs
  <2>1. n \in Nat /\ n <= StableObs /\ 0 \in Moments
    BY <1>1, <1>3, MCMotionAssumption DEF Moments, Collect!CollectAssumption
  <2>2. Collect!Converge(settle, latest) \in Pairs
    BY <1>3, <2>1 DEF Pairs
  <2> QED
    BY <1>3, <2>1, <2>2
<1>4. latest.at > move.stamp => latest.at # 0
  BY DEF Moments
<1> QED
  BY <1>2, <1>3, <1>4 DEF Collect!Converge

\* A frame of before the command, or one that was there before, changes nothing.
LEMMA Frames ==
    ASSUME Collect!Converge(settle, latest) # settle
    PROVE  LET c == Collect!Converge(settle, latest)
           IN  /\ ~(latest.at <= move.stamp) /\ latest.at # settle.last
               /\ c.last = latest.at /\ c.tcp = latest.tcp /\ c.ref = latest.ref
<1>1. /\ ~(latest.at <= move.stamp) /\ latest.at # settle.last
      /\ \E n, at : Collect!Converge(settle, latest) =
           [last |-> latest.at, tcp |-> latest.tcp, ref |-> latest.ref, stable |-> n, at |-> at]
  BY Zenon DEF Collect!Converge
<1> QED
  BY <1>1

\* Two frames that show the same, the later one of a time when the robot must have
\* the command for its reference: it had come to rest.
LEMMA Settled ==
    ASSUME CollectTypes, SettleOK, stage = "settle",
           Collect!Converge(settle, latest).at # 0, StableObs \in Nat \ {0}
    PROVE  /\ Collect!Converge(settle, latest).at = latest.at /\ latest.at > move.stamp
           /\ AtRest
<1>1. /\ latest.at \in Nat /\ settle.last \in Nat /\ settle.at = 0 /\ move.stamp \in Nat
      /\ settle.tcp \in Int /\ latest.tcp \in Int /\ robot.cmd \in Int
  BY DEF CollectTypes, WorldTypes, PairTypes, Pairs, Moments, Motions, Collect!Frame, Collect!Stamp
<1>2. /\ latest.at > move.stamp /\ latest.at # settle.last
      /\ settle.last # 0 /\ latest.tcp = settle.tcp /\ latest.ref = settle.ref
      /\ Collect!Converge(settle, latest).at = latest.at
  BY <1>1 DEF Collect!Converge
<1>3. latest.ref = robot.cmd
  BY <1>1, <1>2 DEF SettleOK, Followed
<1>4. ~Nearer(settle.tcp, settle.last, latest.tcp, latest.at)
  BY <1>1, <1>2 DEF SettleOK, Nearer, Distance, Collect!Abs
<1> QED
  BY <1>1, <1>2, <1>3, <1>4 DEF SettleOK

(***************************************************************************)
(* One step of the policy or of the robot.                                  *)
(***************************************************************************)
\* Every step keeps account of rows and waypoints.
LEMMA StepTrialTypes ==
    ASSUME CollectInv, Collect!Next PROVE TrialTypes'
<1>1. /\ TrialTypes /\ CollectSteps \in Nat \ {0} /\ MaxAttempts \in Nat \ {0}
      /\ shot \in Collect!Frame /\ move \in Motions
  BY MCMotionAssumption DEF CollectInv, CollectTypes, WorldTypes, Collect!CollectAssumption
<1>2. CASE Collect!Begin
  BY <1>1, <1>2 DEF Collect!Begin, Collect!Finish, Collect!work, TrialTypes, Stages
<1>3. CASE Collect!Lift
  BY <1>1, <1>3
     DEF Collect!Lift, Collect!Finish, Collect!NextStage, Collect!Send, TrialTypes, Stages
<1>4. CASE Collect!Approach
  BY <1>1, <1>4 DEF Collect!Approach, Collect!Finish, Collect!Send, TrialTypes, Stages
<1>5. CASE Collect!Baseline
  BY <1>1, <1>5 DEF Collect!Baseline, Collect!task, TrialTypes, Stages
<1>6. CASE Collect!BaselineTimeout
  BY <1>1, <1>6
     DEF Collect!BaselineTimeout, Collect!Finish, Collect!work, TrialTypes, Stages
<1>7. CASE Collect!FollowCommand
  BY <1>1, <1>7 DEF Collect!FollowCommand, Collect!Send, Collect!task, TrialTypes, Stages
<1>8. CASE Collect!FollowFeel
  BY <1>1, <1>8 DEF Collect!FollowFeel, Collect!task, TrialTypes, Stages
<1>9. CASE Collect!Retreat
  <2>1. /\ UNCHANGED <<conf, collected>> /\ stage = "retreat"
        /\ \/ stage' = "done" /\ status' = "approach_failed"
           \/ stage' = "collect" /\ status' = status
        /\ touch' \in BOOLEAN /\ (UNCHANGED loop \/ Collect!SkipWaypoint)
    BY <1>1, <1>9 DEF Collect!Retreat, Collect!Send, Collect!Finish
  <2> QED
    BY <1>1, <2>1, Kept
<1>10. CASE Collect!Attempt
  <2> DEFINE n == IF loop.wp >= loop.planned THEN loop.planned + CollectSteps ELSE loop.planned
  <2>1. /\ UNCHANGED <<conf, collected, touch>> /\ stage = "collect"
        /\ collected >= CollectSteps => Collect!Finish("ok") /\ UNCHANGED loop
        /\ ~(collected >= CollectSteps) /\ loop.tries >= MaxAttempts =>
             Collect!Finish("collect_failed") /\ loop' = [loop EXCEPT !.planned = n]
        /\ ~(collected >= CollectSteps) /\ ~(loop.tries >= MaxAttempts) =>
             /\ loop' = [loop EXCEPT !.planned = n, !.tries = loop.tries + 1]
             /\ stage' = "plan" /\ UNCHANGED status
    BY <1>10 DEF Collect!Attempt
  <2>2. /\ loop \in Loops /\ n \in Nat /\ loop.tries \in Nat /\ loop.tries + 1 \in Nat
        /\ loop.wp = collected + loop.lost /\ loop.tries <= MaxAttempts
        /\ collected \in Nat /\ collected <= CollectSteps
    BY <1>1 DEF TrialTypes, Loops
  <2> HIDE DEF n
  <2>3. CASE collected >= CollectSteps
    BY <1>1, <2>1, <2>2, <2>3 DEF TrialTypes, Stages, Collect!Finish
  <2>4. CASE ~(collected >= CollectSteps) /\ loop.tries >= MaxAttempts
    <3>1. /\ loop' = [loop EXCEPT !.planned = n] /\ stage' = "done"
          /\ status' = "collect_failed"
      BY <2>1, <2>4 DEF Collect!Finish
    <3>2. /\ loop' \in Loops /\ loop'.wp = loop.wp /\ loop'.lost = loop.lost
          /\ loop'.tries = loop.tries
      BY <2>2, <3>1 DEF Loops
    <3> QED
      BY <1>1, <2>1, <2>2, <3>1, <3>2 DEF TrialTypes, Stages
  <2>5. CASE ~(collected >= CollectSteps) /\ ~(loop.tries >= MaxAttempts)
    <3>1. /\ loop' = [loop EXCEPT !.planned = n, !.tries = loop.tries + 1] /\ stage' = "plan"
          /\ UNCHANGED status
      BY <2>1, <2>5
    <3>2. loop' \in Loops
      BY <2>2, <3>1 DEF Loops
    <3>3. loop'.wp = loop.wp /\ loop'.lost = loop.lost /\ loop'.tries = loop.tries + 1
      BY <2>2, <3>1 DEF Loops
    <3>4. loop.tries + 1 <= MaxAttempts /\ collected < CollectSteps
      BY <1>1, <2>2, <2>5
    <3> QED
      BY <1>1, <2>1, <2>2, <3>1, <3>2, <3>3, <3>4 DEF TrialTypes, Stages
  <2> QED
    BY <2>3, <2>4, <2>5
<1>11. CASE Collect!Plan
  BY <1>1, <1>11 DEF Collect!Plan, Collect!task, Collect!work, TrialTypes, Stages
<1>12. CASE Collect!Command
  BY <1>1, <1>12 DEF Collect!Command, Collect!Send, Collect!task, TrialTypes, Stages
<1>13. CASE Collect!SettlePoll
  BY <1>1, <1>13 DEF Collect!SettlePoll, Collect!task, TrialTypes, Stages
<1>14. CASE Collect!SettleTimeout
  BY <1>1, <1>14 DEF Collect!SettleTimeout, Collect!task, Collect!work, TrialTypes, Stages
<1>15. CASE Collect!Hold
  BY <1>1, <1>15 DEF Collect!Hold, Collect!Send, Collect!task, TrialTypes, Stages
<1>16. CASE Collect!WaitForObservation
  BY <1>1, <1>16 DEF Collect!WaitForObservation, Collect!task, TrialTypes, Stages
<1>17. CASE Collect!ObservationTimeout
  BY <1>1, <1>17
     DEF Collect!ObservationTimeout, Collect!task, Collect!work, TrialTypes, Stages
<1>18. CASE Collect!LookupPlug
  BY <1>1, <1>18 DEF Collect!LookupPlug, Collect!task, Collect!work, TrialTypes, Stages
<1>19. CASE Collect!Save
  <2>1. /\ conf' = conf /\ status' = status /\ stage = "save" /\ stage' = "collect"
        /\ touch' = touch
        /\ \/ collected' = collected + 1 /\ loop' = [loop EXCEPT !.wp = loop.wp + 1, !.tries = 0]
           \/ UNCHANGED collected /\ (UNCHANGED loop \/ Collect!SkipWaypoint)
    BY <1>19 DEF Collect!Save
  <2>2. CASE UNCHANGED collected /\ (UNCHANGED loop \/ Collect!SkipWaypoint)
    <3>1. touch' \in BOOLEAN
      BY <1>1, <2>1 DEF TrialTypes
    <3> QED
      BY <1>1, <2>1, <2>2, <3>1, Kept
  <2>3. CASE /\ collected' = collected + 1
             /\ loop' = [loop EXCEPT !.wp = loop.wp + 1, !.tries = 0]
    <3>1. /\ loop.wp + 1 \in Nat /\ loop \in Loops /\ loop.lost \in Nat /\ collected \in Nat
          /\ loop.wp = collected + loop.lost /\ collected < CollectSteps
      BY <1>1, <2>1 DEF TrialTypes, Loops
    <3>2. loop' \in Loops
      BY <2>3, <3>1 DEF Loops
    <3>3. loop'.wp = loop.wp + 1 /\ loop'.tries = 0 /\ loop'.lost = loop.lost
      BY <2>3, <3>1 DEF Loops
    <3>4. /\ collected' <= CollectSteps /\ collected' \in Nat
          /\ loop'.wp = collected' + loop'.lost
      BY <1>1, <2>3, <3>1, <3>3
    <3> QED
      BY <1>1, <2>1, <3>2, <3>3, <3>4 DEF TrialTypes, Stages
  <2> QED
    BY <2>1, <2>2, <2>3
<1>20. CASE Collect!Tick
  BY <1>1, <1>20 DEF Collect!Tick, Collect!task, Collect!work, TrialTypes
<1> QED
  BY <1>2, <1>3, <1>4, <1>5, <1>6, <1>7, <1>8, <1>9, <1>10, <1>11, <1>12, <1>13, <1>14,
     <1>15, <1>16, <1>17, <1>18, <1>19, <1>20 DEF Collect!Next, Collect!Policy

\* Every capture is a row.
LEMMA StepRowTypes ==
    ASSUME CollectInv, Collect!Next PROVE RowTypes'
<1>1. RowTypes /\ loop \in Loops /\ shot \in Collect!Frame
  BY DEF CollectInv, CollectTypes, TrialTypes, WorldTypes
<1>2. CASE Collect!Begin
  BY <1>1, <1>2 DEF Collect!Begin, Collect!work, RowTypes
<1>3. CASE Collect!Lift
  BY <1>1, <1>3 DEF Collect!Lift, RowTypes
<1>4. CASE Collect!Approach
  BY <1>1, <1>4 DEF Collect!Approach, RowTypes
<1>5. CASE Collect!Baseline
  BY <1>1, <1>5 DEF Collect!Baseline, Collect!task, RowTypes
<1>6. CASE Collect!BaselineTimeout
  BY <1>1, <1>6 DEF Collect!BaselineTimeout, Collect!work, RowTypes
<1>7. CASE Collect!FollowCommand
  BY <1>1, <1>7 DEF Collect!FollowCommand, Collect!task, RowTypes
<1>8. CASE Collect!FollowFeel
  BY <1>1, <1>8 DEF Collect!FollowFeel, Collect!task, RowTypes
<1>9. CASE Collect!Retreat
  BY <1>1, <1>9 DEF Collect!Retreat, RowTypes
<1>10. CASE Collect!Attempt
  BY <1>1, <1>10 DEF Collect!Attempt, RowTypes
<1>11. CASE Collect!Plan
  BY <1>1, <1>11 DEF Collect!Plan, Collect!task, Collect!work, RowTypes
<1>12. CASE Collect!Command
  BY <1>1, <1>12 DEF Collect!Command, Collect!task, RowTypes
<1>13. CASE Collect!SettlePoll
  BY <1>1, <1>13 DEF Collect!SettlePoll, Collect!task, RowTypes
<1>14. CASE Collect!SettleTimeout
  BY <1>1, <1>14 DEF Collect!SettleTimeout, Collect!task, Collect!work, RowTypes
<1>15. CASE Collect!Hold
  BY <1>1, <1>15 DEF Collect!Hold, Collect!task, RowTypes
<1>16. CASE Collect!WaitForObservation
  BY <1>1, <1>16 DEF Collect!WaitForObservation, Collect!task, RowTypes
<1>17. CASE Collect!ObservationTimeout
  BY <1>1, <1>17 DEF Collect!ObservationTimeout, Collect!task, Collect!work, RowTypes
<1>18. CASE Collect!LookupPlug
  BY <1>1, <1>18 DEF Collect!LookupPlug, Collect!task, Collect!work, RowTypes
<1>19. CASE Collect!Save
  <2> DEFINE r == [wp |-> loop.wp, img |-> shot.img, tcp |-> shot.tcp,
                   plug |-> Collect!PlugAt(shot), fresh |-> shot.cam > move.stamp]
  <2>1. r \in Rows
    <3>1. /\ loop.wp \in Nat /\ shot.img \in Int /\ shot.tcp \in Int
          /\ (shot.cam > move.stamp) \in BOOLEAN
      BY <1>1 DEF Loops, Collect!Frame
    <3> QED
      BY <3>1 DEF Rows, Collect!PlugAt
  <2>2. \/ UNCHANGED <<collected, rows>>
        \/ collected' = collected + 1 /\ rows' = Append(rows, r)
    BY <1>19 DEF Collect!Save
  <2> HIDE DEF r
  <2> QED
    BY <1>1, <2>1, <2>2 DEF RowTypes
<1>20. CASE Collect!Tick
  BY <1>1, <1>20 DEF Collect!Tick, Collect!task, Collect!work, RowTypes
<1> QED
  BY <1>2, <1>3, <1>4, <1>5, <1>6, <1>7, <1>8, <1>9, <1>10, <1>11, <1>12, <1>13, <1>14,
     <1>15, <1>16, <1>17, <1>18, <1>19, <1>20 DEF Collect!Next, Collect!Policy

\* A trial that ends has a status.
LEMMA StepStatusOK ==
    ASSUME CollectInv, Collect!Next PROVE StatusOK'
<1>1. StatusOK
  BY DEF CollectInv, CollectTypes
<1>2. CASE Collect!Begin
  BY <1>1, <1>2 DEF Collect!Begin, Collect!Finish, StatusOK
<1>3. CASE Collect!Lift
  BY <1>1, <1>3 DEF Collect!Lift, Collect!Finish, Collect!NextStage, StatusOK
<1>4. CASE Collect!Approach
  BY <1>1, <1>4 DEF Collect!Approach, Collect!Finish, StatusOK
<1>5. CASE Collect!Baseline
  BY <1>1, <1>5 DEF Collect!Baseline, Collect!task, StatusOK
<1>6. CASE Collect!BaselineTimeout
  BY <1>1, <1>6 DEF Collect!BaselineTimeout, Collect!Finish, StatusOK
<1>7. CASE Collect!FollowCommand
  BY <1>1, <1>7 DEF Collect!FollowCommand, Collect!task, StatusOK
<1>8. CASE Collect!FollowFeel
  BY <1>1, <1>8 DEF Collect!FollowFeel, Collect!task, StatusOK
<1>9. CASE Collect!Retreat
  BY <1>1, <1>9 DEF Collect!Retreat, Collect!Finish, StatusOK
<1>10. CASE Collect!Attempt
  BY <1>1, <1>10 DEF Collect!Attempt, Collect!Finish, StatusOK
<1>11. CASE Collect!Plan
  BY <1>1, <1>11 DEF Collect!Plan, Collect!task, StatusOK
<1>12. CASE Collect!Command
  BY <1>1, <1>12 DEF Collect!Command, Collect!task, StatusOK
<1>13. CASE Collect!SettlePoll
  BY <1>1, <1>13 DEF Collect!SettlePoll, Collect!task, StatusOK
<1>14. CASE Collect!SettleTimeout
  BY <1>1, <1>14 DEF Collect!SettleTimeout, Collect!task, StatusOK
<1>15. CASE Collect!Hold
  BY <1>1, <1>15 DEF Collect!Hold, Collect!task, StatusOK
<1>16. CASE Collect!WaitForObservation
  BY <1>1, <1>16 DEF Collect!WaitForObservation, Collect!task, StatusOK
<1>17. CASE Collect!ObservationTimeout
  BY <1>1, <1>17 DEF Collect!ObservationTimeout, Collect!task, StatusOK
<1>18. CASE Collect!LookupPlug
  BY <1>1, <1>18 DEF Collect!LookupPlug, Collect!task, StatusOK
<1>19. CASE Collect!Save
  BY <1>1, <1>19 DEF Collect!Save, StatusOK
<1>20. CASE Collect!Tick
  BY <1>1, <1>20 DEF Collect!Tick, Collect!task, StatusOK
<1> QED
  BY <1>2, <1>3, <1>4, <1>5, <1>6, <1>7, <1>8, <1>9, <1>10, <1>11, <1>12, <1>13, <1>14,
     <1>15, <1>16, <1>17, <1>18, <1>19, <1>20 DEF Collect!Next, Collect!Policy

\* Every step keeps the types of robot and observations.
LEMMA StepWorldTypes ==
    ASSUME CollectInv, Collect!Next PROVE WorldTypes'
<1>1. WorldTypes /\ Horizon \in Nat \ {0, 1}
  BY MCMotionAssumption DEF CollectInv, CollectTypes, Collect!CollectAssumption
<1>2. CASE Collect!Begin
  BY <1>1, <1>2 DEF Collect!Begin, Collect!world, Collect!work, WorldTypes
<1>3. CASE Collect!Lift
  BY <1>1, <1>3
     DEF Collect!Lift, Collect!NextStage, Collect!Send, Collect!world, WorldTypes, Motions,
         Collect!Frame
<1>4. CASE Collect!Approach
  <2>1. /\ UNCHANGED <<now, latest, shot>>
        /\ \/ UNCHANGED <<robot, move>>
           \/ /\ \E s \in {"approach", "collect", move.stage} :
                    move' = [move EXCEPT !.start = latest.tcp, !.pos = latest.tcp, !.to = 1,
                                         !.stage = s]
              /\ robot' \in {robot, [robot EXCEPT !.cmd = 1]}
    BY <1>4 DEF Collect!Approach, Collect!Send, Collect!world
  <2>2. move' \in Motions
    <3>1. latest.tcp \in Int /\ move \in Motions /\ move.stage \in {"lift", "approach", "collect"}
      BY <1>1 DEF WorldTypes, Motions, Collect!Frame
    <3>2. ASSUME NEW s \in {"lift", "approach", "collect"},
                 move' = [move EXCEPT !.start = latest.tcp, !.pos = latest.tcp, !.to = 1,
                                      !.stage = s]
          PROVE  move' \in Motions
      <4>1. move' = [stage |-> s, start |-> latest.tcp, to |-> 1, pos |-> latest.tcp,
                     stamp |-> move.stamp]
        BY <3>1, <3>2 DEF Motions
      <4>2. move.stamp \in Moments /\ s \in {"lift", "approach", "collect"} /\ 1 \in Int
        BY <3>1 DEF Motions
      <4> QED
        BY <3>1, <4>1, <4>2 DEF Motions
    <3> QED
      BY <2>1, <3>1, <3>2
  <2> QED
    BY <1>1, <2>1, <2>2 DEF WorldTypes
<1>5. CASE Collect!Baseline
  BY <1>1, <1>5 DEF Collect!Baseline, Collect!world, WorldTypes
<1>6. CASE Collect!BaselineTimeout
  BY <1>1, <1>6 DEF Collect!BaselineTimeout, Collect!world, Collect!work, WorldTypes
<1>7. CASE Collect!FollowCommand
  <2>1. Collect!Toward(move.pos, move.to) \in Int
    BY <1>1 DEF WorldTypes, Motions, Collect!Toward
  <2>2. \E p \in Int : /\ robot' = [robot EXCEPT !.cmd = p] /\ move' = [move EXCEPT !.pos = p]
                        /\ UNCHANGED <<now, latest, shot>>
    BY <1>7, <2>1 DEF Collect!FollowCommand, Collect!Send, Collect!world
  <2> QED
    BY <1>1, <2>2 DEF WorldTypes, Motions
<1>8. CASE Collect!FollowFeel
  BY <1>1, <1>8 DEF Collect!FollowFeel, Collect!world, WorldTypes, Motions, Collect!Frame
<1>9. CASE Collect!Retreat
  BY <1>1, <1>9 DEF Collect!Retreat, Collect!Send, Collect!world, WorldTypes, Motions
<1>10. CASE Collect!Attempt
  <2>1. UNCHANGED <<now, latest, robot, move>> /\ shot' = Collect!None
    BY <1>10 DEF Collect!Attempt, Collect!world
  <2>2. Collect!None \in Collect!Frame
    BY <1>1 DEF Collect!None, Collect!Frame, Collect!Stamp
  <2> QED
    BY <1>1, <2>1, <2>2 DEF WorldTypes
<1>11. CASE Collect!Plan
  <2>1. CASE UNCHANGED <<now, latest, robot, move, shot>>
    BY <1>1, <2>1 DEF WorldTypes
  <2>2. CASE /\ now' = 2 /\ latest' = [latest EXCEPT !.at = 1, !.cam = 0, !.img = latest.tcp]
             /\ move' = [move EXCEPT !.start = latest.tcp, !.pos = latest.tcp,
                                     !.to = Collect!Target(loop.wp), !.stamp = 0]
             /\ UNCHANGED <<robot, shot>>
    <3>1. Collect!Target(loop.wp) \in Int
      BY DEF CollectInv, CollectTypes, TrialTypes, Loops, Collect!Target
    <3>2. /\ latest \in Collect!Frame /\ latest.tcp \in Int /\ move \in Motions /\ 0 \in Moments
          /\ 0 \in Collect!Stamp /\ 1 \in Collect!Stamp
      BY <1>1 DEF WorldTypes, Collect!Frame, Collect!Stamp, Moments
    <3>3. latest' \in Collect!Frame /\ latest'.at = 1 /\ latest'.cam = 0
      BY <2>2, <3>2 DEF Collect!Frame
    <3>4. move' \in Motions
      BY <2>2, <3>1, <3>2 DEF Motions
    <3> QED
      BY <1>1, <2>2, <3>3, <3>4 DEF WorldTypes
  <2> QED
    BY <1>11, <2>1, <2>2 DEF Collect!Plan, Collect!Rebase, Collect!world, Collect!work
<1>12. CASE Collect!Command
  BY <1>1, <1>12
     DEF Collect!Command, Collect!Send, Collect!world, WorldTypes, Motions, Moments
<1>13. CASE Collect!SettlePoll
  BY <1>1, <1>13 DEF Collect!SettlePoll, Collect!world, WorldTypes
<1>14. CASE Collect!SettleTimeout
  BY <1>1, <1>14 DEF Collect!SettleTimeout, Collect!world, Collect!work, WorldTypes
<1>15. CASE Collect!Hold
  BY <1>1, <1>15 DEF Collect!Hold, Collect!Send, Collect!world, WorldTypes, Collect!Frame
<1>16. CASE Collect!WaitForObservation
  BY <1>1, <1>16 DEF Collect!WaitForObservation, Collect!world, WorldTypes
<1>17. CASE Collect!ObservationTimeout
  BY <1>1, <1>17 DEF Collect!ObservationTimeout, Collect!world, Collect!work, WorldTypes
<1>18. CASE Collect!LookupPlug
  BY <1>1, <1>18 DEF Collect!LookupPlug, Collect!world, Collect!work, WorldTypes
<1>19. CASE Collect!Save
  BY <1>1, <1>19 DEF Collect!Save, Collect!world, WorldTypes
<1>20. CASE Collect!Tick
  <2>1. now' \in 1 .. Horizon /\ now' = now + 1 /\ now \in Nat
    BY <1>1, <1>20 DEF WorldTypes, Collect!Tick
  <2>2. robot' \in [cmd : Int, ref : Int, tcp : Int, rest : BOOLEAN, late : BOOLEAN]
    BY <1>1, <1>20, Moved DEF WorldTypes, Collect!Tick
  <2>3. /\ latest' \in Collect!Frame /\ latest'.at <= now' /\ latest'.cam <= latest'.at
    <3>1. CASE UNCHANGED latest
      BY <1>1, <2>1, <3>1 DEF WorldTypes, Collect!Frame, Collect!Stamp
    <3>2. CASE Collect!Observed
      <4>1. PICK cam \in {now', now, 0}, hit \in BOOLEAN :
               latest' = [cam |-> cam, at |-> now', tcp |-> robot'.tcp, ref |-> robot'.ref,
                          img |-> IF cam = now THEN robot.tcp ELSE robot'.tcp, hit |-> hit]
        BY <3>2 DEF Collect!Observed
      <4> QED
        BY <1>1, <2>1, <2>2, <4>1 DEF WorldTypes, Collect!Frame, Collect!Stamp
    <3> QED
      BY <1>20, <3>1, <3>2 DEF Collect!Tick
  <2> QED
    BY <1>1, <1>20, <2>1, <2>2, <2>3 DEF WorldTypes, Collect!Tick, Collect!work
<1> QED
  BY <1>2, <1>3, <1>4, <1>5, <1>6, <1>7, <1>8, <1>9, <1>10, <1>11, <1>12, <1>13, <1>14,
     <1>15, <1>16, <1>17, <1>18, <1>19, <1>20 DEF Collect!Next, Collect!Policy

\* Every step keeps the type of what has settled.
LEMMA StepPairTypes ==
    ASSUME CollectInv, Collect!Next PROVE PairTypes'
<1>1. /\ PairTypes /\ StableObs \in Nat \ {0}
      /\ latest.at \in Moments /\ latest.tcp \in Int /\ latest.ref \in Int
      /\ move.stamp \in Nat
  BY MCMotionAssumption
     DEF CollectInv, CollectTypes, WorldTypes, Motions, Moments, Collect!Frame, Collect!Stamp,
         Collect!CollectAssumption
<1>2. CASE Collect!Begin
  BY <1>1, <1>2 DEF Collect!Begin, Collect!work, PairTypes, Unsettled, Collect!NoPair
<1>3. CASE Collect!Lift
  BY <1>1, <1>3 DEF Collect!Lift, PairTypes, Unsettled, Collect!NoPair
<1>4. CASE Collect!Approach
  BY <1>1, <1>4 DEF Collect!Approach, PairTypes, Unsettled, Collect!NoPair
<1>5. CASE Collect!Baseline
  BY <1>1, <1>5 DEF Collect!Baseline, PairTypes, Unsettled
<1>6. CASE Collect!BaselineTimeout
  BY <1>1, <1>6
     DEF Collect!BaselineTimeout, Collect!work, PairTypes, Unsettled, Collect!NoPair
<1>7. CASE Collect!FollowCommand
  BY <1>1, <1>7 DEF Collect!FollowCommand, PairTypes, Unsettled
<1>8. CASE Collect!FollowFeel
  BY <1>1, <1>8 DEF Collect!FollowFeel, PairTypes, Unsettled
<1>9. CASE Collect!Retreat
  BY <1>1, <1>9 DEF Collect!Retreat, Collect!Finish, PairTypes, Unsettled
<1>10. CASE Collect!Attempt
  <2>1. settle' = Collect!NoPair /\ stage' \in {"done", "plan"}
    BY <1>10 DEF Collect!Attempt, Collect!Finish
  <2>2. Collect!NoPair \in Pairs /\ Collect!NoPair.stable = 0
    BY <1>1, MCMotionAssumption DEF Collect!NoPair, Pairs, Moments, Collect!CollectAssumption
  <2> QED
    BY <1>1, <2>1, <2>2 DEF PairTypes, Unsettled
<1>11. CASE Collect!Plan
  BY <1>1, <1>11 DEF Collect!Plan, Collect!work, PairTypes, Unsettled
<1>12. CASE Collect!Command
  BY <1>1, <1>12 DEF Collect!Command, PairTypes, Unsettled, Collect!NoPair
<1>13. CASE Collect!SettlePoll
  <2>1. Collect!Converge(settle, latest) \in Pairs
        /\ Collect!Converge(settle, latest).stable <= StableObs
        /\ (Collect!Converge(settle, latest).at = 0
              => Collect!Converge(settle, latest).stable < StableObs)
    BY <1>1, <1>13, Converged DEF Collect!SettlePoll
  <2>2. \/ stage' = "hold" /\ settle' = settle
        \/ /\ settle' = Collect!Converge(settle, latest)
           /\ stage' = IF settle'.at # 0 THEN "observe" ELSE "settle"
    BY <1>13 DEF Collect!SettlePoll
  <2> QED
    BY <1>1, <2>1, <2>2 DEF PairTypes, Unsettled
<1>14. CASE Collect!SettleTimeout
  BY <1>1, <1>14 DEF Collect!SettleTimeout, Collect!work, PairTypes, Unsettled
<1>15. CASE Collect!Hold
  BY <1>1, <1>15 DEF Collect!Hold, PairTypes, Unsettled
<1>16. CASE Collect!WaitForObservation
  BY <1>1, <1>16 DEF Collect!WaitForObservation, PairTypes, Unsettled
<1>17. CASE Collect!ObservationTimeout
  BY <1>1, <1>17 DEF Collect!ObservationTimeout, Collect!work, PairTypes, Unsettled
<1>18. CASE Collect!LookupPlug
  BY <1>1, <1>18 DEF Collect!LookupPlug, Collect!work, PairTypes, Unsettled
<1>19. CASE Collect!Save
  BY <1>1, <1>19 DEF Collect!Save, PairTypes, Unsettled
<1>20. CASE Collect!Tick
  BY <1>1, <1>20 DEF Collect!Tick, Collect!work, PairTypes
<1> QED
  BY <1>2, <1>3, <1>4, <1>5, <1>6, <1>7, <1>8, <1>9, <1>10, <1>11, <1>12, <1>13, <1>14,
     <1>15, <1>16, <1>17, <1>18, <1>19, <1>20 DEF Collect!Next, Collect!Policy

\* A contact is kept until the start of the motion has been commanded again.
LEMMA StepTouchOK ==
    ASSUME CollectInv, Collect!Next PROVE TouchOK'
<1>1. TouchOK
  BY DEF CollectInv
<1>2. CASE Collect!Begin
  BY <1>1, <1>2 DEF Collect!Begin, Collect!work, TouchOK
<1>3. CASE Collect!Lift
  BY <1>1, <1>3 DEF Collect!Lift, Collect!Send, TouchOK
<1>4. CASE Collect!Approach
  BY <1>1, <1>4 DEF Collect!Approach, Collect!Send, TouchOK
<1>5. CASE Collect!Baseline
  BY <1>1, <1>5 DEF Collect!Baseline, TouchOK
<1>6. CASE Collect!BaselineTimeout
  BY <1>1, <1>6 DEF Collect!BaselineTimeout, Collect!work, TouchOK
<1>7. CASE Collect!FollowCommand
  BY <1>1, <1>7 DEF Collect!FollowCommand, Collect!Send, TouchOK
<1>8. CASE Collect!FollowFeel
  BY <1>1, <1>8 DEF Collect!FollowFeel, TouchOK
<1>9. CASE Collect!Retreat
  BY <1>1, <1>9 DEF Collect!Retreat, Collect!Send, TouchOK
<1>10. CASE Collect!Attempt
  BY <1>1, <1>10 DEF Collect!Attempt, TouchOK
<1>11. CASE Collect!Plan
  BY <1>1, <1>11 DEF Collect!Plan, Collect!work, TouchOK
<1>12. CASE Collect!Command
  BY <1>1, <1>12 DEF Collect!Command, Collect!Send, TouchOK
<1>13. CASE Collect!SettlePoll
  BY <1>1, <1>13 DEF Collect!SettlePoll, TouchOK
<1>14. CASE Collect!SettleTimeout
  BY <1>1, <1>14 DEF Collect!SettleTimeout, Collect!work, TouchOK
<1>15. CASE Collect!Hold
  BY <1>1, <1>15 DEF Collect!Hold, TouchOK
<1>16. CASE Collect!WaitForObservation
  BY <1>1, <1>16 DEF Collect!WaitForObservation, TouchOK
<1>17. CASE Collect!ObservationTimeout
  BY <1>1, <1>17 DEF Collect!ObservationTimeout, Collect!work, TouchOK
<1>18. CASE Collect!LookupPlug
  BY <1>1, <1>18 DEF Collect!LookupPlug, Collect!work, TouchOK
<1>19. CASE Collect!Save
  BY <1>1, <1>19 DEF Collect!Save, TouchOK
<1>20. CASE Collect!Tick
  BY <1>1, <1>20 DEF Collect!Tick, Collect!work, TouchOK
<1> QED
  BY <1>2, <1>3, <1>4, <1>5, <1>6, <1>7, <1>8, <1>9, <1>10, <1>11, <1>12, <1>13, <1>14,
     <1>15, <1>16, <1>17, <1>18, <1>19, <1>20 DEF Collect!Next, Collect!Policy

\* Which steps lead into a stage of the capture, and that only a capture writes a row.
LEMMA Paths ==
    ASSUME Collect!Next
    PROVE  /\ stage' = "settle" => Collect!Command \/ Collect!SettlePoll \/ Collect!Tick
           /\ stage' = "observe" => Collect!SettlePoll \/ Collect!Tick
           /\ stage' \in {"tf", "save"} =>
                Collect!WaitForObservation \/ Collect!LookupPlug \/ Collect!Tick
           /\ UNCHANGED rows \/ Collect!Save
  BY DEF Collect!Next, Collect!Policy, Collect!Begin, Collect!Lift, Collect!Approach,
         Collect!Baseline, Collect!BaselineTimeout, Collect!FollowCommand, Collect!FollowFeel,
         Collect!Retreat, Collect!Attempt, Collect!Plan, Collect!Command, Collect!SettlePoll,
         Collect!SettleTimeout, Collect!Hold, Collect!WaitForObservation,
         Collect!ObservationTimeout, Collect!LookupPlug, Collect!Save, Collect!Tick,
         Collect!Finish, Collect!NextStage, Collect!work, Collect!task

\* An observation is taken as a shot only of a robot that stands still.
LEMMA StepShotOK ==
    ASSUME CollectInv, Collect!Next PROVE ShotOK'
<1>1. /\ ShotOK /\ ObserveOK
      /\ shot \in Collect!Frame /\ latest \in Collect!Frame
      /\ settle.at \in Nat /\ move.stamp \in Nat
  BY DEF CollectInv, CollectTypes, WorldTypes, PairTypes, Pairs, Motions, Moments, Collect!Frame,
     Collect!Stamp
<1>2. SUFFICES ASSUME stage' \in {"tf", "save"} PROVE ShotOK'
  BY DEF ShotOK
<1>3. CASE Collect!WaitForObservation
  BY <1>1, <1>2, <1>3
     DEF Collect!WaitForObservation, ShotOK, ObserveOK, Collect!Acceptable, Collect!Frame,
         Collect!Stamp
<1>4. CASE Collect!LookupPlug
  BY <1>1, <1>2, <1>4 DEF Collect!LookupPlug, Collect!work, ShotOK
<1>5. CASE Collect!Tick
  BY <1>1, <1>2, <1>5 DEF Collect!Tick, Collect!work, ShotOK
<1> QED
  BY <1>2, <1>3, <1>4, <1>5, Paths

\* A row shows its shot.
LEMMA StepRows ==
    ASSUME CollectInv, Collect!Next PROVE CapturedAtRest'
<1>1. ShotOK /\ rows \in Seq(Rows) /\ Collect!CapturedAtRest
  BY DEF CollectInv, CollectTypes, RowTypes, CapturedAtRest
<1> USE DEF CapturedAtRest
<1>2. CASE UNCHANGED rows
  BY <1>1, <1>2 DEF Collect!CapturedAtRest
<1>3. CASE Collect!Save
  <2>1. CASE UNCHANGED rows
    BY <1>1, <2>1 DEF Collect!CapturedAtRest
  <2>2. ASSUME NEW k, rows' = Append(rows, [wp |-> k, img |-> shot.img, tcp |-> shot.tcp,
                                 plug |-> Collect!PlugAt(shot), fresh |-> shot.cam > move.stamp])
        PROVE  Collect!CapturedAtRest'
    <3>1. shot.img = shot.tcp /\ shot.cam > move.stamp
      BY <1>1, <1>3 DEF ShotOK, Collect!Save
    <3> DEFINE r == [wp |-> k, img |-> shot.img, tcp |-> shot.tcp,
                     plug |-> Collect!PlugAt(shot), fresh |-> shot.cam > move.stamp]
    <3>2. r.img = r.tcp /\ r.plug = r.img /\ r.fresh
      BY <3>1 DEF Collect!PlugAt
    <3> HIDE DEF r
    <3>3. ASSUME NEW i \in DOMAIN rows'
          PROVE  rows'[i] = r \/ (i \in DOMAIN rows /\ rows'[i] = rows[i])
      BY <1>1, <2>2, <3>3 DEF r
    <3> QED
      BY <1>1, <3>2, <3>3 DEF Collect!CapturedAtRest
  <2> QED
    BY <1>3, <2>1, <2>2 DEF Collect!Save
<1> QED
  BY <1>2, <1>3, Paths

\* The robot is at rest when it is found settled, and stays so.
LEMMA StepObserveOK ==
    ASSUME CollectInv, Collect!Next PROVE ObserveOK'
<1>1. /\ CollectTypes /\ SettleOK /\ ObserveOK /\ StableObs \in Nat \ {0}
  BY MCMotionAssumption DEF CollectInv, Collect!CollectAssumption
<1>2. SUFFICES ASSUME stage' = "observe" PROVE ObserveOK'
  BY DEF ObserveOK
<1>3. CASE Collect!SettlePoll
  <2>1. /\ stage = "settle" /\ settle' = Collect!Converge(settle, latest) /\ settle'.at # 0
        /\ UNCHANGED <<now, latest, robot, move>>
    BY <1>3, <1>2 DEF Collect!SettlePoll, Collect!world
  <2>2. /\ settle'.at = latest.at /\ latest.at > move.stamp /\ AtRest
    BY <1>1, <2>1, Settled
  <2> QED
    BY <1>1, <2>1, <2>2
       DEF ObserveOK, CollectTypes, WorldTypes, Collect!Frame, Collect!Stamp, AtRest
<1>4. CASE Collect!Tick
  <2>1. /\ stage = "observe" /\ now' = now + 1 /\ UNCHANGED <<settle, move>>
    BY <1>4, <1>2 DEF Collect!Tick, Collect!work
  <2>2. /\ settle.at \in Nat /\ now \in Nat /\ AtRest
        /\ settle.at > move.stamp /\ settle.at <= now
        /\ (latest.cam > settle.at => latest.img = latest.tcp)
    BY <1>1, <2>1 DEF ObserveOK, CollectTypes, PairTypes, WorldTypes, Pairs, Moments
  <2>3. AtRest' /\ robot'.tcp = robot.tcp
    BY <1>1, <1>4, <2>2, Moved DEF CollectTypes, WorldTypes, AtRest, Collect!Tick
  <2>4. latest'.cam > settle.at => latest'.img = latest'.tcp
    <3>1. CASE UNCHANGED latest
      BY <2>2, <3>1
    <3>2. CASE Collect!Observed
      <4>1. PICK cam \in {now', now, 0}, hit \in BOOLEAN :
               latest' = [cam |-> cam, at |-> now', tcp |-> robot'.tcp, ref |-> robot'.ref,
                          img |-> IF cam = now THEN robot.tcp ELSE robot'.tcp, hit |-> hit]
        BY <3>2 DEF Collect!Observed
      <4> QED
        BY <2>3, <4>1
    <3> QED
      BY <1>4, <3>1, <3>2 DEF Collect!Tick
  <2> QED
    BY <2>1, <2>2, <2>3, <2>4 DEF ObserveOK
<1> QED
  BY <1>2, <1>3, <1>4, Paths

\* While it settles the robot comes nearer, or has come to rest.
LEMMA StepSettleOK ==
    ASSUME CollectInv, Collect!Next PROVE SettleOK'
<1>1. /\ CollectTypes /\ SettleOK /\ ObserveOK /\ StableObs \in Nat \ {0}
  BY MCMotionAssumption DEF CollectInv, Collect!CollectAssumption
<1>2. SUFFICES ASSUME stage' = "settle" PROVE SettleOK'
  BY DEF SettleOK
<1>3. CASE Collect!Command
  <2>1. /\ move'.stamp = now /\ UNCHANGED <<now, latest, settle>>
        /\ settle = Collect!NoPair
    BY <1>1, <1>3 DEF Collect!Command, Collect!world, CollectTypes, WorldTypes, PairTypes,
       Unsettled, Motions
  <2>2. now \in Nat /\ latest.at \in Nat /\ latest.at <= now
    BY <1>1 DEF CollectTypes, WorldTypes, Collect!Frame, Collect!Stamp
  <2> QED
    BY <2>1, <2>2 DEF SettleOK, Followed, Collect!NoPair
<1>4. CASE Collect!SettlePoll
  <2>1. /\ stage = "settle" /\ settle' = Collect!Converge(settle, latest)
        /\ UNCHANGED <<now, latest, robot, move>>
    BY <1>4, <1>2 DEF Collect!SettlePoll, Collect!world
  <2>2. CASE settle' = settle
    BY <1>1, <1>2, <2>1, <2>2 DEF SettleOK, Followed, Nearer, AtRest, Distance
  <2>3. CASE /\ settle'.last = latest.at /\ settle'.tcp = latest.tcp /\ settle'.ref = latest.ref
             /\ latest.at > move.stamp
    <3>1. Followed(latest, latest.at) /\ latest.at \in Nat /\ settle'.at = 0
      BY <1>1, <1>2, <2>1, StepPairTypes DEF SettleOK, CollectTypes, WorldTypes, PairTypes,
         Collect!Frame, Collect!Stamp
    <3>2. Followed(settle, settle.last)'
      BY <2>1, <2>3, <3>1 DEF Followed, Nearer, AtRest, Distance
    <3> QED
      BY <1>1, <2>1, <2>3, <3>1, <3>2 DEF SettleOK, Followed, Nearer, AtRest, Distance
  <2>4. latest.at \in Nat /\ move.stamp \in Nat
    BY <1>1 DEF CollectTypes, WorldTypes, Motions, Moments, Collect!Frame, Collect!Stamp
  <2> QED
    BY <2>1, <2>2, <2>3, <2>4, Frames
<1>5. CASE Collect!Tick
  <2>1. /\ stage = "settle" /\ now' = now + 1 /\ UNCHANGED <<settle, move>>
        /\ Collect!RobotMoves /\ (UNCHANGED latest \/ Collect!Observed)
    BY <1>5, <1>2 DEF Collect!Tick, Collect!work
  <2>2. /\ now \in Nat /\ latest.at \in Nat /\ latest.at <= now /\ move.stamp \in Nat
        /\ latest.tcp \in Int /\ settle.tcp \in Int /\ settle.last \in Nat /\ settle.at = 0
        /\ robot \in [cmd : Int, ref : Int, tcp : Int, rest : BOOLEAN, late : BOOLEAN]
    BY <1>1, <2>1 DEF CollectTypes, WorldTypes, PairTypes, Pairs, Moments, Motions, Collect!Frame,
       Collect!Stamp
  <2>3. /\ move.stamp <= now
        /\ now > move.stamp => robot.ref = robot.cmd \/ (robot.late /\ now = move.stamp + 1)
        /\ Followed(latest, latest.at)
        /\ settle.last # 0 =>
             /\ settle.last > move.stamp /\ settle.last <= latest.at
             /\ Followed(settle, settle.last)
             /\ latest.at > settle.last /\ settle.ref = robot.cmd =>
                  \/ AtRest /\ robot.tcp = latest.tcp
                  \/ Nearer(settle.tcp, settle.last, latest.tcp, latest.at)
    BY <1>1, <2>1 DEF SettleOK
  <2>4. /\ robot' \in [cmd : Int, ref : Int, tcp : Int, rest : BOOLEAN, late : BOOLEAN]
        /\ robot'.cmd = robot.cmd /\ (robot'.ref = robot.cmd \/ (robot'.late /\ ~robot.late))
        /\ (robot.ref = robot.cmd => robot'.ref = robot.cmd)
        /\ (AtRest => AtRest' /\ robot'.tcp = robot.tcp)
        /\ (robot.ref = robot.cmd => AtRest' \/ Distance(robot'.tcp) + 1 <= Distance(robot.tcp))
    BY <2>1, <2>2, Moved, Approaches
  <2>5. \A x \in Int : Collect!Abs(x) \in Int
    BY DEF Collect!Abs
  <2>6. ASSUME NEW f, NEW at \in Nat, f.tcp \in Int, at <= now, Followed(f, at)
        PROVE  Followed(f, at)'
    <3>1. SUFFICES ASSUME at > move.stamp
                   PROVE  /\ f.ref = robot'.cmd => AtRest' \/ (robot'.ref = robot'.cmd
                                                    /\ Nearer(f.tcp, at, robot.tcp, now)')
                          /\ f.ref # robot'.cmd => at = move.stamp + 1
      BY <2>1, Zenon DEF Followed
    <3>2. CASE f.ref # robot.cmd
      BY <2>4, <2>6, <3>1, <3>2 DEF Followed
    <3>3. CASE f.ref = robot.cmd /\ AtRest
      BY <2>4, <3>3, Zenon
    <3>4. CASE f.ref = robot.cmd /\ ~AtRest
      <4>1. robot.ref = robot.cmd /\ Nearer(f.tcp, at, robot.tcp, now)
        BY <2>6, <3>1, <3>4, Zenon DEF Followed
      <4>2. AtRest' \/ Distance(robot'.tcp) + 1 <= Distance(robot.tcp)
        BY <2>4, <4>1, Zenon
      <4>3. Distance(robot'.tcp) + 1 <= Distance(robot.tcp) => Nearer(f.tcp, at, robot.tcp, now)'
        BY <2>1, <2>2, <2>4, <2>5, <2>6, <4>1 DEF Nearer, Distance
      <4>4. robot'.ref = robot'.cmd /\ f.ref = robot'.cmd
        BY <2>4, <3>4, <4>1
      <4> QED
        BY <4>2, <4>3, <4>4, Zenon
    <3> QED
      BY <3>2, <3>3, <3>4, Zenon
  <2>7. now' > move.stamp /\ (robot'.ref # robot'.cmd => robot'.late /\ now' = move.stamp + 1)
    BY <2>1, <2>2, <2>3, <2>4
  <2>8. settle'.last # 0 => Followed(settle, settle.last)'
    BY <2>1, <2>2, <2>3, <2>6
  <2>9. /\ move'.stamp <= now' /\ settle'.at = 0
        /\ now' > move'.stamp =>
             robot'.ref = robot'.cmd \/ (robot'.late /\ now' = move'.stamp + 1)
    BY <2>1, <2>2, <2>3, <2>7
  <2>10. CASE UNCHANGED latest
    <3>1. Followed(latest, latest.at)'
      BY <2>1, <2>2, <2>3, <2>6, <2>10
    <3>2. AtRest /\ robot.tcp = latest.tcp => AtRest' /\ robot'.tcp = latest'.tcp
      BY <2>4, <2>10
    <3>3. Nearer(settle.tcp, settle.last, latest.tcp, latest.at) =>
            Nearer(settle.tcp, settle.last, latest.tcp, latest.at)'
      BY <2>1, <2>4, <2>10 DEF Nearer, Distance
    <3>4. settle'.last # 0 /\ latest'.at > settle'.last /\ settle'.ref = robot'.cmd =>
            \/ AtRest' /\ robot'.tcp = latest'.tcp
            \/ Nearer(settle.tcp, settle.last, latest.tcp, latest.at)'
      BY <2>1, <2>3, <2>4, <2>10, <3>2, <3>3
    <3>5. settle'.last # 0 => settle'.last > move'.stamp /\ settle'.last <= latest'.at
      BY <2>1, <2>3, <2>10
    <3> QED
      BY <2>8, <2>9, <3>1, <3>4, <3>5, Zenon DEF SettleOK
  <2>11. CASE Collect!Observed
    <3>1. /\ latest'.at = now' /\ latest'.tcp = robot'.tcp /\ latest'.ref = robot'.ref
      BY <2>11 DEF Collect!Observed
    <3>2. Nearer(latest.tcp, latest.at, robot.tcp, now)'
      BY <2>1, <2>2, <2>4, <2>5, <3>1 DEF Nearer, Distance
    <3>3. Followed(latest, latest.at)'
      BY <2>1, <2>4, <2>7, <3>1, <3>2 DEF Followed
    <3>4. settle'.last # 0 /\ settle'.ref = robot'.cmd =>
            \/ AtRest' /\ robot'.tcp = latest'.tcp
            \/ Nearer(settle.tcp, settle.last, latest.tcp, latest.at)'
      BY <2>1, <2>2, <2>3, <2>8, <3>1 DEF Followed, Nearer
    <3>5. settle'.last # 0 => settle'.last > move'.stamp /\ settle'.last <= latest'.at
      BY <2>1, <2>2, <2>3, <3>1
    <3> QED
      BY <2>8, <2>9, <3>3, <3>4, <3>5, Zenon DEF SettleOK
  <2> QED
    BY <2>1, <2>10, <2>11
<1> QED
  BY <1>2, <1>3, <1>4, <1>5, Paths

\* A step that is none changes nothing.
LEMMA StutterPreserves == CollectInv /\ UNCHANGED Collect!vars => CollectInv'
<1> SUFFICES ASSUME CollectInv, UNCHANGED Collect!vars PROVE CollectInv'
  OBVIOUS
<1>1. UNCHANGED <<conf, stage, status, now, latest, robot, collected, loop, move, settle, shot,
                  touch, rows>>
  BY DEF Collect!vars
<1>2. CollectTypes'
  BY <1>1, Zenon DEF CollectInv, CollectTypes, TrialTypes, StatusOK, RowTypes, WorldTypes, PairTypes
<1>3. SettleOK' /\ ObserveOK'
  BY <1>1, Zenon
     DEF CollectInv, SettleOK, ObserveOK, Followed, Nearer, Distance, AtRest, Collect!Abs
<1>4. ShotOK' /\ TouchOK' /\ CapturedAtRest'
  BY <1>1, Zenon DEF CollectInv, ShotOK, TouchOK, CapturedAtRest, Collect!CapturedAtRest
<1> QED
  BY <1>2, <1>3, <1>4 DEF CollectInv

\* A trial begins with nothing collected, and with a robot that stands still.
LEMMA CollectInitially == Collect!Init => CollectInv
<1> SUFFICES ASSUME Collect!Init PROVE CollectInv
  OBVIOUS
<1>1. /\ CollectSteps \in Nat \ {0} /\ MaxAttempts \in Nat \ {0} /\ StableObs \in Nat \ {0}
      /\ Horizon \in Nat \ {0, 1}
  BY MCMotionAssumption DEF Collect!CollectAssumption
<1>2. StatusOK
  BY Zenon DEF Collect!Init, StatusOK
<1>3. /\ conf \in Settings /\ stage = "begin" /\ status # "ok" /\ now = 1
      /\ latest = Collect!None /\ shot = Collect!None
      /\ robot = [cmd |-> 0, ref |-> 0, tcp |-> 0, rest |-> TRUE, late |-> FALSE]
      /\ collected = 0 /\ loop = [wp |-> 0, tries |-> 0, planned |-> CollectSteps, lost |-> 0]
      /\ move = [stage |-> "lift", start |-> 0, to |-> 0, pos |-> 0, stamp |-> 0]
      /\ settle = Collect!NoPair /\ touch = FALSE /\ rows = <<>>
  BY Zenon DEF Collect!Init
<1>4. TrialTypes
  <2>1. loop \in Loops
    BY <1>1, <1>3 DEF Loops
  <2>2. stage \in Stages /\ touch \in BOOLEAN
    BY <1>3 DEF Stages
  <2>3. /\ loop.wp = 0 /\ loop.lost = 0 /\ loop.tries = 0 /\ 0 <= MaxAttempts
        /\ 0 < CollectSteps /\ collected = 0
    BY <1>1, <1>3
  <2> QED
    BY <1>1, <1>3, <2>1, <2>2, <2>3 DEF TrialTypes
<1>5. RowTypes /\ CapturedAtRest
  BY <1>3 DEF RowTypes, CapturedAtRest, Collect!CapturedAtRest
<1>6. WorldTypes
  BY <1>1, <1>3 DEF WorldTypes, Motions, Moments, Collect!None, Collect!Frame, Collect!Stamp
<1>7. PairTypes
  BY <1>1, <1>3 DEF PairTypes, Pairs, Moments, Unsettled, Collect!NoPair
<1>8. SettleOK /\ ObserveOK /\ ShotOK /\ TouchOK
  BY <1>3 DEF SettleOK, ObserveOK, ShotOK, TouchOK
<1> QED
  BY <1>2, <1>3, <1>4, <1>5, <1>6, <1>7, <1>8 DEF CollectInv, CollectTypes

\* The invariant is inductive.
LEMMA CollectInductive == CollectInv /\ [Collect!Next]_(Collect!vars) => CollectInv'
<1> SUFFICES ASSUME CollectInv, Collect!Next PROVE CollectInv'
  BY StutterPreserves
<1>1. CollectTypes'
  BY StepTrialTypes, StepStatusOK, StepRowTypes, StepWorldTypes, StepPairTypes, Zenon
     DEF CollectTypes
<1> QED
  BY <1>1, StepSettleOK, StepObserveOK, StepShotOK, StepTouchOK, StepRows, Zenon DEF CollectInv

\* The inductive invariant of the collection policy, for every policy, every number
\* of samples, attempts and frames, and every length of an attempt.
THEOREM CollectInvariance == Collect!Spec => []CollectInv
<1>1. Collect!Spec => Collect!Init /\ [][Collect!Next]_(Collect!vars)
  BY PTL DEF Collect!Spec
<1> QED
  BY <1>1, CollectInitially, CollectInductive, PTL

\* Type correctness of the policy's state: only a trial that has ended has a status,
\* "ok" has all its rows, and the waypoints are the rows and the lost ones.
THEOREM CollectTypeCorrect == Collect!Spec => []Collect!TypeOK
<1>1. CollectInv => Collect!TypeOK
  <2> SUFFICES ASSUME CollectInv PROVE Collect!TypeOK
    OBVIOUS
  <2>1. (status # "") = Collect!Ended
    BY Zenon DEF CollectInv, CollectTypes, StatusOK, Collect!Ended
  <2>2. /\ conf \in Settings
        /\ stage \in Stages
        /\ collected = Len(rows) /\ (status = "ok" => collected = CollectSteps)
        /\ loop.wp = collected + loop.lost /\ touch \in BOOLEAN
    BY DEF CollectInv, CollectTypes, TrialTypes, RowTypes
  <2>3. loop.tries \in 0 .. MaxAttempts
    BY MCMotionAssumption
       DEF CollectInv, CollectTypes, TrialTypes, Loops, Collect!CollectAssumption
  <2>4. /\ now \in 1 .. Horizon /\ {latest, shot} \subseteq Collect!Frame
        /\ robot \in [cmd : Int, ref : Int, tcp : Int, rest : BOOLEAN, late : BOOLEAN]
    BY DEF CollectInv, CollectTypes, WorldTypes
  <2>5. /\ move.stage \in {"lift", "approach", "collect"}
        /\ {move.start, move.to, move.pos} \subseteq Int /\ move.stamp \in Collect!Stamp
    BY DEF CollectInv, CollectTypes, WorldTypes, Motions, Moments, Collect!Stamp
  <2>6. settle.stable \in 0 .. StableObs
    BY MCMotionAssumption DEF CollectInv, CollectTypes, PairTypes, Pairs, Collect!CollectAssumption
  <2> QED
    BY <2>1, <2>2, <2>3, <2>4, <2>5, <2>6, Zenon DEF Collect!TypeOK, Stages
<1> QED
  BY <1>1, CollectInvariance, PTL

\* Every row shows a robot at rest where its last command sent it, by an image taken
\* after that command, whatever the delays of frames, cameras and controller.
THEOREM CapturedAtRestHolds == Collect!Spec => []CapturedAtRest
<1>1. CollectInv => CapturedAtRest
  BY DEF CollectInv
<1> QED
  BY <1>1, CollectInvariance, PTL

\* From a declared contact until the start of the motion has been commanded again the
\* robot is only held where it was observed or sent back to that start.
THEOREM NoPressOnHolds == Collect!Spec => NoPressOn
<1> DEFINE Held == touch /\ robot'.cmd # robot.cmd => robot'.cmd \in {latest.tcp, move.start}
<1>1. CollectInv /\ [Collect!Next]_(Collect!vars) => [Held]_(Collect!vars)
  <2> SUFFICES ASSUME CollectInv, Collect!Next, touch, robot'.cmd # robot.cmd
               PROVE  robot'.cmd \in {latest.tcp, move.start}
    BY Zenon
  <2>1. /\ stage \in {"hold", "retreat"}
        /\ robot \in [cmd : Int, ref : Int, tcp : Int, rest : BOOLEAN, late : BOOLEAN]
    BY DEF CollectInv, TouchOK, CollectTypes, WorldTypes
  <2>2. CASE Collect!Hold
    BY <2>1, <2>2 DEF Collect!Hold, Collect!Send
  <2>3. CASE Collect!Retreat
    BY <2>1, <2>3 DEF Collect!Retreat, Collect!Send
  <2>4. CASE Collect!Tick
    BY <2>1, <2>4, Moved DEF Collect!Tick
  <2>5. Collect!Hold \/ Collect!Retreat \/ Collect!Tick
    BY <2>1 DEF Collect!Next, Collect!Policy, Collect!Begin, Collect!Lift, Collect!Approach,
                Collect!Baseline, Collect!BaselineTimeout, Collect!FollowCommand,
                Collect!FollowFeel, Collect!Attempt, Collect!Plan, Collect!Command,
                Collect!SettlePoll, Collect!SettleTimeout, Collect!WaitForObservation,
                Collect!ObservationTimeout, Collect!LookupPlug, Collect!Save
  <2> QED
    BY <2>2, <2>3, <2>4, <2>5
<1>2. Collect!Spec => [][Collect!Next]_(Collect!vars)
  BY PTL DEF Collect!Spec
<1>3. Collect!Spec => [][Held]_(Collect!vars)
  BY <1>1, <1>2, CollectInvariance, PTL
<1> QED
  BY <1>3 DEF NoPressOn, Collect!NoPressOn

=============================================================================
