------------------------------ MODULE AicModel ------------------------------
(***************************************************************************)
(* The participant's node (aic_model/aic_model.py): a ROS 2 lifecycle node  *)
(* whose insert_cable action server runs the policy in a thread of its own  *)
(* while a polling loop, one per goal, watches for cancellation, abort,     *)
(* deactivation and the end of the thread.  The node has one goal_handle,   *)
(* one _action_thread and one _action_thread_result, whatever the number of *)
(* goals.  A multi-threaded executor with a reentrant callback group lets   *)
(* goal requests, loops and service calls interleave.                       *)
(***************************************************************************)
EXTENDS Naturals

CONSTANTS Goals,           \* goal requests clients may send
          Nobody,          \* None
          Client,          \* how the goal clients behave, one of Clients
          AbortService,    \* somebody calls the cancel_task service
          MaxTransitions   \* bound: lifecycle transitions

\* "sequential": waits for the result before the next request; "eager": waits for
\* the answer to the request only; "many": requests may overlap.
Clients == {"sequential", "eager", "many"}

ASSUME AicModelAssumption ==
  /\ Nobody \notin Goals /\ MaxTransitions \in Nat
  /\ Client \in Clients /\ AbortService \in BOOLEAN

VARIABLES
  life, isActive,  \* lifecycle state; self.is_active
  transitions,     \* transitions made
  status,          \* rcl action status of every goal
  request,         \* goal requests between goal_callback and accepted_callback
  handle,          \* self.goal_handle
  loop,            \* program counter of insert_cable_execute_callback, per goal
  thread,          \* policy thread started for the goal
  actionThread,    \* self._action_thread (the goal it was started for)
  shared,          \* self._action_thread_result
  answer,          \* history: what the goal's own policy run returned
  reported         \* Result.success sent to the client

node == <<life, isActive, transitions>>
nodeVars == <<life, isActive, transitions, status, request, handle, loop, thread,
              actionThread, shared, answer, reported>>

Active   == {"executing", "canceling"}  \* ServerGoalHandle.is_active
Terminal == {"succeeded", "canceled", "aborted"}
Answers  == {"none", "yes", "no"}
LoopPc   == {"none", "scheduled", "wait", "chkActive", "chkThread", "cancel",
             "clear", "succeed", "answer", "leaving", "returned"}

NodeTypeOK ==
  /\ life \in {"unconfigured", "inactive", "active", "finalized"}
  /\ isActive \in BOOLEAN /\ transitions \in 0..MaxTransitions
  /\ status \in [Goals -> {"none"} \cup Active \cup Terminal]
  /\ request \in [Goals -> {"none", "accept", "done"}]
  /\ handle \in Goals \cup {Nobody} /\ actionThread \in Goals \cup {Nobody}
  /\ loop \in [Goals -> LoopPc] /\ thread \in [Goals -> {"none", "run", "done"}]
  /\ shared \in Answers
  /\ answer \in [Goals -> Answers] /\ reported \in [Goals -> Answers]

NodeInit ==
  /\ life = "unconfigured" /\ isActive = FALSE /\ transitions = 0
  /\ status = [g \in Goals |-> "none"] /\ request = [g \in Goals |-> "none"]
  /\ handle = Nobody /\ loop = [g \in Goals |-> "none"]
  /\ thread = [g \in Goals |-> "none"] /\ actionThread = Nobody /\ shared = "none"
  /\ answer = [g \in Goals |-> "none"] /\ reported = [g \in Goals |-> "none"]

(***************************************************************************)
(* Lifecycle callbacks.                                                     *)
(***************************************************************************)
Transition(from, to, active) ==
  /\ transitions < MaxTransitions /\ transitions' = transitions + 1
  /\ life \in from /\ life' = to /\ isActive' = active
  /\ UNCHANGED <<status, request, handle, loop, thread, actionThread, shared,
                 answer, reported>>

\* the policy constructor may raise: the node goes through error processing.
OnConfigure  == \E to \in {"inactive", "unconfigured", "finalized"} :
                  Transition({"unconfigured"}, to, isActive)
OnActivate   == Transition({"inactive"}, "active", TRUE)
OnDeactivate == Transition({"active"}, "inactive", FALSE)
OnCleanup    == Transition({"inactive"}, "unconfigured", FALSE)
OnShutdown   == Transition({"unconfigured", "inactive", "active"}, "finalized", FALSE)

(***************************************************************************)
(* Goal requests.                                                           *)
(***************************************************************************)
\* What the client has waited for when it sends the request for goal g.
MaySend(g) ==
  \A h \in Goals \ {g} :
    /\ Client # "many" => request[h] # "accept"
    /\ Client = "sequential" => loop[h] \in {"none", "returned"}

\* insert_cable_goal_callback; on_shutdown drops the action server.
GoalFreeIfCleared == handle = Nobody  \* mutated form
GoalFree == handle = Nobody \/ status[handle] \notin Active
GoalCallback(g) ==
  /\ request[g] = "none" /\ MaySend(g) /\ life # "finalized"
  /\ request' = [request EXCEPT ![g] = IF isActive /\ GoalFree THEN "accept" ELSE "done"]
  /\ UNCHANGED <<node, status, handle, loop, thread, actionThread, shared, answer,
                 reported>>

\* insert_cable_accepted_goal_callback: goal_handle.execute() schedules the loop.
AcceptedGoalCallback(g) ==
  /\ request[g] = "accept" /\ request' = [request EXCEPT ![g] = "done"]
  /\ handle' = g
  /\ status' = [status EXCEPT ![g] = "executing"]
  /\ loop' = [loop EXCEPT ![g] = "scheduled"]
  /\ UNCHANGED <<node, thread, actionThread, shared, answer, reported>>

\* insert_cable_cancel_callback always accepts: rcl moves the goal to CANCELING.
CancelRequest(g) ==
  /\ status[g] = "executing" /\ status' = [status EXCEPT ![g] = "canceling"]
  /\ UNCHANGED <<node, request, handle, loop, thread, actionThread, shared, answer,
                 reported>>

\* cancel_task_callback.
CancelTask ==
  /\ AbortService /\ handle # Nobody /\ status[handle] \in Active
  /\ status' = [status EXCEPT ![handle] = "aborted"]
  /\ UNCHANGED <<node, request, handle, loop, thread, actionThread, shared, answer,
                 reported>>

(***************************************************************************)
(* insert_cable_execute_callback of goal g.                                 *)
(***************************************************************************)
Goto(g, from, to) == loop[g] = from /\ loop' = [loop EXCEPT ![g] = to]

\* mutated form: the result of the previous goal is left in place.
StartThreadStale(g) ==
  /\ Goto(g, "scheduled", "wait")
  /\ thread' = [thread EXCEPT ![g] = "run"] /\ actionThread' = g
  /\ UNCHANGED <<node, status, request, handle, shared, answer, reported>>

\* a fresh thread and a fresh result, in the node's only two slots for them.
StartThread(g) ==
  /\ Goto(g, "scheduled", "wait")
  /\ thread' = [thread EXCEPT ![g] = "run"] /\ actionThread' = g /\ shared' = "none"
  /\ UNCHANGED <<node, status, request, handle, answer, reported>>

CancelSeenLater(g) == FALSE  \* mutated form
CancelRequested(g) == status[g] = "canceling"

\* one second later: goal_handle.is_cancel_requested.
CheckCancel(g) ==
  /\ Goto(g, "wait", IF CancelRequested(g) THEN "cancel" ELSE "chkActive")
  /\ UNCHANGED <<node, status, request, handle, thread, actionThread, shared, answer,
                 reported>>

\* goal_handle.canceled(), which raises if the goal was aborted meanwhile.
Canceled(g) ==
  /\ Goto(g, "cancel", IF status[g] = "canceling" THEN "clear" ELSE "leaving")
  /\ status' = IF status[g] = "canceling"
               THEN [status EXCEPT ![g] = "canceled"] ELSE status
  /\ reported' = [reported EXCEPT ![g] = "no"]
  /\ UNCHANGED <<node, request, handle, thread, actionThread, shared, answer>>

\* self.goal_handle = None, whoever it belongs to by now.
ClearHandle(g) ==
  /\ Goto(g, "clear", "leaving")
  /\ handle' = Nobody
  /\ UNCHANGED <<node, status, request, thread, actionThread, shared, answer, reported>>

CutShortByAbort(g) == status[g] \notin Active  \* mutated form
CutShortByNode(g) == ~isActive                \* mutated form
\* not goal_handle.is_active or not self.is_active.
CutShort(g) == status[g] \notin Active \/ ~isActive

CheckActive(g) ==
  /\ IF CutShort(g)
     THEN Goto(g, "chkActive", "clear") /\ reported' = [reported EXCEPT ![g] = "no"]
     ELSE Goto(g, "chkActive", "chkThread") /\ UNCHANGED reported
  /\ UNCHANGED <<node, status, request, handle, thread, actionThread, shared, answer>>

\* self._action_thread.is_alive(): the thread started last.
CheckThread(g) ==
  /\ Goto(g, "chkThread", IF thread[actionThread] = "run" THEN "wait" ELSE "succeed")
  /\ UNCHANGED <<node, status, request, handle, thread, actionThread, shared, answer,
                 reported>>

\* mutated form: the exception of succeed() is swallowed.
SucceedAnyway(g) ==
  /\ Goto(g, "succeed", "answer") /\ UNCHANGED reported
  /\ status' = IF status[g] \in Active THEN [status EXCEPT ![g] = "succeeded"] ELSE status
  /\ UNCHANGED <<node, request, handle, thread, actionThread, shared, answer>>

\* goal_handle.succeed(): raises when an abort came in since CheckActive.
Succeed(g) ==
  /\ IF status[g] \in Active
     THEN /\ Goto(g, "succeed", "answer") /\ UNCHANGED reported
          /\ status' = [status EXCEPT ![g] = "succeeded"]
     ELSE /\ Goto(g, "succeed", "leaving") /\ UNCHANGED status
          /\ reported' = [reported EXCEPT ![g] = "no"]
  /\ UNCHANGED <<node, request, handle, thread, actionThread, shared, answer>>

\* result.success = self._action_thread_result; self.goal_handle = None.
Answer(g) ==
  /\ Goto(g, "answer", "leaving")
  /\ reported' = [reported EXCEPT ![g] = shared] /\ handle' = Nobody
  /\ UNCHANGED <<node, status, request, thread, actionThread, shared, answer>>

\* rclpy: a goal whose callback set no terminal state is aborted; result sent.
Return(g) ==
  /\ Goto(g, "leaving", "returned")
  /\ status' = IF status[g] \in Active THEN [status EXCEPT ![g] = "aborted"] ELSE status
  /\ UNCHANGED <<node, request, handle, thread, actionThread, shared, answer, reported>>

LoopStep(g) ==
  \/ StartThread(g) \/ CheckCancel(g) \/ Canceled(g) \/ ClearHandle(g)
  \/ CheckActive(g) \/ CheckThread(g) \/ Succeed(g) \/ Answer(g) \/ Return(g)

AsReturned(a) == a  \* mutated form: None is handed on
AsSuccess(a) == IF a = "None" THEN "no" ELSE a

\* action_thread_func: insert_cable returns (None counts as False) or raises.
\* Nothing ever stops the thread: it runs until the policy is finished.
PolicyEnds(g) ==
  /\ thread[g] = "run" /\ thread' = [thread EXCEPT ![g] = "done"]
  /\ \/ \E a \in {"yes", "no", "None"} :
          shared' = AsSuccess(a) /\ answer' = [answer EXCEPT ![g] = AsSuccess(a)]
     \/ UNCHANGED <<shared, answer>>
  /\ UNCHANGED <<node, status, request, handle, loop, actionThread, reported>>

Lifecycle == OnConfigure \/ OnActivate \/ OnDeactivate \/ OnCleanup \/ OnShutdown
NodeNext == \/ Lifecycle \/ CancelTask
            \/ \E g \in Goals : \/ GoalCallback(g) \/ AcceptedGoalCallback(g)
                                \/ CancelRequest(g) \/ LoopStep(g) \/ PolicyEnds(g)

NodeSpec == NodeInit /\ [][NodeNext]_nodeVars

\* The executor keeps serving timers and scheduled tasks.
NodeFairSpec == NodeSpec /\ \A g \in Goals : WF_nodeVars(LoopStep(g) \/ AcceptedGoalCallback(g))

(***************************************************************************)
(* Properties.                                                              *)
(***************************************************************************)
\* aic_engine sends one goal at a time.  To such a client the active node never
\* refuses a goal, whatever was canceled, aborted or failed before: the checks of
\* goal_callback look at the status of the handle, which some exits of the loop
\* (an exception of canceled() or succeed()) leave behind.
NeverLockedOut ==
  [][\A g \in Goals : /\ Client = "sequential" /\ isActive
                      /\ request[g] = "none" /\ request'[g] # "none"
       => request'[g] = "accept"]_nodeVars

\* A client told success = True sees a goal that reached SUCCEEDED, never one
\* that was canceled or aborted while the result was being prepared.
SuccessIsReal == \A g \in Goals : reported[g] = "yes" => status[g] = "succeeded"

\* The shared result slot can only mislead a client if some goal was cut short
\* before its policy thread ended, or the policy raised.
OwnResultUnlessCutShort ==
  Client = "sequential" => \A g \in Goals :
    loop[g] = "returned" /\ status[g] = "succeeded" /\ reported[g] # answer[g]
      => \E h \in Goals \ {g} : status[h] \in {"canceled", "aborted"}

\* Challenge rules, 4: goals are cancellable.
CancelEnds == \A g \in Goals : (status[g] = "canceling") ~> (status[g] \in Terminal)

\* A goal does not outlive the active state of the node.
InactiveEnds ==
  \A g \in Goals : (status[g] \in Active /\ ~isActive) ~> (isActive \/ status[g] \in Terminal)

\* Whatever ended the goal (the policy, a cancel, the cancel_task service), its
\* execute callback comes back and the client receives a result.
ResultSent == \A g \in Goals : (status[g] \in Terminal) ~> (loop[g] = "returned")

(***************************************************************************)
(* The inductive invariant behind the safety properties.                    *)
(***************************************************************************)
Started == {"wait", "chkActive", "chkThread", "cancel", "clear", "succeed", "answer"}
Busy(g) == request[g] = "accept" \/ loop[g] \notin {"none", "returned"}
CutOff(g) == status[g] \in {"canceled", "aborted"}

\* Where a goal is in its loop and what its status, thread and result are then.
GoalOK(g) ==
  /\ request[g] # "done" =>
       status[g] = "none" /\ loop[g] = "none" /\ reported[g] = "none"
  /\ loop[g] \in {"none", "scheduled"} => thread[g] = "none" /\ reported[g] = "none"
  /\ thread[g] = "none" => answer[g] = "none"
  /\ loop[g] # "none" => status[g] # "none"
  /\ status[g] \in Active => loop[g] \notin {"none", "returned"}
  /\ loop[g] = "returned" => status[g] \in Terminal
  /\ loop[g] = "answer" \/ reported[g] = "yes" => status[g] = "succeeded"
  /\ status[g] = "succeeded" => loop[g] \in {"answer", "leaving", "returned"}

\* With a sequential client the node's single slots serve a single goal.
SlotOK(g) ==
  /\ \A h \in Goals : Busy(g) /\ Busy(h) => g = h
  /\ loop[g] \in Started => actionThread = g /\ thread[g] # "none"
  /\ loop[g] = "succeed" \/ status[g] = "succeeded" => thread[g] = "done"

\* Unless another goal was cut off, nobody else writes the result slot.
ResultOK(g) ==
  (\A h \in Goals \ {g} : ~CutOff(h)) =>
    /\ loop[g] \in Started => shared = answer[g]
    /\ status[g] = "succeeded" /\ loop[g] # "answer" => reported[g] = answer[g]

NodeInv == /\ NodeTypeOK /\ \A g \in Goals : GoalOK(g)
           /\ Client = "sequential" => \A g \in Goals : SlotOK(g) /\ ResultOK(g)

(* Stated by the repository, and not what the code does. *)
\* InsertCable.action: success is True if the task (of this goal) succeeded.
ResultIsOwn ==
  \A g \in Goals : loop[g] = "returned" /\ reported[g] = "yes" => answer[g] = "yes"
=============================================================================
