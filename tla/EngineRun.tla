------------------------------ MODULE EngineRun ------------------------------
(***************************************************************************)
(* What an evaluation run promises: the trials are worked off one at a time *)
(* and in order, an infrastructure or compliance error ends the run before   *)
(* any later trial begins, and only a run that processed every trial is       *)
(* reported as completed.                                                    *)
(***************************************************************************)
EXTENDS Naturals

CONSTANT NTrials

VARIABLES verdict, result  \* of the run, of each trial

Trials == 1..NTrials
Over == {"succeeded", "failed"}

Init == verdict = "running" /\ result = [t \in Trials |-> "pending"]

Start(t) ==
  /\ verdict = "running" /\ result[t] = "pending"
  /\ \A u \in 1..(t - 1) : result[u] \in Over
  /\ result' = [result EXCEPT ![t] = "running"] /\ UNCHANGED verdict

Finish(t) ==
  /\ verdict = "running" /\ result[t] = "running"
  /\ \E r \in Over : result' = [result EXCEPT ![t] = r]
  /\ UNCHANGED verdict

Abort(t) ==
  /\ verdict = "running" /\ result[t] = "running"
  /\ verdict' = "error" /\ result' = [result EXCEPT ![t] = "failed"]

Complete ==
  /\ verdict = "running" /\ \A t \in Trials : result[t] \in Over
  /\ verdict' = "completed" /\ UNCHANGED result

Next == Complete \/ \E t \in Trials : Start(t) \/ Finish(t) \/ Abort(t)

Spec == Init /\ [][Next]_<<verdict, result>>
=============================================================================
