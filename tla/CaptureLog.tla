----------------------------- MODULE CaptureLog -----------------------------
(***************************************************************************)
(* What a training dataset promises its readers: a log of synchronized      *)
(* captures.  A capture appears whole, one image per camera and all of the  *)
(* same shot; what has appeared is never changed or withdrawn; the captures *)
(* of a trial appear in the order they were taken.                          *)
(***************************************************************************)
EXTENDS Naturals

CONSTANTS Trials, Cameras, Steps, Shots

VARIABLE log  \* set of records [trial, step, images]

\* One shot, seen by every camera.
Synchronized == {[c \in Cameras |-> s] : s \in Shots}
Capture == [trial: Trials, step: 1..Steps, images: Synchronized]

Init == log = {}

\* The next capture of its trial becomes visible.
Publish(capture) ==
  /\ capture \in Capture
  /\ \A r \in log : r.trial = capture.trial => r.step < capture.step
  /\ log' = log \cup {capture}

Next == \E capture \in log' \ log : Publish(capture)

Spec == Init /\ [][Next]_log
=============================================================================
