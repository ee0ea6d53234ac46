---------------------------- MODULE HapticGuard ----------------------------
(***************************************************************************)
(* HapticGuard of motion.py: does the force stay above the threshold for     *)
(* long enough?  A frame is [at |-> stamp, hit |-> above the threshold];      *)
(* stamp 0 stands for a reading _wrist_force_in_base refused.                *)
(***************************************************************************)
EXTENDS Integers, Sequences

CONSTANT HoldTicks     \* AIC_COLLECT_HAPTIC_CONTACT_DURATION_S

HoldAssumption == HoldTicks \in Nat

\* A new guard has seen nothing: last_stamp_ns 0, above_since_ns None.
NoGuard == [last |-> 0, since |-> 0, contact |-> FALSE]

\* observe: a stale stamp is ignored, a frame at or below the threshold ends
\* the run of frames above it, a run that is long enough is a contact.
ObserveForce(g, frame) ==
    IF frame.at <= g.last THEN [g EXCEPT !.contact = FALSE]
    ELSE IF ~frame.hit
         THEN [last |-> frame.at, since |-> 0, contact |-> FALSE]
    ELSE LET since == IF g.since = 0 THEN frame.at ELSE g.since
         IN  [last |-> frame.at, since |-> since,
              contact |-> frame.at - since >= HoldTicks]

=============================================================================
