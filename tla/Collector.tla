------------------------------ MODULE Collector ------------------------------
(***************************************************************************)
(* One collection worker (runner/main.py: _run_worker, _run_trial) and the  *)
(* process groups it owns (runner/lifecycle.py, runner/runtime.py).  Every  *)
(* trial launches a simulator wrapper (distrobox), waits for the simulator  *)
(* proper to appear inside the container under a process group of its own,  *)
(* then launches an optional rosbag recorder and the policy.  ctx.active_   *)
(* groups is `owned'; the crash-recovery file on disk is `registry'.        *)
(* SIGINT, the death of the worker, the exit of any process and the reuse   *)
(* of a process-group id by a stranger may happen between any two steps.    *)
(***************************************************************************)
EXTENDS Naturals

CONSTANTS NTrials,        \* length of trial_indices
          RecordRosbag,   \* args.record_rosbag
          MaxSigint,      \* bound: SIGINTs delivered (Ctrl-C reaches a worker twice)
          KillMayFail,    \* terminate_pgid may report remnants
          LaunchMayFail,  \* Popen may raise OSError
          PgidReuse       \* bound: whether one finished group's id is recycled

ASSUME CollectorAssumption ==
  /\ NTrials \in Nat \ {0}
  /\ MaxSigint \in Nat
  /\ {RecordRosbag, KillMayFail, LaunchMayFail, PgidReuse} \subseteq BOOLEAN

VARIABLES
  pc, kind, trial,  \* where the worker is, what it is launching, for which trial
  up, born,         \* groups with live members of ours; groups ever started
  owned,            \* ctx.active_groups
  registry,         \* groups listed in the registry file ({}: no file)
  todo,             \* rest of the list a termination loop is walking
  summary, got,     \* episode_summary.json of the trial; trial_summary
  tdOk, exc,        \* policy_ok /\ rosbag_ok /\ simulator_ok; exception in flight
  sigints, failed,  \* SIGINTs still to come; failed_indices
  code,             \* exit code of _run_worker
  foreign,          \* recycled ids, now a stranger's
  aim, signal,      \* the group --cleanup is stopping and the signal it is at
  hits, late,       \* history of that stop: strangers signalled; strangers who came
  escaped           \* history: groups the worker lost the handle of

vars == <<pc, kind, trial, up, born, owned, registry, todo, summary, got, tdOk,
          exc, sigints, failed, code, foreign, aim, signal, hits, late, escaped>>
proc == <<up, born, foreign>>
stop == <<aim, signal, hits, late>>

Trials   == 1..NTrials
Kinds    == {"wrapper", "inner", "rosbag", "policy"}
Groups   == [kind: Kinds, trial: Trials]
G(k, t)  == [kind |-> k, trial |-> t]
Cur      == G(kind, trial)
Sims(t)  == {G("wrapper", t), G("inner", t)}  \* carry the config path as marker
OfTrial(t) == {G(k, t) : k \in Kinds}
NoCode   == 255                               \* the worker has not returned

Body     == {"spawn", "adopt", "persist", "discover", "bagwait", "scan", "poll", "grace"}
Ignoring == {"stopPolicy", "stopBag", "rediscover", "sims",
             "cleanupPolicies", "cleanupRest"}  \* inside _uninterruptible_cleanup
Running  == Body \cup Ignoring \cup {"idle", "enter", "judge", "abort", "leave"}
Escalating == {"strike", "await"}             \* terminate_pgid of --cleanup
Over     == {"exited", "dead", "stale", "recovered"} \cup Escalating

\* The for loop over trial_indices has another index.
HasTrialOffByOne == trial \in 1..(NTrials + 1)  \* mutated form
HasTrial == trial \in Trials

TypeOK ==
  /\ pc \in Running \cup Over /\ kind \in Kinds \ {"inner"}
  /\ trial \in 1..(NTrials + 1)
  /\ {up, born, owned, registry, todo, foreign, hits, aim, late, escaped}
       \subseteq SUBSET Groups
  /\ signal \in {"SIGINT", "SIGTERM", "SIGKILL"}
  /\ summary \in {"none", "ok", "bad"} /\ got \in {"none", "ok", "bad"}
  /\ tdOk \in BOOLEAN /\ exc \in {"none", "runtime", "os", "interrupt"}
  /\ sigints \in 0..MaxSigint /\ failed \subseteq Trials
  /\ code \in {NoCode, 0, 1, 130}

Init ==
  /\ pc = "idle" /\ kind = "wrapper" /\ trial = 1
  /\ up = {} /\ born = {} /\ owned = {} /\ registry = {} /\ todo = {}
  /\ summary = "none" /\ got = "none" /\ tdOk = TRUE /\ exc = "none"
  /\ sigints = MaxSigint /\ failed = {} /\ code = NoCode
  /\ foreign = {} /\ hits = {} /\ escaped = {}
  /\ aim = {} /\ signal = "SIGINT" /\ late = {}

\* process_group_members: somebody, ours or not, lives under that id.
HasMembers == up \cup foreign

\* write_group_registry of the list gs: only groups that have members.
Persisted(gs) == gs \cap HasMembers

(***************************************************************************)
(* The trial body: the try block of _run_trial.                             *)
(***************************************************************************)
BeginTrial ==
  /\ pc = "idle" /\ HasTrial
  /\ pc' = "spawn" /\ kind' = "wrapper"
  /\ summary' = "none" /\ got' = "none" /\ tdOk' = TRUE /\ exc' = "none"
  /\ UNCHANGED <<trial, proc, owned, registry, todo, sigints, failed, code, escaped>>

\* start_gazebo, start_rosbag, start_policy: Popen(start_new_session=True).
Spawn ==
  /\ pc = "spawn" /\ pc' = "adopt"
  /\ up' = up \cup {Cur} /\ born' = born \cup {Cur}
  /\ UNCHANGED <<kind, trial, owned, registry, todo, summary, got, tdOk, exc,
                 sigints, failed, code, foreign, escaped>>

\* Popen raises OSError, which no handler of _run_worker catches.
LaunchFails ==
  /\ LaunchMayFail /\ pc = "spawn"
  /\ pc' = "enter" /\ exc' = "os"
  /\ UNCHANGED <<kind, trial, proc, owned, registry, todo, summary, got, tdOk,
                 sigints, failed, code, escaped>>

\* register_owned_group and ctx.active_groups.append.
Adopt ==
  /\ pc = "adopt" /\ pc' = "persist"
  /\ owned' = owned \cup {Cur}
  /\ UNCHANGED <<kind, trial, proc, registry, todo, summary, got, tdOk, exc,
                 sigints, failed, code, escaped>>

\* _persist_groups after a launch.
Persist ==
  /\ pc = "persist" /\ registry' = Persisted(owned)
  /\ pc' = CASE kind = "wrapper" -> "discover"
             [] kind = "rosbag"  -> "bagwait"
             [] kind = "policy"  -> "scan"
  /\ UNCHANGED <<kind, trial, proc, owned, todo, summary, got, tdOk, exc,
                 sigints, failed, code, escaped>>

\* process_groups_with_cmdline_marker(config_path) minus the known ids.
FoundInnerOnly == {G("inner", trial)} \cap (up \ owned)  \* mutated form
Found == (up \cap Sims(trial)) \ owned

\* _register_inner_simulator_groups, before the policy may start.
Discover ==
  /\ pc = "discover"
  /\ owned' = owned \cup Found
  /\ registry' = IF Found = {} THEN registry ELSE Persisted(owned')
  /\ IF G("inner", trial) \in owned'
     THEN /\ pc' = "spawn" /\ UNCHANGED exc
          /\ kind' = IF RecordRosbag THEN "rosbag" ELSE "policy"
     ELSE pc' = "enter" /\ exc' = "runtime" /\ UNCHANGED kind
  /\ UNCHANGED <<trial, proc, todo, summary, got, tdOk, sigints, failed, code, escaped>>

\* wait_for_rosbag_start: recording, or early exit / timeout.
BagWait ==
  /\ pc = "bagwait"
  /\ \/ pc' = "spawn" /\ kind' = "policy" /\ UNCHANGED exc
     \/ pc' = "enter" /\ exc' = "runtime" /\ UNCHANGED kind
  /\ UNCHANGED <<trial, proc, owned, registry, todo, summary, got, tdOk,
                 sigints, failed, code, escaped>>

\* wait_for_trial_summary, first half of a round: the summary files.
Scan ==
  /\ pc = "scan"
  /\ got' = summary
  /\ pc' = IF summary = "none" THEN "poll" ELSE "grace"
  /\ UNCHANGED <<kind, trial, proc, owned, registry, todo, summary, tdOk, exc,
                 sigints, failed, code, escaped>>

WatchedExited == ~({G("wrapper", trial), G("policy", trial)} \subseteq up)

\* second half: Popen.poll() of simulator and policy; both run on.
PollAgain ==
  /\ pc = "poll" /\ ~WatchedExited /\ pc' = "scan"
  /\ UNCHANGED <<kind, trial, proc, owned, registry, todo, summary, got, tdOk, exc,
                 sigints, failed, code, escaped>>

\* Any round may be the one at which time.monotonic() reaches the deadline.
NoDeadline   == FALSE  \* mutated form
DeadlineNear == TRUE

\* one of them has exited, or the deadline of the loop has passed.
GiveUp ==
  /\ pc = "poll" /\ (WatchedExited \/ DeadlineNear) /\ pc' = "enter"
  /\ UNCHANGED <<kind, trial, proc, owned, registry, todo, summary, got, tdOk, exc,
                 sigints, failed, code, escaped>>

\* post_summary_wait_s.
Grace ==
  /\ pc = "grace" /\ pc' = "enter"
  /\ UNCHANGED <<kind, trial, proc, owned, registry, todo, summary, got, tdOk, exc,
                 sigints, failed, code, escaped>>

(***************************************************************************)
(* Teardown: the finally block of _run_trial.                               *)
(***************************************************************************)
\* _uninterruptible_cleanup sets SIG_IGN: until here SIGINT still raises.
Enter ==
  /\ pc = "enter" /\ pc' = "stopPolicy"
  /\ UNCHANGED <<kind, trial, proc, owned, registry, todo, summary, got, tdOk, exc,
                 sigints, failed, code, escaped>>

\* terminate_pgid: stop file or signals go to every member of the group, then
\* the result of the last process_group_members.
Terminate(g, gone) ==
  /\ gone \/ (KillMayFail /\ g \in HasMembers)
  /\ up' = IF gone THEN up \ {g} ELSE up
  /\ foreign' = IF gone THEN foreign \ {g} ELSE foreign
  /\ UNCHANGED born

\* policy_ok, rosbag_ok and simulator_ok only ever turn from True to False.
VerifiedLast(ok) == ok  \* mutated form
Verified(ok) == tdOk /\ ok

\* stop_policy(policy_group) and _remove_group_if_stopped.
StopPolicy ==
  /\ pc = "stopPolicy" /\ pc' = "stopBag"
  /\ LET p == G("policy", trial) IN
     IF p \notin owned THEN UNCHANGED <<proc, owned, tdOk>>
     ELSE \E gone \in BOOLEAN :
            /\ Terminate(p, gone)
            /\ owned' = IF gone THEN owned \ {p} ELSE owned
            /\ tdOk' = Verified(gone)
  /\ UNCHANGED <<kind, trial, registry, todo, summary, got, exc, sigints, failed,
                 code, escaped>>

\* stop_rosbag (also False when the bag is not finalized), _persist_groups.
StopBag ==
  /\ pc = "stopBag" /\ pc' = "rediscover"
  /\ LET b == G("rosbag", trial) IN
     IF b \notin owned THEN UNCHANGED <<proc, owned, tdOk>>
     ELSE \E gone, valid \in BOOLEAN :
            /\ Terminate(b, gone)
            /\ owned' = IF gone /\ valid THEN owned \ {b} ELSE owned
            /\ tdOk' = Verified(gone /\ valid)
  /\ registry' = owned' \cap (up' \cup foreign')
  /\ UNCHANGED <<kind, trial, todo, summary, got, exc, sigints, failed, code, escaped>>

\* the one-shot second _register_inner_simulator_groups, then simulator_groups.
Rediscover ==
  /\ pc = "rediscover" /\ pc' = "sims"
  /\ owned' = owned \cup Found
  /\ registry' = IF Found = {} THEN registry ELSE Persisted(owned')
  /\ todo' = owned' \cap Sims(trial)
  /\ escaped' = escaped \cup ({G("inner", trial)} \ owned')
  /\ UNCHANGED <<kind, trial, proc, summary, got, tdOk, exc, sigints, failed, code>>

\* reversed(): the inner simulator was appended after its wrapper.
Last(gs) == {g \in gs : g.kind = "wrapper" => G("inner", g.trial) \notin gs}

StopSim ==
  /\ pc = "sims"
  /\ \E g \in Last(todo), gone \in BOOLEAN :
       /\ Terminate(g, gone)
       /\ todo' = todo \ {g}
       /\ owned' = IF gone THEN owned \ {g} ELSE owned
       /\ tdOk' = Verified(gone)
  /\ UNCHANGED <<pc, kind, trial, registry, summary, got, exc, sigints, failed,
                 code, escaped>>

\* last _persist_groups of the finally block; SIGINT raises again afterwards.
EndTeardown ==
  /\ pc = "sims" /\ todo = {}
  /\ pc' = "judge" /\ registry' = Persisted(owned)
  /\ UNCHANGED <<kind, trial, proc, owned, todo, summary, got, tdOk, exc, sigints,
                 failed, code, escaped>>

(***************************************************************************)
(* The loop of _run_worker.                                                 *)
(***************************************************************************)
\* a RuntimeError, from the body or from the checks after the finally block.
TrialFailedUnverified == exc = "runtime" \/ got # "ok"  \* mutated form
TrialFailed == exc = "runtime" \/ (exc = "none" /\ (~tdOk \/ got # "ok"))

Judge ==
  /\ pc = "judge"
  /\ CASE exc = "interrupt" -> pc' = "abort" /\ UNCHANGED <<trial, failed, code>>
       [] exc = "os"        -> pc' = "leave" /\ code' = 1 /\ UNCHANGED <<trial, failed>>
       [] OTHER             -> /\ pc' = "idle" /\ trial' = trial + 1
                               /\ failed' = IF TrialFailed THEN failed \cup {trial} ELSE failed
                               /\ UNCHANGED code
  /\ UNCHANGED <<kind, proc, owned, registry, todo, summary, got, tdOk, exc, sigints,
                 escaped>>

Finish ==
  /\ pc = "idle" /\ ~HasTrial
  /\ pc' = "leave" /\ code' = IF failed = {} THEN 0 ELSE 1
  /\ UNCHANGED <<kind, trial, proc, owned, registry, todo, summary, got, tdOk, exc,
                 sigints, failed, escaped>>

\* _cleanup_interrupted_run: SIG_IGN, then every policy by stop_policy.
BeginCleanup ==
  /\ pc = "abort" /\ pc' = "cleanupPolicies"
  /\ todo' = {g \in owned : g.kind = "policy"}
  /\ UNCHANGED <<kind, trial, proc, owned, registry, summary, got, tdOk, exc,
                 sigints, failed, code, escaped>>

\* one iteration of either loop: no ownership marker is looked at here.
CleanupStop ==
  /\ pc \in {"cleanupPolicies", "cleanupRest"}
  /\ \E g \in Last(todo), gone \in BOOLEAN :
       /\ Terminate(g, gone)
       /\ todo' = todo \ {g}
       /\ owned' = IF gone THEN owned \ {g} ELSE owned
  /\ UNCHANGED <<pc, kind, trial, registry, summary, got, tdOk, exc, sigints, failed,
                 code, escaped>>

\* reversed(ctx.active_groups.copy()): what is left, failed policies included.
CleanupRest ==
  /\ pc = "cleanupPolicies" /\ todo = {}
  /\ pc' = "cleanupRest" /\ todo' = owned
  /\ UNCHANGED <<kind, trial, proc, owned, registry, summary, got, tdOk, exc,
                 sigints, failed, code, escaped>>

EndCleanup ==
  /\ pc = "cleanupRest" /\ todo = {}
  /\ pc' = "leave" /\ code' = 130 /\ registry' = Persisted(owned)
  /\ UNCHANGED <<kind, trial, proc, owned, todo, summary, got, tdOk, exc, sigints,
                 failed, escaped>>

\* finally: _persist_groups(ctx); then the process exits.
Leave ==
  /\ pc = "leave" /\ pc' = "exited" /\ registry' = Persisted(owned)
  /\ UNCHANGED <<kind, trial, proc, owned, todo, summary, got, tdOk, exc, sigints,
                 failed, code, escaped>>

Worker ==
  /\ UNCHANGED stop
  /\ \/ BeginTrial \/ Spawn \/ LaunchFails \/ Adopt \/ Persist \/ Discover
     \/ BagWait \/ Scan \/ PollAgain \/ GiveUp \/ Grace
     \/ Enter \/ StopPolicy \/ StopBag \/ Rediscover \/ StopSim \/ EndTeardown
     \/ Judge \/ Finish \/ BeginCleanup \/ CleanupStop \/ CleanupRest
     \/ EndCleanup \/ Leave

(***************************************************************************)
(* The environment.                                                         *)
(***************************************************************************)
\* KeyboardInterrupt in the main thread: where it lands decides what is skipped.
Sigint ==
  /\ sigints > 0 /\ pc \in Running /\ sigints' = sigints - 1
  /\ \/ /\ pc \in Body  \* try block: run the finally block
        /\ pc' = "enter" /\ exc' = "interrupt"
        /\ escaped' = IF pc = "adopt" /\ kind # "wrapper"
                      THEN escaped \cup {Cur} ELSE escaped
        /\ UNCHANGED code
     \/ /\ pc = "enter"  \* finally block not yet protected: teardown is skipped
        /\ pc' = "abort" /\ exc' = "interrupt"
        /\ escaped' = escaped \cup (Sims(trial) \ owned)
        /\ UNCHANGED code
     \/ /\ pc \in {"idle", "judge"}
        /\ pc' = "abort" /\ exc' = "interrupt" /\ UNCHANGED <<escaped, code>>
     \/ /\ pc = "abort"  \* inside the except clause: no cleanup at all
        /\ pc' = "leave" /\ code' = 1 /\ UNCHANGED <<exc, escaped>>
     \/ /\ pc = "leave"  \* in the outer finally block: the last save is skipped
        /\ pc' = "exited" /\ code' = 1 /\ UNCHANGED exc
        /\ escaped' = escaped \cup (({Cur} \cap born) \ registry)
     \/ /\ pc \in Ignoring
        /\ UNCHANGED <<pc, exc, escaped, code>>
  /\ UNCHANGED <<kind, trial, proc, owned, registry, todo, summary, got, tdOk, failed>>

\* SIGKILL, or the SIGTERM _run_parallel sends 30 s after an interrupt.
WorkerDies ==
  /\ pc \in Running /\ pc' = "dead"
  /\ escaped' = escaped \cup (IF trial \in Trials /\ pc # "idle"
                              THEN OfTrial(trial) \ registry ELSE {})
  /\ UNCHANGED <<kind, trial, proc, owned, registry, todo, summary, got, tdOk, exc,
                 sigints, failed, code>>

\* distrobox finally starts the ROS launch inside the container.
InnerStarts ==
  /\ \E t \in Trials : /\ G("wrapper", t) \in up /\ G("inner", t) \notin born
                       /\ up' = up \cup {G("inner", t)}
                       /\ born' = born \cup {G("inner", t)}
  /\ UNCHANGED <<pc, kind, trial, owned, registry, todo, summary, got, tdOk, exc,
                 sigints, failed, code, foreign, escaped>>

ProcExits ==
  /\ \E g \in up : up' = up \ {g}
  /\ UNCHANGED <<pc, kind, trial, born, owned, registry, todo, summary, got, tdOk,
                 exc, sigints, failed, code, foreign, escaped>>

\* the policy of the running trial finishes its episode.
PolicyReports ==
  /\ G("policy", trial) \in up /\ summary = "none" /\ summary' \in {"ok", "bad"}
  /\ UNCHANGED <<pc, kind, trial, proc, owned, registry, todo, got, tdOk, exc,
                 sigints, failed, code, escaped>>

\* the kernel hands the id of a finished group to an unrelated process.
IdRecycled ==
  /\ PgidReuse /\ foreign = {}
  /\ \E g \in born \ HasMembers :
       /\ g.trial < trial \/ pc \in Over
       /\ foreign' = foreign \cup {g}
       /\ late' = late \cup ({g} \cap aim)
  /\ UNCHANGED <<pc, kind, trial, up, born, owned, registry, todo, summary, got, tdOk,
                 exc, sigints, failed, code, aim, signal, hits, escaped>>

(***************************************************************************)
(* cleanup_stale_processes of a later invocation (--cleanup).               *)
(***************************************************************************)
\* It may be invoked again as long as it leaves a registry file behind; the worker's
\* memory is gone.
BeginStale ==
  /\ pc \in {"exited", "dead"} \/ (pc = "recovered" /\ registry # {})
  /\ pc' = "stale" /\ todo' = registry
  /\ kind' = "wrapper" /\ owned' = {} /\ got' = "none" /\ tdOk' = TRUE
  /\ exc' = "none" /\ sigints' = 0
  /\ UNCHANGED <<trial, proc, stop, registry, summary, failed, code, escaped>>

\* _group_matches_marker: only processes of the run carry its marker.
MatchesNobody(g) == g \in HasMembers              \* mutated form: no check
MatchesMarker(g) == g \in up

\* The first entry of signal_plan: only ROS launches and recorders get a SIGINT.
FirstSignal(g) == IF g.kind \in {"inner", "rosbag"} THEN "SIGINT" ELSE "SIGTERM"

\* The next record of the registry: the marker is looked at here and never again.
StaleCheck ==
  /\ pc = "stale"
  /\ \E g \in todo :
       /\ todo' = todo \ {g}
       /\ IF g \in HasMembers /\ MatchesMarker(g)
          THEN pc' = "strike" /\ aim' = {g} /\ signal' = FirstSignal(g)
          ELSE UNCHANGED <<pc, aim, signal>>
  /\ UNCHANGED <<kind, trial, proc, hits, late, owned, registry, summary, got, tdOk, exc,
                 sigints, failed, code, escaped>>

\* terminate_pgid returns: on to the next record.
StaleReturn == /\ pc' = "stale" /\ aim' = {} /\ signal' = "SIGINT"
               /\ hits' = {} /\ late' = {}

\* process_group_members and os.killpg of one round: whoever has the id is signalled,
\* unless the kernel refuses (PermissionError).
StaleSignal ==
  /\ pc = "strike"
  /\ \E g \in aim :
       \/ /\ g \in HasMembers /\ pc' = "await"
          /\ hits' = hits \cup (aim \cap foreign)
          /\ UNCHANGED <<aim, signal, late>>
       \/ g \in HasMembers /\ (KillMayFail \/ g \in foreign) /\ StaleReturn
       \/ g \notin HasMembers /\ StaleReturn
  /\ UNCHANGED <<kind, trial, proc, todo, owned, registry, summary, got, tdOk, exc,
                 sigints, failed, code, escaped>>

\* wait_group_exit: nobody is left, or the grace period ends and the next signal is
\* due; after SIGKILL the members still there are reported as remnants.
StaleWait ==
  /\ pc = "await"
  /\ \/ up' = up \ aim /\ foreign' = foreign \ aim /\ StaleReturn
     \/ /\ signal # "SIGKILL" /\ aim \subseteq HasMembers /\ pc' = "strike"
        /\ signal' = IF signal = "SIGINT" THEN "SIGTERM" ELSE "SIGKILL"
        /\ UNCHANGED <<up, foreign, aim, hits, late>>
     \/ /\ signal = "SIGKILL" /\ KillMayFail /\ aim \subseteq HasMembers
        /\ StaleReturn /\ UNCHANGED <<up, foreign>>
  /\ UNCHANGED <<kind, trial, born, todo, owned, registry, summary, got, tdOk,
                 exc, sigints, failed, code, escaped>>

\* the registry file is unlinked only when none of its records matches any more.
EndStale ==
  /\ pc = "stale" /\ todo = {} /\ pc' = "recovered"
  /\ registry' = IF \E g \in registry : MatchesMarker(g) THEN registry ELSE {}
  /\ UNCHANGED <<kind, trial, proc, stop, owned, todo, summary, got, tdOk, exc,
                 sigints, failed, code, escaped>>

Stale == BeginStale \/ StaleCheck \/ StaleSignal \/ StaleWait \/ EndStale

Environment ==
  \/ (Sigint \/ WorkerDies \/ InnerStarts \/ ProcExits \/ PolicyReports)
     /\ UNCHANGED stop
  \/ IdRecycled

Next == Worker \/ Stale \/ Environment

Spec == Init /\ [][Next]_vars

\* The worker is a running Python thread whose every wait has a deadline; that of
\* wait_for_trial_summary passes after finitely many rounds of scan and poll.
FairSpec == Spec /\ WF_vars(Worker) /\ SF_vars(GiveUp /\ UNCHANGED stop)

(***************************************************************************)
(* Properties.                                                              *)
(***************************************************************************)
\* The group an interrupt may have left appended but not yet persisted: only the
\* last one launched, and only until the next _persist_groups.
Unsaved ==
  IF \/ pc = "persist"
     \/ exc = "interrupt" /\ pc \in {"enter", "stopPolicy", "stopBag", "abort",
                                      "cleanupPolicies", "cleanupRest", "leave"}
  THEN {Cur} ELSE {}

\* Whatever the worker owns and is alive can be found by a later --cleanup: the
\* registry file (main.py _persist_groups) lags active_groups by at most the group
\* of the launch under way.
Recorded == pc \in Running => owned \cap up \subseteq registry \cup Unsaved

\* Between trials and once the worker is gone, every live process group is either
\* in the registry or one of the groups whose handle was provably lost (launch
\* interrupted before registration, simulator started after the last discovery,
\* teardown or the last save skipped by a further SIGINT).
AccountedFor == pc \in {"idle"} \cup Over => up \subseteq registry \cup escaped

\* What is alive can be named by somebody, while the worker runs and afterwards.
Named == Recorded /\ AccountedFor

\* Exit code 0 of a worker (_run_worker) means every trial was run and succeeded
\* and nothing it could still name is left running.
CleanExit == code = 0 => /\ failed = {} /\ trial = NTrials + 1
                         /\ up \subseteq escaped

\* A trial that leaves one of its groups running is reported as failed: no silent
\* remnant shares the ROS domain of the next trial (teardown verification).
RemnantReported ==
  pc \in {"idle", "exited"} =>
    \A g \in (up \cap owned) : g.trial \in failed \/ exc \in {"interrupt", "os"}

\* README: policy, then rosbag, then simulator.  While the simulator is being
\* stopped no policy or recorder of the trial runs, unless its own stop failed.
TeardownOrder ==
  pc = "sims" /\ tdOk =>
    up \cap {G("policy", trial), G("rosbag", trial)} \subseteq escaped

\* --cleanup after a crash: with processes that do die, nothing it was told about
\* survives and the registry file is gone.
StaleCleans ==
  pc = "recovered" /\ ~KillMayFail => registry = {} /\ up \subseteq escaped

\* cleanup_stale_processes looks at the marker once and then sends up to three
\* signals to the bare id.  However often --cleanup is repeated, and whatever exits,
\* refuses its signals or takes over an id between two of them: the only strangers it
\* signals are those that took the id while its former owner was being stopped, and
\* once a look at the group has found nobody it is not signalled again.
StaleSparesStrangers == hits \subseteq late

\* Once started, the worker returns or is killed: no wait of _run_trial is unbounded.
WorkerEnds == <>(pc \in Over)

(***************************************************************************)
(* The inductive invariant behind Recorded and AccountedFor.                *)
(***************************************************************************)
\* Groups of the current trial no launch has been attempted for yet.
Ahead ==
  IF pc = "idle" \/ (pc = "spawn" /\ kind = "wrapper") THEN OfTrial(trial)
  ELSE IF \/ pc \in {"adopt", "persist", "discover"} /\ kind = "wrapper"
          \/ pc = "spawn" /\ kind = "rosbag"
       THEN {G("rosbag", trial), G("policy", trial)}
  ELSE IF \/ pc \in {"adopt", "persist", "bagwait"} /\ kind = "rosbag"
          \/ pc = "spawn" /\ kind = "policy"
       THEN {G("policy", trial)}
  ELSE {}

StepOK == /\ pc \in Body => exc = "none" /\ trial \in Trials
          /\ pc = "idle" => exc \in {"none", "runtime"}
          /\ pc \in {"abort", "cleanupPolicies", "cleanupRest"} => exc = "interrupt"
          /\ pc = "discover" => kind = "wrapper"
          /\ pc = "bagwait" => kind = "rosbag"
          /\ pc \in {"enter", "stopPolicy", "stopBag", "rediscover", "sims", "judge"}
               => trial \in Trials

BornOK == /\ up \subseteq born /\ owned \subseteq born /\ registry \subseteq born
          /\ foreign \subseteq born \ up /\ (pc = "adopt" => Cur \in born)
          /\ \A g \in born : g.trial <= trial /\ g \notin Ahead

\* A live group is owned, lost, or about to be picked up by the current trial.
InFlight ==
  (IF pc \in Body \cup {"enter", "stopPolicy", "stopBag", "rediscover"}
   THEN Sims(trial) ELSE {}) \cup (IF pc = "adopt" THEN {Cur} ELSE {})
Held == pc \in Running => up \subseteq owned \cup escaped \cup InFlight

\* Once a trial is past its last discovery its simulator is born or given up.
PastDiscovery(t) ==
  \/ t < trial
  \/ pc \in {"sims", "judge", "abort", "cleanupPolicies", "cleanupRest", "leave"}
            \cup Over
LateInner ==
  \A t \in Trials : PastDiscovery(t) /\ G("wrapper", t) \in up
                      => G("inner", t) \in born \cup escaped

\* What teardown has dealt with so far, as long as every stop was verified.
TornDown ==
  /\ pc = "stopBag" /\ tdOk => G("policy", trial) \notin owned
  /\ pc \in {"rediscover", "sims"} /\ tdOk
       => owned \cap {G("policy", trial), G("rosbag", trial)} = {}
  /\ pc = "sims" => /\ todo \subseteq Sims(trial)
                    /\ tdOk => owned \cap Sims(trial) \subseteq todo
  /\ pc = "judge" /\ tdOk => owned \cap OfTrial(trial) = {}

\* A group still owned after its trial makes that trial a failed one.
Reported ==
  /\ exc \notin {"interrupt", "os"} =>
       \A g \in owned : g.trial < trial => g.trial \in failed
  /\ code = 0 => /\ pc \in {"leave"} \cup Over /\ failed = {} /\ owned = {}
                 /\ trial = NTrials + 1 /\ up \subseteq escaped
  /\ pc \in {"leave", "exited"} /\ exc \notin {"interrupt", "os"}
       => trial = NTrials + 1

\* What is left of a stale registry is still to be visited or being stopped.
StaleOK == pc \in {"stale"} \cup Escalating /\ ~KillMayFail
             => registry \cap up \subseteq todo \cup aim

\* A stranger with the id that is being stopped came after the marker check.
AimOK == /\ foreign \cap aim \subseteq late
         /\ aim = {} \/ (pc \in Escalating /\ \E g \in Groups : aim = {g})
         /\ StaleSparesStrangers

IInv == /\ TypeOK /\ StepOK /\ BornOK /\ Recorded /\ Held /\ LateInner
        /\ AccountedFor /\ TornDown /\ Reported /\ StaleOK
        /\ AimOK /\ StaleCleans
=============================================================================
