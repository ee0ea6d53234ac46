----------------------------- MODULE ParallelRun -----------------------------
(***************************************************************************)
(* The parent of a collection (runner/main.py): it deals the trials out to    *)
(* worker processes, starts them one after the other, follows them through one *)
(* queue of progress events, and when all have ended judges their exit codes   *)
(* and the dataset.  A worker works through its trials; what the policy of a   *)
(* trial prints reaches the queue through a thread of its own, which nobody    *)
(* joins.  Ctrl-C may reach the parent at any moment, with or without its      *)
(* workers, and a worker may be killed between any two steps.                  *)
(*                                                                         *)
(* What one trial does is Collector's and DatasetStore's subject: here it      *)
(* saves captures and ends, "ok" only with all of them (DatasetStore's         *)
(* OkIsComplete).                                                          *)
(***************************************************************************)
EXTENDS Integers, Sequences, FiniteSetsExt

CONSTANTS NWorkers, NTrials,
          NSamples,       \* --samples-per-trial
          Earlier,        \* captures of earlier runs in the dataset (--resume)
          PushToHub,      \* --push-to-hub
          MaxQueue,       \* bound: events of one worker on the way
          MaxMishaps      \* bound: interrupts, failed trials, workers killed or crashing

ASSUME ParallelRunAssumption ==
    /\ NTrials \in Nat \ {0} /\ NWorkers \in 1..NTrials /\ NSamples \in Nat \ {0}
    /\ Earlier \in Nat /\ PushToHub \in BOOLEAN /\ {MaxQueue, MaxMishaps} \subseteq Nat

Workers == 0..(NWorkers - 1)
Trials  == 0..(NTrials - 1)
None    == -1

VARIABLES pc, code,     \* where the parent is; its exit code
          started,      \* workers whose process has been started
          processes,    \* of these, how many are in the list of processes
          waitedFor,    \* of these, how many have been joined after an interrupt
          life, exit,   \* "unborn", "alive" or "dead"; exit code of a worker
          todo, at,     \* a worker's trials to come; its trial
          result,       \* how a trial ended
          saved,        \* captures of a trial in the dataset
          file,         \* whether the dataset files can be parsed
          lines,        \* of a trial's policy: saved_count lines not yet forwarded
          events,       \* of a worker: events not yet received
          shown,        \* WorkerProgress
          sigint, sigterm,  \* workers these signals are on the way to
          mishaps       \* how many there have been

worker == <<life, exit, todo, at, result, saved, file, lines>>
parent == <<pc, code, started, processes, waitedFor>>
vars == <<parent, worker, events, shown, sigint, sigterm, mishaps>>

-----------------------------------------------------------------------------
(* Arguments *)

\* Round robin; a worker takes its trials in ascending order.
WorkerTrials(w) == {t \in Trials : t % NWorkers = w}

Init ==
    /\ pc = "starting" /\ code = None
    /\ started = 0 /\ processes = 0 /\ waitedFor = 0
    /\ life = [w \in Workers |-> "unborn"] /\ exit = [w \in Workers |-> None]
    /\ todo = [w \in Workers |-> WorkerTrials(w)] /\ at = [w \in Workers |-> None]
    /\ result = [t \in Trials |-> "none"] /\ saved = [t \in Trials |-> 0]
    /\ file = "clean" /\ lines = [t \in Trials |-> <<>>]
    /\ events = [w \in Workers |-> <<>>]
    /\ shown = [w \in Workers |->
                  [state |-> "starting", trial |-> None, completed |-> 0, failed |-> 0,
                   captures |-> 0, trialCaptures |-> 0, error |-> FALSE]]
    /\ sigint = {} /\ sigterm = {} /\ mishaps = 0

-----------------------------------------------------------------------------
(* A worker process *)

\* Once the parent has left the monitor nobody reads the queue.
Heard == pc \in {"starting", "monitoring", "draining"}
Emits(w, e) ==
    IF Heard THEN Len(events[w]) < MaxQueue /\ events' = [events EXCEPT ![w] = Append(@, e)]
    ELSE UNCHANGED events
Mishap == mishaps < MaxMishaps /\ mishaps' = mishaps + 1
Dies(w, c) == life' = [life EXCEPT ![w] = "dead"] /\ exit' = [exit EXCEPT ![w] = c]

TrialStart(w) ==
    /\ life[w] = "alive" /\ at[w] = None
    /\ \E t \in todo[w] :
          /\ \A u \in todo[w] : t <= u
          /\ at' = [at EXCEPT ![w] = t] /\ todo' = [todo EXCEPT ![w] = @ \ {t}]
          /\ Emits(w, [event |-> "trial_started", trial |-> t])
    /\ UNCHANGED <<parent, life, exit, result, saved, file, lines, shown, sigint,
                   sigterm, mishaps>>

\* A row is written, and the line about it printed.
CaptureSaved(w) == LET t == at[w] IN
    /\ life[w] = "alive" /\ t # None /\ saved[t] < NSamples
    /\ saved' = [saved EXCEPT ![t] = @ + 1]
    /\ lines' = [lines EXCEPT ![t] = Append(@, saved[t] + 1)]
    /\ UNCHANGED <<parent, life, exit, todo, at, result, file, events, shown,
                   sigint, sigterm, mishaps>>

\* The forwarder of a trial's policy goes on as long as the worker lives.
Forward(w, t) ==
    /\ life[w] = "alive" /\ t \in WorkerTrials(w) /\ lines[t] # <<>>
    /\ Emits(w, [event |-> "capture_saved", trial |-> t, count |-> Head(lines[t])])
    /\ lines' = [lines EXCEPT ![t] = Tail(@)]
    /\ UNCHANGED <<parent, life, exit, todo, at, result, saved, file, shown,
                   sigint, sigterm, mishaps>>

TrialEnd(w, how) == LET t == at[w] IN
    /\ life[w] = "alive" /\ t # None
    /\ IF how = "ok" THEN saved[t] = NSamples /\ UNCHANGED mishaps ELSE Mishap
    /\ result' = [result EXCEPT ![t] = how] /\ at' = [at EXCEPT ![w] = None]
    /\ Emits(w, [event |-> IF how = "ok" THEN "trial_completed" ELSE "trial_failed"])
    /\ UNCHANGED <<parent, life, exit, todo, saved, file, lines, shown, sigint, sigterm>>

HasFailed(w) == \E t \in WorkerTrials(w) : result[t] = "failed"

WorkerFinish(w) ==
    /\ life[w] = "alive" /\ at[w] = None /\ todo[w] = {}
    /\ Emits(w, [event |-> "worker_finished"]) /\ Dies(w, IF HasFailed(w) THEN 1 ELSE 0)
    /\ UNCHANGED <<parent, todo, at, result, saved, file, lines, shown, sigint,
                   sigterm, mishaps>>

\* Any exception but RuntimeError: the indices to come are dropped.
WorkerCrash(w) ==
    /\ life[w] = "alive" /\ Mishap
    /\ Emits(w, [event |-> "worker_crashed"]) /\ Dies(w, 1)
    /\ UNCHANGED <<parent, todo, at, result, saved, file, lines, shown, sigint, sigterm>>

\* 130 from the trials' handler; outside it the interpreter's own exit with 1.
WorkerInterrupted(w) ==
    /\ life[w] = "alive" /\ w \in sigint
    /\ \E c \in {130, 1} : Dies(w, c)
    /\ UNCHANGED <<parent, todo, at, result, saved, file, lines, events, shown,
                   sigint, sigterm, mishaps>>

\* Events not yet flushed are lost, and a row may be cut.
WorkerKilled(w) ==
    /\ life[w] = "alive"
    /\ \/ w \in sigterm /\ UNCHANGED mishaps
       \/ Mishap
    /\ Dies(w, -9)
    /\ \E n \in 0..Len(events[w]) : events' = [events EXCEPT ![w] = SubSeq(@, 1, n)]
    /\ file' \in {file, "cut"}
    /\ UNCHANGED <<parent, todo, at, result, saved, lines, shown, sigint, sigterm>>

-----------------------------------------------------------------------------
(* The parent *)

\* The child says worker_started as soon as it runs.
StartWorker ==
    /\ pc = "starting" /\ started = processes
    /\ started' = started + 1 /\ life' = [life EXCEPT ![started] = "alive"]
    /\ Emits(started, [event |-> "worker_started"])
    /\ UNCHANGED <<pc, code, processes, waitedFor, exit, todo, at, result, saved,
                   file, lines, shown, sigint, sigterm, mishaps>>

AppendProcess ==
    /\ pc = "starting" /\ started = processes + 1
    /\ processes' = started
    /\ pc' = IF started = NWorkers THEN "monitoring" ELSE pc
    /\ UNCHANGED <<code, started, waitedFor, worker, events, shown, sigint, sigterm,
                   mishaps>>

\* capture_saved: a late line of an earlier trial, or one out of order, is ignored.
CountsAny(p, e) == e.count > p.trialCaptures  \* mutated form
Counts(p, e) == e.trial = p.trial /\ e.count > p.trialCaptures

Applied(p, e) ==
    CASE e.event = "worker_started" -> [p EXCEPT !.state = "waiting"]
      [] e.event = "trial_started" ->
           [p EXCEPT !.state = "running", !.trial = e.trial, !.trialCaptures = 0]
      [] e.event = "capture_saved" ->
           IF Counts(p, e)
           THEN [p EXCEPT !.captures = @ + e.count - p.trialCaptures, !.trialCaptures = e.count]
           ELSE p
      [] e.event = "trial_completed" ->
           [p EXCEPT !.completed = @ + 1, !.state = "waiting", !.trial = None]
      [] e.event = "trial_failed" ->
           [p EXCEPT !.failed = @ + 1, !.error = TRUE, !.state = "waiting", !.trial = None]
      [] e.event = "worker_finished" -> [p EXCEPT !.state = "finished"]
      [] e.event = "worker_crashed" -> [p EXCEPT !.state = "crashed", !.error = TRUE]

\* One event of the queue; between workers there is no order.
Receive(w) ==
    /\ pc \in {"monitoring", "draining"} /\ w < processes /\ events[w] # <<>>
    /\ shown' = [shown EXCEPT ![w] = Applied(@, Head(events[w]))]
    /\ events' = [events EXCEPT ![w] = Tail(@)]
    /\ UNCHANGED <<parent, worker, sigint, sigterm, mishaps>>

AllEnded ==
    /\ pc = "monitoring" /\ \A w \in Workers : life[w] = "dead"
    /\ pc' = "draining"
    /\ UNCHANGED <<code, started, processes, waitedFor, worker, events, shown,
                   sigint, sigterm, mishaps>>

\* What a failed process left unsaid is added to the display.
MonitorEnd ==
    /\ pc = "draining" /\ \A w \in Workers : events[w] = <<>>
    /\ pc' = "judging"
    /\ shown' = [w \in Workers |->
          IF exit[w] # 0 /\ shown[w].state # "crashed"
          THEN [shown[w] EXCEPT !.state = "failed", !.error = TRUE] ELSE shown[w]]
    /\ UNCHANGED <<code, started, processes, waitedFor, worker, events, sigint,
                   sigterm, mishaps>>

\* From here the interpreter waits for every child it has started, then exits.
Leave(c) == pc' = "leaving" /\ code' = c

FailedWithOne(w) == exit[w] = 1  \* mutated form
Failed(w) == exit[w] # 0

Judge ==
    /\ pc = "judging"
    /\ IF \E w \in Workers : Failed(w) THEN Leave(1)
       ELSE pc' = "finalizing" /\ UNCHANGED code
    /\ UNCHANGED <<started, processes, waitedFor, worker, events, shown, sigint,
                   sigterm, mishaps>>

Total(f, S) == MapThenSumSet(LAMBDA x : f[x], S)

Captures == Earlier + Total(saved, Trials)

\* summarize_dataset raises on a row it cannot parse; the upload may raise.
FinalizeDataset ==
    /\ pc = "finalizing"
    /\ \/ (file = "cut" \/ Captures < NTrials * NSamples \/ PushToHub) /\ Leave(1)
       \/ file = "clean" /\ Captures >= NTrials * NSamples /\ Leave(0)
    /\ UNCHANGED <<started, processes, waitedFor, worker, events, shown, sigint,
                   sigterm, mishaps>>

\* From a terminal the signal reaches the workers as well.  While the parent
\* stops its workers, or judges, a further one ends it with a traceback.
Interrupt ==
    /\ pc # "exited" /\ Mishap
    /\ \E terminal \in BOOLEAN :
         sigint' = IF terminal THEN sigint \cup {w \in Workers : life[w] = "alive"} ELSE sigint
    /\ CASE pc \in {"starting", "monitoring", "draining"} -> pc' = "interrupted" /\ UNCHANGED code
         [] pc = "leaving" -> pc' = "exited" /\ UNCHANGED code
         [] OTHER -> Leave(130)
    /\ events' = [w \in Workers |-> <<>>]
    /\ UNCHANGED <<started, processes, waitedFor, worker, shown, sigterm>>

SignalWorkers ==
    /\ pc = "interrupted"
    /\ sigint' = sigint \cup {w \in Workers : w < processes /\ life[w] = "alive"}
    /\ pc' = "joining"
    /\ UNCHANGED <<code, started, processes, waitedFor, worker, events, shown,
                   sigterm, mishaps>>

\* A worker that has not ended within 30 s is terminated, and not waited for.
JoinWorker ==
    /\ pc = "joining" /\ waitedFor < processes
    /\ waitedFor' = waitedFor + 1
    /\ sigterm' = IF life[waitedFor] = "alive" THEN sigterm \cup {waitedFor} ELSE sigterm
    /\ UNCHANGED <<pc, code, started, processes, worker, events, shown, sigint, mishaps>>

JoinEnd ==
    /\ pc = "joining" /\ waitedFor = processes
    /\ Leave(130)
    /\ UNCHANGED <<started, processes, waitedFor, worker, events, shown, sigint,
                   sigterm, mishaps>>

Exit ==
    /\ pc = "leaving" /\ \A w \in Workers : life[w] # "alive"
    /\ pc' = "exited"
    /\ UNCHANGED <<code, started, processes, waitedFor, worker, events, shown,
                   sigint, sigterm, mishaps>>

Stopped ==
    /\ pc = "exited" /\ \A w \in Workers : life[w] # "alive"
    /\ UNCHANGED vars

Parent == StartWorker \/ AppendProcess \/ (\E w \in Workers : Receive(w)) \/ AllEnded
          \/ MonitorEnd \/ Judge \/ FinalizeDataset \/ SignalWorkers \/ JoinWorker \/ JoinEnd
          \/ Exit

Worker(w) ==
    \/ TrialStart(w) \/ CaptureSaved(w) \/ (\E t \in Trials : Forward(w, t))
    \/ (\E how \in {"ok", "failed"} : TrialEnd(w, how)) \/ WorkerFinish(w)
    \/ WorkerCrash(w) \/ WorkerInterrupted(w) \/ WorkerKilled(w)

Next == Parent \/ (\E w \in Workers : Worker(w)) \/ Interrupt \/ Stopped

Spec == Init /\ [][Next]_vars

\* _progress_lines: the totals, and the trial a worker's line is about.
ProgressLines ==
    [processed |-> Total([w \in Workers |-> shown[w].completed + shown[w].failed], Workers),
     failures  |-> Total([w \in Workers |-> shown[w].failed], Workers),
     captures  |-> Total([w \in Workers |-> shown[w].captures], Workers),
     trials    |-> [w \in {v \in Workers : shown[v].state = "running"} |-> shown[w].trial]]

-----------------------------------------------------------------------------
(* Properties *)

\* Exit code 0 of a collection that started with an empty dataset means that
\* every trial was run to an "ok" and has all its captures: no worker ended by a
\* signal, dropped its trials or was interrupted unnoticed.
ExitTellsTruth ==
    code = 0 => \A t \in Trials : result[t] = "ok" /\ saved[t] = NSamples

\* The display never counts a capture that is not in the dataset, nor one twice,
\* however late the lines of an earlier trial come; a line with a trial is about
\* one of that worker's, and after a collection that ended with 0 the totals are
\* those of the collection (main.py:667-702).
NeverOvercounts ==
    /\ \A w \in Workers :
         /\ shown[w].captures <= Total(saved, WorkerTrials(w))
         /\ shown[w].trial # None => shown[w].trialCaptures <= saved[shown[w].trial]
    /\ LET now == ProgressLines
       IN  /\ \A w \in DOMAIN now.trials : now.trials[w] \in WorkerTrials(w)
           /\ now.processed <= NTrials
           /\ code = 0 => now.processed = NTrials /\ now.failures = 0
=============================================================================
