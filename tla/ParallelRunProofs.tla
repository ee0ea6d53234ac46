------------------------- MODULE ParallelRunProofs -------------------------
(* Exit code 0 of a collection, what its display counts, and the sums of the   *)
(* report on its dataset: for any number of workers, trials, captures, mishaps, *)
(* tiers and predictions.                                                      *)
EXTENDS MCParallelRun, FiniteSetTheorems, TLAPS

Types ==
    /\ life \in [Workers -> {"unborn", "alive", "dead"}]
    /\ exit \in [Workers -> {None, 0, 1, 130, -9}]
    /\ todo \in [Workers -> SUBSET Trials] /\ \A w \in Workers : todo[w] \subseteq WorkerTrials(w)
    /\ at \in [Workers -> Trials \cup {None}]
    /\ \A w \in Workers : at[w] = None \/ at[w] \in WorkerTrials(w)
    /\ result \in [Trials -> {"none", "ok", "failed"}]
    /\ saved \in [Trials -> Nat]

\* Only a dead worker has an exit code; a trial of a live one is to come, under way
\* or ended; and a worker that exits with 0 had no failure and left nothing.
ExitCodes ==
    \A w \in Workers :
        /\ exit[w] # None => life[w] = "dead"
        /\ life[w] # "dead" =>
              \A t \in WorkerTrials(w) : t \in todo[w] \/ t = at[w] \/ result[t] # "none"
        /\ exit[w] = 0 => \A t \in WorkerTrials(w) : result[t] = "ok"

\* The parent reaches its verdict only past the exit codes of all its workers.
Verdict == pc = "finalizing" \/ code = 0 => \A w \in Workers : exit[w] = 0

Whole == \A t \in Trials : result[t] = "ok" => saved[t] = NSamples

\* Workers are started in order, each once.
Births ==
    /\ started \in Nat /\ processes \in Nat
    /\ pc = "starting" => processes < NWorkers
    /\ \A w \in Workers : w >= started => life[w] = "unborn"

IInv == Types /\ ExitCodes /\ Verdict /\ Whole /\ Births

\* Every trial is dealt to a worker.
LEMMA Dealt == \A t \in Trials : \E w \in Workers : t \in WorkerTrials(w)
<1> SUFFICES ASSUME NEW t \in Trials PROVE \E w \in Workers : t \in WorkerTrials(w)
  OBVIOUS
<1>1. t \in Int /\ NWorkers \in Int /\ NWorkers > 0
  BY ParallelRunAssumption DEF Trials
<1>2. t % NWorkers \in 0..(NWorkers - 1)
  BY <1>1
<1> QED BY <1>2 DEF Workers, WorkerTrials

\* The exit codes' invariant holds when nothing has started.
LEMMA Initially == Init => IInv
<1> SUFFICES ASSUME Init PROVE IInv
  OBVIOUS
<1>1. Types
  BY DEF Init, Types, None, WorkerTrials
<1>2. ExitCodes
  BY DEF Init, ExitCodes, None
<1>3. Verdict
  BY DEF Init, Verdict, None
<1>4. Whole
  BY DEF Init, Whole
<1>5. Births
  BY ParallelRunAssumption DEF Init, Births
<1> QED BY <1>1, <1>2, <1>3, <1>4, <1>5 DEF IInv

\* A trial belongs to one worker.
LEMMA Apart ==
    ASSUME NEW w \in Workers, NEW v \in Workers, NEW t \in WorkerTrials(w), v # w
    PROVE  t \notin WorkerTrials(v) /\ t \in Trials
BY DEF WorkerTrials

\* The death of a live worker with an exit code other than 0.
LEMMA Death ==
    ASSUME IInv, NEW w \in Workers, NEW c \in {1, 130, -9}, life[w] = "alive", Dies(w, c),
           UNCHANGED <<pc, code, started, processes, todo, at, result, saved>>
    PROVE  IInv'
<1> USE DEF IInv
<1>1. life' = [life EXCEPT ![w] = "dead"] /\ exit' = [exit EXCEPT ![w] = c]
  BY DEF Dies
<1>2. Types'
  BY <1>1 DEF Types, WorkerTrials, None
<1>3. exit[w] = None
  BY DEF ExitCodes
<1>4. ExitCodes'
  BY <1>1, <1>2 DEF ExitCodes, Types, WorkerTrials
<1>5. Verdict'
  BY <1>1, <1>3 DEF Verdict, Types, None
<1>6. Whole'
  BY DEF Whole
<1>7. Births'
  BY <1>1 DEF Births, Types
<1> QED BY <1>2, <1>4, <1>5, <1>6, <1>7

\* What a worker does leaves the parent where it is; only a live worker ends.
LEMMA WorkerStep ==
    ASSUME IInv, NEW w \in Workers, Worker(w) PROVE IInv'
<1> USE DEF IInv, parent
<1>1. CASE TrialStart(w)
  <2>1. PICK t \in todo[w] : /\ at' = [at EXCEPT ![w] = t]
                             /\ todo' = [todo EXCEPT ![w] = @ \ {t}]
    BY <1>1 DEF TrialStart
  <2>2. at[w] = None /\ UNCHANGED <<pc, code, life, exit, result, saved>>
    BY <1>1 DEF TrialStart
  <2>6. Births'
    BY <1>1 DEF TrialStart, Births
  <2>3. Types'
    BY <2>1, <2>2 DEF Types, WorkerTrials
  <2>4. \A u \in Trials : u # None
    BY DEF Trials, None
  <2>5. ExitCodes'
    BY <2>1, <2>2, <2>4 DEF ExitCodes, Types, WorkerTrials
  <2> QED BY <2>2, <2>3, <2>5, <2>6 DEF Verdict, Whole
<1>2. CASE CaptureSaved(w)
  <2>1. /\ UNCHANGED <<pc, code, life, exit, todo, at, result>>
        /\ saved[at[w]] < NSamples /\ at[w] \in Trials
        /\ saved' = [saved EXCEPT ![at[w]] = @ + 1]
    BY <1>2 DEF CaptureSaved, Types, WorkerTrials
  <2>2. Types'
    BY <2>1 DEF Types, WorkerTrials
  <2>3. Whole'
    BY <2>1, ParallelRunAssumption DEF Whole, Types
  <2>4. Births'
    BY <1>2 DEF CaptureSaved, Births
  <2> QED BY <2>1, <2>2, <2>3, <2>4 DEF ExitCodes, Verdict, WorkerTrials
<1>3. CASE \E t \in Trials : Forward(w, t)
  BY <1>3 DEF Forward, Types, ExitCodes, Verdict, Whole, Births, WorkerTrials
<1>4. CASE \E how \in {"ok", "failed"} : TrialEnd(w, how)
  <2>1. PICK how \in {"ok", "failed"} : TrialEnd(w, how)
    BY <1>4
  <2> DEFINE t == at[w]
  <2>2. /\ UNCHANGED <<pc, code, life, exit, todo, saved>>
        /\ life[w] = "alive" /\ t # None /\ (how = "ok" => saved[t] = NSamples)
        /\ result' = [result EXCEPT ![t] = how] /\ at' = [at EXCEPT ![w] = None]
    BY <2>1 DEF TrialEnd
  <2>3. t \in WorkerTrials(w) /\ t \in Trials
    BY <2>2 DEF Types, WorkerTrials
  <2>4. Types'
    BY <2>2, <2>3 DEF Types, WorkerTrials
  <2>5. Whole'
    BY <2>2, <2>3 DEF Whole, Types
  <2>6. ExitCodes'
    <3> SUFFICES ASSUME NEW v \in Workers
                 PROVE  /\ exit[v] # None => life[v] = "dead"
                        /\ life[v] # "dead" => \A u \in WorkerTrials(v) :
                              u \in todo[v] \/ u = at'[v] \/ result'[u] # "none"
                        /\ exit[v] = 0 => \A u \in WorkerTrials(v) : result'[u] = "ok"
      BY <2>2 DEF ExitCodes, WorkerTrials
    <3>1. CASE v = w
      <4>1. exit[w] = None
        BY <2>2 DEF ExitCodes
      <4>2. \A u \in WorkerTrials(w) : u \in todo[w] \/ result'[u] # "none"
        BY <2>2, <2>3 DEF ExitCodes, Types, WorkerTrials
      <4> QED BY <3>1, <4>1, <4>2 DEF None
    <3>2. CASE v # w
      <4>1. \A u \in WorkerTrials(v) : u # t /\ result'[u] = result[u]
        BY <2>2, <2>3, <3>2, Apart DEF Types, WorkerTrials
      <4>2. at'[v] = at[v]
        BY <2>2, <3>2 DEF Types
      <4> QED BY <4>1, <4>2 DEF ExitCodes
    <3> QED BY <3>1, <3>2
  <2>7. Births'
    BY <2>1, <2>2 DEF TrialEnd, Births
  <2> QED BY <2>2, <2>4, <2>5, <2>6, <2>7 DEF Verdict
<1>5. CASE WorkerFinish(w)
  <2> DEFINE c == IF HasFailed(w) THEN 1 ELSE 0
  <2>1. /\ UNCHANGED <<pc, code, started, processes, todo, at, result, saved>>
        /\ life[w] = "alive" /\ at[w] = None
        /\ todo[w] = {} /\ Dies(w, c)
    BY <1>5 DEF WorkerFinish
  <2>2. CASE HasFailed(w)
    BY <2>1, <2>2, Death
  <2>3. CASE ~HasFailed(w)
    <3>1. life' = [life EXCEPT ![w] = "dead"] /\ exit' = [exit EXCEPT ![w] = 0]
      BY <2>1, <2>3 DEF Dies
    <3>2. Types'
      BY <2>1, <3>1 DEF Types, WorkerTrials
    <3>3. \A u \in WorkerTrials(w) : result[u] = "ok"
      <4>1. \A u \in WorkerTrials(w) : u \in Trials /\ u # None
        BY DEF WorkerTrials, Trials, None
      <4> QED BY <2>1, <2>3, <4>1 DEF ExitCodes, HasFailed, Types
    <3>4. ExitCodes'
      BY <2>1, <3>1, <3>3 DEF ExitCodes, Types, WorkerTrials
    <3>5. Verdict'
      BY <2>1, <3>1 DEF Verdict, Types
    <3>6. Births'
      BY <2>1, <3>1 DEF Births, Types
    <3> QED BY <2>1, <3>2, <3>4, <3>5, <3>6 DEF Whole
  <2> QED BY <2>2, <2>3
<1>6. CASE WorkerCrash(w)
  BY <1>6, Death DEF WorkerCrash
<1>7. CASE WorkerInterrupted(w)
  <2>1. PICK c \in {130, 1} : Dies(w, c)
    BY <1>7 DEF WorkerInterrupted
  <2> QED BY <1>7, <2>1, Death DEF WorkerInterrupted
<1>8. CASE WorkerKilled(w)
  <2>1. /\ Dies(w, -9) /\ life[w] = "alive"
        /\ UNCHANGED <<pc, code, started, processes, todo, at, result, saved>>
    BY <1>8 DEF WorkerKilled
  <2> QED BY <2>1, Death
<1> QED BY <1>1, <1>2, <1>3, <1>4, <1>5, <1>6, <1>7, <1>8 DEF Worker

\* A step that touches neither a worker nor the verdict.
LEMMA ElseUnchanged ==
    ASSUME IInv, UNCHANGED <<worker, started, processes>>, pc' # "starting",
           pc' # "finalizing", code' # 0 \/ code' = code
    PROVE  IInv'
<1>1. UNCHANGED <<life, exit, todo, at, result, saved, started, processes>>
  BY DEF worker
<1> QED BY <1>1 DEF IInv, Types, ExitCodes, Verdict, Whole, Births, WorkerTrials

\* A step of the parent, or its interrupt, keeps the exit codes' invariant.
LEMMA ParentStep ==
    ASSUME IInv, Parent \/ Interrupt PROVE IInv'
<1> USE DEF parent, Leave
<1>1. CASE StartWorker
  <2>1. started < NWorkers /\ started \in Workers /\ life[started] = "unborn"
    BY <1>1, ParallelRunAssumption DEF StartWorker, IInv, Births, Workers
  <2>2. /\ started' = started + 1 /\ life' = [life EXCEPT ![started] = "alive"]
        /\ UNCHANGED <<pc, code, processes, exit, todo, at, result, saved>>
    BY <1>1 DEF StartWorker
  <2>3. Types'
    BY <2>1, <2>2 DEF IInv, Types, WorkerTrials
  <2>4. ExitCodes'
    BY <2>1, <2>2 DEF IInv, ExitCodes, Types, WorkerTrials
  <2>5. Births'
    BY <2>1, <2>2, ParallelRunAssumption DEF IInv, Births, Types, Workers
  <2> QED BY <2>2, <2>3, <2>4, <2>5 DEF IInv, Verdict, Whole
<1>2. CASE AppendProcess
  <2>1. /\ UNCHANGED <<code, started, life, exit, todo, at, result, saved>>
        /\ processes' = started /\ started = processes + 1 /\ pc = "starting"
        /\ pc' = IF started = NWorkers THEN "monitoring" ELSE pc
    BY <1>2 DEF AppendProcess, worker
  <2>2. Births'
    BY <2>1, ParallelRunAssumption DEF IInv, Births
  <2> QED BY <2>1, <2>2 DEF IInv, Types, ExitCodes, Verdict, Whole, WorkerTrials
<1>3. CASE \E w \in Workers : Receive(w)
  BY <1>3 DEF Receive, worker, IInv, Types, ExitCodes, Verdict, Whole, Births, WorkerTrials
<1>4. CASE AllEnded
  BY <1>4, ElseUnchanged DEF AllEnded
<1>5. CASE MonitorEnd
  BY <1>5, ElseUnchanged DEF MonitorEnd
<1>6. CASE Judge
  <2>1. CASE \E w \in Workers : Failed(w)
    BY <1>6, <2>1, ElseUnchanged DEF Judge
  <2>2. CASE \A w \in Workers : exit[w] = 0
    <3>1. /\ UNCHANGED <<code, started, processes, life, exit, todo, at, result, saved>>
          /\ pc' # "starting"
      BY <1>6, <2>2 DEF Judge, Failed, worker
    <3> QED BY <2>2, <3>1 DEF IInv, Types, ExitCodes, Verdict, Whole, Births, WorkerTrials
  <2> QED BY <2>1, <2>2 DEF Failed
<1>7. CASE FinalizeDataset
  <2>1. /\ UNCHANGED <<started, processes, life, exit, todo, at, result, saved>>
        /\ pc = "finalizing" /\ pc' = "leaving"
    BY <1>7 DEF FinalizeDataset, worker
  <2> QED BY <2>1 DEF IInv, Types, ExitCodes, Verdict, Whole, Births, WorkerTrials
<1>8. CASE SignalWorkers
  BY <1>8, ElseUnchanged DEF SignalWorkers
<1>9. CASE JoinWorker
  BY <1>9, ElseUnchanged DEF JoinWorker
<1>10. CASE JoinEnd
  BY <1>10, ElseUnchanged DEF JoinEnd
<1>11. CASE Exit
  BY <1>11, ElseUnchanged DEF Exit
<1>12. CASE Interrupt
  <2>1. /\ UNCHANGED <<worker, started, processes>> /\ pc' # "starting" /\ pc' # "finalizing"
        /\ code' = code \/ code' = 130
    BY <1>12 DEF Interrupt
  <2> QED BY <2>1, ElseUnchanged
<1> QED BY <1>1, <1>2, <1>3, <1>4, <1>5, <1>6, <1>7, <1>8, <1>9, <1>10, <1>11, <1>12 DEF Parent

\* The exit codes' invariant is inductive,
LEMMA Inductive == IInv /\ [Next]_vars => IInv'
<1> SUFFICES ASSUME IInv, [Next]_vars PROVE IInv'
  OBVIOUS
<1>1. CASE Parent \/ Interrupt
  BY <1>1, ParentStep
<1>2. CASE \E w \in Workers : Worker(w)
  BY <1>2, WorkerStep
<1>3. CASE UNCHANGED vars
  BY <1>3 DEF vars, parent, worker, IInv, Types, ExitCodes, Verdict, Whole, Births, WorkerTrials
<1> QED BY <1>1, <1>2, <1>3 DEF Next, Stopped

\* and implies that exit code 0 tells the truth.
LEMMA Implies == IInv => ExitTellsTruth
<1> SUFFICES ASSUME IInv, code = 0, NEW t \in Trials
             PROVE  result[t] = "ok" /\ saved[t] = NSamples
  BY DEF ExitTellsTruth
<1>1. PICK w \in Workers : t \in WorkerTrials(w)
  BY Dealt
<1>2. result[t] = "ok"
  BY <1>1 DEF IInv, Verdict, ExitCodes
<1> QED BY <1>2 DEF IInv, Whole

\* Exit code 0 of a collection means that every trial ended "ok" in this run with
\* all its captures, whatever workers were interrupted, killed or crashed.
THEOREM ExitCode == Spec => []ExitTellsTruth
<1>1. Init => IInv
  BY Initially
<1>2. IInv /\ [Next]_vars => IInv'
  BY Inductive
<1>3. IInv => ExitTellsTruth
  BY Implies
<1> QED BY <1>1, <1>2, <1>3, PTL DEF Spec
-----------------------------------------------------------------------------
(* Totals over finite sets *)

\* Functions from subsets to totals, by recursion over the element CHOOSE picks.
Some(s) == CHOOSE x \in s : TRUE

Adds(f, S, g) ==
    g = [s \in SUBSET S |-> IF s = {} THEN 0 ELSE f[Some(s)] + g[s \ {Some(s)}]]

\* A total is the value a function by recursion over subsets has at the whole set.
LEMMA TotalIs ==
    ASSUME NEW f, NEW S
    PROVE  Total(f, S) = (CHOOSE g : Adds(f, S, g))[S]
BY Zenon DEF Total, MapThenSumSet, MapThenFoldSet, Adds, Some

\* Induction over a finite set: among its subsets with some property one is smallest,
\* which has the property while none of its proper subsets does.
LEMMA Smallest ==
    ASSUME NEW S, IsFiniteSet(S), NEW B \in SUBSET (SUBSET S), B # {}
    PROVE  \E s \in B : \A t \in B : t \subseteq s => t = s
<1>1. IsWellFoundedOn(StrictSubsetOrdering(S), FiniteSubsetsOf(S))
  BY FS_StrictSubsetOrderingWellFounded
<1>2. B \subseteq FiniteSubsetsOf(S)
  BY FS_FiniteSubsetsOfFinite
<1>3. PICK s \in B : \A t \in B : ~ (<<t, s>> \in StrictSubsetOrdering(S))
  BY <1>1, <1>2, WFMin
<1> QED BY <1>3 DEF StrictSubsetOrdering

\* Such functions agree where both are defined.
LEMMA AddsOnce ==
    ASSUME NEW f, NEW S, NEW T, IsFiniteSet(S), NEW g, NEW h, Adds(f, S, g), Adds(f, T, h),
           NEW s \in SUBSET S, s \subseteq T
    PROVE  g[s] = h[s]
<1> DEFINE B == {u \in SUBSET S : u \subseteq T /\ g[u] # h[u]}
<1> SUFFICES ASSUME B # {} PROVE FALSE
  OBVIOUS
<1>1. PICK u \in B : \A t \in B : t \subseteq u => t = u
  <2> HIDE DEF B
  <2>1. B \in SUBSET (SUBSET S)
    BY DEF B
  <2> QED BY <2>1, Smallest
<1>2. u # {}
  BY <1>1 DEF Adds
<1>3. Some(u) \in u
  BY <1>2 DEF Some
<1>4. u \ {Some(u)} \notin B /\ u \ {Some(u)} \subseteq S
  BY <1>1, <1>3
<1>5. g[u \ {Some(u)}] = h[u \ {Some(u)}]
  BY <1>4
<1>6. g[u] = f[Some(u)] + g[u \ {Some(u)}] /\ h[u] = f[Some(u)] + h[u \ {Some(u)}]
  BY <1>2, Zenon DEF Adds
<1> QED BY <1>5, <1>6

\* There is such a function on every finite set.
LEMMA AddsExists ==
    ASSUME NEW f, NEW S, IsFiniteSet(S)
    PROVE  \E g : Adds(f, S, g)
<1> DEFINE B == {u \in SUBSET S : ~ \E g : Adds(f, u, g)}
<1> SUFFICES ASSUME B # {} PROVE FALSE
  OBVIOUS
<1>1. PICK u \in B : \A t \in B : t \subseteq u => t = u
  <2> HIDE DEF B
  <2>1. B \in SUBSET (SUBSET S)
    BY DEF B
  <2> QED BY <2>1, Smallest
<1> DEFINE g(t) == CHOOSE g : Adds(f, t, g)
           G == [t \in SUBSET u |-> IF t # u THEN g(t)[t]
                                    ELSE IF u = {} THEN 0
                                    ELSE f[Some(u)] + g(u \ {Some(u)})[u \ {Some(u)}]]
<1>2. ASSUME NEW t \in SUBSET u, t # u PROVE Adds(f, t, g(t)) /\ IsFiniteSet(t)
  <2>1. \E h : Adds(f, t, h)
    BY <1>1, <1>2
  <2>2. IsFiniteSet(t)
    BY <1>2, FS_Subset
  <2> QED BY <2>1, <2>2
<1>3. ASSUME NEW t \in SUBSET u
      PROVE  G[t] = IF t = {} THEN 0 ELSE f[Some(t)] + G[t \ {Some(t)}]
  <2> DEFINE r == t \ {Some(t)}
  <2>1. CASE t = {} /\ t # u
    <3>1. G[t] = g(t)[t]
      BY <2>1
    <3> HIDE DEF g, G
    <3>2. Adds(f, t, g(t))
      BY <1>2, <2>1
    <3> QED BY <2>1, <3>1, <3>2 DEF Adds
  <2>2. CASE t = {} /\ t = u
    BY <2>2
  <2>3. CASE t # {}
    <3>1. Some(t) \in t
      BY <2>3 DEF Some
    <3>2. r \in SUBSET u /\ r # u
      BY <3>1
    <3>3. G[r] = g(r)[r]
      BY <3>2
    <3>4. CASE t = u
      BY <2>3, <3>3, <3>4
    <3>5. CASE t # u
      <4>1. G[t] = g(t)[t]
        BY <3>5
      <4> HIDE DEF g, G
      <4>2. Adds(f, t, g(t)) /\ Adds(f, r, g(r)) /\ IsFiniteSet(t)
        BY <1>2, <3>2, <3>5
      <4>3. g(t)[r] = g(r)[r]
        <5>1. r \subseteq t /\ r \in SUBSET r
          OBVIOUS
        <5> HIDE DEF r
        <5> QED BY <4>2, <5>1, AddsOnce
      <4>4. g(t)[t] = f[Some(t)] + g(t)[r]
        BY <4>2, <2>3, Zenon DEF Adds
      <4> QED BY <2>3, <3>3, <4>1, <4>3, <4>4
    <3> QED BY <3>4, <3>5
  <2> QED BY <2>1, <2>2, <2>3
<1>4. Adds(f, u, G)
  <2>1. G = [t \in SUBSET u |-> G[t]]
    OBVIOUS
  <2> HIDE DEF G
  <2>2. [t \in SUBSET u |-> G[t]] =
          [t \in SUBSET u |-> IF t = {} THEN 0 ELSE f[Some(t)] + G[t \ {Some(t)}]]
    BY <1>3
  <2> QED BY <2>1, <2>2, Zenon DEF Adds
<1> QED BY <1>1, <1>4

\* Any of them gives the total.
LEMMA TotalBy ==
    ASSUME NEW f, NEW S, IsFiniteSet(S), NEW g, Adds(f, S, g)
    PROVE  Total(f, S) = g[S]
<1> DEFINE h == CHOOSE h : Adds(f, S, h)
<1>1. Adds(f, S, h)
  OBVIOUS
<1> HIDE DEF h
<1>2. h[S] = g[S]
  BY <1>1, AddsOnce
<1> QED BY <1>2, TotalIs DEF h

\* The total over no elements.
LEMMA TotalEmpty == ASSUME NEW f PROVE Total(f, {}) = 0
<1>1. PICK g : Adds(f, {}, g)
  BY AddsExists, FS_EmptySet
<1>2. g[{}] = 0
  BY <1>1 DEF Adds
<1> QED BY <1>1, <1>2, TotalBy, FS_EmptySet

\* A total is one term and the total of the others: of the element CHOOSE picks, ...
LEMMA TotalStep ==
    ASSUME NEW f, NEW S, IsFiniteSet(S), S # {}
    PROVE  Total(f, S) = f[Some(S)] + Total(f, S \ {Some(S)})
<1> DEFINE R == S \ {Some(S)}
<1>1. PICK g : Adds(f, S, g)
  BY AddsExists
<1>2. IsFiniteSet(R) /\ R \subseteq S
  BY FS_RemoveElement
<1>3. PICK h : Adds(f, R, h)
  BY <1>2, AddsExists
<1>4. Total(f, S) = g[S] /\ Total(f, R) = h[R]
  BY <1>1, <1>2, <1>3, TotalBy
<1>5. g[R] = h[R]
  BY <1>1, <1>2, <1>3, AddsOnce
<1>6. g[S] = f[Some(S)] + g[R]
  BY <1>1, Zenon DEF Adds
<1> QED BY <1>4, <1>5, <1>6

\* A total of integers is an integer.
LEMMA TotalType ==
    ASSUME NEW S, IsFiniteSet(S), NEW f, \A x \in S : f[x] \in Int
    PROVE  Total(f, S) \in Int
<1> DEFINE B == {u \in SUBSET S : Total(f, u) \notin Int}
<1> SUFFICES ASSUME B # {} PROVE FALSE
  OBVIOUS
<1>1. PICK u \in B : \A t \in B : t \subseteq u => t = u
  <2> HIDE DEF B
  <2>1. B \in SUBSET (SUBSET S)
    BY DEF B
  <2> QED BY <2>1, Smallest
<1>2. u # {} /\ IsFiniteSet(u)
  <2>1. Total(f, u) \notin Int /\ u \in SUBSET S
    BY <1>1
  <2>2. Total(f, {}) \in Int
    BY TotalEmpty
  <2> QED BY <2>1, <2>2, FS_Subset
<1>3. Some(u) \in u
  BY <1>2 DEF Some
<1>4. Total(f, u \ {Some(u)}) \in Int
  BY <1>1, <1>3
<1>5. Total(f, u) = f[Some(u)] + Total(f, u \ {Some(u)})
  BY <1>2, TotalStep
<1> QED BY <1>1, <1>3, <1>4, <1>5

\* ... and of any element: the order of addition does not matter.
LEMMA TotalSplit ==
    ASSUME NEW S, IsFiniteSet(S), NEW f, \A x \in S : f[x] \in Int
    PROVE  \A x \in S : Total(f, S) = f[x] + Total(f, S \ {x})
<1> DEFINE P(u) == \A x \in u : Total(f, u) = f[x] + Total(f, u \ {x})
           B == {u \in SUBSET S : ~ P(u)}
<1> SUFFICES ASSUME B # {} PROVE FALSE
  OBVIOUS
<1>1. PICK u \in B : \A t \in B : t \subseteq u => t = u
  <2> HIDE DEF B
  <2>1. B \in SUBSET (SUBSET S)
    BY DEF B
  <2> QED BY <2>1, Smallest
<1>2. PICK x \in u : Total(f, u) # f[x] + Total(f, u \ {x})
  BY <1>1
<1> DEFINE y == Some(u)
           v == u \ {x, y}
<1>3. u # {} /\ u \subseteq S /\ y \in u
  BY <1>1, <1>2 DEF Some
<1>4. IsFiniteSet(u) /\ IsFiniteSet(v)
  BY <1>3, FS_Subset
<1>5. Total(f, u) = f[y] + Total(f, u \ {y})
  BY <1>3, <1>4, TotalStep
<1> HIDE DEF y
<1>6. y # x
  BY <1>2, <1>5
<1>7. P(u \ {y}) /\ P(u \ {x})
  BY <1>1, <1>3
<1>8. (u \ {y}) \ {x} = v /\ (u \ {x}) \ {y} = v /\ x \in u \ {y} /\ y \in u \ {x}
  BY <1>3, <1>6
<1>9. Total(f, u \ {y}) = f[x] + Total(f, v) /\ Total(f, u \ {x}) = f[y] + Total(f, v)
  BY <1>7, <1>8
<1>10. Total(f, v) \in Int /\ f[x] \in Int /\ f[y] \in Int
  <2>1. v \subseteq S /\ \A z \in v : f[z] \in Int
    BY <1>3
  <2> QED BY <1>3, <1>4, <2>1, TotalType
<1> QED BY <1>2, <1>5, <1>9, <1>10

\* A sum is monotone.
LEMMA TotalGrows ==
    ASSUME NEW S, IsFiniteSet(S), NEW f, NEW g,
           \A x \in S : f[x] \in Int /\ g[x] \in Int /\ f[x] <= g[x]
    PROVE  Total(f, S) <= Total(g, S)
<1> DEFINE B == {u \in SUBSET S : ~ (Total(f, u) <= Total(g, u))}
<1> SUFFICES ASSUME B # {} PROVE FALSE
  OBVIOUS
<1>1. PICK u \in B : \A t \in B : t \subseteq u => t = u
  <2> HIDE DEF B
  <2>1. B \in SUBSET (SUBSET S)
    BY DEF B
  <2> QED BY <2>1, Smallest
<1>2. u \subseteq S /\ IsFiniteSet(u) /\ ~ (Total(f, u) <= Total(g, u))
  BY <1>1, FS_Subset
<1>3. u # {}
  <2>1. Total(f, {}) = 0 /\ Total(g, {}) = 0
    BY TotalEmpty
  <2> QED BY <1>2, <2>1
<1>4. PICK x \in u : TRUE
  BY <1>3
<1>5. Total(f, u) = f[x] + Total(f, u \ {x}) /\ Total(g, u) = g[x] + Total(g, u \ {x})
  <2>1. \A z \in u : f[z] \in Int /\ g[z] \in Int
    BY <1>2
  <2> QED BY <1>2, <1>4, <2>1, TotalSplit
<1>6. Total(f, u \ {x}) <= Total(g, u \ {x})
  BY <1>1, <1>4
<1>7. Total(f, u \ {x}) \in Int /\ Total(g, u \ {x}) \in Int
  <2>1. IsFiniteSet(u \ {x})
    BY <1>2, FS_RemoveElement
  <2>2. \A z \in u \ {x} : f[z] \in Int /\ g[z] \in Int
    BY <1>2
  <2> QED BY <2>1, <2>2, TotalType
<1> QED BY <1>2, <1>4, <1>5, <1>6, <1>7

\* Sums over the same numbers are the same.
LEMMA TotalSame ==
    ASSUME NEW S, IsFiniteSet(S), NEW f, NEW g, \A x \in S : f[x] \in Int /\ f[x] = g[x]
    PROVE  Total(f, S) = Total(g, S)
<1>1. Total(f, S) \in Int /\ Total(g, S) \in Int
  BY TotalType
<1>2. Total(f, S) <= Total(g, S) /\ Total(g, S) <= Total(f, S)
  BY TotalGrows
<1> QED BY <1>1, <1>2

\* A total of nothing is nothing.
LEMMA TotalZero ==
    ASSUME NEW S, IsFiniteSet(S), NEW f, \A x \in S : f[x] = 0
    PROVE  Total(f, S) = 0
<1> DEFINE B == {u \in SUBSET S : Total(f, u) # 0}
<1> SUFFICES ASSUME B # {} PROVE FALSE
  OBVIOUS
<1>1. PICK u \in B : \A t \in B : t \subseteq u => t = u
  <2> HIDE DEF B
  <2>1. B \in SUBSET (SUBSET S)
    BY DEF B
  <2> QED BY <2>1, Smallest
<1>2. u \subseteq S /\ IsFiniteSet(u) /\ Total(f, u) # 0
  BY <1>1, FS_Subset
<1>3. u # {}
  BY <1>2, TotalEmpty
<1>4. Some(u) \in u
  BY <1>3 DEF Some
<1>5. Total(f, u \ {Some(u)}) = 0
  BY <1>1, <1>4
<1> QED BY <1>2, <1>3, <1>4, <1>5, TotalStep

\* A sum with one of its numbers changed, and nothing else.
LEMMA TotalChanged ==
    ASSUME NEW S, IsFiniteSet(S), NEW f, NEW g, NEW x \in S,
           \A z \in S : f[z] \in Int /\ g[z] \in Int /\ (z # x => g[z] = f[z])
    PROVE  Total(g, S) = Total(f, S) + g[x] - f[x]
<1>1. Total(f, S) = f[x] + Total(f, S \ {x}) /\ Total(g, S) = g[x] + Total(g, S \ {x})
  BY TotalSplit
<1>2. IsFiniteSet(S \ {x})
  BY FS_RemoveElement
<1>3. Total(f, S \ {x}) = Total(g, S \ {x})
  <2>1. \A z \in S \ {x} : f[z] \in Int /\ f[z] = g[z]
    OBVIOUS
  <2> QED BY <1>2, <2>1, TotalSame
<1>4. Total(f, S \ {x}) \in Int
  <2>1. \A z \in S \ {x} : f[z] \in Int
    OBVIOUS
  <2> QED BY <1>2, <2>1, TotalType
<1> QED BY <1>1, <1>3, <1>4

\* More terms of a count only add to it.
LEMMA TotalMore ==
    ASSUME NEW S, NEW T, IsFiniteSet(T), S \subseteq T, NEW f, \A x \in T : f[x] \in Nat
    PROVE  Total(f, S) <= Total(f, T)
<1> DEFINE B == {u \in SUBSET T : S \subseteq u /\ ~ (Total(f, S) <= Total(f, u))}
<1> SUFFICES ASSUME B # {} PROVE FALSE
  OBVIOUS
<1>1. PICK u \in B : \A t \in B : t \subseteq u => t = u
  <2> HIDE DEF B
  <2>1. B \in SUBSET (SUBSET T)
    BY DEF B
  <2> QED BY <2>1, Smallest
<1>2. S \subseteq u /\ u \subseteq T /\ IsFiniteSet(u) /\ ~ (Total(f, S) <= Total(f, u))
  BY <1>1, FS_Subset
<1>3. \A v \in SUBSET u : Total(f, v) \in Int
  <2> SUFFICES ASSUME NEW v \in SUBSET u PROVE Total(f, v) \in Int
    OBVIOUS
  <2>1. IsFiniteSet(v) /\ \A z \in v : f[z] \in Int
    BY <1>2, FS_Subset
  <2> QED BY <2>1, TotalType
<1>4. PICK x \in u : x \notin S
  BY <1>2, <1>3
<1>5. Total(f, S) <= Total(f, u \ {x})
  BY <1>1, <1>2, <1>4
<1>6. Total(f, u) = f[x] + Total(f, u \ {x})
  <2>1. \A z \in u : f[z] \in Int
    BY <1>2
  <2> QED BY <1>2, <1>4, <2>1, TotalSplit
<1> QED BY <1>2, <1>3, <1>4, <1>5, <1>6

\* Trials and what is dealt to a worker are finite.
LEMMA FiniteShares ==
    /\ IsFiniteSet(Trials) /\ Cardinality(Trials) = NTrials
    /\ IsFiniteSet(Workers)
    /\ \A w \in Workers : IsFiniteSet(WorkerTrials(w)) /\ WorkerTrials(w) \subseteq Trials
<1>1. NTrials \in Int /\ NWorkers \in Int /\ NTrials > 0
  BY ParallelRunAssumption
<1>2. IsFiniteSet(Trials) /\ Cardinality(Trials) = NTrials /\ IsFiniteSet(Workers)
  BY <1>1, FS_Interval DEF Trials, Workers
<1>3. \A w \in Workers : WorkerTrials(w) \in SUBSET Trials
  BY DEF WorkerTrials
<1>4. \A w \in Workers : IsFiniteSet(WorkerTrials(w))
  BY <1>2, <1>3, FS_Subset
<1> QED BY <1>2, <1>3, <1>4

\* The workers' shares are all the trials, each once.
Share == [w \in Workers |-> Cardinality(WorkerTrials(w))]
DealtTo(U) == {t \in Trials : \E w \in U : t \in WorkerTrials(w)}

\* The shares of all workers add up to the trials: no trial is dealt twice.
LEMMA SharesAddUp == Total(Share, Workers) = NTrials
<1> DEFINE B == {U \in SUBSET Workers : Total(Share, U) # Cardinality(DealtTo(U))}
<1>1. ASSUME B # {} PROVE FALSE
  <2>1. PICK U \in B : \A t \in B : t \subseteq U => t = U
    <3> HIDE DEF B
    <3>1. B \in SUBSET (SUBSET Workers)
      BY DEF B
    <3> QED BY <1>1, <3>1, Smallest, FiniteShares
  <2>2. U \subseteq Workers /\ IsFiniteSet(U) /\ Total(Share, U) # Cardinality(DealtTo(U))
    BY <2>1, FS_Subset, FiniteShares
  <2>3. U # {}
    <3>1. DealtTo({}) = {}
      BY DEF DealtTo
    <3> QED BY <2>2, <3>1, TotalEmpty, FS_EmptySet
  <2>4. PICK w \in U : TRUE
    BY <2>3
  <2> DEFINE R == DealtTo(U \ {w})
  <2>5. Total(Share, U \ {w}) = Cardinality(R)
    BY <2>1, <2>4
  <2>6. \A v \in Workers : Share[v] = Cardinality(WorkerTrials(v)) /\ Share[v] \in Int
    BY FiniteShares, FS_CardinalityType DEF Share
  <2>7. Total(Share, U) = Share[w] + Total(Share, U \ {w})
    <3>1. \A v \in U : Share[v] \in Int
      BY <2>2, <2>6
    <3> QED BY <2>2, <2>4, <3>1, TotalSplit
  <2>8. /\ R \subseteq Trials /\ IsFiniteSet(R) /\ IsFiniteSet(WorkerTrials(w))
        /\ R \cap WorkerTrials(w) = {} /\ DealtTo(U) = R \cup WorkerTrials(w)
    <3>1. R \subseteq Trials /\ DealtTo(U) = R \cup WorkerTrials(w)
      BY <2>4 DEF DealtTo, WorkerTrials
    <3>2. R \cap WorkerTrials(w) = {}
      BY <2>2, <2>4 DEF DealtTo, WorkerTrials
    <3> QED BY <2>2, <3>1, <3>2, FiniteShares, FS_Subset
  <2>9. Cardinality(DealtTo(U)) = Cardinality(R) + Cardinality(WorkerTrials(w))
    <3> HIDE DEF R
    <3>1. Cardinality(R) \in Nat /\ Cardinality(WorkerTrials(w)) \in Nat
      BY <2>8, FS_CardinalityType
    <3>2. Cardinality(R \cup WorkerTrials(w)) =
            Cardinality(R) + Cardinality(WorkerTrials(w)) - Cardinality(R \cap WorkerTrials(w))
      BY <2>8, FS_Union
    <3>3. Cardinality(R \cap WorkerTrials(w)) = 0
      BY <2>8, FS_EmptySet
    <3> QED BY <2>8, <3>1, <3>2, <3>3
  <2>10. Cardinality(R) \in Int
    BY <2>8, FS_CardinalityType
  <2> HIDE DEF R
  <2> QED BY <2>2, <2>4, <2>5, <2>6, <2>7, <2>9, <2>10
<1>2. DealtTo(Workers) = Trials
  BY Dealt DEF DealtTo
<1>3. Total(Share, Workers) = Cardinality(DealtTo(Workers))
  BY <1>1
<1> QED BY <1>2, <1>3, FiniteShares

-----------------------------------------------------------------------------
(* What the queues and the display say *)

\* The events of a queue.
Event ==
    [event : {"worker_started", "worker_finished", "worker_crashed", "trial_completed",
              "trial_failed"}]
    \cup [event : {"trial_started"}, trial : Trials]
    \cup [event : {"capture_saved"}, trial : Trials, count : Nat]

\* The trials a queue announces, and the places of those events that end a trial.
Begun(s) == {t \in Trials : \E i \in DOMAIN s : s[i].event = "trial_started" /\ s[i].trial = t}
Ends(s)  == {i \in DOMAIN s : s[i].event \in {"trial_completed", "trial_failed"}}

\* The trials of a worker the display may have heard of, and those that have ended.
Known(w) == WorkerTrials(w) \ (todo[w] \cup Begun(events[w]))
Ended(w) == {t \in WorkerTrials(w) : result[t] # "none"}

\* A worker's line of the display.
Line ==
    [state : {"starting", "waiting", "running", "finished", "crashed", "failed"},
     trial : Trials \cup {None}, completed : Nat, failed : Nat, captures : Nat,
     trialCaptures : Nat, error : BOOLEAN]

QueueTypes ==
    /\ events \in [Workers -> Seq(Event)]
    /\ lines \in [Trials -> Seq(Nat)]
    /\ shown \in [Workers -> Line]

\* A line or an event tells of captures that are in the dataset; a trial is announced
\* once, by its own worker, when it is no longer to come.
Told ==
    /\ \A t \in Trials : \A i \in DOMAIN lines[t] : lines[t][i] <= saved[t]
    /\ \A w \in Workers : \A i \in DOMAIN events[w] :
         /\ events[w][i].event = "capture_saved" =>
               events[w][i].count <= saved[events[w][i].trial]
         /\ events[w][i].event = "trial_started" =>
               /\ events[w][i].trial \in WorkerTrials(w) \ todo[w]
               /\ \A j \in DOMAIN events[w] :
                     events[w][j].event = "trial_started"
                        /\ events[w][j].trial = events[w][i].trial => i = j

\* A trial has its result when it is neither to come nor under way.
Unended ==
    \A w \in Workers :
        /\ \A t \in todo[w] : result[t] = "none" /\ t # at[w]
        /\ at[w] # None => result[at[w]] = "none"

\* What may still be counted of the trial on display.
Rest(w) ==
    IF shown[w].trial = None THEN 0 ELSE saved[shown[w].trial] - shown[w].trialCaptures

\* Of the trials a worker's line has been about, no capture was counted twice.
Counted ==
    \A w \in Workers :
        /\ shown[w].trial # None => shown[w].trial \in Known(w) /\ Rest(w) >= 0
        /\ shown[w].state = "running" => shown[w].trial # None
        /\ shown[w].captures + Rest(w) <= Total(saved, Known(w))

\* Nothing a worker said has been lost.
Lossless(w) ==
    exit[w] # -9 /\ (Heard \/ pc \in {"judging", "finalizing"} \/ code = 0)

\* The ends of trials on display and on the way are the trials that have ended, and no
\* more; a failure on display or on the way is that of a trial.
Tallied ==
    \A w \in Workers :
        /\ shown[w].completed + shown[w].failed + Cardinality(Ends(events[w]))
              <= Cardinality(Ended(w))
        /\ Lossless(w) => shown[w].completed + shown[w].failed + Cardinality(Ends(events[w]))
                             = Cardinality(Ended(w))
        /\ shown[w].failed # 0 \/ (\E i \in DOMAIN events[w] : events[w][i].event = "trial_failed")
              => HasFailed(w)

\* The queue is read to its end before the verdict.
Drained ==
    /\ pc \in {"draining", "judging", "finalizing"} \/ code = 0 =>
          \A w \in Workers : life[w] = "dead"
    /\ pc \in {"judging", "finalizing"} \/ code = 0 => \A w \in Workers : events[w] = <<>>
    /\ code = 0 => pc \in {"leaving", "exited"}

QInv == QueueTypes /\ Told /\ Unended /\ Counted /\ Tallied /\ Drained

\* An event that ends a trial.
IsEnd(e) == e.event \in {"trial_completed", "trial_failed"}

\* What a queue says after one more event, and after its first one is gone.
LEMMA Appended ==
    ASSUME NEW s \in Seq(Event), NEW e \in Event
    PROVE  /\ Append(s, e) \in Seq(Event) /\ DOMAIN Append(s, e) = 1 .. Len(s) + 1
           /\ \A i \in DOMAIN s : Append(s, e)[i] = s[i]
           /\ Append(s, e)[Len(s) + 1] = e
           /\ DOMAIN s = 1 .. Len(s) /\ Len(s) \in Nat
OBVIOUS

\* A queue holds finitely many ends of trials.
LEMMA EndsFinite ==
    ASSUME NEW s \in Seq(Event) PROVE IsFiniteSet(Ends(s)) /\ Cardinality(Ends(s)) \in Nat
<1>1. IsFiniteSet(1 .. Len(s))
  BY FS_Interval
<1>2. Ends(s) \in SUBSET (1 .. Len(s))
  BY DEF Ends
<1> QED BY <1>1, <1>2, FS_Subset, FS_CardinalityType

\* One more event adds one end of a trial if it is one, and none otherwise.
LEMMA EndsAppended ==
    ASSUME NEW s \in Seq(Event), NEW e \in Event
    PROVE  /\ IsEnd(e) => Cardinality(Ends(Append(s, e))) = Cardinality(Ends(s)) + 1
           /\ ~IsEnd(e) => Ends(Append(s, e)) = Ends(s)
<1>1. /\ DOMAIN Append(s, e) = 1 .. Len(s) + 1 /\ \A i \in DOMAIN s : Append(s, e)[i] = s[i]
      /\ Append(s, e)[Len(s) + 1] = e /\ DOMAIN s = 1 .. Len(s) /\ Len(s) \in Nat
  BY Appended
<1>2. ~IsEnd(e) => Ends(Append(s, e)) = Ends(s)
  BY <1>1 DEF Ends, IsEnd
<1>3. ASSUME IsEnd(e) PROVE Cardinality(Ends(Append(s, e))) = Cardinality(Ends(s)) + 1
  <2>1. Ends(Append(s, e)) = Ends(s) \cup {Len(s) + 1} /\ Len(s) + 1 \notin Ends(s)
    BY <1>1, <1>3 DEF Ends, IsEnd
  <2> QED BY <2>1, EndsFinite, FS_AddElement
<1> QED BY <1>2, <1>3

\* One more event announces its trial if it announces one.
LEMMA BegunAppended ==
    ASSUME NEW s \in Seq(Event), NEW e \in Event
    PROVE  /\ e.event # "trial_started" => Begun(Append(s, e)) = Begun(s)
           /\ e.event = "trial_started" /\ e.trial \in Trials =>
                 Begun(Append(s, e)) = Begun(s) \cup {e.trial}
<1> DEFINE q == Append(s, e)
<1>1. /\ DOMAIN q = 1 .. Len(s) + 1 /\ \A i \in DOMAIN s : q[i] = s[i]
      /\ q[Len(s) + 1] = e /\ DOMAIN s = 1 .. Len(s) /\ Len(s) \in Nat
  BY Appended
<1> HIDE DEF q
<1>2. \A i : i \in DOMAIN q <=> i \in DOMAIN s \/ i = Len(s) + 1
  BY <1>1
<1> QED BY <1>1, <1>2, Zenon DEF Begun, q

\* A queue without its first event.
LEMMA Tailed ==
    ASSUME NEW s \in Seq(Event), s # <<>>
    PROVE  /\ Tail(s) \in Seq(Event) /\ DOMAIN Tail(s) = 1 .. Len(s) - 1
           /\ \A i \in DOMAIN Tail(s) : Tail(s)[i] = s[i + 1] /\ i + 1 \in DOMAIN s
           /\ Head(s) = s[1] /\ Head(s) \in Event /\ DOMAIN s = 1 .. Len(s)
           /\ Len(s) \in Nat /\ 1 \in DOMAIN s
           /\ \A i \in DOMAIN s : i # 1 => i - 1 \in DOMAIN Tail(s) /\ Tail(s)[i - 1] = s[i]
OBVIOUS

\* Receiving the end of a trial takes one end off the queue, and anything else none.
LEMMA EndsTailed ==
    ASSUME NEW s \in Seq(Event), s # <<>>
    PROVE  /\ IsEnd(Head(s)) => Cardinality(Ends(s)) = Cardinality(Ends(Tail(s))) + 1
           /\ ~IsEnd(Head(s)) => Cardinality(Ends(s)) = Cardinality(Ends(Tail(s)))
<1> DEFINE A == Ends(Tail(s))
           C == Ends(s) \ {1}
           f == [i \in A |-> i + 1]
<1>1. IsFiniteSet(A) /\ IsFiniteSet(Ends(s)) /\ Cardinality(A) \in Nat
      /\ Cardinality(Ends(s)) \in Nat
  BY Tailed, EndsFinite
<1>2. f \in Bijection(A, C)
  <2>1. \A i \in A : i + 1 \in C
    BY Tailed DEF Ends
  <2>2. \A j \in C : j - 1 \in A /\ (j - 1) + 1 = j
    BY Tailed DEF Ends
  <2>3. \A i, j \in A : i + 1 = j + 1 => i = j
    BY Tailed DEF Ends
  <2> HIDE DEF A, C
  <2>4. f \in [A -> C] /\ \A i \in A : f[i] = i + 1
    BY <2>1
  <2> HIDE DEF f
  <2>5. \A i, j \in A : f[i] = f[j] => i = j
    BY <2>3, <2>4
  <2>6. \A j \in C : \E i \in A : f[i] = j
    BY <2>2, <2>4
  <2> QED BY <2>4, <2>5, <2>6 DEF Bijection, Injection, Surjection, IsInjective
<1>3. Cardinality(A) = Cardinality(C)
  <2> HIDE DEF A, C, f
  <2>1. ExistsBijection(A, C)
    BY <1>2 DEF ExistsBijection
  <2> QED BY <1>1, <2>1, FS_Bijection
<1>4. 1 \in Ends(s) <=> IsEnd(Head(s))
  BY Tailed DEF Ends, IsEnd
<1>5. IsEnd(Head(s)) => Cardinality(C) = Cardinality(Ends(s)) - 1
  BY <1>1, <1>4, FS_RemoveElement
<1>6. ~IsEnd(Head(s)) => C = Ends(s)
  BY <1>4
<1> HIDE DEF A, C
<1> QED BY <1>1, <1>3, <1>5, <1>6 DEF A

\* Receiving an event takes only the announcement it is.
LEMMA BegunTailed ==
    ASSUME NEW s \in Seq(Event), s # <<>>
    PROVE  /\ Head(s).event # "trial_started" => Begun(Tail(s)) = Begun(s)
           /\ Head(s).event = "trial_started" => Begun(s) = Begun(Tail(s)) \cup {Head(s).trial}
<1> DEFINE q == Tail(s)
<1>1. /\ \A i \in DOMAIN q : q[i] = s[i + 1] /\ i + 1 \in DOMAIN s
      /\ Head(s) = s[1] /\ 1 \in DOMAIN s /\ Head(s) \in Event
      /\ \A i \in DOMAIN s : i # 1 => i - 1 \in DOMAIN q /\ q[i - 1] = s[i]
  BY Tailed
<1>2. Head(s).event = "trial_started" => Head(s).trial \in Trials
  BY <1>1 DEF Event
<1> HIDE DEF q
<1>3. Begun(q) \subseteq Begun(s)
  <2> SUFFICES ASSUME NEW t \in Begun(q) PROVE t \in Begun(s)
    OBVIOUS
  <2>1. PICK i \in DOMAIN q : q[i].event = "trial_started" /\ q[i].trial = t
    BY DEF Begun
  <2>2. i + 1 \in DOMAIN s /\ s[i + 1].event = "trial_started" /\ s[i + 1].trial = t
    BY <1>1, <2>1
  <2>3. t \in Trials
    BY DEF Begun
  <2> QED BY <2>2, <2>3 DEF Begun
<1>4. \A t \in Begun(s) : t \in Begun(q)
                          \/ (s[1].event = "trial_started" /\ s[1].trial = t)
  BY <1>1, Zenon DEF Begun
<1>5. Head(s).event = "trial_started" => Head(s).trial \in Begun(s)
  BY <1>1, <1>2, Zenon DEF Begun
<1> QED BY <1>1, <1>3, <1>4, <1>5 DEF q

\* The first events of a queue.
LEMMA Cut ==
    ASSUME NEW s \in Seq(Event), NEW n \in 0 .. Len(s)
    PROVE  /\ SubSeq(s, 1, n) \in Seq(Event) /\ DOMAIN SubSeq(s, 1, n) \subseteq DOMAIN s
           /\ \A i \in DOMAIN SubSeq(s, 1, n) : SubSeq(s, 1, n)[i] = s[i]
<1> DEFINE q == SubSeq(s, 1, n)
<1>1. q \in Seq(Event) /\ Len(q) = n
  BY DEF Event
<1>2. DOMAIN q = 1 .. n /\ DOMAIN s = 1 .. Len(s) /\ Len(s) \in Nat
  BY <1>1
<1>3. \A i \in 1 .. n : q[i] = s[i]
  OBVIOUS
<1> QED BY <1>1, <1>2, <1>3

\* What is known of the trials only grows, and with it what may be counted.
LEMMA SumType ==
    ASSUME Types, NEW w \in Workers
    PROVE  /\ Known(w) \subseteq WorkerTrials(w) /\ Known(w) \subseteq Trials
           /\ IsFiniteSet(Known(w)) /\ Total(saved, Known(w)) \in Int
           /\ IsFiniteSet(Ended(w)) /\ Cardinality(Ended(w)) \in Nat
<1>1. Known(w) \subseteq WorkerTrials(w) /\ Ended(w) \subseteq WorkerTrials(w)
  BY DEF Known, Ended
<1>2. IsFiniteSet(Known(w)) /\ IsFiniteSet(Ended(w)) /\ Known(w) \subseteq Trials
  BY <1>1, FiniteShares, FS_Subset
<1>3. \A t \in Known(w) : saved[t] \in Int
  BY <1>2 DEF Types
<1>4. Total(saved, Known(w)) \in Int
  BY <1>2, <1>3, TotalType
<1> QED BY <1>1, <1>2, <1>4, FS_CardinalityType

\* What may still be counted of a trial, and the counts of a line, are numbers.
LEMMA RestType ==
    ASSUME Types, QueueTypes, NEW w \in Workers
    PROVE  Rest(w) \in Int /\ shown[w].captures \in Nat /\ shown[w].completed \in Nat
           /\ shown[w].failed \in Nat
<1>1. /\ shown[w].trial \in Trials \cup {None} /\ shown[w].captures \in Nat
      /\ shown[w].trialCaptures \in Nat /\ shown[w].completed \in Nat /\ shown[w].failed \in Nat
  BY DEF QueueTypes, Line
<1>2. shown[w].trial # None => saved[shown[w].trial] \in Nat
  BY <1>1 DEF Types
<1> QED BY <1>1, <1>2 DEF Rest

\* Where counts and captures stay, and nothing known is forgotten.
LEMMA KnownGrows ==
    ASSUME IInv, QInv, UNCHANGED <<saved, shown>>,
           \A v \in Workers : Known(v) \subseteq Known(v)' /\ Known(v)' \subseteq Trials
    PROVE  Counted'
<1>1. ASSUME NEW w \in Workers PROVE Total(saved, Known(w)) <= Total(saved, Known(w)')
  <2>1. IsFiniteSet(Known(w)') /\ Known(w) \subseteq Known(w)'
    BY FiniteShares, FS_Subset
  <2>2. \A t \in Known(w)' : saved[t] \in Nat
    BY DEF IInv, Types
  <2> HIDE DEF Known
  <2> QED BY <2>1, <2>2, TotalMore
<1>2. ASSUME NEW w \in Workers PROVE Total(saved, Known(w)') \in Int
  <2>1. IsFiniteSet(Known(w)')
    BY FiniteShares, FS_Subset
  <2>2. \A t \in Known(w)' : saved[t] \in Int
    BY DEF IInv, Types
  <2> QED BY <2>1, <2>2, TotalType
<1>3. Counted'
  <2> SUFFICES ASSUME NEW w \in Workers
               PROVE  /\ shown[w].trial # None => shown[w].trial \in Known(w)' /\ Rest(w) >= 0
                      /\ shown[w].state = "running" => shown[w].trial # None
                      /\ shown[w].captures + Rest(w) <= Total(saved, Known(w)')
    BY DEF Counted, Rest
  <2>1. /\ shown[w].trial # None => shown[w].trial \in Known(w) /\ Rest(w) >= 0
        /\ shown[w].state = "running" => shown[w].trial # None
        /\ shown[w].captures + Rest(w) <= Total(saved, Known(w))
    BY DEF QInv, Counted
  <2>2. Total(saved, Known(w)) \in Int /\ Rest(w) \in Int /\ shown[w].captures \in Int
    BY SumType, RestType DEF IInv, QInv
  <2>3. Known(w) \subseteq Known(w)'
    OBVIOUS
  <2> QED BY <1>1, <1>2, <2>1, <2>2, <2>3
<1> QED BY <1>3

\* A step that leaves counts, captures and results alone: no trial is announced anew, no
\* end of a trial is added, and none is lost where nothing may be.
LEMMA QuietCounts ==
    ASSUME IInv, QInv, UNCHANGED <<result, saved, shown>>, Unended',
           \A v \in Workers :
              /\ Known(v) \subseteq Known(v)' /\ Known(v)' \subseteq Trials
              /\ Ends(events'[v]) \subseteq Ends(events[v])
              /\ Lossless(v)' => Lossless(v) /\ Ends(events'[v]) = Ends(events[v])
              /\ (\E i \in DOMAIN events'[v] : events'[v][i].event = "trial_failed")
                    => \E i \in DOMAIN events[v] : events[v][i].event = "trial_failed"
    PROVE  Counted' /\ Tallied'
<1>3. Counted'
  BY KnownGrows
<1>4. Tallied'
  <2> SUFFICES ASSUME NEW w \in Workers
               PROVE  /\ shown[w].completed + shown[w].failed + Cardinality(Ends(events'[w]))
                            <= Cardinality(Ended(w))
                      /\ Lossless(w)' =>
                           shown[w].completed + shown[w].failed + Cardinality(Ends(events'[w]))
                              = Cardinality(Ended(w))
                      /\ shown[w].failed # 0
                         \/ (\E i \in DOMAIN events'[w] : events'[w][i].event = "trial_failed")
                           => HasFailed(w)
    BY DEF Tallied, Ended, HasFailed, WorkerTrials
  <2>1. IsFiniteSet(Ends(events[w])) /\ Cardinality(Ends(events[w])) \in Nat
    BY EndsFinite DEF QInv, QueueTypes
  <2>2. Cardinality(Ends(events'[w])) \in Nat
        /\ Cardinality(Ends(events'[w])) <= Cardinality(Ends(events[w]))
    <3>1. Ends(events'[w]) \in SUBSET Ends(events[w])
      OBVIOUS
    <3> QED BY <2>1, <3>1, FS_Subset, FS_CardinalityType
  <2>3. Cardinality(Ended(w)) \in Nat /\ shown[w].completed \in Nat /\ shown[w].failed \in Nat
    BY SumType, RestType DEF IInv, QInv
  <2>4. shown[w].completed + shown[w].failed + Cardinality(Ends(events[w]))
           <= Cardinality(Ended(w))
    BY DEF QInv, Tallied
  <2>5. Lossless(w) => shown[w].completed + shown[w].failed + Cardinality(Ends(events[w]))
                          = Cardinality(Ended(w))
    BY DEF QInv, Tallied
  <2>6. shown[w].failed # 0 \/ (\E i \in DOMAIN events[w] : events[w][i].event = "trial_failed")
           => HasFailed(w)
    BY DEF QInv, Tallied
  <2>7. Lossless(w)' => Lossless(w) /\ Ends(events'[w]) = Ends(events[w])
    OBVIOUS
  <2>8. (\E i \in DOMAIN events'[w] : events'[w][i].event = "trial_failed")
                    => \E i \in DOMAIN events[w] : events[w][i].event = "trial_failed"
    OBVIOUS
  <2>9. shown[w].completed + shown[w].failed + Cardinality(Ends(events'[w]))
           <= Cardinality(Ended(w))
    BY <2>1, <2>2, <2>3, <2>4
  <2>10. ASSUME Lossless(w)'
         PROVE  shown[w].completed + shown[w].failed + Cardinality(Ends(events'[w]))
                  = Cardinality(Ended(w))
    BY <2>5, <2>7, <2>10, Zenon
  <2> QED BY <2>6, <2>8, <2>9, <2>10, Zenon
<1> QED BY <1>3, <1>4

\* A live worker's step is before the queue is drained.
LEMMA NotYet ==
    ASSUME Drained, NEW w \in Workers, life[w] # "dead"
    PROVE  pc \notin {"draining", "judging", "finalizing"} /\ code # 0
BY DEF Drained

\* Events that keep their places, or are lost; others are of no account.
Quieter(s, q) ==
    \A i \in DOMAIN q :
        q[i].event \in {"trial_started", "capture_saved", "trial_completed", "trial_failed"}
           => i \in DOMAIN s /\ q[i] = s[i]

\* A step after which no queue holds an announcement, capture or end it did not hold
\* before keeps the counts.
LEMMA QuietStep ==
    ASSUME IInv, QInv, events' \in [Workers -> Seq(Event)],
           UNCHANGED <<todo, at, result, saved, lines, shown>>,
           \A v \in Workers :
              /\ Quieter(events[v], events'[v])
              /\ Lossless(v)' => Lossless(v) /\ Ends(events[v]) \subseteq Ends(events'[v])
    PROVE  QueueTypes' /\ Told' /\ Unended' /\ Counted' /\ Tallied'
<1>1. QueueTypes'
  BY DEF QInv, QueueTypes
<1>2. Unended'
  BY DEF QInv, Unended
<1>3. Told'
  <2>1. \A t \in Trials : \A i \in DOMAIN lines[t] : lines[t][i] <= saved[t]
    BY DEF QInv, Told
  <2>2. ASSUME NEW w \in Workers, NEW i \in DOMAIN events'[w]
        PROVE  /\ events'[w][i].event = "capture_saved" =>
                     events'[w][i].count <= saved[events'[w][i].trial]
               /\ events'[w][i].event = "trial_started" =>
                     /\ events'[w][i].trial \in WorkerTrials(w) \ todo[w]
                     /\ \A j \in DOMAIN events'[w] :
                           events'[w][j].event = "trial_started"
                              /\ events'[w][j].trial = events'[w][i].trial => i = j
    <3> DEFINE s == events[w]
               q == events'[w]
    <3>1. \A j \in DOMAIN q : q[j].event \in {"trial_started", "capture_saved"} =>
             j \in DOMAIN s /\ q[j] = s[j]
      BY DEF Quieter
    <3>2. \A j \in DOMAIN s :
             /\ s[j].event = "capture_saved" => s[j].count <= saved[s[j].trial]
             /\ s[j].event = "trial_started" =>
                   /\ s[j].trial \in WorkerTrials(w) \ todo[w]
                   /\ \A k \in DOMAIN s :
                         s[k].event = "trial_started" /\ s[k].trial = s[j].trial => j = k
      BY DEF QInv, Told
    <3>3. i \in DOMAIN q
      BY <2>2
    <3> HIDE DEF s, q
    <3> SUFFICES /\ q[i].event = "capture_saved" => q[i].count <= saved[q[i].trial]
                 /\ q[i].event = "trial_started" =>
                       /\ q[i].trial \in WorkerTrials(w) \ todo[w]
                       /\ \A j \in DOMAIN q :
                             q[j].event = "trial_started" /\ q[j].trial = q[i].trial => i = j
      BY Zenon DEF q
    <3>4. ASSUME q[i].event = "capture_saved" PROVE q[i].count <= saved[q[i].trial]
      BY <3>1, <3>2, <3>3, <3>4
    <3>5. ASSUME q[i].event = "trial_started"
          PROVE  /\ q[i].trial \in WorkerTrials(w) \ todo[w]
                 /\ \A j \in DOMAIN q :
                       q[j].event = "trial_started" /\ q[j].trial = q[i].trial => i = j
      BY <3>1, <3>2, <3>3, <3>5
    <3> QED BY <3>4, <3>5
  <2> QED BY <2>1, <2>2 DEF Told, WorkerTrials
<1>4. ASSUME NEW v \in Workers
      PROVE  /\ Known(v) \subseteq Known(v)' /\ Known(v)' \subseteq Trials
             /\ Ends(events'[v]) \subseteq Ends(events[v])
             /\ Lossless(v)' => Lossless(v) /\ Ends(events'[v]) = Ends(events[v])
             /\ (\E i \in DOMAIN events'[v] : events'[v][i].event = "trial_failed")
                   => \E i \in DOMAIN events[v] : events[v][i].event = "trial_failed"
  <2>1. Begun(events'[v]) \subseteq Begun(events[v])
    BY DEF Begun, Quieter
  <2>2. Known(v)' = WorkerTrials(v) \ (todo[v] \cup Begun(events'[v]))
    BY DEF Known, WorkerTrials, Begun
  <2>3. WorkerTrials(v) \subseteq Trials
    BY FiniteShares
  <2>4. Ends(events'[v]) \subseteq Ends(events[v])
    BY DEF Ends, Quieter
  <2>5. (\E i \in DOMAIN events'[v] : events'[v][i].event = "trial_failed")
           => \E i \in DOMAIN events[v] : events[v][i].event = "trial_failed"
    BY DEF Quieter
  <2>6. Lossless(v)' => Lossless(v) /\ Ends(events[v]) \subseteq Ends(events'[v])
    OBVIOUS
  <2>7. Known(v) \subseteq Known(v)' /\ Known(v)' \subseteq Trials
    BY <2>1, <2>2, <2>3 DEF Known
  <2>8. Lossless(v)' => Lossless(v) /\ Ends(events'[v]) = Ends(events[v])
    BY <2>4, <2>6, Zenon
  <2> QED BY <2>4, <2>5, <2>7, <2>8
<1>5. Counted' /\ Tallied'
  BY <1>2, <1>4, QuietCounts
<1> QED BY <1>1, <1>2, <1>3, <1>5

\* Steps that only add an event of no account, or lose some.
LEMMA SaysLittle ==
    ASSUME IInv, QInv, NEW w \in Workers, NEW e \in Event, Emits(w, e),
           e.event \in {"worker_started", "worker_finished", "worker_crashed"},
           UNCHANGED <<todo, at, result, saved, lines, shown>>,
           \A v \in Workers : Lossless(v)' => Lossless(v)
    PROVE  QueueTypes' /\ Told' /\ Unended' /\ Counted' /\ Tallied'
<1>1. events \in [Workers -> Seq(Event)]
  BY DEF QInv, QueueTypes
<1>2. CASE UNCHANGED events
  <2>1. \A v \in Workers : /\ Quieter(events[v], events'[v])
                           /\ Ends(events[v]) \subseteq Ends(events'[v])
    BY <1>2 DEF Quieter
  <2> QED BY <1>1, <1>2, <2>1, QuietStep
<1>3. CASE events' = [events EXCEPT ![w] = Append(@, e)]
  <2>1. events' \in [Workers -> Seq(Event)]
    BY <1>1, <1>3
  <2>2. ASSUME NEW v \in Workers
        PROVE  Quieter(events[v], events'[v]) /\ Ends(events[v]) \subseteq Ends(events'[v])
    <3>1. CASE v = w
      <4> DEFINE s == events[w]
      <4>1. s \in Seq(Event) /\ events'[v] = Append(s, e)
        BY <1>1, <1>3, <3>1
      <4> HIDE DEF s
      <4>2. Ends(Append(s, e)) = Ends(s)
        BY <4>1, EndsAppended DEF IsEnd
      <4>3. Quieter(s, Append(s, e))
        BY <4>1, Appended DEF Quieter
      <4> QED BY <3>1, <4>1, <4>2, <4>3 DEF s
    <3>2. CASE v # w
      BY <1>1, <1>3, <3>2 DEF Quieter
    <3> QED BY <3>1, <3>2
  <2> QED BY <2>1, <2>2, QuietStep
<1> QED BY <1>2, <1>3 DEF Emits

\* So does one that leaves the queues as they are.
LEMMA SameQueues ==
    ASSUME IInv, QInv, UNCHANGED <<todo, at, result, saved, lines, events, shown>>,
           \A v \in Workers : Lossless(v)' => Lossless(v)
    PROVE  QueueTypes' /\ Told' /\ Unended' /\ Counted' /\ Tallied'
<1>1. events' \in [Workers -> Seq(Event)]
  BY DEF QInv, QueueTypes
<1>2. \A v \in Workers : /\ Quieter(events[v], events'[v])
                         /\ Ends(events[v]) \subseteq Ends(events'[v])
  BY DEF Quieter
<1> QED BY <1>1, <1>2, QuietStep

\* While a worker lives the parent is not past the draining of the queue.
LEMMA LivesUndrained ==
    ASSUME Drained, NEW w \in Workers, life[w] = "alive", UNCHANGED <<pc, code>>
    PROVE  Drained'
BY NotYet DEF Drained

\* A live worker has no exit code yet.
LEMMA AliveLossless ==
    ASSUME IInv, NEW w \in Workers, life[w] = "alive", NEW c \in {0, 1, 130, -9}, Dies(w, c),
           UNCHANGED <<pc, code>>
    PROVE  \A v \in Workers : Lossless(v)' => Lossless(v)
<1>1. exit[w] = None /\ exit \in [Workers -> {None, 0, 1, 130, -9}]
  BY DEF IInv, ExitCodes, Types
<1>2. exit' = [exit EXCEPT ![w] = c]
  BY DEF Dies
<1> QED BY <1>1, <1>2 DEF Lossless, Heard, None

\* What workers put into the queue are events.
LEMMA EventTypes ==
    /\ [event |-> "worker_started"] \in Event /\ [event |-> "worker_finished"] \in Event
    /\ [event |-> "worker_crashed"] \in Event /\ [event |-> "trial_completed"] \in Event
    /\ [event |-> "trial_failed"] \in Event
    /\ \A t \in Trials : [event |-> "trial_started", trial |-> t] \in Event
    /\ \A t \in Trials, n \in Nat :
         [event |-> "capture_saved", trial |-> t, count |-> n] \in Event
BY DEF Event

\* A worker that ends, in whatever way, changes no count; killed, it may take events
\* with it.
LEMMA EndingStep ==
    ASSUME IInv, QInv, NEW w \in Workers,
           WorkerFinish(w) \/ WorkerCrash(w) \/ WorkerInterrupted(w) \/ WorkerKilled(w)
    PROVE  QInv'
<1> USE DEF parent
<1>1. life[w] = "alive" /\ UNCHANGED <<pc, code, todo, at, result, saved, lines, shown>>
  BY DEF WorkerFinish, WorkerCrash, WorkerInterrupted, WorkerKilled
<1>2. Drained'
  BY <1>1, LivesUndrained DEF QInv
<1>3. CASE WorkerFinish(w)
  <2>1. Emits(w, [event |-> "worker_finished"]) /\ Dies(w, IF HasFailed(w) THEN 1 ELSE 0)
    BY <1>3 DEF WorkerFinish
  <2>2. \A v \in Workers : Lossless(v)' => Lossless(v)
    BY <1>1, <2>1, AliveLossless
  <2>3. QueueTypes' /\ Told' /\ Unended' /\ Counted' /\ Tallied'
    BY <1>1, <2>1, <2>2, EventTypes, SaysLittle
  <2> QED BY <1>2, <2>3 DEF QInv
<1>4. CASE WorkerCrash(w)
  <2>1. Emits(w, [event |-> "worker_crashed"]) /\ Dies(w, 1)
    BY <1>4 DEF WorkerCrash
  <2>2. \A v \in Workers : Lossless(v)' => Lossless(v)
    BY <1>1, <2>1, AliveLossless
  <2>3. QueueTypes' /\ Told' /\ Unended' /\ Counted' /\ Tallied'
    BY <1>1, <2>1, <2>2, EventTypes, SaysLittle
  <2> QED BY <1>2, <2>3 DEF QInv
<1>5. CASE WorkerInterrupted(w)
  <2>1. UNCHANGED events /\ \E c \in {130, 1} : Dies(w, c)
    BY <1>5 DEF WorkerInterrupted
  <2>2. \A v \in Workers : Lossless(v)' => Lossless(v)
    BY <1>1, <2>1, AliveLossless
  <2>3. QueueTypes' /\ Told' /\ Unended' /\ Counted' /\ Tallied'
    BY <1>1, <2>1, <2>2, SameQueues
  <2> QED BY <1>2, <2>3 DEF QInv
<1>6. CASE WorkerKilled(w)
  <2>1. PICK n \in 0 .. Len(events[w]) : events' = [events EXCEPT ![w] = SubSeq(@, 1, n)]
    BY <1>6 DEF WorkerKilled
  <2>2. Dies(w, -9)
    BY <1>6 DEF WorkerKilled
  <2>3. \A v \in Workers : Lossless(v)' => Lossless(v)
    BY <1>1, <2>2, AliveLossless
  <2>4. ~ Lossless(w)'
    BY <2>2 DEF Lossless, Dies, IInv, Types
  <2>5. events \in [Workers -> Seq(Event)]
    BY DEF QInv, QueueTypes
  <2> DEFINE s == events[w]
  <2>6. events'[w] = SubSeq(s, 1, n) /\ \A v \in Workers : v # w => events'[v] = events[v]
    BY <2>1, <2>5
  <2>7. s \in Seq(Event) /\ n \in 0 .. Len(s)
    BY <2>5
  <2> HIDE DEF s
  <2>8. SubSeq(s, 1, n) \in Seq(Event) /\ Quieter(s, SubSeq(s, 1, n))
    BY <2>7, Cut DEF Quieter
  <2>9. events' \in [Workers -> Seq(Event)]
    BY <2>1, <2>5, <2>8 DEF s
  <2>10. \A v \in Workers :
            /\ Quieter(events[v], events'[v])
            /\ Lossless(v)' => Lossless(v) /\ Ends(events[v]) \subseteq Ends(events'[v])
    <3> SUFFICES ASSUME NEW v \in Workers
                 PROVE  /\ Quieter(events[v], events'[v])
                        /\ Lossless(v)' => Lossless(v) /\ Ends(events[v]) \subseteq Ends(events'[v])
      OBVIOUS
    <3>1. CASE v = w
      BY <2>3, <2>4, <2>6, <2>8, <3>1 DEF s
    <3>2. CASE v # w
      <4>1. events'[v] = events[v]
        BY <2>6, <3>2
      <4> QED BY <2>3, <4>1 DEF Quieter
    <3> QED BY <3>1, <3>2
  <2>11. QueueTypes' /\ Told' /\ Unended' /\ Counted' /\ Tallied'
    BY <1>1, <2>9, <2>10, QuietStep
  <2> QED BY <1>2, <2>11 DEF QInv
<1> QED BY <1>3, <1>4, <1>5, <1>6

\* A trial is announced when it is no longer to come.
LEMMA TrialStartStep ==
    ASSUME IInv, QInv, NEW w \in Workers, TrialStart(w) PROVE QInv'
<1> USE DEF parent
<1>1. PICK t \in todo[w] :
         /\ at' = [at EXCEPT ![w] = t] /\ todo' = [todo EXCEPT ![w] = @ \ {t}]
         /\ Emits(w, [event |-> "trial_started", trial |-> t])
  BY DEF TrialStart
<1>2. life[w] = "alive" /\ UNCHANGED <<pc, code, exit, result, saved, lines, shown>>
  BY DEF TrialStart
<1>3. Drained'
  BY <1>2, LivesUndrained DEF QInv
<1> DEFINE e == [event |-> "trial_started", trial |-> t]
           s == events[w]
<1>4. /\ t \in Trials /\ t \in WorkerTrials(w) /\ t # None /\ e \in Event
      /\ todo \in [Workers -> SUBSET Trials] /\ at \in [Workers -> Trials \cup {None}]
      /\ events \in [Workers -> Seq(Event)] /\ s \in Seq(Event)
  BY EventTypes DEF IInv, Types, QInv, QueueTypes, WorkerTrials, Trials, None
<1>5. e.event = "trial_started" /\ e.trial = t
  OBVIOUS
<1>6. \/ UNCHANGED events
      \/ events' = [events EXCEPT ![w] = Append(s, e)]
  BY <1>1 DEF Emits
<1> HIDE DEF e
<1>7. events' \in [Workers -> Seq(Event)]
  <2>1. Append(s, e) \in Seq(Event)
    BY <1>4, Appended
  <2> HIDE DEF s
  <2> QED BY <1>4, <1>6, <2>1
<1>8. QueueTypes'
  BY <1>2, <1>7 DEF QInv, QueueTypes
<1>9. Unended'
  BY <1>1, <1>2, <1>4 DEF QInv, Unended
<1>10. Told'
  <2>1. \A u \in Trials : \A i \in DOMAIN lines[u] : lines[u][i] <= saved[u]
    BY DEF QInv, Told
  <2>2. \A v \in Workers : todo'[v] \subseteq todo[v] /\ t \notin todo'[w]
    BY <1>1, <1>4
  <2> DEFINE Good(v, q, left) == \A i \in DOMAIN q :
               /\ q[i].event = "capture_saved" => q[i].count <= saved[q[i].trial]
               /\ q[i].event = "trial_started" =>
                     /\ q[i].trial \in WorkerTrials(v) \ left
                     /\ \A j \in DOMAIN q :
                           q[j].event = "trial_started" /\ q[j].trial = q[i].trial => i = j
  <2>3. \A v \in Workers : Good(v, events[v], todo[v])
    BY DEF QInv, Told
  <2>4. \A v \in Workers : Good(v, events[v], todo'[v])
    BY <2>2, <2>3
  <2>5. Good(w, Append(s, e), todo'[w])
    <3>1. /\ DOMAIN Append(s, e) = 1 .. Len(s) + 1 /\ \A i \in DOMAIN s : Append(s, e)[i] = s[i]
          /\ Append(s, e)[Len(s) + 1] = e /\ DOMAIN s = 1 .. Len(s) /\ Len(s) \in Nat
      BY <1>4, Appended
    <3>2. \A i \in DOMAIN s : s[i].event = "trial_started" => s[i].trial # t
      BY <2>3
    <3> DEFINE q == Append(s, e)
    <3>3. \A i \in DOMAIN q : i \in DOMAIN s \/ i = Len(s) + 1
      BY <3>1
    <3> HIDE DEF q
    <3>4. \A i \in DOMAIN s : q[i] = s[i]
      BY <3>1 DEF q
    <3>5. q[Len(s) + 1] = e
      BY <3>1 DEF q
    <3>6. t \in WorkerTrials(w) \ todo'[w]
      BY <1>4, <2>2
    <3>7. Good(w, s, todo'[w])
      BY <2>4
    <3> HIDE DEF s
    <3>8. Good(w, q, todo'[w])
      BY <1>5, <3>2, <3>3, <3>4, <3>5, <3>6, <3>7
    <3> QED BY <3>8 DEF q
  <2>6. \A v \in Workers : Good(v, events'[v], todo'[v])
    <3> HIDE DEF Good
    <3> QED BY <1>4, <1>6, <2>4, <2>5
  <2> QED BY <1>2, <2>1, <2>6 DEF Told, WorkerTrials
<1>11. Begun(Append(s, e)) = Begun(s) \cup {t} /\ Ends(Append(s, e)) = Ends(s)
  BY <1>4, <1>5, BegunAppended, EndsAppended DEF IsEnd
<1>12. ASSUME NEW v \in Workers
       PROVE  /\ Known(v) \subseteq Known(v)' /\ Known(v)' \subseteq Trials
              /\ Ends(events'[v]) \subseteq Ends(events[v])
              /\ Lossless(v)' => Lossless(v) /\ Ends(events'[v]) = Ends(events[v])
              /\ (\E i \in DOMAIN events'[v] : events'[v][i].event = "trial_failed")
                    => \E i \in DOMAIN events[v] : events[v][i].event = "trial_failed"
  <2>1. Lossless(v)' => Lossless(v)
    BY <1>2 DEF Lossless, Heard
  <2>2. Ends(events'[v]) = Ends(events[v])
    BY <1>4, <1>6, <1>11
  <2>3. Known(v)' = WorkerTrials(v) \ (todo'[v] \cup Begun(events'[v]))
    BY DEF Known, WorkerTrials, Begun
  <2>4. Begun(events'[v]) \subseteq Begun(events[v]) \cup (IF v = w THEN {t} ELSE {})
    BY <1>4, <1>6, <1>11
  <2>5. t \in todo[w] /\ todo'[v] \subseteq todo[v]
    BY <1>1, <1>4
  <2>6. Known(v) \subseteq Known(v)' /\ Known(v)' \subseteq Trials
    BY <2>3, <2>4, <2>5, FiniteShares DEF Known
  <2>7. ASSUME NEW i \in DOMAIN events'[v], events'[v][i].event = "trial_failed"
        PROVE  \E j \in DOMAIN events[v] : events[v][j].event = "trial_failed"
    <3>1. i \in Ends(events'[v])
      BY <2>7 DEF Ends
    <3>2. i \in DOMAIN events[v]
      BY <2>2, <3>1 DEF Ends
    <3>3. events'[v][i] = events[v][i]
      <4>1. \A j \in DOMAIN s : Append(s, e)[j] = s[j]
        BY <1>4, Appended
      <4> QED BY <1>4, <1>6, <3>2, <4>1
    <3> QED BY <2>7, <3>2, <3>3
  <2> HIDE DEF s
  <2> QED BY <2>1, <2>2, <2>6, <2>7
<1>13. Counted' /\ Tallied'
  BY <1>2, <1>9, <1>12, QuietCounts
<1> QED BY <1>3, <1>8, <1>9, <1>10, <1>13 DEF QInv

\* A capture is one more that may be counted.
LEMMA CaptureSavedStep ==
    ASSUME IInv, QInv, NEW w \in Workers, CaptureSaved(w) PROVE QInv'
<1> USE DEF parent
<1> DEFINE t == at[w]
<1>1. /\ life[w] = "alive" /\ UNCHANGED <<pc, code, exit, todo, at, result, events, shown>>
      /\ saved' = [saved EXCEPT ![t] = @ + 1]
      /\ lines' = [lines EXCEPT ![t] = Append(@, saved[t] + 1)]
  BY DEF CaptureSaved
<1>2. t \in Trials /\ saved \in [Trials -> Nat] /\ lines \in [Trials -> Seq(Nat)]
  BY DEF CaptureSaved, IInv, Types, QInv, QueueTypes
<1> HIDE DEF t
<1>3. /\ saved' \in [Trials -> Nat] /\ saved'[t] = saved[t] + 1
      /\ \A u \in Trials : saved[u] <= saved'[u] /\ (u # t => saved'[u] = saved[u])
  BY <1>1, <1>2
<1>4. Drained'
  BY <1>1, LivesUndrained DEF QInv
<1>5. QueueTypes'
  BY <1>1, <1>2 DEF QInv, QueueTypes
<1>6. Unended'
  BY <1>1 DEF QInv, Unended
<1>7. Told'
  <2>1. ASSUME NEW u \in Trials, NEW i \in DOMAIN lines'[u] PROVE lines'[u][i] <= saved'[u]
    <3>1. \A j \in DOMAIN lines[u] : lines[u][j] <= saved[u] /\ lines[u][j] \in Nat
      BY <1>2 DEF QInv, Told
    <3>2. CASE u # t
      <4>1. lines'[u] = lines[u]
        BY <1>1, <1>2, <3>2
      <4> QED BY <1>3, <2>1, <3>1, <3>2, <4>1
    <3>3. CASE u = t
      <4> DEFINE l == lines[t]
      <4>1. lines'[u] = Append(l, saved[t] + 1) /\ l \in Seq(Nat) /\ saved[t] + 1 \in Nat
        BY <1>1, <1>2, <3>3
      <4>2. (i \in DOMAIN l /\ lines'[u][i] = l[i]) \/ lines'[u][i] = saved[t] + 1
        <5> HIDE DEF l
        <5> QED BY <2>1, <4>1
      <4> QED BY <1>2, <1>3, <3>1, <3>3, <4>2
    <3> QED BY <3>2, <3>3
  <2>2. ASSUME NEW v \in Workers, NEW i \in DOMAIN events[v],
               events[v][i].event = "capture_saved"
        PROVE  events[v][i].count <= saved'[events[v][i].trial]
    <3>1. events[v][i] \in Event
      BY DEF QInv, QueueTypes
    <3>2. events[v][i].trial \in Trials /\ events[v][i].count \in Nat
      BY <2>2, <3>1 DEF Event
    <3>3. events[v][i].count <= saved[events[v][i].trial]
      BY <2>2 DEF QInv, Told
    <3> QED BY <1>2, <1>3, <3>2, <3>3
  <2>3. \A v \in Workers : \A i \in DOMAIN events[v] : events[v][i].event = "trial_started" =>
               /\ events[v][i].trial \in WorkerTrials(v) \ todo[v]
               /\ \A j \in DOMAIN events[v] :
                     events[v][j].event = "trial_started"
                        /\ events[v][j].trial = events[v][i].trial => i = j
    BY DEF QInv, Told
  <2> QED BY <1>1, <2>1, <2>2, <2>3 DEF Told, WorkerTrials
<1>8. Tallied'
  BY <1>1 DEF QInv, Tallied, Lossless, Heard, Ended, HasFailed, Ends, WorkerTrials
<1>9. Counted'
  <2>0. \A v \in Workers : Known(v)' = Known(v)
    BY <1>1 DEF Known, Begun, WorkerTrials
  <2> SUFFICES ASSUME NEW v \in Workers
               PROVE  /\ shown'[v].trial # None => shown'[v].trial \in Known(v)' /\ Rest(v)' >= 0
                      /\ shown'[v].state = "running" => shown'[v].trial # None
                      /\ shown'[v].captures + Rest(v)' <= Total(saved', Known(v)')
    BY Zenon DEF Counted
  <2> SUFFICES /\ shown[v].trial # None => shown[v].trial \in Known(v) /\ Rest(v)' >= 0
               /\ shown[v].state = "running" => shown[v].trial # None
               /\ shown[v].captures + Rest(v)' <= Total(saved', Known(v))
    <3>1. shown' = shown /\ Known(v)' = Known(v)
      BY <1>1, <2>0
    <3> QED BY <3>1
  <2>1. /\ shown[v].trial # None => shown[v].trial \in Known(v) /\ Rest(v) >= 0
        /\ shown[v].state = "running" => shown[v].trial # None
        /\ shown[v].captures + Rest(v) <= Total(saved, Known(v))
    BY DEF QInv, Counted
  <2>2. /\ Total(saved, Known(v)) \in Int /\ Rest(v) \in Int /\ shown[v].captures \in Int
        /\ IsFiniteSet(Known(v)) /\ Known(v) \subseteq Trials
    BY SumType, RestType DEF IInv, QInv
  <2>3. /\ shown[v].trial \in Trials \cup {None} /\ shown[v].trialCaptures \in Nat
        /\ None \notin Trials
    BY DEF QInv, QueueTypes, Line, Trials, None
  <2>4. Rest(v)' = IF shown[v].trial = t THEN Rest(v) + 1 ELSE Rest(v)
    <3>1. Rest(v)' = IF shown[v].trial = None THEN 0
                     ELSE saved'[shown[v].trial] - shown[v].trialCaptures
      BY <1>1 DEF Rest
    <3>2. CASE shown[v].trial = None
      BY <1>2, <2>3, <3>1, <3>2 DEF Rest
    <3>3. CASE shown[v].trial = t
      <4>1. Rest(v) = saved[t] - shown[v].trialCaptures
        BY <1>2, <2>3, <3>3 DEF Rest
      <4>2. Rest(v)' = saved'[t] - shown[v].trialCaptures
        BY <1>2, <2>3, <3>1, <3>3
      <4>3. saved[t] \in Nat /\ saved'[t] = saved[t] + 1
        BY <1>2, <1>3
      <4>4. Rest(v)' = Rest(v) + 1
        BY <2>3, <4>1, <4>2, <4>3
      <4> QED BY <3>3, <4>4
    <3>4. CASE shown[v].trial \in Trials /\ shown[v].trial # t
      <4>1. Rest(v) = saved[shown[v].trial] - shown[v].trialCaptures
        BY <2>3, <3>4 DEF Rest
      <4> QED BY <1>3, <2>3, <3>1, <3>4, <4>1
    <3> QED BY <2>3, <3>2, <3>3, <3>4
  <2>5. Total(saved', Known(v)) = IF t \in Known(v) THEN Total(saved, Known(v)) + 1
                                  ELSE Total(saved, Known(v))
    <3> DEFINE K == Known(v)
    <3>0. IsFiniteSet(K) /\ K \subseteq Trials /\ Total(saved, K) \in Int
      BY <2>2
    <3> HIDE DEF K
    <3>1. \A u \in K : saved[u] \in Int /\ saved'[u] \in Int /\ (u # t => saved'[u] = saved[u])
      BY <1>2, <1>3, <3>0
    <3>2. CASE t \in K
      <4>1. Total(saved', K) = Total(saved, K) + saved'[t] - saved[t]
        BY <3>0, <3>1, <3>2, TotalChanged
      <4> QED BY <1>2, <1>3, <3>0, <3>2, <4>1 DEF K
    <3>3. CASE t \notin K
      <4>1. \A u \in K : saved[u] \in Int /\ saved[u] = saved'[u]
        BY <3>1, <3>3
      <4>2. Total(saved, K) = Total(saved', K)
        BY <3>0, <4>1, TotalSame
      <4> QED BY <3>3, <4>2 DEF K
    <3> QED BY <3>2, <3>3
  <2>6. t # None
    BY <1>2, <2>3
  <2> QED BY <2>1, <2>2, <2>4, <2>5, <2>6
<1> QED BY <1>4, <1>5, <1>6, <1>7, <1>8, <1>9 DEF QInv

\* A line becomes an event with the same count.
LEMMA ForwardStep ==
    ASSUME IInv, QInv, NEW w \in Workers, NEW t \in Trials, Forward(w, t) PROVE QInv'
<1> USE DEF parent
<1> DEFINE e == [event |-> "capture_saved", trial |-> t, count |-> Head(lines[t])]
           s == events[w]
<1>1. /\ life[w] = "alive" /\ lines[t] # <<>> /\ Emits(w, e)
      /\ UNCHANGED <<pc, code, exit, todo, at, result, saved, shown>>
      /\ lines' = [lines EXCEPT ![t] = Tail(@)]
  BY DEF Forward
<1>2. /\ lines \in [Trials -> Seq(Nat)] /\ lines[t] \in Seq(Nat)
      /\ events \in [Workers -> Seq(Event)] /\ s \in Seq(Event)
  BY DEF QInv, QueueTypes
<1>3. Head(lines[t]) = lines[t][1] /\ 1 \in DOMAIN lines[t] /\ lines[t][1] \in Nat
  <2> DEFINE l == lines[t]
  <2>1. l \in Seq(Nat) /\ l # <<>>
    BY <1>1, <1>2
  <2> HIDE DEF l
  <2>2. Head(l) = l[1] /\ 1 \in DOMAIN l /\ l[1] \in Nat
    BY <2>1
  <2> QED BY <2>2 DEF l
<1>4. e \in Event
  BY <1>3, EventTypes
<1>5. e.event = "capture_saved" /\ e.trial = t /\ e.count = Head(lines[t])
  OBVIOUS
<1>6. \/ UNCHANGED events
      \/ events' = [events EXCEPT ![w] = Append(s, e)]
  BY <1>1 DEF Emits
<1> HIDE DEF e
<1>7. Append(s, e) \in Seq(Event) /\ Begun(Append(s, e)) = Begun(s)
      /\ Ends(Append(s, e)) = Ends(s)
  BY <1>2, <1>4, <1>5, Appended, BegunAppended, EndsAppended DEF IsEnd
<1>8. QueueTypes'
  <2>1. events' \in [Workers -> Seq(Event)]
    <3> HIDE DEF s
    <3> QED BY <1>2, <1>6, <1>7
  <2>2. lines' \in [Trials -> Seq(Nat)]
    <3>1. Tail(lines[t]) \in Seq(Nat)
      BY <1>1, <1>2
    <3> QED BY <1>1, <1>2, <3>1
  <2> QED BY <1>1, <2>1, <2>2 DEF QInv, QueueTypes
<1>9. Drained'
  BY <1>1, LivesUndrained DEF QInv
<1>10. Unended'
  BY <1>1 DEF QInv, Unended
<1>11. Told'
  <2>1. ASSUME NEW u \in Trials, NEW i \in DOMAIN lines'[u] PROVE lines'[u][i] <= saved[u]
    <3>1. \A j \in DOMAIN lines[u] : lines[u][j] <= saved[u]
      BY DEF QInv, Told
    <3>2. CASE u # t
      BY <1>1, <1>2, <2>1, <3>1, <3>2
    <3>3. CASE u = t
      <4> DEFINE l == lines[t]
      <4>1. lines'[u] = Tail(l) /\ l \in Seq(Nat) /\ l # <<>>
        BY <1>1, <1>2, <3>3
      <4>2. i + 1 \in DOMAIN l /\ lines'[u][i] = l[i + 1]
        <5> HIDE DEF l
        <5> QED BY <2>1, <4>1
      <4> QED BY <3>1, <3>3, <4>2
    <3> QED BY <3>2, <3>3
  <2> DEFINE Good(v, q) == \A i \in DOMAIN q :
               /\ q[i].event = "capture_saved" => q[i].count <= saved[q[i].trial]
               /\ q[i].event = "trial_started" =>
                     /\ q[i].trial \in WorkerTrials(v) \ todo[v]
                     /\ \A j \in DOMAIN q :
                           q[j].event = "trial_started" /\ q[j].trial = q[i].trial => i = j
  <2>2. \A v \in Workers : Good(v, events[v])
    BY DEF QInv, Told
  <2>3. e.count <= saved[e.trial]
    BY <1>3, <1>5 DEF QInv, Told
  <2>4. Good(w, Append(s, e))
    <3> DEFINE q == Append(s, e)
    <3>1. /\ DOMAIN q = 1 .. Len(s) + 1 /\ \A i \in DOMAIN s : q[i] = s[i]
          /\ q[Len(s) + 1] = e /\ DOMAIN s = 1 .. Len(s) /\ Len(s) \in Nat
      BY <1>2, <1>4, Appended
    <3> HIDE DEF q
    <3>2. \A i \in DOMAIN q : i \in DOMAIN s \/ i = Len(s) + 1
      BY <3>1
    <3>3. Good(w, s)
      BY <2>2
    <3> HIDE DEF s
    <3>4. Good(w, q)
      BY <1>5, <2>3, <3>1, <3>2, <3>3
    <3> QED BY <3>4 DEF q
  <2>5. \A v \in Workers : Good(v, events'[v])
    <3> HIDE DEF Good
    <3> QED BY <1>2, <1>6, <2>2, <2>4
  <2> QED BY <1>1, <2>1, <2>5 DEF Told, WorkerTrials
<1>12. ASSUME NEW v \in Workers
       PROVE  /\ Known(v) \subseteq Known(v)' /\ Known(v)' \subseteq Trials
              /\ Ends(events'[v]) \subseteq Ends(events[v])
              /\ Lossless(v)' => Lossless(v) /\ Ends(events'[v]) = Ends(events[v])
              /\ (\E i \in DOMAIN events'[v] : events'[v][i].event = "trial_failed")
                    => \E i \in DOMAIN events[v] : events[v][i].event = "trial_failed"
  <2>1. Lossless(v)' => Lossless(v)
    BY <1>1 DEF Lossless, Heard
  <2>2. Ends(events'[v]) = Ends(events[v]) /\ Begun(events'[v]) = Begun(events[v])
    BY <1>2, <1>6, <1>7
  <2>3. Known(v)' = WorkerTrials(v) \ (todo[v] \cup Begun(events'[v]))
    BY <1>1 DEF Known, WorkerTrials, Begun
  <2>4. Known(v)' = Known(v) /\ Known(v) \subseteq Trials
    BY <2>2, <2>3, FiniteShares DEF Known
  <2>5. ASSUME NEW i \in DOMAIN events'[v], events'[v][i].event = "trial_failed"
        PROVE  \E j \in DOMAIN events[v] : events[v][j].event = "trial_failed"
    <3>1. i \in Ends(events'[v])
      BY <2>5 DEF Ends
    <3>2. i \in DOMAIN events[v]
      BY <2>2, <3>1 DEF Ends
    <3>3. events'[v][i] = events[v][i]
      <4>1. \A j \in DOMAIN s : Append(s, e)[j] = s[j]
        BY <1>2, <1>4, Appended
      <4> QED BY <1>2, <1>6, <3>2, <4>1
    <3> QED BY <2>5, <3>2, <3>3
  <2> HIDE DEF s
  <2> QED BY <2>1, <2>2, <2>4, <2>5
<1>13. Counted' /\ Tallied'
  BY <1>1, <1>10, <1>12, QuietCounts
<1> QED BY <1>8, <1>9, <1>10, <1>11, <1>13 DEF QInv

\* A trial that ends is one more ended, and one more end in the queue if anyone reads it.
LEMMA TrialEndStep ==
    ASSUME IInv, QInv, NEW w \in Workers, NEW how \in {"ok", "failed"}, TrialEnd(w, how)
    PROVE  QInv'
<1> USE DEF parent
<1> DEFINE t == at[w]
           e == [event |-> IF how = "ok" THEN "trial_completed" ELSE "trial_failed"]
           s == events[w]
<1>1. /\ life[w] = "alive" /\ t # None /\ Emits(w, e)
      /\ UNCHANGED <<pc, code, exit, todo, saved, lines, shown>>
      /\ result' = [result EXCEPT ![t] = how] /\ at' = [at EXCEPT ![w] = None]
  BY DEF TrialEnd
<1>2. /\ t \in WorkerTrials(w) /\ t \in Trials
      /\ result \in [Trials -> {"none", "ok", "failed"}]
      /\ at \in [Workers -> Trials \cup {None}]
      /\ events \in [Workers -> Seq(Event)] /\ s \in Seq(Event)
  BY <1>1, FiniteShares DEF IInv, Types, QInv, QueueTypes
<1>3. /\ e \in Event /\ IsEnd(e) /\ e.event # "trial_started" /\ e.event # "capture_saved"
      /\ e.event = "trial_failed" <=> how = "failed"
  BY EventTypes DEF IsEnd
<1>4. \/ Heard /\ events' = [events EXCEPT ![w] = Append(s, e)]
      \/ ~ Heard /\ UNCHANGED events
  BY <1>1 DEF Emits
<1> HIDE DEF e, t
<1>5. /\ Append(s, e) \in Seq(Event) /\ Begun(Append(s, e)) = Begun(s)
      /\ Cardinality(Ends(Append(s, e))) = Cardinality(Ends(s)) + 1
  BY <1>2, <1>3, Appended, BegunAppended, EndsAppended
<1>6. QueueTypes'
  <2>1. events' \in [Workers -> Seq(Event)]
    <3> HIDE DEF s
    <3> QED BY <1>2, <1>4, <1>5
  <2> QED BY <1>1, <2>1 DEF QInv, QueueTypes
<1>7. Drained'
  BY <1>1, LivesUndrained DEF QInv
<1>8. result[t] = "none" /\ t \notin todo[w]
  BY <1>1 DEF QInv, Unended, t
<1>9. Unended'
  <2> SUFFICES ASSUME NEW v \in Workers
               PROVE  /\ \A u \in todo[v] : result'[u] = "none" /\ u # at'[v]
                      /\ at'[v] # None => result'[at'[v]] = "none"
    BY <1>1 DEF Unended
  <2>1. /\ \A u \in todo[v] : result[u] = "none" /\ u # at[v] /\ u \in Trials /\ u # None
        /\ at[v] # None => result[at[v]] = "none" /\ at[v] \in Trials
        /\ todo[v] \subseteq WorkerTrials(v) /\ (at[v] # None => at[v] \in WorkerTrials(v))
    BY DEF QInv, Unended, IInv, Types, WorkerTrials, Trials, None
  <2>2. v # w => t \notin WorkerTrials(v)
    BY <1>2, Apart
  <2>3. CASE v = w
    BY <1>1, <1>2, <1>8, <2>1, <2>3
  <2>4. CASE v # w
    BY <1>1, <1>2, <2>1, <2>2, <2>4
  <2> QED BY <2>3, <2>4
<1>10. Told'
  <2> DEFINE Good(v, q) == \A i \in DOMAIN q :
               /\ q[i].event = "capture_saved" => q[i].count <= saved[q[i].trial]
               /\ q[i].event = "trial_started" =>
                     /\ q[i].trial \in WorkerTrials(v) \ todo[v]
                     /\ \A j \in DOMAIN q :
                           q[j].event = "trial_started" /\ q[j].trial = q[i].trial => i = j
  <2>1. \A v \in Workers : Good(v, events[v])
    BY DEF QInv, Told
  <2>2. Good(w, Append(s, e))
    <3> DEFINE q == Append(s, e)
    <3>1. /\ DOMAIN q = 1 .. Len(s) + 1 /\ \A i \in DOMAIN s : q[i] = s[i]
          /\ q[Len(s) + 1] = e /\ DOMAIN s = 1 .. Len(s) /\ Len(s) \in Nat
      BY <1>2, <1>3, Appended
    <3> HIDE DEF q
    <3>2. \A i \in DOMAIN q : i \in DOMAIN s \/ i = Len(s) + 1
      BY <3>1
    <3>3. Good(w, s)
      BY <2>1
    <3> HIDE DEF s
    <3>4. Good(w, q)
      BY <1>3, <3>1, <3>2, <3>3
    <3> QED BY <3>4 DEF q
  <2>3. \A v \in Workers : Good(v, events'[v])
    <3> HIDE DEF Good
    <3> QED BY <1>2, <1>4, <2>1, <2>2
  <2>4. \A u \in Trials : \A i \in DOMAIN lines[u] : lines[u][i] <= saved[u]
    BY DEF QInv, Told
  <2> QED BY <1>1, <2>3, <2>4 DEF Told, WorkerTrials
<1>11. Counted'
  <2>1. ASSUME NEW v \in Workers
        PROVE  Known(v) \subseteq Known(v)' /\ Known(v)' \subseteq Trials
    <3>1. Begun(events'[v]) = Begun(events[v])
      BY <1>2, <1>4, <1>5
    <3>2. Known(v)' = WorkerTrials(v) \ (todo[v] \cup Begun(events'[v]))
      BY <1>1 DEF Known, WorkerTrials, Begun
    <3> QED BY <3>1, <3>2, FiniteShares DEF Known
  <2> QED BY <1>1, <2>1, KnownGrows
<1>12. Tallied'
  <2> SUFFICES ASSUME NEW v \in Workers
               PROVE  /\ shown[v].completed + shown[v].failed + Cardinality(Ends(events'[v]))
                            <= Cardinality(Ended(v)')
                      /\ Lossless(v)' =>
                           shown[v].completed + shown[v].failed + Cardinality(Ends(events'[v]))
                              = Cardinality(Ended(v)')
                      /\ shown[v].failed # 0
                         \/ (\E i \in DOMAIN events'[v] : events'[v][i].event = "trial_failed")
                           => HasFailed(v)'
    BY <1>1 DEF Tallied
  <2>1. Cardinality(Ended(v)) \in Nat /\ shown[v].completed \in Nat /\ shown[v].failed \in Nat
        /\ IsFiniteSet(Ended(v))
    BY SumType, RestType DEF IInv, QInv
  <2>2. Cardinality(Ends(events[v])) \in Nat
    BY <1>2, EndsFinite
  <2>3. /\ shown[v].completed + shown[v].failed + Cardinality(Ends(events[v]))
            <= Cardinality(Ended(v))
        /\ Lossless(v) => shown[v].completed + shown[v].failed + Cardinality(Ends(events[v]))
                            = Cardinality(Ended(v))
        /\ shown[v].failed # 0 \/ (\E i \in DOMAIN events[v] : events[v][i].event = "trial_failed")
             => HasFailed(v)
    BY DEF QInv, Tallied
  <2>4. CASE v # w
    <3>1. events'[v] = events[v]
      BY <1>2, <1>4, <2>4
    <3>2. t \notin WorkerTrials(v)
      BY <1>2, <2>4, Apart
    <3>3. \A u \in WorkerTrials(v) : result'[u] = result[u]
      BY <1>1, <1>2, <3>2, FiniteShares
    <3>4. Ended(v)' = Ended(v) /\ (HasFailed(v)' <=> HasFailed(v))
      BY <3>3 DEF Ended, HasFailed, WorkerTrials
    <3>5. Lossless(v)' <=> Lossless(v)
      BY <1>1 DEF Lossless, Heard
    <3> QED BY <2>3, <3>1, <3>4, <3>5
  <2>5. CASE v = w
    <3>1. result'[t] = how /\ \A u \in WorkerTrials(w) : u # t => result'[u] = result[u]
      BY <1>1, <1>2, FiniteShares
    <3>2. Ended(w)' = Ended(w) \cup {t} /\ t \notin Ended(w)
      BY <1>2, <1>8, <3>1 DEF Ended, WorkerTrials
    <3>3. Cardinality(Ended(w)') = Cardinality(Ended(w)) + 1
      BY <2>1, <2>5, <3>2, FS_AddElement
    <3>4. HasFailed(w) => HasFailed(w)'
      <4>1. ASSUME NEW u \in WorkerTrials(w), result[u] = "failed" PROVE result'[u] = "failed"
        BY <1>8, <3>1, <4>1
      <4> QED BY <4>1 DEF HasFailed, WorkerTrials
    <3>5. how = "failed" => HasFailed(w)'
      BY <1>2, <3>1 DEF HasFailed, WorkerTrials
    <3>6. CASE Heard /\ events' = [events EXCEPT ![w] = Append(s, e)]
      <4>1. events'[v] = Append(s, e)
        BY <1>2, <2>5, <3>6
      <4>2. Lossless(v)' => Lossless(v)
        BY <1>1 DEF Lossless, Heard
      <4>3. \A i \in DOMAIN events'[v] : events'[v][i].event = "trial_failed" =>
               how = "failed" \/ \E j \in DOMAIN events[v] : events[v][j].event = "trial_failed"
        <5>1. /\ DOMAIN Append(s, e) = 1 .. Len(s) + 1
              /\ \A i \in DOMAIN s : Append(s, e)[i] = s[i]
              /\ Append(s, e)[Len(s) + 1] = e /\ DOMAIN s = 1 .. Len(s) /\ Len(s) \in Nat
          BY <1>2, <1>3, Appended
        <5> DEFINE q == Append(s, e)
        <5>2. \A i \in DOMAIN q : i \in DOMAIN s \/ i = Len(s) + 1
          BY <5>1
        <5>3. \A i \in DOMAIN s : q[i] = s[i]
          BY <5>1
        <5>4. q[Len(s) + 1] = e
          BY <5>1
        <5> HIDE DEF q
        <5>5. \A i \in DOMAIN q : q[i].event = "trial_failed" =>
               how = "failed" \/ \E j \in DOMAIN s : s[j].event = "trial_failed"
          <6> HIDE DEF s
          <6> QED BY <1>3, <5>2, <5>3, <5>4
        <5> QED BY <2>5, <4>1, <5>5 DEF q
      <4>4. Cardinality(Ends(events'[v])) = Cardinality(Ends(events[v])) + 1
        BY <1>5, <2>5, <4>1
      <4>5. shown[v].failed # 0
             \/ (\E i \in DOMAIN events'[v] : events'[v][i].event = "trial_failed")
                => HasFailed(v)'
        BY <2>3, <2>5, <3>4, <3>5, <4>3, Zenon
      <4>6. Cardinality(Ended(v)') = Cardinality(Ended(v)) + 1
        BY <2>5, <3>3
      <4>7. /\ shown[v].completed + shown[v].failed + Cardinality(Ends(events'[v]))
                 <= Cardinality(Ended(v)')
            /\ Lossless(v) =>
                 shown[v].completed + shown[v].failed + Cardinality(Ends(events'[v]))
                    = Cardinality(Ended(v)')
        BY <2>1, <2>2, <2>3, <4>4, <4>6
      <4> QED BY <4>2, <4>5, <4>7, Zenon
    <3>7. CASE ~ Heard /\ UNCHANGED events
      <4>1. ~ Lossless(v)'
        <5>1. pc \notin {"judging", "finalizing"} /\ code # 0
          BY <1>1, NotYet DEF QInv
        <5> QED BY <1>1, <3>7, <5>1 DEF Lossless, Heard
      <4>2. Cardinality(Ended(v)') = Cardinality(Ended(v)) + 1 /\ events'[v] = events[v]
        BY <2>5, <3>3, <3>7
      <4>3. shown[v].completed + shown[v].failed + Cardinality(Ends(events'[v]))
                 <= Cardinality(Ended(v)')
        BY <2>1, <2>2, <2>3, <4>2
      <4>4. shown[v].failed # 0
             \/ (\E i \in DOMAIN events'[v] : events'[v][i].event = "trial_failed")
                => HasFailed(v)'
        BY <2>3, <2>5, <3>4, <4>2, Zenon
      <4> QED BY <4>1, <4>3, <4>4, Zenon
    <3> QED BY <1>4, <3>6, <3>7
  <2> QED BY <2>4, <2>5
<1> QED BY <1>6, <1>7, <1>9, <1>10, <1>11, <1>12 DEF QInv

\* What each event makes of a worker's line.
LEMMA AppliedIs ==
    ASSUME NEW p \in Line, NEW e \in Event
    PROVE  /\ Applied(p, e) \in Line
           /\ e.event \in {"worker_started", "worker_finished", "worker_crashed"} =>
                /\ Applied(p, e).state # "running" /\ Applied(p, e).trial = p.trial
                /\ Applied(p, e).captures = p.captures
                /\ Applied(p, e).trialCaptures = p.trialCaptures
                /\ Applied(p, e).completed = p.completed /\ Applied(p, e).failed = p.failed
           /\ e.event = "trial_started" =>
                /\ Applied(p, e).trial = e.trial /\ Applied(p, e).trialCaptures = 0
                /\ Applied(p, e).captures = p.captures
                /\ Applied(p, e).completed = p.completed /\ Applied(p, e).failed = p.failed
           /\ e.event = "capture_saved" /\ ~ Counts(p, e) => Applied(p, e) = p
           /\ e.event = "capture_saved" /\ Counts(p, e) =>
                /\ Applied(p, e).trial = p.trial /\ Applied(p, e).state = p.state
                /\ Applied(p, e).trialCaptures = e.count
                /\ Applied(p, e).captures = p.captures + e.count - p.trialCaptures
                /\ Applied(p, e).completed = p.completed /\ Applied(p, e).failed = p.failed
           /\ e.event \in {"trial_completed", "trial_failed"} =>
                /\ Applied(p, e).trial = None /\ Applied(p, e).state = "waiting"
                /\ Applied(p, e).captures = p.captures
                /\ Applied(p, e).completed + Applied(p, e).failed = p.completed + p.failed + 1
                /\ e.event # "trial_failed" => Applied(p, e).failed = p.failed
<1>1. CASE e.event \in {"worker_started", "worker_finished", "worker_crashed"}
  BY <1>1 DEF Applied, Line
<1>2. CASE e.event = "trial_started"
  <2>1. e.trial \in Trials
    BY <1>2 DEF Event
  <2> QED BY <1>2, <2>1 DEF Applied, Line
<1>3. CASE e.event = "capture_saved"
  <2>1. e.trial \in Trials /\ e.count \in Nat
    BY <1>3 DEF Event
  <2>2. Applied(p, e) = IF Counts(p, e)
           THEN [p EXCEPT !.captures = @ + e.count - p.trialCaptures, !.trialCaptures = e.count]
           ELSE p
    BY <1>3 DEF Applied
  <2>3. CASE ~ Counts(p, e)
    BY <1>3, <2>2, <2>3
  <2>4. CASE Counts(p, e)
    <3>1. /\ p.captures \in Nat /\ p.trialCaptures \in Nat /\ e.count > p.trialCaptures
      BY <2>4 DEF Counts, Line
    <3>2. p.captures + e.count - p.trialCaptures \in Nat
      BY <2>1, <3>1
    <3>3. Applied(p, e) = [p EXCEPT !.captures = p.captures + e.count - p.trialCaptures,
                                    !.trialCaptures = e.count]
      BY <2>2, <2>4 DEF Line
    <3> DEFINE n == p.captures + e.count - p.trialCaptures
               m == e.count
    <3>4. n \in Nat /\ m \in Nat /\ Applied(p, e) = [p EXCEPT !.captures = n, !.trialCaptures = m]
      BY <2>1, <3>2, <3>3
    <3> HIDE DEF n, m
    <3>5. /\ Applied(p, e) \in Line
          /\ Applied(p, e).trial = p.trial /\ Applied(p, e).state = p.state
          /\ Applied(p, e).trialCaptures = m /\ Applied(p, e).captures = n
          /\ Applied(p, e).completed = p.completed /\ Applied(p, e).failed = p.failed
      BY <3>4 DEF Line
    <3> QED BY <1>3, <2>4, <3>5 DEF n, m
  <2> QED BY <2>3, <2>4
<1>4. CASE e.event = "trial_completed"
  <2>1. Applied(p, e) = [p EXCEPT !.completed = p.completed + 1, !.state = "waiting",
                                  !.trial = None]
    BY <1>4 DEF Applied, Line
  <2>2. p.completed + 1 \in Nat /\ p.completed \in Nat /\ p.failed \in Nat
    BY DEF Line
  <2> DEFINE m == p.completed + 1
  <2> HIDE DEF m
  <2>3. Applied(p, e) = [p EXCEPT !.completed = m, !.state = "waiting", !.trial = None] /\ m \in Nat
    BY <2>1, <2>2 DEF m
  <2>4. /\ Applied(p, e) \in Line /\ Applied(p, e).trial = None /\ Applied(p, e).state = "waiting"
        /\ Applied(p, e).captures = p.captures /\ Applied(p, e).completed = m
        /\ Applied(p, e).failed = p.failed
    BY <2>3 DEF Line
  <2>5. Applied(p, e).completed + Applied(p, e).failed = p.completed + p.failed + 1
    BY <2>2, <2>4 DEF m
  <2> QED BY <1>4, <2>4, <2>5
<1>5. CASE e.event = "trial_failed"
  <2>1. Applied(p, e) = [p EXCEPT !.failed = p.failed + 1, !.error = TRUE, !.state = "waiting",
                                  !.trial = None]
    BY <1>5 DEF Applied, Line
  <2>2. p.failed + 1 \in Nat /\ p.completed \in Nat /\ p.failed \in Nat
    BY DEF Line
  <2> DEFINE m == p.failed + 1
  <2> HIDE DEF m
  <2>3. /\ Applied(p, e) = [p EXCEPT !.failed = m, !.error = TRUE, !.state = "waiting",
                                     !.trial = None]
        /\ m \in Nat
    BY <2>1, <2>2 DEF m
  <2>4. /\ Applied(p, e) \in Line /\ Applied(p, e).trial = None /\ Applied(p, e).state = "waiting"
        /\ Applied(p, e).captures = p.captures /\ Applied(p, e).completed = p.completed
        /\ Applied(p, e).failed = m
    BY <2>3 DEF Line
  <2>5. Applied(p, e).completed + Applied(p, e).failed = p.completed + p.failed + 1
    BY <2>2, <2>4 DEF m
  <2> QED BY <1>5, <2>4, <2>5
<1> QED BY <1>1, <1>2, <1>3, <1>4, <1>5 DEF Event

\* Receiving an event moves what it says from the queue to the display.
LEMMA ReceiveStep ==
    ASSUME IInv, QInv, NEW w \in Workers, Receive(w) PROVE QInv'
<1> USE DEF parent, worker
<1> DEFINE p == shown[w]
           s == events[w]
           h == Head(s)
           q == Tail(s)
           n == Applied(p, h)
<1>1. /\ pc \in {"monitoring", "draining"} /\ s # <<>>
      /\ shown' = [shown EXCEPT ![w] = n] /\ events' = [events EXCEPT ![w] = q]
      /\ UNCHANGED <<pc, code, life, exit, todo, at, result, saved, lines>>
  BY DEF Receive
<1>2. /\ events \in [Workers -> Seq(Event)] /\ shown \in [Workers -> Line] /\ s \in Seq(Event)
      /\ p \in Line
  BY DEF QInv, QueueTypes
<1>3. /\ q \in Seq(Event) /\ h \in Event /\ h = s[1] /\ 1 \in DOMAIN s
      /\ \A i \in DOMAIN q : q[i] = s[i + 1] /\ i + 1 \in DOMAIN s /\ i \in Nat /\ i > 0
  BY <1>1, <1>2, Tailed
<1> HIDE DEF s, q, h, n, p
<1>4. /\ events'[w] = q /\ shown'[w] = n /\ n \in Line
      /\ \A v \in Workers : v # w => events'[v] = events[v] /\ shown'[v] = shown[v]
      /\ events' \in [Workers -> Seq(Event)] /\ shown' \in [Workers -> Line]
  <2>1. n \in Line
    BY <1>2, <1>3, AppliedIs DEF n
  <2> QED BY <1>1, <1>2, <1>3, <2>1
<1>5. QueueTypes' /\ Unended'
  BY <1>1, <1>4 DEF QInv, QueueTypes, Unended
<1>6. Drained'
  <2>1. code # 0 /\ (pc = "draining" => \A v \in Workers : life[v] = "dead")
    BY <1>1 DEF QInv, Drained
  <2> QED BY <1>1, <2>1 DEF Drained
<1>7. /\ h.event = "capture_saved" => h.count <= saved[h.trial]
      /\ h.event = "trial_started" =>
           /\ h.trial \in WorkerTrials(w) \ todo[w]
           /\ \A i \in DOMAIN q : q[i].event = "trial_started" => q[i].trial # h.trial
  <2>1. \A i \in DOMAIN s :
             /\ s[i].event = "capture_saved" => s[i].count <= saved[s[i].trial]
             /\ s[i].event = "trial_started" =>
                   /\ s[i].trial \in WorkerTrials(w) \ todo[w]
                   /\ \A k \in DOMAIN s :
                         s[k].event = "trial_started" /\ s[k].trial = s[i].trial => i = k
    BY DEF QInv, Told, s
  <2>2. \A i \in DOMAIN q : i + 1 # 1
    BY <1>3
  <2> QED BY <1>3, <2>1, <2>2
<1>8. Told'
  <2> DEFINE Good(v, l) == \A i \in DOMAIN l :
               /\ l[i].event = "capture_saved" => l[i].count <= saved[l[i].trial]
               /\ l[i].event = "trial_started" =>
                     /\ l[i].trial \in WorkerTrials(v) \ todo[v]
                     /\ \A j \in DOMAIN l :
                           l[j].event = "trial_started" /\ l[j].trial = l[i].trial => i = j
  <2>1. \A v \in Workers : Good(v, events[v])
    BY DEF QInv, Told
  <2>2. Good(w, q)
    <3>1. Good(w, s)
      BY <2>1 DEF s
    <3>2. \A i, j \in DOMAIN q : i + 1 = j + 1 => i = j
      BY <1>3
    <3> SUFFICES ASSUME NEW i \in DOMAIN q
                 PROVE  /\ q[i].event = "capture_saved" => q[i].count <= saved[q[i].trial]
                        /\ q[i].event = "trial_started" =>
                              /\ q[i].trial \in WorkerTrials(w) \ todo[w]
                              /\ \A j \in DOMAIN q :
                                   q[j].event = "trial_started" /\ q[j].trial = q[i].trial => i = j
      OBVIOUS
    <3>3. q[i] = s[i + 1] /\ i + 1 \in DOMAIN s
      BY <1>3
    <3>4. ASSUME q[i].event = "trial_started", NEW j \in DOMAIN q,
                 q[j].event = "trial_started", q[j].trial = q[i].trial
          PROVE  i = j
      <4>1. q[j] = s[j + 1] /\ j + 1 \in DOMAIN s
        BY <1>3
      <4> QED BY <3>1, <3>2, <3>3, <3>4, <4>1
    <3>5. /\ q[i].event = "capture_saved" => q[i].count <= saved[q[i].trial]
          /\ q[i].event = "trial_started" => q[i].trial \in WorkerTrials(w) \ todo[w]
      BY <3>1, <3>3
    <3> HIDE DEF Good
    <3> QED BY <3>4, <3>5
  <2>3. \A v \in Workers : Good(v, events'[v])
    <3> HIDE DEF Good
    <3> QED BY <1>4, <2>1, <2>2
  <2>4. \A u \in Trials : \A i \in DOMAIN lines[u] : lines[u][i] <= saved[u]
    BY DEF QInv, Told
  <2> QED BY <1>1, <2>3, <2>4 DEF Told, WorkerTrials
<1>9. \A v \in Workers : Known(v)' = WorkerTrials(v) \ (todo[v] \cup Begun(events'[v]))
  BY <1>1 DEF Known, WorkerTrials, Begun
<1>10. /\ h.event # "trial_started" => Known(w)' = Known(w)
       /\ h.event = "trial_started" =>
            /\ Known(w)' = Known(w) \cup {h.trial} /\ h.trial \notin Known(w)
            /\ h.trial \in Trials
  <2>1. Known(w) = WorkerTrials(w) \ (todo[w] \cup Begun(s))
    BY DEF Known, s
  <2>2. Known(w)' = WorkerTrials(w) \ (todo[w] \cup Begun(q))
    BY <1>4, <1>9
  <2>3. /\ h.event # "trial_started" => Begun(q) = Begun(s)
        /\ h.event = "trial_started" => Begun(s) = Begun(q) \cup {h.trial}
    BY <1>1, <1>2, BegunTailed DEF h, q
  <2>4. h.event = "trial_started" => h.trial \notin Begun(q)
    BY <1>7 DEF Begun
  <2> QED BY <1>7, <2>1, <2>2, <2>3, <2>4, FiniteShares
<1>11. Counted'
  <2> SUFFICES ASSUME NEW v \in Workers
               PROVE  /\ shown'[v].trial # None => shown'[v].trial \in Known(v)' /\ Rest(v)' >= 0
                      /\ shown'[v].state = "running" => shown'[v].trial # None
                      /\ shown'[v].captures + Rest(v)' <= Total(saved, Known(v)')
    BY <1>1 DEF Counted
  <2>1. /\ shown[v].trial # None => shown[v].trial \in Known(v) /\ Rest(v) >= 0
        /\ shown[v].state = "running" => shown[v].trial # None
        /\ shown[v].captures + Rest(v) <= Total(saved, Known(v))
    BY DEF QInv, Counted
  <2>2. /\ Total(saved, Known(v)) \in Int /\ Rest(v) \in Int /\ shown[v].captures \in Nat
        /\ IsFiniteSet(Known(v)) /\ Known(v) \subseteq Trials
    BY SumType, RestType DEF IInv, QInv
  <2>3. Rest(v)' = IF shown'[v].trial = None THEN 0
                   ELSE saved[shown'[v].trial] - shown'[v].trialCaptures
    BY <1>1 DEF Rest
  <2>4. CASE v # w
    <3>1. Rest(v)' = Rest(v) /\ shown'[v] = shown[v]
      BY <1>4, <2>3, <2>4 DEF Rest
    <3>2. Known(v)' = Known(v)
      BY <1>4, <1>9, <2>4 DEF Known
    <3> QED BY <2>1, <3>1, <3>2
  <2>5. CASE v = w
    <3>1. /\ p.trial # None => p.trial \in Known(w) /\ Rest(w) >= 0
          /\ p.state = "running" => p.trial # None
          /\ p.captures + Rest(w) <= Total(saved, Known(w))
          /\ Total(saved, Known(w)) \in Int /\ Rest(w) \in Int /\ p.captures \in Nat
          /\ p.trialCaptures \in Nat
          /\ IsFiniteSet(Known(w)) /\ Known(w) \subseteq Trials
      BY <1>2, <2>1, <2>2, <2>5 DEF p, Line
    <3>2. Rest(w)' = IF n.trial = None THEN 0 ELSE saved[n.trial] - n.trialCaptures
      BY <1>4, <2>3, <2>5
    <3>3. Rest(w) = IF p.trial = None THEN 0 ELSE saved[p.trial] - p.trialCaptures
      BY DEF Rest, p
    <3>4. Rest(w) >= 0
      BY <3>1, <3>3
    <3> SUFFICES /\ n.trial # None => n.trial \in Known(w)' /\ Rest(w)' >= 0
                 /\ n.state = "running" => n.trial # None
                 /\ n.captures + Rest(w)' <= Total(saved, Known(w)')
      BY <1>4, <2>5, Zenon
    <3>5. \A u \in Trials : saved[u] \in Nat /\ u # None
      BY DEF IInv, Types, Trials, None
    <3>6. CASE h.event \in {"worker_started", "worker_finished", "worker_crashed"}
      <4>1. /\ n.state # "running" /\ n.trial = p.trial /\ n.captures = p.captures
            /\ n.trialCaptures = p.trialCaptures
        BY <1>2, <1>3, <3>6, AppliedIs DEF n
      <4>2. Known(w)' = Known(w)
        BY <1>10, <3>6
      <4> QED BY <3>1, <3>2, <3>3, <4>1, <4>2
    <3>7. CASE h.event = "trial_started"
      <4>1. n.trial = h.trial /\ n.trialCaptures = 0 /\ n.captures = p.captures
        BY <1>2, <1>3, <3>7, AppliedIs DEF n
      <4>2. Known(w)' = Known(w) \cup {h.trial} /\ h.trial \notin Known(w) /\ h.trial \in Trials
        BY <1>10, <3>7
      <4>3. IsFiniteSet(Known(w)') /\ \A u \in Known(w)' : saved[u] \in Int
        BY <3>1, <3>5, <4>2, FS_AddElement
      <4>4. Total(saved, Known(w)') = saved[h.trial] + Total(saved, Known(w)' \ {h.trial})
        BY <4>2, <4>3, TotalSplit
      <4>5. Known(w)' \ {h.trial} = Known(w)
        BY <4>2
      <4>6. Rest(w)' = saved[h.trial] /\ saved[h.trial] \in Nat /\ n.trial # None
        BY <3>2, <3>5, <4>1, <4>2
      <4>7. saved[h.trial] + p.captures <= Total(saved, Known(w)')
        <5> DEFINE a == Total(saved, Known(w)')
                   b == Total(saved, Known(w))
        <5>1. a = saved[h.trial] + b /\ b \in Int
          BY <3>1, <4>4, <4>5
        <5> HIDE DEF a, b
        <5>2. p.captures + Rest(w) <= b
          BY <3>1 DEF b
        <5> QED BY <3>1, <3>4, <4>6, <5>1, <5>2 DEF a
      <4>8. n.captures + Rest(w)' <= Total(saved, Known(w)')
        BY <3>1, <4>1, <4>6, <4>7
      <4> QED BY <4>1, <4>2, <4>6, <4>8
    <3>8. CASE h.event = "capture_saved" /\ ~ Counts(p, h)
      <4>1. n = p
        BY <1>2, <1>3, <3>8, AppliedIs DEF n
      <4>2. Known(w)' = Known(w)
        BY <1>10, <3>8
      <4> QED BY <3>1, <3>2, <3>3, <4>1, <4>2
    <3>9. CASE h.event = "capture_saved" /\ Counts(p, h)
      <4>1. /\ n.trial = p.trial /\ n.state = p.state /\ n.trialCaptures = h.count
            /\ n.captures = p.captures + h.count - p.trialCaptures
        BY <1>2, <1>3, <3>9, AppliedIs DEF n
      <4>2. Known(w)' = Known(w)
        BY <1>10, <3>9
      <4>3. h.trial \in Trials /\ h.count \in Nat
        BY <1>3, <3>9 DEF Event
      <4>4. p.trial = h.trial /\ h.count <= saved[h.trial] /\ saved[h.trial] \in Nat
            /\ h.trial # None
        BY <1>7, <3>5, <3>9, <4>3 DEF Counts
      <4>5. Rest(w) = saved[h.trial] - p.trialCaptures /\ Rest(w)' = saved[h.trial] - h.count
        BY <3>2, <3>3, <4>1, <4>4
      <4>6. n.captures + Rest(w)' = p.captures + Rest(w) /\ Rest(w)' >= 0
        BY <3>1, <4>1, <4>3, <4>4, <4>5
      <4> QED BY <3>1, <4>1, <4>2, <4>6
    <3>10. CASE IsEnd(h)
      <4>1. n.trial = None /\ n.state = "waiting" /\ n.captures = p.captures
        BY <1>2, <1>3, <3>10, AppliedIs DEF n, IsEnd
      <4>2. Known(w)' = Known(w)
        BY <1>10, <3>10 DEF IsEnd
      <4> QED BY <3>1, <3>2, <3>4, <4>1, <4>2
    <3> QED BY <1>3, <3>6, <3>7, <3>8, <3>9, <3>10 DEF Event, IsEnd
  <2> QED BY <2>4, <2>5
<1>12. Tallied'
  <2>1. \A v \in Workers : /\ Ended(v)' = Ended(v) /\ (HasFailed(v)' <=> HasFailed(v))
                           /\ (Lossless(v)' <=> Lossless(v))
    BY <1>1 DEF Ended, HasFailed, Lossless, Heard, WorkerTrials
  <2> SUFFICES ASSUME NEW v \in Workers
               PROVE  /\ shown'[v].completed + shown'[v].failed + Cardinality(Ends(events'[v]))
                            <= Cardinality(Ended(v))
                      /\ Lossless(v) =>
                           shown'[v].completed + shown'[v].failed + Cardinality(Ends(events'[v]))
                              = Cardinality(Ended(v))
                      /\ shown'[v].failed # 0
                         \/ (\E i \in DOMAIN events'[v] : events'[v][i].event = "trial_failed")
                           => HasFailed(v)
    BY <2>1 DEF Tallied
  <2>2. /\ shown[v].completed + shown[v].failed + Cardinality(Ends(events[v]))
            <= Cardinality(Ended(v))
        /\ Lossless(v) => shown[v].completed + shown[v].failed + Cardinality(Ends(events[v]))
                            = Cardinality(Ended(v))
        /\ shown[v].failed # 0 \/ (\E i \in DOMAIN events[v] : events[v][i].event = "trial_failed")
             => HasFailed(v)
    BY DEF QInv, Tallied
  <2>3. CASE v # w
    <3>1. shown'[v] = shown[v] /\ events'[v] = events[v]
      BY <1>4, <2>3
    <3> QED BY <2>2, <3>1
  <2>4. CASE v = w
    <3>1. /\ Cardinality(Ends(s)) \in Nat /\ Cardinality(Ends(q)) \in Nat
          /\ p.completed \in Nat /\ p.failed \in Nat /\ n.completed \in Nat /\ n.failed \in Nat
      BY <1>2, <1>3, <1>4, EndsFinite DEF Line
    <3>2. /\ IsEnd(h) => Cardinality(Ends(s)) = Cardinality(Ends(q)) + 1
          /\ ~IsEnd(h) => Cardinality(Ends(s)) = Cardinality(Ends(q))
      BY <1>1, <1>2, EndsTailed DEF h, q
    <3>3. /\ IsEnd(h) => /\ n.completed + n.failed = p.completed + p.failed + 1
                         /\ h.event # "trial_failed" => n.failed = p.failed
          /\ ~IsEnd(h) => n.completed = p.completed /\ n.failed = p.failed
      BY <1>2, <1>3, AppliedIs DEF n, Event, IsEnd
    <3>4. n.completed + n.failed + Cardinality(Ends(q))
             = p.completed + p.failed + Cardinality(Ends(s))
      BY <3>1, <3>2, <3>3
    <3>5. n.failed # 0 \/ (\E i \in DOMAIN q : q[i].event = "trial_failed") =>
            p.failed # 0 \/ (\E i \in DOMAIN s : s[i].event = "trial_failed")
      <4>1. (\E i \in DOMAIN q : q[i].event = "trial_failed")
               => \E i \in DOMAIN s : s[i].event = "trial_failed"
        BY <1>3
      <4>2. n.failed # 0 => p.failed # 0 \/ h.event = "trial_failed"
        BY <3>3 DEF IsEnd
      <4> QED BY <1>3, <4>1, <4>2
    <3> QED BY <1>4, <2>2, <2>4, <3>4, <3>5 DEF p, s
  <2> QED BY <2>3, <2>4
<1> QED BY <1>5, <1>6, <1>8, <1>11, <1>12 DEF QInv

\* Every step of a worker keeps the counts.
LEMMA LiveStep ==
    ASSUME IInv, QInv, NEW w \in Workers, Worker(w) PROVE QInv'
<1>1. CASE TrialStart(w)
  BY <1>1, TrialStartStep
<1>2. CASE CaptureSaved(w)
  BY <1>2, CaptureSavedStep
<1>3. CASE \E t \in Trials : Forward(w, t)
  BY <1>3, ForwardStep
<1>4. CASE \E how \in {"ok", "failed"} : TrialEnd(w, how)
  BY <1>4, TrialEndStep
<1>5. CASE WorkerFinish(w) \/ WorkerCrash(w) \/ WorkerInterrupted(w) \/ WorkerKilled(w)
  BY <1>5, EndingStep
<1> QED BY <1>1, <1>2, <1>3, <1>4, <1>5 DEF Worker

\* Steps that leave workers, queues and display alone.
LEMMA VerdictStep ==
    ASSUME IInv, QInv,
           AppendProcess \/ AllEnded \/ Judge \/ FinalizeDataset \/ SignalWorkers
             \/ JoinWorker \/ JoinEnd \/ Exit
    PROVE  QInv'
<1> USE DEF worker
<1>1. UNCHANGED <<life, exit, todo, at, result, saved, lines, events, shown>>
  BY DEF AppendProcess, AllEnded, Judge, FinalizeDataset, SignalWorkers, JoinWorker, JoinEnd, Exit
<1>2. /\ code' = 0 => code = 0 \/ pc = "finalizing"
      /\ pc' \in {"judging", "finalizing"} => pc = "judging"
      /\ pc' \in {"starting", "monitoring", "draining"} => pc \in {"starting", "monitoring"}
  BY DEF AppendProcess, AllEnded, Judge, FinalizeDataset, SignalWorkers, JoinWorker, JoinEnd,
         Exit, Leave
<1>3. \A v \in Workers : Lossless(v)' => Lossless(v)
  <2>1. \A v \in Workers : exit'[v] = exit[v]
    BY <1>1
  <2> QED BY <1>2, <2>1, Zenon DEF Lossless, Heard
<1>4. QueueTypes' /\ Told' /\ Unended' /\ Counted' /\ Tallied'
  BY <1>1, <1>3, SameQueues
<1>5. Drained'
  <2>1. /\ pc \in {"draining", "judging", "finalizing"} \/ code = 0 =>
              \A w \in Workers : life[w] = "dead"
        /\ pc \in {"judging", "finalizing"} \/ code = 0 => \A w \in Workers : events[w] = <<>>
        /\ code = 0 => pc \in {"leaving", "exited"}
    BY DEF QInv, Drained
  <2>2. CASE AllEnded
    BY <1>1, <2>1, <2>2 DEF AllEnded, Drained
  <2>3. CASE AppendProcess
    BY <1>1, <2>1, <2>3 DEF AppendProcess, Drained
  <2>4. CASE Judge \/ FinalizeDataset
    BY <1>1, <2>1, <2>4 DEF Judge, FinalizeDataset, Leave, Drained
  <2>5. CASE SignalWorkers \/ JoinWorker \/ JoinEnd \/ Exit
    BY <1>1, <2>1, <2>5 DEF SignalWorkers, JoinWorker, JoinEnd, Exit, Leave, Drained
  <2> QED BY <2>2, <2>3, <2>4, <2>5
<1> QED BY <1>4, <1>5 DEF QInv

\* A worker starts with an event of no account.
LEMMA StartStep == ASSUME IInv, QInv, StartWorker PROVE QInv'
<1>1. started < NWorkers /\ started \in Workers
  BY ParallelRunAssumption DEF StartWorker, IInv, Births, Workers
<1>2. /\ Emits(started, [event |-> "worker_started"]) /\ pc = "starting"
      /\ UNCHANGED <<pc, code, exit, todo, at, result, saved, lines, shown>>
  BY DEF StartWorker
<1>3. \A v \in Workers : Lossless(v)' => Lossless(v)
  BY <1>2 DEF Lossless, Heard
<1>4. QueueTypes' /\ Told' /\ Unended' /\ Counted' /\ Tallied'
  BY <1>1, <1>2, <1>3, EventTypes, SaysLittle
<1>5. Drained'
  BY <1>2 DEF QInv, Drained
<1> QED BY <1>4, <1>5 DEF QInv

\* What a failed process left unsaid changes no count.
LEMMA MonitorEndStep == ASSUME IInv, QInv, MonitorEnd PROVE QInv'
<1> USE DEF worker
<1>1. /\ pc = "draining" /\ pc' = "judging" /\ \A v \in Workers : events[v] = <<>>
      /\ UNCHANGED <<code, life, exit, todo, at, result, saved, lines, events>>
      /\ shown' = [v \in Workers |->
            IF exit[v] # 0 /\ shown[v].state # "crashed"
            THEN [shown[v] EXCEPT !.state = "failed", !.error = TRUE] ELSE shown[v]]
  BY DEF MonitorEnd
<1>2. ASSUME NEW v \in Workers
      PROVE  /\ shown'[v] \in Line /\ shown'[v].trial = shown[v].trial
             /\ shown'[v].captures = shown[v].captures
             /\ shown'[v].trialCaptures = shown[v].trialCaptures
             /\ shown'[v].completed = shown[v].completed /\ shown'[v].failed = shown[v].failed
             /\ shown'[v].state = "running" => shown[v].state = "running"
  <2> DEFINE p == shown[v]
             n == shown'[v]
  <2>1. p \in Line
    BY DEF QInv, QueueTypes
  <2>2. n = p \/ n = [p EXCEPT !.state = "failed", !.error = TRUE]
    BY <1>1
  <2> HIDE DEF p, n
  <2>3. /\ n \in Line /\ n.trial = p.trial /\ n.captures = p.captures
        /\ n.trialCaptures = p.trialCaptures
        /\ n.completed = p.completed /\ n.failed = p.failed
        /\ n.state = "running" => p.state = "running"
    BY <2>1, <2>2 DEF Line
  <2> QED BY <2>3 DEF p, n
<1>3. QueueTypes'
  <2>1. shown' \in [Workers -> Line]
    BY <1>1, <1>2
  <2> QED BY <1>1, <2>1 DEF QInv, QueueTypes
<1>4. Told' /\ Unended'
  BY <1>1 DEF QInv, Told, Unended, WorkerTrials
<1>5. Drained'
  BY <1>1 DEF QInv, Drained
<1>6. \A v \in Workers : /\ Known(v)' = Known(v) /\ Ended(v)' = Ended(v)
                         /\ (HasFailed(v)' <=> HasFailed(v)) /\ (Lossless(v)' <=> Lossless(v))
                         /\ Rest(v)' = Rest(v)
  <2>1. \A v \in Workers : Known(v)' = Known(v) /\ Ended(v)' = Ended(v)
    BY <1>1 DEF Known, Ended, Begun, WorkerTrials
  <2>2. \A v \in Workers : HasFailed(v)' <=> HasFailed(v)
    BY <1>1 DEF HasFailed, WorkerTrials
  <2>3. \A v \in Workers : Lossless(v)' <=> Lossless(v)
    BY <1>1 DEF Lossless, Heard
  <2>4. \A v \in Workers : Rest(v)' = Rest(v)
    <3> SUFFICES ASSUME NEW v \in Workers PROVE Rest(v)' = Rest(v)
      OBVIOUS
    <3>1. Rest(v)' = IF shown'[v].trial = None THEN 0
                     ELSE saved'[shown'[v].trial] - shown'[v].trialCaptures
      BY DEF Rest
    <3>2. saved' = saved /\ shown'[v].trial = shown[v].trial
          /\ shown'[v].trialCaptures = shown[v].trialCaptures
      BY <1>1, <1>2
    <3>3. Rest(v)' = IF shown[v].trial = None THEN 0
                     ELSE saved[shown[v].trial] - shown[v].trialCaptures
      BY <3>1, <3>2, Zenon
    <3> QED BY <3>3, Zenon DEF Rest
  <2> QED BY <2>1, <2>2, <2>3, <2>4
<1>7. Counted'
  <2> SUFFICES ASSUME NEW v \in Workers
               PROVE  /\ shown'[v].trial # None => shown'[v].trial \in Known(v)' /\ Rest(v)' >= 0
                      /\ shown'[v].state = "running" => shown'[v].trial # None
                      /\ shown'[v].captures + Rest(v)' <= Total(saved, Known(v)')
    BY <1>1 DEF Counted
  <2>1. /\ shown[v].trial # None => shown[v].trial \in Known(v) /\ Rest(v) >= 0
        /\ shown[v].state = "running" => shown[v].trial # None
        /\ shown[v].captures + Rest(v) <= Total(saved, Known(v))
    BY DEF QInv, Counted
  <2>2. Known(v)' = Known(v) /\ Rest(v)' = Rest(v)
    BY <1>6
  <2> QED BY <1>2, <2>1, <2>2
<1>8. Tallied'
  <2> SUFFICES ASSUME NEW v \in Workers
               PROVE  /\ shown'[v].completed + shown'[v].failed + Cardinality(Ends(events'[v]))
                            <= Cardinality(Ended(v)')
                      /\ Lossless(v)' =>
                           shown'[v].completed + shown'[v].failed + Cardinality(Ends(events'[v]))
                              = Cardinality(Ended(v)')
                      /\ shown'[v].failed # 0
                         \/ (\E i \in DOMAIN events'[v] : events'[v][i].event = "trial_failed")
                           => HasFailed(v)'
    BY DEF Tallied
  <2>1. /\ shown[v].completed + shown[v].failed + Cardinality(Ends(events[v]))
            <= Cardinality(Ended(v))
        /\ Lossless(v) => shown[v].completed + shown[v].failed + Cardinality(Ends(events[v]))
                            = Cardinality(Ended(v))
        /\ shown[v].failed # 0 \/ (\E i \in DOMAIN events[v] : events[v][i].event = "trial_failed")
             => HasFailed(v)
    BY DEF QInv, Tallied
  <2>2. events' = events
    BY <1>1
  <2> QED BY <1>2, <1>6, <2>1, <2>2
<1> QED BY <1>3, <1>4, <1>5, <1>7, <1>8 DEF QInv

\* The queues are given up with all they hold.
LEMMA InterruptStep == ASSUME IInv, QInv, Interrupt PROVE QInv'
<1> USE DEF worker
<1>1. /\ events' = [w \in Workers |-> <<>>]
      /\ UNCHANGED <<life, exit, todo, at, result, saved, lines, shown>>
      /\ pc' \in {"interrupted", "leaving", "exited"}
      /\ code' = 0 => code = 0 /\ pc = "leaving" /\ pc' = "exited"
  <2>1. UNCHANGED <<life, exit, todo, at, result, saved, lines, shown>>
        /\ events' = [w \in Workers |-> <<>>]
    BY DEF Interrupt
  <2>2. /\ pc' \in {"interrupted", "leaving", "exited"}
        /\ code' = 0 => code = 0 /\ (pc = "leaving" => pc' = "exited")
    BY DEF Interrupt, Leave, QInv, Drained
  <2>3. code' = 0 => pc = "leaving"
    BY <2>2 DEF Interrupt, QInv, Drained
  <2> QED BY <2>1, <2>2, <2>3
<1>2. events' \in [Workers -> Seq(Event)]
  BY <1>1
<1>3. \A v \in Workers :
         /\ Quieter(events[v], events'[v])
         /\ Lossless(v)' => Lossless(v) /\ Ends(events[v]) \subseteq Ends(events'[v])
  <2> SUFFICES ASSUME NEW v \in Workers
               PROVE  /\ Quieter(events[v], events'[v])
                      /\ Lossless(v)' => Lossless(v) /\ Ends(events[v]) \subseteq Ends(events'[v])
    OBVIOUS
  <2>1. events'[v] = <<>>
    BY <1>1
  <2>2. Quieter(events[v], events'[v])
    BY <2>1 DEF Quieter
  <2>3. ASSUME Lossless(v)' PROVE Lossless(v) /\ events[v] = <<>>
    <3>1. code = 0 /\ exit[v] # -9
      BY <1>1, <2>3 DEF Lossless, Heard
    <3> QED BY <3>1 DEF Lossless, QInv, Drained
  <2> QED BY <2>1, <2>2, <2>3
<1>4. QueueTypes' /\ Told' /\ Unended' /\ Counted' /\ Tallied'
  BY <1>1, <1>2, <1>3, QuietStep
<1>5. Drained'
  BY <1>1 DEF QInv, Drained
<1> QED BY <1>4, <1>5 DEF QInv

\* The counts' invariant is inductive relative to that of the exit codes.
LEMMA QueueInductive == IInv /\ QInv /\ [Next]_vars => QInv'
<1> SUFFICES ASSUME IInv, QInv, [Next]_vars PROVE QInv'
  OBVIOUS
<1>1. CASE StartWorker
  BY <1>1, StartStep
<1>2. CASE \E w \in Workers : Receive(w)
  BY <1>2, ReceiveStep
<1>3. CASE MonitorEnd
  BY <1>3, MonitorEndStep
<1>4. CASE AppendProcess \/ AllEnded \/ Judge \/ FinalizeDataset \/ SignalWorkers
             \/ JoinWorker \/ JoinEnd \/ Exit
  BY <1>4, VerdictStep
<1>5. CASE \E w \in Workers : Worker(w)
  BY <1>5, LiveStep
<1>6. CASE Interrupt
  BY <1>6, InterruptStep
<1>7. CASE UNCHANGED vars
  <2>1. UNCHANGED <<pc, code, life, exit, todo, at, result, saved, lines, events, shown>>
    BY <1>7 DEF vars, parent, worker
  <2>2. \A v \in Workers : Lossless(v)' => Lossless(v)
    BY <2>1 DEF Lossless, Heard
  <2>3. QueueTypes' /\ Told' /\ Unended' /\ Counted' /\ Tallied'
    BY <2>1, <2>2, SameQueues
  <2>4. Drained'
    BY <2>1 DEF QInv, Drained
  <2> QED BY <2>3, <2>4 DEF QInv
<1> QED BY <1>1, <1>2, <1>3, <1>4, <1>5, <1>6, <1>7 DEF Next, Parent, Stopped

\* It holds when nothing has been said yet.
LEMMA QueueInitially == Init => QInv
<1> SUFFICES ASSUME Init PROVE QInv
  OBVIOUS
<1> DEFINE line == [state |-> "starting", trial |-> None, completed |-> 0, failed |-> 0,
                    captures |-> 0, trialCaptures |-> 0, error |-> FALSE]
<1>1. /\ events = [w \in Workers |-> <<>>] /\ lines = [t \in Trials |-> <<>>]
      /\ shown = [w \in Workers |-> line] /\ todo = [w \in Workers |-> WorkerTrials(w)]
      /\ at = [w \in Workers |-> None] /\ result = [t \in Trials |-> "none"]
      /\ saved = [t \in Trials |-> 0] /\ pc = "starting" /\ code = None
  BY DEF Init
<1>2. line \in Line
  BY DEF Line
<1>3. /\ line.state = "starting" /\ line.trial = None /\ line.completed = 0 /\ line.failed = 0
      /\ line.captures = 0
  OBVIOUS
<1> HIDE DEF line
<1>4. QueueTypes
  BY <1>1, <1>2 DEF QueueTypes
<1>5. Told
  BY <1>1 DEF Told
<1>6. Unended
  <2>1. \A w \in Workers : WorkerTrials(w) \subseteq Trials /\ None \notin Trials
    BY FiniteShares DEF Trials, None
  <2> QED BY <1>1, <2>1 DEF Unended
<1>7. Counted
  <2>1. ASSUME NEW w \in Workers PROVE Total(saved, Known(w)) = 0
    <3>1. IsFiniteSet(Known(w)) /\ \A t \in Known(w) : saved[t] = 0
      BY <1>1, FiniteShares, FS_Subset DEF Known
    <3> QED BY <3>1, TotalZero
  <2> QED BY <1>1, <1>3, <2>1 DEF Counted, Rest
<1>8. Tallied
  <2>1. \A w \in Workers : Ended(w) = {} /\ Ends(events[w]) = {} /\ ~HasFailed(w)
    BY <1>1, FiniteShares DEF Ended, Ends, HasFailed
  <2>2. Cardinality({}) = 0
    BY FS_EmptySet
  <2>3. \A w \in Workers : shown[w].completed = 0 /\ shown[w].failed = 0 /\ DOMAIN events[w] = {}
    BY <1>1, <1>3
  <2> SUFFICES ASSUME NEW w \in Workers
               PROVE  /\ shown[w].completed + shown[w].failed + Cardinality(Ends(events[w]))
                            = Cardinality(Ended(w))
                      /\ ~ (shown[w].failed # 0)
                      /\ ~ \E i \in DOMAIN events[w] : events[w][i].event = "trial_failed"
                      /\ Cardinality(Ended(w)) = 0
    BY DEF Tallied
  <2> QED BY <2>1, <2>2, <2>3
<1>9. Drained
  BY <1>1 DEF Drained, None
<1> QED BY <1>4, <1>5, <1>6, <1>7, <1>8, <1>9 DEF QInv

\* It implies that the display never overcounts.
LEMMA QueueImplies == IInv /\ QInv => NeverOvercounts
<1> SUFFICES ASSUME IInv, QInv PROVE NeverOvercounts
  OBVIOUS
<1>1. ASSUME NEW w \in Workers
      PROVE  /\ shown[w].captures <= Total(saved, WorkerTrials(w))
             /\ shown[w].trial # None => shown[w].trialCaptures <= saved[shown[w].trial]
             /\ shown[w].state = "running" => shown[w].trial \in WorkerTrials(w)
  <2>1. /\ shown[w].trial # None => shown[w].trial \in Known(w) /\ Rest(w) >= 0
        /\ shown[w].state = "running" => shown[w].trial # None
        /\ shown[w].captures + Rest(w) <= Total(saved, Known(w))
    BY DEF QInv, Counted
  <2>2. /\ Total(saved, Known(w)) \in Int /\ Rest(w) \in Int /\ shown[w].captures \in Nat
        /\ Known(w) \subseteq WorkerTrials(w)
        /\ shown[w].trial \in Trials \cup {None} /\ shown[w].trialCaptures \in Nat
    BY SumType, RestType DEF IInv, QInv, QueueTypes, Line
  <2>3. \A t \in Trials : saved[t] \in Nat
    BY DEF IInv, Types
  <2>4. Rest(w) >= 0
    BY <2>1 DEF Rest
  <2>5. IsFiniteSet(WorkerTrials(w)) /\ \A t \in WorkerTrials(w) : saved[t] \in Nat
    BY <2>3, FiniteShares
  <2>6. Total(saved, Known(w)) <= Total(saved, WorkerTrials(w))
    BY <2>2, <2>5, TotalMore
  <2>7. Total(saved, WorkerTrials(w)) \in Int
    BY <2>5, TotalType
  <2>8. shown[w].captures <= Total(saved, WorkerTrials(w))
    BY <2>1, <2>2, <2>4, <2>6, <2>7
  <2>9. ASSUME shown[w].trial # None PROVE shown[w].trialCaptures <= saved[shown[w].trial]
    BY <2>1, <2>2, <2>3, <2>9 DEF Rest
  <2> QED BY <2>1, <2>2, <2>8, <2>9
<1> DEFINE done == [w \in Workers |-> shown[w].completed + shown[w].failed]
           bad  == [w \in Workers |-> shown[w].failed]
<1>2. ASSUME NEW w \in Workers
      PROVE  /\ done[w] \in Int /\ Share[w] \in Int /\ done[w] <= Share[w]
             /\ code = 0 => done[w] = Share[w] /\ bad[w] = 0
  <2>1. /\ shown[w].completed \in Nat /\ shown[w].failed \in Nat
        /\ Cardinality(Ended(w)) \in Nat /\ Cardinality(Ends(events[w])) \in Nat
    BY SumType, RestType, EndsFinite DEF IInv, QInv, QueueTypes
  <2>2. /\ shown[w].completed + shown[w].failed + Cardinality(Ends(events[w]))
            <= Cardinality(Ended(w))
        /\ Lossless(w) => shown[w].completed + shown[w].failed + Cardinality(Ends(events[w]))
                            = Cardinality(Ended(w))
        /\ shown[w].failed # 0 => HasFailed(w)
    BY DEF QInv, Tallied
  <2>3. /\ Cardinality(WorkerTrials(w)) \in Nat
        /\ Cardinality(Ended(w)) <= Cardinality(WorkerTrials(w))
    <3>1. Ended(w) \in SUBSET WorkerTrials(w)
      BY DEF Ended
    <3> QED BY <3>1, FiniteShares, FS_Subset, FS_CardinalityType
  <2>4. done[w] = shown[w].completed + shown[w].failed /\ bad[w] = shown[w].failed
        /\ Share[w] = Cardinality(WorkerTrials(w))
    BY DEF Share
  <2>5. ASSUME code = 0
        PROVE  Lossless(w) /\ Ended(w) = WorkerTrials(w) /\ Ends(events[w]) = {} /\ ~ HasFailed(w)
    <3>1. exit[w] = 0 /\ events[w] = <<>>
      BY <2>5 DEF IInv, Verdict, QInv, Drained
    <3>2. \A t \in WorkerTrials(w) : result[t] = "ok"
      BY <3>1 DEF IInv, ExitCodes
    <3> QED BY <2>5, <3>1, <3>2 DEF Lossless, Ended, Ends, HasFailed
  <2>6. code = 0 => Cardinality(Ends(events[w])) = 0
    BY <2>5, FS_EmptySet
  <2> HIDE DEF done, bad
  <2>7. done[w] \in Int /\ Share[w] \in Int /\ done[w] <= Share[w]
    BY <2>1, <2>2, <2>3, <2>4
  <2>8. ASSUME code = 0 PROVE done[w] = Share[w] /\ bad[w] = 0
    BY <2>1, <2>2, <2>4, <2>5, <2>6, <2>8
  <2> QED BY <2>7, <2>8
<1> HIDE DEF done, bad
<1>3. IsFiniteSet(Workers)
  BY FiniteShares
<1>4. Total(done, Workers) <= NTrials
  BY <1>2, <1>3, TotalGrows, SharesAddUp
<1>5. ASSUME code = 0 PROVE Total(done, Workers) = NTrials /\ Total(bad, Workers) = 0
  <2>1. Total(done, Workers) = Total(Share, Workers)
    BY <1>2, <1>3, <1>5, TotalSame
  <2>2. Total(bad, Workers) = 0
    BY <1>2, <1>3, <1>5, TotalZero
  <2> QED BY <2>1, <2>2, SharesAddUp
<1>6. /\ ProgressLines.processed = Total(done, Workers)
      /\ ProgressLines.failures = Total(bad, Workers)
      /\ ProgressLines.trials = [w \in {v \in Workers : shown[v].state = "running"}
                                   |-> shown[w].trial]
  BY DEF ProgressLines, done, bad
<1>7. \A w \in DOMAIN ProgressLines.trials : ProgressLines.trials[w] \in WorkerTrials(w)
  BY <1>1, <1>6
<1> QED BY <1>1, <1>4, <1>5, <1>6, <1>7 DEF NeverOvercounts

\* Whatever order lines and events arrive in and whatever is lost on the way, the
\* display counts no capture twice and no trial more than once; and what it shows of
\* a collection that exits with 0 is the whole of it.
THEOREM NeverOvercountsHolds == Spec => []NeverOvercounts
<1>1. Init => IInv /\ QInv
  BY Initially, QueueInitially
<1>2. IInv /\ QInv /\ [Next]_vars => (IInv /\ QInv)'
  BY Inductive, QueueInductive
<1>3. IInv /\ QInv => NeverOvercounts
  BY QueueImplies
<1> QED BY <1>1, <1>2, <1>3, PTL DEF Spec
-----------------------------------------------------------------------------
(* Evaluation: what a report made beside the collection counts *)

TrialLine  == [trial : Reports!Trials, split : Reports!Splits]
SampleLine == [trial : Reports!Trials, step : Nat, extent : Extents]

ReportTypes ==
    /\ split \in [Reports!Trials -> Reports!Splits]
    /\ DOMAIN rows = Reports!Files
    /\ rows["trials"] \in Seq(TrialLine) /\ rows["samples"] \in Seq(SampleLine)
    /\ DOMAIN end = Reports!Files
    /\ \/ writer = [file |-> "none"]
       \/ writer \in [file : {"trials"}, row : TrialLine]
       \/ writer \in [file : {"samples"}, row : SampleLine]
    /\ section \in {"dataset", "model", "written", "failed"}

\* A trial's line is the only one of it and has its split; a capture's line is the
\* only one of it, after its trial's, and its number at most that of the lines.
LinesOK ==
    /\ \A i \in DOMAIN rows["trials"] : rows["trials"][i].split = split[rows["trials"][i].trial]
    /\ \A i, j \in DOMAIN rows["trials"] :
          rows["trials"][i].trial = rows["trials"][j].trial => i = j
    /\ \A i, j \in DOMAIN rows["samples"] :
          Reports!Id(rows["samples"][i]) = Reports!Id(rows["samples"][j]) => i = j
    /\ \A i \in DOMAIN rows["samples"] :
          /\ Reports!Recorded(rows["samples"][i].trial)
          /\ rows["samples"][i].step <= Reports!Taken(rows["samples"][i].trial)

\* The line being appended is the next one of its trial.
WriterOK ==
    /\ writer.file = "trials" =>
          writer.row.split = split[writer.row.trial] /\ ~ Reports!Recorded(writer.row.trial)
    /\ writer.file = "samples" =>
          /\ Reports!Recorded(writer.row.trial)
          /\ writer.row.step = Reports!Taken(writer.row.trial) + 1

\* What was read is a beginning of what is there, with a trial for each capture.
Begins(past, now) == Len(past) <= Len(now) /\ \A i \in DOMAIN past : past[i] = now[i]
ReadOK ==
    /\ read \in Seq(Seq(SampleLine \cup TrialLine)) /\ Len(read) <= 2
    /\ Len(read) >= 1 => read[1] \in Seq(SampleLine) /\ Begins(read[1], rows["samples"])
    /\ Len(read) = 2 =>
          /\ read[2] \in Seq(TrialLine) /\ Begins(read[2], rows["trials"])
          /\ \A i \in DOMAIN read[1] : \E j \in DOMAIN read[2] : read[2][j].trial = read[1][i].trial

\* The captures that lines tell of, each with the split of its trial.
Captured(taken) ==
    {[id |-> Reports!Id(taken[i]), trial |-> taken[i].trial, extent |-> taken[i].extent,
      split |-> split[taken[i].trial]] : i \in DOMAIN taken}
CapturedOf(taken, s) == {c \in Captured(taken) : c.split = s}

\* The first section has counted no capture that the second one will not find.
Counting ==
    section = "model" =>
        \A s \in Reports!Splits :
            /\ report.dataset.by_split[s] \in Nat
            /\ report.dataset.by_split[s] <= Cardinality(CapturedOf(rows["samples"], s))
            /\ Len(read) >= 1 => report.dataset.by_split[s] <= Cardinality(CapturedOf(read[1], s))

ReportInv ==
    /\ ReportTypes /\ LinesOK /\ WriterOK /\ ReadOK /\ Counting
    /\ Reports!OnlyLinesFail /\ Reports!DatasetAddsUp /\ Reports!ModelAddsUp

\* The counts of Evaluation are those of this module.
LEMMA SameCounts == \A S : Reports!Cardinality(S) = Cardinality(S)
BY Zenon DEF Reports!Cardinality, Cardinality

\* A sum of Evaluation is a total.
LEMMA SameSums == \A f, S : Reports!Added(f, S) = Total(f, S)
BY Zenon DEF Reports!Added, Reports!MapThenSumSet, Reports!MapThenFoldSet,
             Total, MapThenSumSet, MapThenFoldSet

\* Those with a value of a feature, and with one of some values.
Having(C, g, v)   == {c \in C : g[c] = v}
HavingAny(C, g, K) == {c \in C : g[c] \in K}

\* What is counted by one of its features adds up to all that has any of those.
LEMMA CountsAddUp ==
    ASSUME NEW C, IsFiniteSet(C), NEW K, IsFiniteSet(K), NEW g, NEW f,
           \A v \in K : f[v] = Cardinality(Having(C, g, v))
    PROVE  Total(f, K) = Cardinality(HavingAny(C, g, K))
<1> USE DEF Having, HavingAny
<1> DEFINE In(u) == HavingAny(C, g, u)
           At(v) == Having(C, g, v)
           B == {u \in SUBSET K : Total(f, u) # Cardinality(In(u))}
<1> SUFFICES ASSUME B # {} PROVE FALSE
  OBVIOUS
<1>1. PICK u \in B : \A t \in B : t \subseteq u => t = u
  <2> HIDE DEF B
  <2>1. B \in SUBSET (SUBSET K)
    BY DEF B
  <2> QED BY <2>1, Smallest
<1>2. u \subseteq K /\ IsFiniteSet(u) /\ Total(f, u) # Cardinality(In(u))
  BY <1>1, FS_Subset
<1>3. u # {}
  <2>1. In({}) = {}
    OBVIOUS
  <2> QED BY <1>2, <2>1, TotalEmpty, FS_EmptySet
<1> DEFINE y == Some(u)
           w == u \ {y}
<1>4. y \in u /\ y \in K
  BY <1>2, <1>3 DEF Some
<1>5. Total(f, u) = f[y] + Total(f, w)
  BY <1>2, <1>3, TotalStep
<1> HIDE DEF y
<1>6. Total(f, w) = Cardinality(In(w))
  BY <1>1, <1>2, <1>4
<1>7. IsFiniteSet(In(w)) /\ IsFiniteSet(At(y))
  <2>1. In(w) \in SUBSET C /\ At(y) \in SUBSET C
    OBVIOUS
  <2> QED BY <2>1, FS_Subset
<1>8. In(u) = At(y) \cup In(w) /\ At(y) \cap In(w) = {}
  BY <1>4
<1>9. Cardinality(In(u)) = Cardinality(At(y)) + Cardinality(In(w))
  <2> DEFINE Y == At(y)
             W == In(w)
  <2>1. IsFiniteSet(Y) /\ IsFiniteSet(W) /\ In(u) = Y \cup W /\ Y \cap W = {}
    BY <1>7, <1>8
  <2> HIDE DEF Y, W
  <2>2. /\ Cardinality(Y \cup W) = Cardinality(Y) + Cardinality(W) - Cardinality(Y \cap W)
        /\ Cardinality(Y) \in Nat /\ Cardinality(W) \in Nat
    BY <2>1, FS_Union, FS_CardinalityType
  <2>3. Cardinality(Y \cap W) = 0
    BY <2>1, FS_EmptySet
  <2>4. Cardinality(In(u)) = Cardinality(Y \cup W)
    BY <2>1
  <2>5. Cardinality(In(u)) = Cardinality(Y) + Cardinality(W)
    BY <2>2, <2>3, <2>4
  <2> QED BY <2>5 DEF Y, W
<1>10. f[y] = Cardinality(At(y))
  BY <1>4
<1> QED BY <1>2, <1>5, <1>6, <1>9, <1>10

\* A set of naturals has a least one, ...
LEMMA LeastNumber ==
    ASSUME NEW T, T # {}, \A x \in T : x \in Nat
    PROVE  \E x \in T : \A y \in T : x <= y
<1>1. PICK t \in T : TRUE
  OBVIOUS
<1> DEFINE S == 0 .. t
           B == {u \in SUBSET S : \E x \in T : u = 0 .. x}
<1>2. IsFiniteSet(S) /\ S \in B
  BY <1>1, FS_Interval
<1>3. PICK s \in B : \A u \in B : u \subseteq s => u = s
  <2>1. B \in SUBSET (SUBSET S) /\ B # {}
    BY <1>2
  <2> HIDE DEF B, S
  <2> QED BY <1>2, <2>1, Smallest
<1>4. PICK x \in T : s = 0 .. x
  BY <1>3
<1>5. \A y \in T : x <= y
  <2> SUFFICES ASSUME NEW y \in T, ~(x <= y) PROVE FALSE
    OBVIOUS
  <2>1. x \in Nat /\ y \in Nat /\ y < x
    OBVIOUS
  <2>2. 0 .. y \subseteq s /\ s \subseteq S
    BY <1>3, <1>4, <2>1
  <2>3. 0 .. y \in B
    BY <2>2
  <2>4. 0 .. y = s
    BY <1>3, <2>2, <2>3
  <2> QED BY <1>4, <2>1, <2>4
<1> QED BY <1>5

\* ... which the operator Min picks.
LEMMA LeastOne ==
    ASSUME NEW S, S # {}, \A x \in S : x \in Nat
    PROVE  /\ Reports!Min(S) \in S
           /\ \A x \in S : Reports!Min(S) <= x
<1>1. \E x \in S : \A y \in S : x <= y
  BY LeastNumber
<1> QED BY <1>1 DEF Reports!Min

USE DEF Reports!Trials, Reports!Splits, Reports!Files

\* What the report is about is finite and numbers.
LEMMA ReportConstants ==
    /\ ReportTrials \in Nat /\ Tiers \subseteq Nat /\ IsFiniteSet(Tiers) /\ Extents \subseteq Nat
    /\ \A p \in Predictions : \A c \in DOMAIN p : p[c] \in Nat
<1>1. \A S : Reports!IsFiniteSet(S) <=> IsFiniteSet(S)
  BY Zenon DEF Reports!IsFiniteSet, IsFiniteSet
<1> QED BY <1>1, MCParallelRunAssumption DEF Reports!EvaluationAssumption

\* The values of a function over a finite set are finite, and no more than it.
LEMMA ValuesFinite ==
    ASSUME NEW D, IsFiniteSet(D), NEW g
    PROVE  IsFiniteSet({g[x] : x \in D}) /\ Cardinality({g[x] : x \in D}) <= Cardinality(D)
<1> DEFINE T == {g[x] : x \in D}
           h == [x \in D |-> g[x]]
<1>1. h \in Surjection(D, T)
  BY DEF Surjection
<1> HIDE DEF h, T
<1>2. IsFiniteSet(T) /\ Cardinality(T) <= Cardinality(D)
  BY <1>1, FS_Surjection
<1> QED BY <1>2 DEF T

\* Nothing has been collected and nothing is reported.
LEMMA ReportInitially == Reports!Init => ReportInv
<1> SUFFICES ASSUME Reports!Init PROVE ReportInv
  OBVIOUS
<1> USE DEF Reports!Init
<1>1. rows["trials"] = <<>> /\ rows["samples"] = <<>>
  OBVIOUS
<1>2. ReportTypes
  BY <1>1 DEF ReportTypes, Reports!Assignments
<1>3. LinesOK
  BY <1>1 DEF LinesOK
<1>4. WriterOK
  BY DEF WriterOK
<1>5. ReadOK
  BY DEF ReadOK
<1>6. Counting /\ Reports!OnlyLinesFail /\ Reports!DatasetAddsUp /\ Reports!ModelAddsUp
  BY DEF Counting, Reports!OnlyLinesFail, Reports!DatasetAddsUp, Reports!ModelAddsUp
<1> QED BY <1>2, <1>3, <1>4, <1>5, <1>6 DEF ReportInv

-----------------------------------------------------------------------------
(* The policies append *)

\* While the reader does nothing and no line is added.
LEMMA LinesStay ==
    ASSUME ReportInv, UNCHANGED <<split, rows, section, read, why, report>>
    PROVE  /\ LinesOK' /\ ReadOK' /\ Counting'
           /\ Reports!OnlyLinesFail' /\ Reports!DatasetAddsUp' /\ Reports!ModelAddsUp'
           /\ \A t \in Reports!Trials :
                 Reports!Recorded(t)' = Reports!Recorded(t) /\ Reports!Taken(t)' = Reports!Taken(t)
<1>1. \A t \in Reports!Trials :
         Reports!Recorded(t)' = Reports!Recorded(t) /\ Reports!Taken(t)' = Reports!Taken(t)
  BY DEF Reports!Recorded, Reports!Taken, Reports!Rows
<1>2. LinesOK'
  BY DEF ReportInv, LinesOK, Reports!Recorded, Reports!Taken, Reports!Rows, Reports!Id
<1>3. ReadOK'
  BY DEF ReportInv, ReadOK, Begins
<1>4. Counting'
  <2>1. \A s : /\ CapturedOf(rows["samples"], s)' = CapturedOf(rows["samples"], s)
               /\ CapturedOf(read[1], s)' = CapturedOf(read[1], s)
    BY DEF CapturedOf, Captured
  <2> QED BY <2>1 DEF ReportInv, Counting
<1>5. Reports!OnlyLinesFail' /\ Reports!DatasetAddsUp' /\ Reports!ModelAddsUp'
  BY DEF ReportInv, Reports!OnlyLinesFail, Reports!DatasetAddsUp, Reports!ModelAddsUp
<1> QED BY <1>1, <1>2, <1>3, <1>4, <1>5

\* A policy begins the line of its trial, ...
LEMMA BeginTrialStep ==
    ASSUME ReportInv, NEW t \in Reports!Trials, Reports!BeginTrial(t)
    PROVE  ReportInv'
<1>1. /\ writer' = [file |-> "trials", row |-> [trial |-> t, split |-> split[t]]]
      /\ ~ Reports!Recorded(t) /\ DOMAIN end' = DOMAIN end
      /\ UNCHANGED <<split, rows, section, read, why, report>>
  BY DEF Reports!BeginTrial, Reports!Begin, Reports!reader
<1>2. ReportTypes'
  BY <1>1 DEF ReportInv, ReportTypes, TrialLine
<1>3. WriterOK'
  BY <1>1, LinesStay DEF WriterOK
<1> QED BY <1>1, <1>2, <1>3, LinesStay DEF ReportInv

\* How many captures a trial has is a number.
LEMMA TakenType == ASSUME ReportTypes PROVE \A t : Reports!Taken(t) \in Nat
<1> SUFFICES ASSUME NEW t PROVE Reports!Taken(t) \in Nat
  OBVIOUS
<1> DEFINE g == rows["samples"]
           R == {g[i] : i \in DOMAIN g}
           T == {r \in R : r.trial = t}
<1>1. IsFiniteSet(DOMAIN g)
  <2>1. Len(g) \in Nat /\ DOMAIN g = 1 .. Len(g)
    BY DEF ReportTypes
  <2> HIDE DEF g
  <2> QED BY <2>1, FS_Interval
<1>2. IsFiniteSet(R)
  <2> HIDE DEF g
  <2> QED BY <1>1, ValuesFinite
<1>3. Cardinality(T) \in Nat
  <2>1. T \in SUBSET R
    OBVIOUS
  <2> HIDE DEF R, T
  <2> QED BY <1>2, <2>1, FS_Subset, FS_CardinalityType
<1>4. Reports!Taken(t) = Reports!Cardinality(T)
  BY DEF Reports!Taken, Reports!Rows
<1> QED BY <1>3, <1>4, SameCounts

\* ... then the next of its captures, ...
LEMMA BeginSampleStep ==
    ASSUME ReportInv, NEW t \in Reports!Trials, Reports!BeginSample(t)
    PROVE  ReportInv'
<1>1. PICK extent \in Extents :
         Reports!Begin("samples", [trial |-> t, step |-> Reports!Taken(t) + 1, extent |-> extent])
  BY DEF Reports!BeginSample
<1> DEFINE row == [trial |-> t, step |-> Reports!Taken(t) + 1, extent |-> extent]
<1>2. /\ writer' = [file |-> "samples", row |-> row]
      /\ Reports!Recorded(t) /\ DOMAIN end' = DOMAIN end
      /\ UNCHANGED <<split, rows, section, read, why, report>>
  BY <1>1 DEF Reports!BeginSample, Reports!Begin, Reports!reader
<1>3. row \in SampleLine
  BY TakenType DEF ReportInv, SampleLine
<1>4. ReportTypes'
  BY <1>2, <1>3 DEF ReportInv, ReportTypes
<1>5. WriterOK'
  BY <1>2, LinesStay DEF WriterOK
<1> QED BY <1>2, <1>4, <1>5, LinesStay DEF ReportInv

\* ... of which nothing readable may arrive.
LEMMA CutShortStep == ASSUME ReportInv, Reports!CutShort PROVE ReportInv'
<1>1. /\ writer' = [file |-> "none"] /\ DOMAIN end' = DOMAIN end
      /\ UNCHANGED <<split, rows, section, read, why, report>>
  BY DEF Reports!CutShort, Reports!reader
<1>2. ReportTypes'
  BY <1>1 DEF ReportInv, ReportTypes
<1>3. WriterOK'
  BY <1>1 DEF WriterOK
<1> QED BY <1>1, <1>2, <1>3, LinesStay DEF ReportInv

\* The captures lines tell of are finite.
LEMMA CapturedFinite ==
    ASSUME NEW taken \in Seq(SampleLine)
    PROVE  IsFiniteSet(Captured(taken)) /\ \A s : IsFiniteSet(CapturedOf(taken, s))
<1> DEFINE g == [i \in DOMAIN taken |->
                   [id |-> Reports!Id(taken[i]), trial |-> taken[i].trial,
                    extent |-> taken[i].extent, split |-> split[taken[i].trial]]]
           R == {g[i] : i \in DOMAIN taken}
<1>1. IsFiniteSet(DOMAIN taken)
  <2>1. Len(taken) \in Nat /\ DOMAIN taken = 1 .. Len(taken)
    OBVIOUS
  <2> QED BY <2>1, FS_Interval
<1>2. IsFiniteSet(R)
  <2> HIDE DEF g
  <2> QED BY <1>1, ValuesFinite
<1>3. Captured(taken) = R
  BY DEF Captured
<1>4. \A s : CapturedOf(taken, s) \in SUBSET Captured(taken)
  BY DEF CapturedOf
<1> QED BY <1>2, <1>3, <1>4, FS_Subset

\* More lines tell of no fewer captures, in each split.
LEMMA MoreCaptured ==
    ASSUME NEW past \in Seq(SampleLine), NEW now \in Seq(SampleLine), Begins(past, now), NEW s
    PROVE  /\ CapturedOf(past, s) \subseteq CapturedOf(now, s)
           /\ Cardinality(CapturedOf(past, s)) <= Cardinality(CapturedOf(now, s))
           /\ Cardinality(CapturedOf(past, s)) \in Nat /\ Cardinality(CapturedOf(now, s)) \in Nat
<1>1. \A i \in DOMAIN past : i \in DOMAIN now /\ past[i] = now[i]
  BY DEF Begins
<1>2. Captured(past) \subseteq Captured(now)
  BY <1>1 DEF Captured
<1>3. CapturedOf(past, s) \in SUBSET CapturedOf(now, s)
  BY <1>2 DEF CapturedOf
<1>4. IsFiniteSet(CapturedOf(past, s)) /\ IsFiniteSet(CapturedOf(now, s))
  BY CapturedFinite
<1> QED BY <1>3, <1>4, FS_Subset, FS_CardinalityType

\* A line after the others.
LEMMA OneMoreLine ==
    ASSUME NEW S, NEW old \in Seq(S), NEW line \in S
    PROVE  /\ Append(old, line) \in Seq(S) /\ Len(Append(old, line)) = Len(old) + 1
           /\ \A i \in 1 .. Len(old) : Append(old, line)[i] = old[i]
           /\ Append(old, line)[Len(old) + 1] = line
           /\ DOMAIN Append(old, line) = 1 .. (Len(old) + 1) /\ DOMAIN old = 1 .. Len(old)
           /\ Len(old) \in Nat /\ Begins(old, Append(old, line))
           /\ \A past \in Seq(S) : Begins(past, old) => Begins(past, Append(old, line))
<1>1. /\ Append(old, line) \in Seq(S) /\ Len(Append(old, line)) = Len(old) + 1
      /\ \A i \in 1 .. Len(old) : Append(old, line)[i] = old[i]
      /\ Append(old, line)[Len(old) + 1] = line
      /\ DOMAIN Append(old, line) = 1 .. (Len(old) + 1) /\ DOMAIN old = 1 .. Len(old)
      /\ Len(old) \in Nat
  OBVIOUS
<1> DEFINE new == Append(old, line)
<1> HIDE DEF new
<1>2. Begins(old, new)
  BY <1>1 DEF Begins, new
<1>3. ASSUME NEW past \in Seq(S), Begins(past, old) PROVE Begins(past, new)
  <2>1. DOMAIN past = 1 .. Len(past) /\ Len(past) \in Nat /\ Len(past) <= Len(old)
    BY <1>3 DEF Begins
  <2>2. \A i \in DOMAIN past : past[i] = new[i]
    BY <1>1, <1>3, <2>1 DEF Begins, new
  <2> QED BY <1>1, <2>1, <2>2 DEF Begins, new
<1> QED BY <1>1, <1>2, <1>3 DEF new

\* The line of a trial arrives.
LEMMA TrialArrives ==
    ASSUME ReportInv, writer.file = "trials",
           writer' = [file |-> "none"], DOMAIN end' = DOMAIN end,
           rows' = [rows EXCEPT !["trials"] = Append(rows["trials"], writer.row)],
           UNCHANGED <<split, section, read, why, report>>
    PROVE  ReportInv'
<1> DEFINE old == rows["trials"]
           new == Append(old, writer.row)
<1>1. /\ old \in Seq(TrialLine) /\ writer.row \in TrialLine
      /\ rows'["trials"] = new /\ rows'["samples"] = rows["samples"] /\ DOMAIN rows' = DOMAIN rows
  <2>1. old \in Seq(TrialLine) /\ "trials" \in DOMAIN rows
    BY DEF ReportInv, ReportTypes
  <2>2. writer.row \in TrialLine
    BY DEF ReportInv, ReportTypes
  <2>3. DOMAIN rows' = DOMAIN rows
    OBVIOUS
  <2>4. rows'["trials"] = new /\ rows'["samples"] = rows["samples"]
    BY <2>1 DEF ReportInv, ReportTypes
  <2> QED BY <2>1, <2>2, <2>3, <2>4
<1>2. /\ new \in Seq(TrialLine) /\ Len(new) = Len(old) + 1 /\ Len(old) \in Nat
      /\ DOMAIN old = 1 .. Len(old) /\ DOMAIN new = 1 .. (Len(old) + 1)
      /\ \A i \in 1 .. Len(old) : new[i] = old[i]
      /\ new[Len(old) + 1] = writer.row
      /\ \A past \in Seq(TrialLine) : Begins(past, old) => Begins(past, new)
  <2> DEFINE line == writer.row
             Lines == TrialLine
  <2>1. old \in Seq(Lines) /\ line \in Lines
    BY <1>1
  <2> HIDE DEF old, line, Lines
  <2>2. \A i \in 1 .. Len(old) : Append(old, line)[i] = old[i]
    BY <2>1, OneMoreLine
  <2> QED BY <2>1, <2>2, OneMoreLine DEF line, Lines
<1> HIDE DEF new
<1>3. ReportTypes'
  <2>1. ReportTypes
    BY DEF ReportInv
  <2> HIDE DEF old
  <2> QED BY <1>1, <1>2, <2>1 DEF ReportTypes
<1>4. \A t : /\ Reports!Recorded(t) => Reports!Recorded(t)'
             /\ Reports!Taken(t)' = Reports!Taken(t)
  <2>1. \A i \in DOMAIN old : i \in DOMAIN new /\ new[i] = old[i]
    BY <1>2
  <2>2. ASSUME NEW t, Reports!Recorded(t) PROVE Reports!Recorded(t)'
    <3>1. PICK i \in DOMAIN old : old[i].trial = t
      BY <2>2 DEF Reports!Recorded, Reports!Rows
    <3>2. i \in DOMAIN new /\ new[i].trial = t
      BY <2>1, <3>1
    <3> HIDE DEF old
    <3> QED BY <1>1, <3>2 DEF Reports!Recorded, Reports!Rows
  <2>3. ASSUME NEW t PROVE Reports!Taken(t)' = Reports!Taken(t)
    <3> HIDE DEF old
    <3> QED BY <1>1 DEF Reports!Taken, Reports!Rows
  <2> QED BY <2>2, <2>3
<1>5. \A i \in DOMAIN old : old[i].trial # writer.row.trial
  BY DEF ReportInv, WriterOK, Reports!Recorded, Reports!Rows
<1>6. LinesOK'
  <2>1. \A i \in DOMAIN new : new[i].split = split[new[i].trial]
    BY <1>2 DEF ReportInv, LinesOK, WriterOK
  <2>2. \A i, j \in DOMAIN new : new[i].trial = new[j].trial => i = j
    <3>1. \A i, j \in DOMAIN old : old[i].trial = old[j].trial => i = j
      BY DEF ReportInv, LinesOK
    <3> HIDE DEF old
    <3> QED BY <1>2, <1>5, <3>1
  <2>3. \A i \in DOMAIN rows["samples"] :
           /\ Reports!Recorded(rows["samples"][i].trial)'
           /\ rows["samples"][i].step <= Reports!Taken(rows["samples"][i].trial)'
    BY <1>4 DEF ReportInv, LinesOK
  <2> HIDE DEF old
  <2>4. \A i, j \in DOMAIN rows["samples"] :
           Reports!Id(rows["samples"][i]) = Reports!Id(rows["samples"][j]) => i = j
    BY DEF ReportInv, LinesOK
  <2> QED BY <1>1, <2>1, <2>2, <2>3, <2>4 DEF LinesOK
<1>7. WriterOK'
  BY DEF WriterOK
<1>8. ReadOK'
  <2> HIDE DEF old
  <2> QED BY <1>1, <1>2 DEF ReportInv, ReadOK, old
<1>9. Counting'
  <2>1. \A s : /\ CapturedOf(rows["samples"], s)' = CapturedOf(rows["samples"], s)
               /\ CapturedOf(read[1], s)' = CapturedOf(read[1], s)
    BY <1>1 DEF CapturedOf, Captured
  <2> QED BY <2>1 DEF ReportInv, Counting
<1>10. Reports!OnlyLinesFail' /\ Reports!DatasetAddsUp' /\ Reports!ModelAddsUp'
  BY DEF ReportInv, Reports!OnlyLinesFail, Reports!DatasetAddsUp, Reports!ModelAddsUp
<1> QED BY <1>3, <1>6, <1>7, <1>8, <1>9, <1>10 DEF ReportInv

\* The line of a capture arrives.
LEMMA SampleArrives ==
    ASSUME ReportInv, writer.file = "samples",
           writer' = [file |-> "none"], DOMAIN end' = DOMAIN end,
           rows' = [rows EXCEPT !["samples"] = Append(rows["samples"], writer.row)],
           UNCHANGED <<split, section, read, why, report>>
    PROVE  ReportInv'
<1> DEFINE old == rows["samples"]
           line == writer.row
           new == Append(old, line)
<1>1. /\ old \in Seq(SampleLine) /\ line \in SampleLine
      /\ rows'["samples"] = new /\ rows'["trials"] = rows["trials"] /\ DOMAIN rows' = DOMAIN rows
  <2>1. old \in Seq(SampleLine) /\ "samples" \in DOMAIN rows
    BY DEF ReportInv, ReportTypes
  <2>2. line \in SampleLine
    BY DEF ReportInv, ReportTypes
  <2>3. DOMAIN rows' = DOMAIN rows
    OBVIOUS
  <2>4. rows'["samples"] = new /\ rows'["trials"] = rows["trials"]
    BY <2>1 DEF ReportInv, ReportTypes
  <2> QED BY <2>1, <2>2, <2>3, <2>4
<1>2. /\ new \in Seq(SampleLine) /\ Len(new) = Len(old) + 1 /\ Len(old) \in Nat
      /\ DOMAIN old = 1 .. Len(old) /\ DOMAIN new = 1 .. (Len(old) + 1)
      /\ \A i \in 1 .. Len(old) : new[i] = old[i]
      /\ new[Len(old) + 1] = line
      /\ Begins(old, new)
      /\ \A past \in Seq(SampleLine) : Begins(past, old) => Begins(past, new)
  <2> DEFINE Lines == SampleLine
  <2>1. old \in Seq(Lines) /\ line \in Lines
    BY <1>1
  <2> HIDE DEF old, line, Lines
  <2>2. \A i \in 1 .. Len(old) : Append(old, line)[i] = old[i]
    BY <2>1, OneMoreLine
  <2> QED BY <2>1, <2>2, OneMoreLine DEF Lines
<1> HIDE DEF new
<1>3. ReportTypes'
  <2>1. ReportTypes
    BY DEF ReportInv
  <2> HIDE DEF old
  <2> QED BY <1>1, <1>2, <2>1 DEF ReportTypes
<1>4. \A t : Reports!Recorded(t)' = Reports!Recorded(t)
  BY <1>1 DEF Reports!Recorded, Reports!Rows
<1>5. /\ Reports!Recorded(line.trial) /\ line.step = Reports!Taken(line.trial) + 1
      /\ Reports!Taken(line.trial) \in Nat
  BY TakenType DEF ReportInv, WriterOK
<1>6. \A i \in DOMAIN old : Reports!Id(old[i]) # Reports!Id(line)
  <2> SUFFICES ASSUME NEW i \in DOMAIN old, Reports!Id(old[i]) = Reports!Id(line) PROVE FALSE
    OBVIOUS
  <2>1. old[i].trial = line.trial /\ old[i].step = line.step
    BY DEF Reports!Id
  <2>2. old[i].step <= Reports!Taken(old[i].trial)
    BY DEF ReportInv, LinesOK
  <2> QED BY <1>5, <2>1, <2>2
<1>7. \A t : /\ Reports!Taken(t)' = IF t = line.trial THEN Reports!Taken(t) + 1 ELSE Reports!Taken(t)
             /\ Reports!Taken(t) \in Nat
  <2> SUFFICES ASSUME NEW t
               PROVE  /\ Reports!Taken(t)' = IF t = line.trial THEN Reports!Taken(t) + 1
                                                               ELSE Reports!Taken(t)
                      /\ Reports!Taken(t) \in Nat
    OBVIOUS
  <2> DEFINE R == {old[i] : i \in DOMAIN old}
             T == {r \in R : r.trial = t}
             U == {r \in R \cup {line} : r.trial = t}
  <2>1. IsFiniteSet(T)
    <3> HIDE DEF old
    <3>1. IsFiniteSet(DOMAIN old)
      BY <1>2, FS_Interval
    <3>2. IsFiniteSet(R)
      BY <3>1, ValuesFinite
    <3>3. T \in SUBSET R
      OBVIOUS
    <3> QED BY <3>2, <3>3, FS_Subset
  <2>2. Reports!Taken(t) = Cardinality(T)
    BY SameCounts DEF Reports!Taken, Reports!Rows
  <2>3. Reports!Taken(t)' = Cardinality(U)
    <3>1. {new[i] : i \in DOMAIN new} = R \cup {line}
      <4> HIDE DEF old, line
      <4> QED BY <1>2
    <3>2. Reports!Rows("samples")' = R \cup {line}
      BY <1>1, <3>1 DEF Reports!Rows
    <3> QED BY <3>2, SameCounts DEF Reports!Taken
  <2>4. line \notin T
    BY <1>6
  <2>5. CASE t = line.trial
    <3>1. U = T \cup {line}
      BY <2>5
    <3> HIDE DEF T, U
    <3>2. Cardinality(U) = Cardinality(T) + 1 /\ Cardinality(T) \in Nat
      BY <2>1, <2>4, <3>1, FS_AddElement, FS_CardinalityType
    <3> QED BY <2>2, <2>3, <2>5, <3>2
  <2>6. CASE t # line.trial
    <3>1. U = T
      BY <2>6
    <3> HIDE DEF T, U
    <3> QED BY <2>1, <2>2, <2>3, <2>6, <3>1, FS_CardinalityType
  <2> QED BY <2>5, <2>6
<1>8. LinesOK'
  <2>1. \A i \in DOMAIN rows["trials"] :
           rows["trials"][i].split = split[rows["trials"][i].trial]
    BY DEF ReportInv, LinesOK
  <2>2. \A i, j \in DOMAIN rows["trials"] :
           rows["trials"][i].trial = rows["trials"][j].trial => i = j
    BY DEF ReportInv, LinesOK
  <2>3. \A i, j \in DOMAIN new : Reports!Id(new[i]) = Reports!Id(new[j]) => i = j
    <3>1. \A i, j \in DOMAIN old : Reports!Id(old[i]) = Reports!Id(old[j]) => i = j
      BY DEF ReportInv, LinesOK
    <3> HIDE DEF old, line
    <3> QED BY <1>2, <1>6, <3>1
  <2>4. \A i \in DOMAIN new : \A t : t = new[i].trial =>
           Reports!Recorded(t)' /\ new[i].step <= Reports!Taken(t)'
    <3>1. \A i \in DOMAIN old : /\ Reports!Recorded(old[i].trial)
                                /\ old[i].step <= Reports!Taken(old[i].trial)
      BY DEF ReportInv, LinesOK
    <3>2. line.step \in Nat /\ \A i \in DOMAIN old : old[i].step \in Nat
      <4>1. \A r \in SampleLine : r.step \in Nat
        BY DEF SampleLine
      <4> HIDE DEF old, line
      <4>2. \A i \in DOMAIN old : old[i] \in SampleLine
        BY <1>1
      <4> QED BY <1>1, <4>1, <4>2
    <3> HIDE DEF old, line
    <3>3. ASSUME NEW i \in DOMAIN new, NEW t, t = new[i].trial
          PROVE  Reports!Recorded(t)' /\ new[i].step <= Reports!Taken(t)'
      <4>1. CASE i \in DOMAIN old
        <5>1. Reports!Recorded(t) /\ new[i].step <= Reports!Taken(t) /\ new[i].step \in Nat
          BY <1>2, <3>1, <3>2, <3>3, <4>1
        <5> QED BY <1>4, <1>7, <5>1
      <4>2. CASE i = Len(old) + 1
        <5>1. t = line.trial /\ new[i].step = line.step
          BY <1>2, <3>3, <4>2
        <5> QED BY <1>4, <1>5, <1>7, <5>1
      <4> QED BY <1>2, <4>1, <4>2
    <3> QED BY <3>3
  <2>5. /\ \A i \in DOMAIN rows["samples"]' : Reports!Recorded(rows["samples"][i].trial)'
        /\ \A i \in DOMAIN rows["samples"]' :
              rows["samples"][i].step' <= Reports!Taken(rows["samples"][i].trial)'
    BY <1>1, <2>4
  <2>6. /\ \A i \in DOMAIN rows["trials"]' :
              rows["trials"][i].split' = split[rows["trials"][i].trial]'
        /\ \A i, j \in DOMAIN rows["trials"]' :
              rows["trials"][i].trial' = rows["trials"][j].trial' => i = j
    BY <1>1, <2>1, <2>2
  <2>7. \A i, j \in DOMAIN rows["samples"]' :
           Reports!Id(rows["samples"][i])' = Reports!Id(rows["samples"][j])' => i = j
    <3>1. \A i, j \in DOMAIN new :
             new[i].trial = new[j].trial /\ new[i].step = new[j].step => i = j
      BY <2>3 DEF Reports!Id
    <3>2. rows'["samples"] = new
      BY <1>1
    <3> QED BY <3>1, <3>2 DEF Reports!Id
  <2> QED BY <2>5, <2>6, <2>7, Zenon DEF LinesOK
<1>9. WriterOK'
  BY DEF WriterOK
<1>10. ReadOK'
  <2> HIDE DEF old
  <2> QED BY <1>1, <1>2 DEF ReportInv, ReadOK, old
<1>11. Counting'
  <2> SUFFICES ASSUME section = "model", NEW s \in Reports!Splits
               PROVE  /\ report.dataset.by_split[s] \in Nat
                      /\ report.dataset.by_split[s] <= Cardinality(CapturedOf(rows["samples"], s))'
                      /\ Len(read) >= 1 =>
                            report.dataset.by_split[s] <= Cardinality(CapturedOf(read[1], s))'
    BY DEF Counting
  <2>1. CapturedOf(rows["samples"], s)' = CapturedOf(new, s)
    BY <1>1 DEF CapturedOf, Captured
  <2>2. CapturedOf(read[1], s)' = CapturedOf(read[1], s)
    BY DEF CapturedOf, Captured
  <2>3. /\ Cardinality(CapturedOf(old, s)) <= Cardinality(CapturedOf(new, s))
        /\ Cardinality(CapturedOf(old, s)) \in Nat /\ Cardinality(CapturedOf(new, s)) \in Nat
    <3> HIDE DEF old
    <3> QED BY <1>1, <1>2, MoreCaptured
  <2>4. /\ report.dataset.by_split[s] \in Nat
        /\ report.dataset.by_split[s] <= Cardinality(CapturedOf(old, s))
        /\ Len(read) >= 1 => report.dataset.by_split[s] <= Cardinality(CapturedOf(read[1], s))
    BY DEF ReportInv, Counting
  <2> QED BY <2>1, <2>2, <2>3, <2>4
<1>12. Reports!OnlyLinesFail' /\ Reports!DatasetAddsUp' /\ Reports!ModelAddsUp'
  BY DEF ReportInv, Reports!OnlyLinesFail, Reports!DatasetAddsUp, Reports!ModelAddsUp
<1> QED BY <1>3, <1>8, <1>9, <1>10, <1>11, <1>12 DEF ReportInv

\* What has been begun arrives, or goes the way of the line before it.
LEMMA FinishStep == ASSUME ReportInv, Reports!Finish PROVE ReportInv'
<1>1. /\ writer.file # "none" /\ writer' = [file |-> "none"]
      /\ UNCHANGED <<split, section, read, why, report>>
  BY DEF Reports!Finish, Reports!reader
<1>2. writer.file \in Reports!Files
  BY <1>1 DEF ReportInv, ReportTypes
<1>3. CASE end[writer.file] = "half"
  <2>1. /\ rows' = [rows EXCEPT ![writer.file] = Append(@, writer.row)]
        /\ DOMAIN end' = DOMAIN end
    BY <1>3 DEF Reports!Finish
  <2>2. CASE writer.file = "trials"
    <3>1. rows' = [rows EXCEPT !["trials"] = Append(rows["trials"], writer.row)]
      BY <2>1, <2>2
    <3> QED BY <1>1, <2>1, <2>2, <3>1, TrialArrives
  <2>3. CASE writer.file = "samples"
    <3>1. rows' = [rows EXCEPT !["samples"] = Append(rows["samples"], writer.row)]
      BY <2>1, <2>3
    <3> QED BY <1>1, <2>1, <2>3, <3>1, SampleArrives
  <2> QED BY <1>2, <2>2, <2>3
<1>4. CASE end[writer.file] # "half"
  <2>1. UNCHANGED <<rows, end>>
    BY <1>4 DEF Reports!Finish
  <2>2. ReportTypes'
    BY <1>1, <2>1 DEF ReportInv, ReportTypes
  <2>3. WriterOK'
    BY <1>1 DEF WriterOK
  <2> QED BY <1>1, <2>1, <2>2, <2>3, LinesStay DEF ReportInv
<1> QED BY <1>3, <1>4

-----------------------------------------------------------------------------
(* The report reads *)

\* While nobody appends, what is said of lines and their writers stays.
LEMMA StoreStays ==
    ASSUME ReportInv, UNCHANGED <<split, rows, end, writer>>
    PROVE  /\ LinesOK' /\ WriterOK'
           /\ section' \in {"dataset", "model", "written", "failed"} => ReportTypes'
<1>1. \A t : Reports!Recorded(t)' = Reports!Recorded(t) /\ Reports!Taken(t)' = Reports!Taken(t)
  BY DEF Reports!Recorded, Reports!Taken, Reports!Rows
<1>2. LinesOK'
  BY DEF ReportInv, LinesOK, Reports!Recorded, Reports!Taken, Reports!Rows, Reports!Id
<1>3. WriterOK'
  BY <1>1 DEF ReportInv, WriterOK
<1>4. section' \in {"dataset", "model", "written", "failed"} => ReportTypes'
  BY DEF ReportInv, ReportTypes
<1> QED BY <1>2, <1>3, <1>4

\* A report that gives up for another reason than its rows.
LEMMA FailStep ==
    ASSUME ReportInv, NEW reason, reason # "rows", Reports!Fail(reason), Reports!store' = Reports!store
    PROVE  ReportInv'
<1>1. /\ section' = "failed" /\ why' = reason
      /\ UNCHANGED <<split, rows, end, writer, read, report>>
  BY DEF Reports!Fail, Reports!store
<1>2. ReadOK'
  BY <1>1 DEF ReportInv, ReadOK, Begins
<1>3. Counting' /\ Reports!OnlyLinesFail' /\ Reports!DatasetAddsUp' /\ Reports!ModelAddsUp'
  BY <1>1 DEF Counting, Reports!OnlyLinesFail, Reports!DatasetAddsUp, Reports!ModelAddsUp
<1> QED BY <1>1, <1>2, <1>3, StoreStays DEF ReportInv

\* A file is read: what is there now, of a capture's trial for certain.
LEMMA ReadStep == ASSUME ReportInv, NEW f \in Reports!Files, Reports!ReadLines(f) PROVE ReportInv'
<1>1. /\ Reports!Reading /\ Len(read) < 2 /\ f = Reports!Order[Len(read) + 1]
      /\ Reports!store' = Reports!store
      /\ \/ Reports!Fail("line")
         \/ read' = Append(read, rows[f]) /\ UNCHANGED <<section, why, report>>
  BY DEF Reports!ReadLines
<1>2. CASE Reports!Fail("line")
  BY <1>1, <1>2, FailStep
<1>3. CASE read' = Append(read, rows[f]) /\ UNCHANGED <<section, why, report>>
  <2>1. UNCHANGED <<split, rows, end, writer>>
    BY <1>1 DEF Reports!store
  <2>2. LinesOK' /\ WriterOK' /\ ReportTypes'
    BY <1>3, <2>1, StoreStays DEF ReportInv, ReportTypes
  <2>3. Reports!OnlyLinesFail' /\ Reports!DatasetAddsUp' /\ Reports!ModelAddsUp'
    BY <1>3 DEF ReportInv, Reports!OnlyLinesFail, Reports!DatasetAddsUp, Reports!ModelAddsUp
  <2> DEFINE old == rows["samples"]
             new == rows["trials"]
             Both == Seq(SampleLine \cup TrialLine)
  <2>4. old \in Seq(SampleLine) /\ new \in Seq(TrialLine) /\ rows' = rows
    BY <2>1 DEF ReportInv, ReportTypes
  <2>5. \A s : /\ CapturedOf(rows["samples"], s)' = CapturedOf(old, s)
               /\ CapturedOf(read[1], s)' = CapturedOf(read'[1], s)
    BY <2>1 DEF CapturedOf, Captured
  <2>6. old \in Both /\ new \in Both
    <3>1. SampleLine \subseteq SampleLine \cup TrialLine /\ TrialLine \subseteq SampleLine \cup TrialLine
      OBVIOUS
    <3> HIDE DEF old, new
    <3> QED BY <2>4, <3>1
  <2>7. read \in Seq(Both) /\ (Len(read) = 0 \/ Len(read) = 1)
    <3>1. read \in Seq(Both)
      BY DEF ReportInv, ReadOK
    <3> HIDE DEF Both
    <3>2. Len(read) \in Nat
      BY <3>1
    <3>3. Len(read) < 2
      BY DEF Reports!ReadLines
    <3>4. Len(read) = 0 \/ Len(read) = 1
      BY <3>2, <3>3
    <3> QED BY <3>1, <3>4
  <2>8. Begins(old, old) /\ Begins(new, new)
    <3> HIDE DEF old, new
    <3> QED BY <2>4 DEF Begins
  <2>9. CASE Len(read) = 0
    <3>1. f = "samples"
      BY <1>1, <2>9 DEF Reports!Order
    <3>2. read' = Append(read, old)
      BY <1>3, <3>1
    <3>3. read' \in Seq(Both) /\ Len(read') = 1 /\ read'[1] = old
      <4> HIDE DEF old, Both
      <4> QED BY <2>6, <2>7, <2>9, <3>2
    <3>4. ReadOK'
      <4> HIDE DEF old
      <4> QED BY <2>4, <2>8, <3>3 DEF ReadOK, old
    <3>5. Counting'
      BY <1>3, <2>5, <3>3 DEF ReportInv, Counting
    <3> QED BY <2>2, <2>3, <3>4, <3>5 DEF ReportInv
  <2>10. CASE Len(read) = 1
    <3>1. f = "trials"
      BY <1>1, <2>10 DEF Reports!Order
    <3>2. read' = Append(read, new)
      BY <1>3, <3>1
    <3>3. read' \in Seq(Both) /\ Len(read') = 2 /\ read'[1] = read[1] /\ read'[2] = new
      <4> HIDE DEF new, Both
      <4>1. /\ Append(read, new) \in Seq(Both) /\ Len(Append(read, new)) = 1 + 1
            /\ \A i \in 1 .. 1 : Append(read, new)[i] = read[i]
            /\ Append(read, new)[1 + 1] = new
        <5>1. \A i \in 1 .. Len(read) : Append(read, new)[i] = read[i]
          BY <2>6, <2>7, OneMoreLine
        <5>2. /\ Append(read, new) \in Seq(Both) /\ Len(Append(read, new)) = Len(read) + 1
              /\ Append(read, new)[Len(read) + 1] = new
          BY <2>6, <2>7, OneMoreLine
        <5> DEFINE more == Append(read, new)
        <5>3. /\ more \in Seq(Both) /\ Len(more) = Len(read) + 1 /\ more[Len(read) + 1] = new
              /\ \A i \in 1 .. Len(read) : more[i] = read[i]
          BY <5>1, <5>2
        <5> HIDE DEF more
        <5>4. /\ more \in Seq(Both) /\ Len(more) = 1 + 1 /\ more[1 + 1] = new
              /\ \A i \in 1 .. 1 : more[i] = read[i]
          BY <2>10, <5>3, Zenon
        <5> QED BY <5>4 DEF more
      <4> QED BY <3>2, <4>1
    <3>4. read[1] \in Seq(SampleLine) /\ Begins(read[1], old)
      BY <2>10 DEF ReportInv, ReadOK
    <3>5. \A i \in DOMAIN read[1] : \E j \in DOMAIN new : new[j].trial = read[1][i].trial
      <4> SUFFICES ASSUME NEW i \in DOMAIN read[1]
                   PROVE  \E j \in DOMAIN new : new[j].trial = read[1][i].trial
        OBVIOUS
      <4>1. i \in DOMAIN old /\ old[i] = read[1][i]
        <5> HIDE DEF old
        <5> QED BY <2>4, <3>4 DEF Begins
      <4>2. Reports!Recorded(read[1][i].trial)
        BY <4>1 DEF ReportInv, LinesOK
      <4> QED BY <4>2 DEF Reports!Recorded, Reports!Rows
    <3>6. ReadOK'
      <4> HIDE DEF old, new
      <4> QED BY <2>4, <2>8, <3>3, <3>4, <3>5 DEF ReadOK, old, new
    <3>7. Counting'
      BY <1>3, <2>5, <2>10, <3>3 DEF ReportInv, Counting
    <3> QED BY <2>2, <2>3, <3>6, <3>7 DEF ReportInv
  <2> QED BY <2>7, <2>9, <2>10
<1> QED BY <1>1, <1>2, <1>3

\* Of rows that were read, each capture has the split of its trial, and none is
\* inconsistent.
LEMMA RowsRead ==
    ASSUME ReportInv, Len(read) = 2
    PROVE  /\ ~ Reports!Inconsistent
           /\ Reports!Joined(Reports!Of("samples"), Reports!TrialRows) = Captured(read[1])
           /\ read[1] \in Seq(SampleLine)
<1>1. Reports!Of("samples") = read[1] /\ Reports!Of("trials") = read[2]
  <2>1. \A i \in 1 .. 2 : /\ Reports!Order[i] = "samples" <=> i = 1
                          /\ Reports!Order[i] = "trials" <=> i = 2
    BY DEF Reports!Order
  <2> QED BY <2>1 DEF Reports!Of
<1> DEFINE taken == read[1]
           known == read[2]
           old == rows["samples"]
           new == rows["trials"]
<1>2. /\ taken \in Seq(SampleLine) /\ Begins(taken, old)
      /\ known \in Seq(TrialLine) /\ Begins(known, new)
      /\ \A i \in DOMAIN taken : \E j \in DOMAIN known : known[j].trial = taken[i].trial
  BY DEF ReportInv, ReadOK
<1>3. old \in Seq(SampleLine) /\ new \in Seq(TrialLine)
  BY DEF ReportInv, ReportTypes
<1>4. /\ \A i \in DOMAIN known : i \in DOMAIN new /\ known[i] = new[i]
      /\ \A i \in DOMAIN taken : i \in DOMAIN old /\ taken[i] = old[i]
  <2> HIDE DEF taken, known, old, new
  <2> QED BY <1>2, <1>3 DEF Begins
<1>5. /\ \A i \in DOMAIN new : new[i].split = split[new[i].trial]
      /\ \A i, j \in DOMAIN new : new[i].trial = new[j].trial => i = j
      /\ \A i, j \in DOMAIN old : Reports!Id(old[i]) = Reports!Id(old[j]) => i = j
  BY DEF ReportInv, LinesOK
<1>6. Reports!TrialRows = {known[i] : i \in DOMAIN known}
  BY <1>1 DEF Reports!TrialRows
<1> HIDE DEF taken, known, old, new
<1>7. ~ Reports!Inconsistent
  <2>1. ~ Reports!Duplicates([i \in DOMAIN known |-> known[i].trial])
    BY <1>4, <1>5 DEF Reports!Duplicates
  <2>2. ~ Reports!Duplicates([i \in DOMAIN taken |-> Reports!Id(taken[i])])
    BY <1>4, <1>5 DEF Reports!Duplicates
  <2>3. ~ \E i \in DOMAIN taken : \A r \in Reports!TrialRows : r.trial # taken[i].trial
    BY <1>2, <1>6
  <2> QED BY <1>1, <2>1, <2>2, <2>3 DEF Reports!Inconsistent, taken, known
<1>8. Reports!Joined(taken, Reports!TrialRows) = Captured(taken)
  <2>1. \A i \in DOMAIN taken :
           (CHOOSE t \in Reports!TrialRows : t.trial = taken[i].trial).split = split[taken[i].trial]
    <3> SUFFICES ASSUME NEW i \in DOMAIN taken
                 PROVE  (CHOOSE t \in Reports!TrialRows : t.trial = taken[i].trial).split
                            = split[taken[i].trial]
      OBVIOUS
    <3> DEFINE r == CHOOSE t \in Reports!TrialRows : t.trial = taken[i].trial
    <3>1. \E t \in Reports!TrialRows : t.trial = taken[i].trial
      BY <1>2, <1>6
    <3>2. r \in Reports!TrialRows /\ r.trial = taken[i].trial
      BY <3>1
    <3> HIDE DEF r
    <3>3. r.split = split[taken[i].trial]
      BY <1>4, <1>5, <1>6, <3>2
    <3> QED BY <3>3 DEF r
  <2> QED BY <2>1 DEF Reports!Joined, Captured
<1> QED BY <1>1, <1>2, <1>7, <1>8 DEF taken

\* A capture as the report joins it from the files.
Capture == [id : Reports!Trials \X Nat, trial : Reports!Trials, extent : Extents,
            split : Reports!Splits]
\* Captures have types, and their split is that of their trial.
LEMMA CapturedType ==
    ASSUME ReportTypes, NEW taken \in Seq(SampleLine)
    PROVE  /\ Captured(taken) \subseteq Capture
           /\ \A c \in Captured(taken) : c.split = split[c.trial]
<1>1. \A i \in DOMAIN taken : taken[i] \in SampleLine
  OBVIOUS
<1>2. \A i \in DOMAIN taken :
         /\ taken[i].trial \in Reports!Trials /\ taken[i].step \in Nat /\ taken[i].extent \in Extents
         /\ Reports!Id(taken[i]) \in Reports!Trials \X Nat
  BY <1>1 DEF SampleLine, Reports!Id
<1>3. \A t \in Reports!Trials : split[t] \in Reports!Splits
  BY DEF ReportTypes
<1> QED BY <1>2, <1>3 DEF Captured, Capture

\* The splits one by one.
LEMMA FiniteSplits == IsFiniteSet(Reports!Splits)
<1>1. IsFiniteSet({"train"})
  BY FS_Singleton
<1>2. IsFiniteSet({"train"} \cup {"val"})
  BY <1>1, FS_AddElement
<1>3. IsFiniteSet(({"train"} \cup {"val"}) \cup {"test"})
  BY <1>2, FS_AddElement
<1>4. Reports!Splits = ({"train"} \cup {"val"}) \cup {"test"}
  OBVIOUS
<1> QED BY <1>3, <1>4

\* Counts by a feature that all have add up to all.
LEMMA CountByAddsUp ==
    ASSUME NEW C, IsFiniteSet(C), NEW K, IsFiniteSet(K), NEW has, DOMAIN has = C
    PROVE  /\ Reports!Added(Reports!CountBy(has, K), K) = Cardinality(HavingAny(C, has, K))
           /\ \A v \in K : /\ Reports!CountBy(has, K)[v] = Cardinality(Having(C, has, v))
                           /\ Reports!CountBy(has, K)[v] \in Nat
<1> DEFINE f == Reports!CountBy(has, K)
<1>1. \A v \in K : f[v] = Cardinality(Having(C, has, v))
  BY SameCounts DEF Reports!CountBy, Having
<1>2. \A v : IsFiniteSet(Having(C, has, v)) /\ Cardinality(Having(C, has, v)) \in Nat
  <2>1. \A v : Having(C, has, v) \in SUBSET C
    BY DEF Having
  <2> QED BY <2>1, FS_Subset, FS_CardinalityType
<1> HIDE DEF f
<1>3. Total(f, K) = Cardinality(HavingAny(C, has, K))
  BY <1>1, CountsAddUp
<1>4. Reports!Added(f, K) = Total(f, K)
  BY SameSums
<1> QED BY <1>1, <1>2, <1>3, <1>4 DEF f

\* The tier of a capture is the smallest that its extent is within.
LEMMA TierIs ==
    ASSUME NEW e \in Nat
    PROVE  /\ Reports!actual_sampling_tier(e) \in Tiers \cup {Reports!OutOfRange}
           /\ \A box \in Nat :
                /\ Reports!actual_sampling_tier(e) \in {tier \in Tiers : tier <= box} => e <= box
                /\ box \in Tiers /\ e <= box =>
                     Reports!actual_sampling_tier(e) \in {tier \in Tiers : tier <= box}
<1> DEFINE around == {tier \in Tiers : e <= tier}
           its == Reports!actual_sampling_tier(e)
<1>1. Tiers \subseteq Nat
  BY ReportConstants
<1>2. CASE around = {}
  <2>1. its = -1 /\ -1 \notin Tiers
    BY <1>1, <1>2 DEF Reports!actual_sampling_tier, Reports!OutOfRange
  <2>2. \A box \in Tiers : ~ (e <= box)
    BY <1>2
  <2> HIDE DEF its
  <2>3. its \in Tiers \cup {Reports!OutOfRange}
    BY <2>1 DEF Reports!OutOfRange
  <2>4. \A box : its \notin {tier \in Tiers : tier <= box}
    BY <2>1
  <2> QED BY <2>2, <2>3, <2>4 DEF its
<1>3. CASE around # {}
  <2>1. its = Reports!Min(around)
    BY <1>3 DEF Reports!actual_sampling_tier
  <2>2. \A x \in around : x \in Nat
    BY <1>1
  <2>3. its \in around /\ \A x \in around : its <= x
    <3> HIDE DEF around, its
    <3> QED BY <1>3, <2>1, <2>2, LeastOne
  <2>4. its \in Tiers /\ e <= its /\ \A x \in Tiers : e <= x => its <= x
    BY <2>3
  <2> HIDE DEF its
  <2>5. \A box \in Nat : (its <= box => e <= box) /\ (box \in Tiers /\ e <= box => its <= box)
    BY <1>1, <2>4
  <2> QED BY <2>4, <2>5 DEF its
<1> QED BY <1>2, <1>3

\* A summary of the captures C whose counts add up, by split, by tier and by box.
SummaryOK(d, C) ==
    /\ Reports!Added(d.by_split, Reports!Splits) = d.captures
    /\ Reports!Added(d.by_tier, Tiers \cup {Reports!OutOfRange}) = d.captures
    /\ d.leaks = 0
    /\ \A box \in Reports!Boxes :
         /\ d.coverage[box] >= Reports!Added(d.by_tier, {tier \in Tiers : tier <= box})
         /\ box \in Tiers =>
              d.coverage[box] = Reports!Added(d.by_tier, {tier \in Tiers : tier <= box})
    /\ \A s \in Reports!Splits : /\ d.by_split[s] = Cardinality({c \in C : c.split = s})
                                 /\ d.by_split[s] \in Nat

\* The first section adds up.
LEMMA SummaryAddsUp ==
    ASSUME NEW C \in SUBSET Capture, IsFiniteSet(C), \A c \in C : c.split = split[c.trial],
           NEW d, d = Reports!summarize_dataset(C)
    PROVE  SummaryOK(d, C)
<1> DEFINE ofSplit == [c \in C |-> c.split]
           ofTier  == [c \in C |-> Reports!actual_sampling_tier(c.extent)]
           K == Tiers \cup {Reports!OutOfRange}
<1>1. /\ d.captures = Cardinality(C)
      /\ d.by_split = Reports!CountBy(ofSplit, Reports!Splits)
      /\ d.by_tier = Reports!CountBy(ofTier, K)
      /\ \A box \in Reports!Boxes : d.coverage[box] = Cardinality({c \in C : c.extent <= box})
      /\ d.leaks = Cardinality({t \in Reports!Trials :
                      Cardinality({c.split : c \in {x \in C : x.trial = t}}) > 1})
  BY SameCounts DEF Reports!summarize_dataset
<1>2. \A c \in C : c.split \in Reports!Splits /\ c.extent \in Nat
  BY ReportConstants DEF Capture
<1>3. /\ Reports!Added(d.by_split, Reports!Splits) = d.captures
      /\ \A s \in Reports!Splits : /\ d.by_split[s] = Cardinality({c \in C : c.split = s})
                                   /\ d.by_split[s] \in Nat
  <2>1. HavingAny(C, ofSplit, Reports!Splits) = C
    BY <1>2 DEF HavingAny
  <2>2. \A s : Having(C, ofSplit, s) = {c \in C : c.split = s}
    BY DEF Having
  <2>3. DOMAIN ofSplit = C
    OBVIOUS
  <2> HIDE DEF ofSplit
  <2>4. /\ Reports!Added(d.by_split, Reports!Splits) = Cardinality(C)
        /\ \A s \in Reports!Splits : /\ d.by_split[s] = Cardinality(Having(C, ofSplit, s))
                                     /\ d.by_split[s] \in Nat
    BY <1>1, <2>1, <2>3, FiniteSplits, CountByAddsUp
  <2> QED BY <1>1, <2>2, <2>4
<1>4. IsFiniteSet(K)
  BY ReportConstants, FS_AddElement
<1>5. /\ Reports!Added(d.by_tier, K) = Cardinality(HavingAny(C, ofTier, K))
      /\ \A v \in K : d.by_tier[v] = Cardinality(Having(C, ofTier, v))
  <2>1. DOMAIN ofTier = C
    OBVIOUS
  <2> HIDE DEF ofTier, K
  <2> QED BY <1>1, <1>4, <2>1, CountByAddsUp
<1>6. Reports!Added(d.by_tier, K) = d.captures
  <2>1. HavingAny(C, ofTier, K) = C
    BY <1>2, TierIs DEF HavingAny
  <2> QED BY <1>1, <1>5, <2>1
<1>7. ASSUME NEW box \in Reports!Boxes
      PROVE  /\ d.coverage[box] >= Reports!Added(d.by_tier, {tier \in Tiers : tier <= box})
             /\ box \in Tiers =>
                  d.coverage[box] = Reports!Added(d.by_tier, {tier \in Tiers : tier <= box})
  <2> DEFINE Within == {tier \in Tiers : tier <= box}
             f == d.by_tier
             Near == {c \in C : c.extent <= box}
  <2>1. IsFiniteSet(Within)
    <3>1. Within \in SUBSET Tiers
      OBVIOUS
    <3> QED BY <3>1, ReportConstants, FS_Subset
  <2>2. box \in Nat
    BY DEF Reports!Boxes
  <2>3. \A c \in C :
          /\ Reports!actual_sampling_tier(c.extent) \in Within => c.extent <= box
          /\ box \in Tiers /\ c.extent <= box => Reports!actual_sampling_tier(c.extent) \in Within
    BY <1>2, <2>2, TierIs
  <2>4. /\ HavingAny(C, ofTier, Within) \subseteq Near
        /\ box \in Tiers => HavingAny(C, ofTier, Within) = Near
    <3> HIDE DEF Within
    <3>1. \A c \in C : ofTier[c] = Reports!actual_sampling_tier(c.extent)
      OBVIOUS
    <3> HIDE DEF ofTier
    <3>2. HavingAny(C, ofTier, Within) = {c \in C : Reports!actual_sampling_tier(c.extent) \in Within}
      BY <3>1 DEF HavingAny
    <3> QED BY <2>3, <3>2
  <2>5. \A v \in Within : f[v] = Cardinality(Having(C, ofTier, v))
    BY <1>5
  <2>6. IsFiniteSet(Near)
    <3>1. Near \in SUBSET C
      OBVIOUS
    <3> QED BY <3>1, FS_Subset
  <2>7. d.coverage[box] = Cardinality(Near)
    BY <1>1
  <2> HIDE DEF Within, f, ofTier, Near
  <2>8. Total(f, Within) = Cardinality(HavingAny(C, ofTier, Within))
    BY <2>1, <2>5, CountsAddUp
  <2>9. Reports!Added(f, Within) = Cardinality(HavingAny(C, ofTier, Within))
    BY <2>8, SameSums
  <2>10. /\ Cardinality(HavingAny(C, ofTier, Within)) <= Cardinality(Near)
         /\ Cardinality(HavingAny(C, ofTier, Within)) \in Nat /\ Cardinality(Near) \in Nat
    BY <2>4, <2>6, FS_Subset, FS_CardinalityType
  <2>11. d.coverage[box] >= Reports!Added(f, Within)
    BY <2>7, <2>9, <2>10
  <2>12. box \in Tiers => d.coverage[box] = Reports!Added(f, Within)
    BY <2>4, <2>7, <2>9
  <2> QED BY <2>11, <2>12 DEF Within, f
<1>8. d.leaks = 0
  <2>1. ASSUME NEW t \in Reports!Trials
        PROVE  ~ (Cardinality({c.split : c \in {x \in C : x.trial = t}}) > 1)
    <3> DEFINE T == {c.split : c \in {x \in C : x.trial = t}}
    <3>1. T \in SUBSET {split[t]}
      OBVIOUS
    <3> HIDE DEF T
    <3>2. IsFiniteSet({split[t]}) /\ Cardinality({split[t]}) = 1
      BY FS_Singleton
    <3>3. Cardinality(T) <= 1 /\ Cardinality(T) \in Nat
      BY <3>1, <3>2, FS_Subset, FS_CardinalityType
    <3>4. ~ (Cardinality(T) > 1)
      BY <3>3
    <3> QED BY <3>4 DEF T
  <2>2. {t \in Reports!Trials : Cardinality({c.split : c \in {x \in C : x.trial = t}}) > 1} = {}
    BY <2>1
  <2> QED BY <1>1, <2>2, FS_EmptySet
<1> QED BY <1>3, <1>6, <1>7, <1>8 DEF SummaryOK

\* The first section is written: nothing of it is of a later moment.
LEMMA SummarizeStep == ASSUME ReportInv, Reports!Summarize PROVE ReportInv'
<1> DEFINE C == Captured(read[1])
           d == Reports!summarize_dataset(C)
<1>1. /\ section = "dataset" /\ Len(read) = 2 /\ Reports!store' = Reports!store
      /\ ~ Reports!Inconsistent
      /\ Reports!Joined(Reports!Of("samples"), Reports!TrialRows) = C
      /\ read[1] \in Seq(SampleLine)
  BY RowsRead DEF Reports!Summarize
<1>2. /\ report' = [dataset |-> d, model |-> Reports!NotEvaluated]
      /\ section' \in {"model", "written"} /\ read' = <<>> /\ UNCHANGED why
  BY <1>1 DEF Reports!Summarize
<1>3. UNCHANGED <<split, rows, end, writer>>
  BY <1>1 DEF Reports!store
<1>4. ReportTypes /\ Begins(read[1], rows["samples"]) /\ rows["samples"] \in Seq(SampleLine)
  BY <1>1 DEF ReportInv, ReportTypes, ReadOK
<1>5. C \in SUBSET Capture /\ IsFiniteSet(C) /\ \A c \in C : c.split = split[c.trial]
  BY <1>1, <1>4, CapturedType, CapturedFinite
<1>6. SummaryOK(d, C)
  <2> HIDE DEF C
  <2> QED BY <1>5, SummaryAddsUp
<1>7. \A s \in Reports!Splits : /\ d.by_split[s] \in Nat
                                /\ d.by_split[s] <= Cardinality(CapturedOf(rows["samples"], s))
  <2> SUFFICES ASSUME NEW s \in Reports!Splits
               PROVE  /\ d.by_split[s] \in Nat
                      /\ d.by_split[s] <= Cardinality(CapturedOf(rows["samples"], s))
    OBVIOUS
  <2>1. d.by_split[s] = Cardinality(CapturedOf(read[1], s)) /\ d.by_split[s] \in Nat
    BY <1>6 DEF CapturedOf, SummaryOK
  <2> HIDE DEF d
  <2>2. Cardinality(CapturedOf(read[1], s)) <= Cardinality(CapturedOf(rows["samples"], s))
    BY <1>1, <1>4, MoreCaptured
  <2> QED BY <2>1, <2>2
<1> HIDE DEF d
<1>8. Counting'
  <2>1. \A s : CapturedOf(rows["samples"], s)' = CapturedOf(rows["samples"], s)
    BY <1>3 DEF CapturedOf, Captured
  <2>2. Len(read') = 0 /\ report'.dataset = d
    BY <1>2
  <2> QED BY <1>7, <2>1, <2>2 DEF Counting
<1>9. Reports!DatasetAddsUp'
  BY <1>2, <1>6 DEF Reports!DatasetAddsUp, SummaryOK
<1>10. Reports!ModelAddsUp' /\ Reports!OnlyLinesFail'
  BY <1>2 DEF ReportInv, Reports!ModelAddsUp, Reports!OnlyLinesFail
<1>11. ReadOK'
  BY <1>2 DEF ReadOK
<1>12. LinesOK' /\ WriterOK' /\ ReportTypes'
  BY <1>2, <1>3, StoreStays
<1> QED BY <1>8, <1>9, <1>10, <1>11, <1>12 DEF ReportInv

-----------------------------------------------------------------------------
(* The section on a model *)

\* What all captures have of something is what those of the three splits have.
LEMMA SplitsAddUp ==
    ASSUME NEW C, IsFiniteSet(C), \A c \in C : c.split \in Reports!Splits, NEW f,
           \A s \in Reports!Splits : f[s] = Cardinality({c \in C : c.split = s})
    PROVE  Reports!Added(f, Reports!Splits) = Cardinality(C)
<1> DEFINE has == [c \in C |-> c.split]
<1>1. HavingAny(C, has, Reports!Splits) = C
  BY DEF HavingAny
<1>2. \A s : Having(C, has, s) = {c \in C : c.split = s}
  BY DEF Having
<1>3. \A s \in Reports!Splits : f[s] = Cardinality(Having(C, has, s))
  BY <1>2
<1> DEFINE K == Reports!Splits
<1>4. IsFiniteSet(K) /\ \A s \in K : f[s] = Cardinality(Having(C, has, s))
  BY <1>3, FiniteSplits
<1> HIDE DEF has, K
<1>5. Total(f, K) = Cardinality(HavingAny(C, has, K))
  BY <1>4, CountsAddUp
<1> QED BY <1>1, <1>5, SameSums DEF K

\* A value of rank k is one of the values.
LEMMA RankedIs ==
    ASSUME NEW g, IsFiniteSet(DOMAIN g), \A c \in DOMAIN g : g[c] \in Nat,
           NEW k \in Nat, k <= Cardinality(DOMAIN g), DOMAIN g # {}
    PROVE  \E c \in DOMAIN g : Reports!Ranked(g, k) = g[c]
<1> DEFINE D == DOMAIN g
           UpTo(v) == {c \in D : g[c] <= v}
           n == Cardinality(D)
           Over(c) == n - Cardinality(UpTo(g[c]))
           T == {Over(c) : c \in D}
<1>1. \A v : IsFiniteSet(UpTo(v)) /\ Cardinality(UpTo(v)) \in Nat /\ Cardinality(UpTo(v)) <= n
             /\ n \in Nat /\ UpTo(v) \subseteq D /\ (Cardinality(UpTo(v)) = n => UpTo(v) = D)
  <2>1. \A v : UpTo(v) \in SUBSET D
    OBVIOUS
  <2> HIDE DEF UpTo, D
  <2> QED BY <2>1, FS_Subset, FS_CardinalityType DEF D
<1>2. PICK top \in D : \A c \in D : Over(top) <= Over(c)
  <2>1. \A x \in T : x \in Nat
    <3> SUFFICES ASSUME NEW c \in D PROVE Over(c) \in Nat
      OBVIOUS
    <3> HIDE DEF UpTo, n
    <3> QED BY <1>1
  <2>2. T # {}
    OBVIOUS
  <2> HIDE DEF T
  <2>3. \E x \in T : \A y \in T : x <= y
    BY <2>1, <2>2, LeastNumber
  <2> QED BY <2>3 DEF T
<1>3. \A c \in D : g[c] <= g[top]
  <2> SUFFICES ASSUME NEW c \in D, ~ (g[c] <= g[top]) PROVE FALSE
    OBVIOUS
  <2> DEFINE U == UpTo(g[top])
             V == UpTo(g[c])
  <2>1. g[top] \in Nat /\ g[c] \in Nat /\ g[top] < g[c]
    OBVIOUS
  <2>2. U \in SUBSET V /\ c \in V /\ c \notin U
    BY <2>1
  <2>3. IsFiniteSet(V) /\ Cardinality(V) \in Nat /\ Cardinality(U) \in Nat /\ n \in Nat
    BY <1>1
  <2>4. n - Cardinality(U) <= n - Cardinality(V)
    BY <1>2
  <2> HIDE DEF U, V, n
  <2>5. Cardinality(U) <= Cardinality(V) /\ Cardinality(U) # Cardinality(V)
    BY <2>2, <2>3, FS_Subset
  <2> QED BY <2>3, <2>4, <2>5
<1>4. UpTo(g[top]) = D
  BY <1>3
<1> DEFINE R == {v \in {g[c] : c \in D} : Cardinality(UpTo(v)) >= k}
<1>5. R # {} /\ \A x \in R : x \in Nat
  <2>1. g[top] \in R
    BY <1>4
  <2> QED BY <2>1
<1>6. Reports!Ranked(g, k) = Reports!Min(R)
  BY SameCounts DEF Reports!Ranked
<1>7. Reports!Min(R) \in R
  <2> HIDE DEF R
  <2> QED BY <1>5, LeastOne
<1> QED BY <1>6, <1>7

\* Between two values of at most 5 there is none of more than 5.
LEMMA Mixed == \A x, y \in 0 .. 5, r \in 0 .. 99 : x * 100 <= 500 /\ x * (100 - r) + y * r <= 500
<1> SUFFICES ASSUME NEW x \in 0 .. 5, NEW y \in 0 .. 5, NEW r \in 0 .. 99
             PROVE  x * 100 <= 500 /\ x * (100 - r) + y * r <= 500
  OBVIOUS
<1>1. x \in {0, 1, 2, 3, 4, 5} /\ y \in {0, 1, 2, 3, 4, 5}
  OBVIOUS
<1>2. x * (100 - r) <= 5 * (100 - r)
  BY <1>1
<1>3. y * r <= 5 * r
  BY <1>1
<1>4. x * (100 - r) \in Int /\ y * r \in Int
  OBVIOUS
<1> QED BY <1>2, <1>3, <1>4

\* The percentile of the errors, empty or not.
LEMMA PercentileWithin ==
    ASSUME NEW g, IsFiniteSet(DOMAIN g), \A c \in DOMAIN g : g[c] \in Nat /\ g[c] <= 5
    PROVE  Reports!percentile(g, 95) <= 500
<1> DEFINE n == Cardinality(DOMAIN g)
           position == (n - 1) * 95
           low  == position \div 100
           rest == position % 100
           p == Reports!percentile(g, 95)
<1>1. CASE DOMAIN g = {}
  <2>1. p = 0
    BY <1>1 DEF Reports!percentile
  <2> QED BY <2>1
<1>2. CASE DOMAIN g # {}
  <2>1. n \in Nat /\ n >= 1
    BY <1>2, FS_CardinalityType, FS_EmptySet
  <2>2. p = IF rest = 0 THEN Reports!Ranked(g, low + 1) * 100
            ELSE Reports!Ranked(g, low + 1) * (100 - rest) + Reports!Ranked(g, low + 2) * rest
    BY <1>2, SameCounts DEF Reports!percentile
  <2>3. /\ low \in Nat /\ low + 1 <= n /\ rest \in 0 .. 99
        /\ rest # 0 => low + 2 <= n
    <3> HIDE DEF n
    <3> QED BY <2>1
  <2>4. \A k \in Nat : k <= n => Reports!Ranked(g, k) \in 0 .. 5
    <3> SUFFICES ASSUME NEW k \in Nat, k <= n PROVE Reports!Ranked(g, k) \in 0 .. 5
      OBVIOUS
    <3>1. PICK c \in DOMAIN g : Reports!Ranked(g, k) = g[c]
      BY <1>2, RankedIs
    <3> QED BY <3>1
  <2> DEFINE x == Reports!Ranked(g, low + 1)
             y == Reports!Ranked(g, low + 2)
  <2> HIDE DEF n, low, rest, p
  <2>5. x \in 0 .. 5
    BY <2>3, <2>4
  <2>6. rest # 0 => y \in 0 .. 5
    BY <2>3, <2>4
  <2> HIDE DEF x, y
  <2>7. p = IF rest = 0 THEN x * 100 ELSE x * (100 - rest) + y * rest
    BY <2>2 DEF x, y
  <2>8. p <= 500
    <3>1. CASE rest = 0
      BY <2>5, <2>7, <3>1
    <3>2. CASE rest # 0
      <4>1. p = x * (100 - rest) + y * rest
        BY <2>7, <3>2
      <4>2. x * (100 - rest) + y * rest <= 500
        BY <2>3, <2>5, <2>6, <3>2, Mixed, Zenon
      <4> QED BY <4>1, <4>2
    <3> QED BY <3>1, <3>2
  <2> QED BY <2>8 DEF p
<1> QED BY <1>1, <1>2

\* The captures of a split, those a file has a prediction of, and near ones of these.
OfSplit(C, s) == {c \in C : c.split = s}
Matched(C, p) == {c \in C : c.id \in DOMAIN p}
Within(C, p)  == {c \in Matched(C, p) : p[c.id] <= 5}
\* The numbers of prediction_metrics, one by one.
LEMMA MetricsAre ==
    ASSUME NEW C, NEW p
    PROVE  /\ Reports!prediction_metrics(C, p).total = Cardinality(C)
           /\ Reports!prediction_metrics(C, p).matched = Cardinality(Matched(C, p))
           /\ Reports!prediction_metrics(C, p).within = Cardinality(Within(C, p))
BY SameCounts DEF Reports!prediction_metrics, Matched, Within

\* What ModelAddsUp asks of the section's own counts.
Fine(m) ==
    /\ m.all.total = Reports!Added([s \in Reports!Splits |-> m.by_split[s].total], Reports!Splits)
    /\ m.all.matched = Reports!Added([s \in Reports!Splits |-> m.by_split[s].matched], Reports!Splits)
    /\ m.all.within = Reports!Added([s \in Reports!Splits |-> m.by_split[s].within], Reports!Splits)
    /\ m.all.within = m.all.matched => m.all.p95 <= 500
\* The second section adds up.
LEMMA MetricsAddUp ==
    ASSUME NEW C \in SUBSET Capture, IsFiniteSet(C), NEW p \in Predictions, NEW insertions,
           NEW m, m = Reports!evaluate_predictions(C, p, insertions)
    PROVE  /\ Fine(m)
           /\ \A s \in Reports!Splits : m.by_split[s].total = Cardinality(OfSplit(C, s))
<1> DEFINE M == Matched(C, p)
           W == Within(C, p)
           norms == [c \in M |-> p[c.id]]
<1>1. m.all = Reports!prediction_metrics(C, p)
      /\ \A s \in Reports!Splits : m.by_split[s] = Reports!prediction_metrics(OfSplit(C, s), p)
  BY DEF Reports!evaluate_predictions, OfSplit
<1>2. /\ m.all.total = Cardinality(C) /\ m.all.matched = Cardinality(M)
      /\ m.all.within = Cardinality(W) /\ m.all.p95 = Reports!percentile(norms, 95)
  <2>1. m.all.p95 = Reports!percentile(norms, 95)
    BY <1>1 DEF Reports!prediction_metrics, Matched
  <2> QED BY <1>1, <2>1, MetricsAre
<1>3. \A s \in Reports!Splits :
         /\ m.by_split[s].total = Cardinality(OfSplit(C, s))
         /\ m.by_split[s].matched = Cardinality({c \in M : c.split = s})
         /\ m.by_split[s].within = Cardinality({c \in W : c.split = s})
  <2> SUFFICES ASSUME NEW s \in Reports!Splits
               PROVE  /\ m.by_split[s].total = Cardinality(OfSplit(C, s))
                      /\ m.by_split[s].matched = Cardinality({c \in M : c.split = s})
                      /\ m.by_split[s].within = Cardinality({c \in W : c.split = s})
    OBVIOUS
  <2>1. /\ Matched(OfSplit(C, s), p) = {c \in M : c.split = s}
        /\ Within(OfSplit(C, s), p) = {c \in W : c.split = s}
    BY DEF Matched, Within, OfSplit
  <2>2. /\ m.by_split[s].total = Cardinality(OfSplit(C, s))
        /\ m.by_split[s].matched = Cardinality(Matched(OfSplit(C, s), p))
        /\ m.by_split[s].within = Cardinality(Within(OfSplit(C, s), p))
    <3> DEFINE x == m.by_split[s]
               D == OfSplit(C, s)
    <3>1. x = Reports!prediction_metrics(D, p)
      BY <1>1
    <3> HIDE DEF x, D
    <3>2. /\ x.total = Cardinality(D) /\ x.matched = Cardinality(Matched(D, p))
          /\ x.within = Cardinality(Within(D, p))
      BY <3>1, MetricsAre
    <3> QED BY <3>2 DEF x, D
  <2> QED BY <2>1, <2>2
<1>4. \A c \in C : c.split \in Reports!Splits
  BY DEF Capture
<1>5. /\ M \in SUBSET C /\ W \in SUBSET M /\ W \in SUBSET C
      /\ \A c \in M : c.split \in Reports!Splits
      /\ \A c \in W : c.split \in Reports!Splits
  BY <1>4 DEF Matched, Within
<1>6. IsFiniteSet(M) /\ IsFiniteSet(W)
  <2> HIDE DEF M, W
  <2> QED BY <1>5, FS_Subset
<1>7. m.all.total = Reports!Added([s \in Reports!Splits |-> m.by_split[s].total], Reports!Splits)
  <2> DEFINE f == [s \in Reports!Splits |-> m.by_split[s].total]
  <2>1. \A s \in Reports!Splits : f[s] = Cardinality({c \in C : c.split = s})
    BY <1>3 DEF OfSplit
  <2> HIDE DEF f
  <2>2. Reports!Added(f, Reports!Splits) = Cardinality(C)
    BY <1>4, <2>1, SplitsAddUp
  <2> QED BY <1>2, <2>2 DEF f
<1>8. m.all.matched = Reports!Added([s \in Reports!Splits |-> m.by_split[s].matched], Reports!Splits)
  <2> DEFINE f == [s \in Reports!Splits |-> m.by_split[s].matched]
  <2>1. \A s \in Reports!Splits : f[s] = Cardinality({c \in M : c.split = s})
    BY <1>3
  <2> HIDE DEF f, M
  <2>2. Reports!Added(f, Reports!Splits) = Cardinality(M)
    BY <1>5, <1>6, <2>1, SplitsAddUp
  <2> QED BY <1>2, <2>2 DEF f
<1>9. m.all.within = Reports!Added([s \in Reports!Splits |-> m.by_split[s].within], Reports!Splits)
  <2> DEFINE f == [s \in Reports!Splits |-> m.by_split[s].within]
  <2>1. \A s \in Reports!Splits : f[s] = Cardinality({c \in W : c.split = s})
    BY <1>3
  <2> HIDE DEF f, W
  <2>2. Reports!Added(f, Reports!Splits) = Cardinality(W)
    BY <1>5, <1>6, <2>1, SplitsAddUp
  <2> QED BY <1>2, <2>2 DEF f
<1>10. ASSUME m.all.within = m.all.matched PROVE m.all.p95 <= 500
  <2>1. M = W
    <3> HIDE DEF M, W
    <3> QED BY <1>2, <1>5, <1>6, <1>10, FS_Subset
  <2>2. \A c \in M : p[c.id] \in Nat /\ p[c.id] <= 5
    <3>1. \A c \in M : c.id \in DOMAIN p /\ p[c.id] <= 5
      BY <2>1 DEF Matched, Within
    <3> QED BY <3>1, ReportConstants
  <2>3. DOMAIN norms = M /\ \A c \in DOMAIN norms : norms[c] \in Nat /\ norms[c] <= 5
    BY <2>2
  <2> HIDE DEF norms, M
  <2> QED BY <1>2, <1>6, <2>3, PercentileWithin
<1> QED BY <1>3, <1>7, <1>8, <1>9, <1>10 DEF Fine

\* The second section is written: what has been read since is no less.
LEMMA EvaluateStep == ASSUME ReportInv, Reports!Evaluate PROVE ReportInv'
<1> DEFINE C == Captured(read[1])
<1>1. /\ section = "model" /\ Len(read) = 2 /\ Reports!store' = Reports!store
      /\ ~ Reports!Inconsistent
      /\ Reports!Joined(Reports!Of("samples"), Reports!TrialRows) = C
      /\ read[1] \in Seq(SampleLine)
  BY RowsRead DEF Reports!Evaluate
<1>2. PICK p \in Predictions, insertions \in Insertions :
         IF \E i \in DOMAIN insertions : insertions[i] = "unknown" THEN Reports!Fail("insertions")
         ELSE /\ report' = [dataset |-> report.dataset,
                            model |-> Reports!evaluate_predictions(C, p, insertions)]
              /\ section' = "written" /\ read' = <<>> /\ UNCHANGED why
  BY <1>1 DEF Reports!Evaluate
<1>3. CASE Reports!Fail("insertions")
  BY <1>1, <1>3, FailStep
<1>4. CASE /\ report' = [dataset |-> report.dataset,
                         model |-> Reports!evaluate_predictions(C, p, insertions)]
           /\ section' = "written" /\ read' = <<>> /\ UNCHANGED why
  <2> DEFINE m == Reports!evaluate_predictions(C, p, insertions)
  <2>1. UNCHANGED <<split, rows, end, writer>>
    BY <1>1 DEF Reports!store
  <2>2. LinesOK' /\ WriterOK' /\ ReportTypes' /\ ReadOK' /\ Counting' /\ Reports!OnlyLinesFail'
    BY <1>4, <2>1, StoreStays DEF ReportInv, ReadOK, Counting, Reports!OnlyLinesFail
  <2>3. report'.dataset = report.dataset /\ report'.model = m
    BY <1>4
  <2>4. Reports!DatasetAddsUp'
    BY <1>1, <1>4, <2>3 DEF ReportInv, Reports!DatasetAddsUp
  <2>5. C \in SUBSET Capture /\ IsFiniteSet(C)
    BY <1>1, CapturedType, CapturedFinite DEF ReportInv
  <2>6. \A s \in Reports!Splits : report.dataset.by_split[s] <= Cardinality(OfSplit(C, s))
    <3> SUFFICES ASSUME NEW s \in Reports!Splits
                 PROVE  report.dataset.by_split[s] <= Cardinality(OfSplit(C, s))
      OBVIOUS
    <3>1. CapturedOf(read[1], s) = OfSplit(C, s)
      BY DEF CapturedOf, OfSplit
    <3> HIDE DEF C
    <3> QED BY <1>1, <3>1 DEF ReportInv, Counting
  <2> HIDE DEF C
  <2> DEFINE mm == m
  <2>7. mm = Reports!evaluate_predictions(C, p, insertions)
    OBVIOUS
  <2> HIDE DEF mm
  <2>8. /\ Fine(mm)
        /\ \A s \in Reports!Splits : mm.by_split[s].total = Cardinality(OfSplit(C, s))
    BY <2>5, <2>7, MetricsAddUp
  <2>9. \A s \in Reports!Splits : report.dataset.by_split[s] <= mm.by_split[s].total
    BY <2>6, <2>8
  <2>10. report'.model = mm
    BY <2>3 DEF mm
  <2>11. Reports!ModelAddsUp'
    BY <2>3, <2>8, <2>9, <2>10 DEF Reports!ModelAddsUp, Fine
  <2> QED BY <2>2, <2>4, <2>11 DEF ReportInv
<1> QED BY <1>2, <1>3, <1>4

\* Every step of the policies or of the report keeps the invariant.
LEMMA ReportInductive == ReportInv /\ [Reports!Next]_(Reports!vars) => ReportInv'
<1> SUFFICES ASSUME ReportInv, [Reports!Next]_(Reports!vars) PROVE ReportInv'
  OBVIOUS
<1>1. ASSUME NEW t \in Reports!Trials, Reports!BeginTrial(t) PROVE ReportInv'
  BY <1>1, BeginTrialStep
<1>2. ASSUME NEW t \in Reports!Trials, Reports!BeginSample(t) PROVE ReportInv'
  BY <1>2, BeginSampleStep
<1>3. ASSUME NEW f \in Reports!Files, Reports!ReadLines(f) PROVE ReportInv'
  BY <1>3, ReadStep
<1>4. CASE UNCHANGED Reports!vars
  <2>1. UNCHANGED <<split, rows, end, writer, section, read, why, report>>
    BY <1>4 DEF Reports!vars, Reports!store, Reports!reader
  <2> QED BY <2>1, LinesStay, StoreStays DEF ReportInv, ReportTypes
<1> QED BY <1>1, <1>2, <1>3, <1>4, FinishStep, CutShortStep, SummarizeStep, EvaluateStep
        DEF Reports!Next

\* A report made beside the collection gives up only on a line that is not whole, its
\* counts add up, and its section on a model counts no fewer captures than the other.
THEOREM ReportAddsUpHolds == Reports!Spec => []ReportAddsUp
<1>1. Reports!Init => ReportInv
  BY ReportInitially
<1>2. ReportInv /\ [Reports!Next]_(Reports!vars) => ReportInv'
  BY ReportInductive
<1>3. ReportInv => ReportAddsUp
  BY DEF ReportInv, ReportAddsUp, Reports!ReportAddsUp
<1> QED BY <1>1, <1>2, <1>3, PTL DEF Reports!Spec
=============================================================================
