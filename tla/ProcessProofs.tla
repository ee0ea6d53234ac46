---------------------------- MODULE ProcessProofs ----------------------------
(***************************************************************************)
(* The programs around a trial that own processes, threads and plugins, each *)
(* for itself: the collection worker for every number of trials and of        *)
(* SIGINTs, with or without failing kills, failing launches and recycled ids; *)
(* the participant's node for every set of goals, every number of lifecycle   *)
(* transitions, with or without the cancel_task service; and the simulated    *)
(* scene for every number of trials and of failed calls.                      *)
(***************************************************************************)
EXTENDS Collector, AicModel, GzScene, FiniteSetTheorems, TLAPS

-----------------------------------------------------------------------------
(* The collection worker. *)


(* The worker starts with nothing running, nothing owned and no registry. *)
LEMMA InitEstablishesIInv == Init => IInv
  BY CollectorAssumption
  DEF Init, IInv, TypeOK, StepOK, BornOK, Recorded, Held, LateInner, AccountedFor,
      TornDown, Reported, StaleOK, StaleCleans, AimOK, StaleSparesStrangers,
      Running, Body, Ignoring, Over, Escalating, Groups, Kinds, Trials, NoCode

(* No step of the worker, of a later --cleanup or of the environment breaks the
   invariant: one case per action; the invariant's own vocabulary is expanded
   once, each case expands its action and the helpers that action calls. *)
LEMMA StepPreservesIInv == IInv /\ [Next]_vars => IInv'
<1> SUFFICES ASSUME IInv, [Next]_vars PROVE IInv'
  OBVIOUS
<1> USE CollectorAssumption
    DEF IInv, TypeOK, StepOK, BornOK, Recorded, Held, LateInner, AccountedFor,
        TornDown, Reported, StaleOK, StaleCleans, AimOK, StaleSparesStrangers,
        Escalating, stop, Unsaved, Ahead, InFlight, PastDiscovery, Cur, G, Sims, OfTrial,
        Groups, Kinds, Trials, Running, Body, Ignoring, Over, NoCode
<1>1. CASE BeginTrial /\ UNCHANGED stop
  BY <1>1 DEF BeginTrial, HasTrial, proc
<1>2. CASE Spawn /\ UNCHANGED stop
  BY <1>2 DEF Spawn
<1>3. CASE LaunchFails /\ UNCHANGED stop
  BY <1>3 DEF LaunchFails, proc
<1>4. CASE Adopt /\ UNCHANGED stop
  BY <1>4 DEF Adopt, proc
<1>5. CASE Persist /\ UNCHANGED stop
  BY <1>5 DEF Persist, Persisted, HasMembers, proc
<1>6. CASE Discover /\ UNCHANGED stop
  BY <1>6 DEF Discover, Found, Persisted, HasMembers, proc
<1>7. CASE BagWait /\ UNCHANGED stop
  BY <1>7 DEF BagWait, proc
<1>8. CASE Scan /\ UNCHANGED stop
  BY <1>8 DEF Scan, proc
<1>9. CASE PollAgain /\ UNCHANGED stop
  BY <1>9 DEF PollAgain, proc
<1>10. CASE GiveUp /\ UNCHANGED stop
  BY <1>10 DEF GiveUp, proc
<1>11. CASE Grace /\ UNCHANGED stop
  BY <1>11 DEF Grace, proc
<1>12. CASE Enter /\ UNCHANGED stop
  BY <1>12 DEF Enter, proc
<1>13. CASE StopPolicy /\ UNCHANGED stop
  BY <1>13 DEF StopPolicy, Verified, Terminate, HasMembers, proc
<1>14. CASE StopBag /\ UNCHANGED stop
  BY <1>14 DEF StopBag, Verified, Terminate, HasMembers, proc
<1>15. CASE Rediscover /\ UNCHANGED stop
  (* the inner simulator is owned from here on, or given up as escaped *)
  <2>1. PICK inner \in Groups : inner = G("inner", trial) /\ inner \in owned' \cup escaped'
    BY <1>15 DEF Rediscover
  <2>2. up' \subseteq owned' \cup escaped'
    BY <1>15, <2>1 DEF Rediscover, Found, proc
  <2>3. LateInner' /\ TornDown'
    BY <1>15, <2>1 DEF Rediscover, Found, proc
  <2> QED
    BY <1>15, <2>2, <2>3 DEF Rediscover, Found, Persisted, HasMembers, proc
<1>16. CASE StopSim /\ UNCHANGED stop
  BY <1>16 DEF StopSim, Verified, Last, Terminate, HasMembers
<1>17. CASE EndTeardown /\ UNCHANGED stop
  BY <1>17 DEF EndTeardown, Persisted, HasMembers, proc
<1>18. CASE Judge /\ UNCHANGED stop
  (* a group still owned after a verified-looking teardown fails the trial *)
  <2>1. CASE exc = "interrupt"
    BY <1>18, <2>1 DEF Judge, proc
  <2>2. CASE exc = "os"
    BY <1>18, <2>2 DEF Judge, proc
  <2>3. CASE exc \in {"none", "runtime"}
    <3>1. \A g \in owned : g.trial < trial' => g.trial \in failed'
      BY <1>18, <2>3 DEF Judge, TrialFailed, proc
    <3> QED
      BY <1>18, <2>3, <3>1 DEF Judge, proc
  <2> QED
    BY <2>1, <2>2, <2>3
<1>19. CASE Finish /\ UNCHANGED stop
  <2>1. trial = NTrials + 1
    BY <1>19 DEF Finish, HasTrial
  <2>2. failed = {} => owned = {}
    BY <1>19, <2>1 DEF Finish, HasTrial
  <2>3. failed = {} => up \subseteq escaped
    BY <1>19, <2>2 DEF Finish, HasTrial
  <2> QED
    BY <1>19, <2>1, <2>2, <2>3 DEF Finish, HasTrial, proc
<1>20. CASE BeginCleanup /\ UNCHANGED stop
  BY <1>20 DEF BeginCleanup, proc
<1>21. CASE CleanupStop /\ UNCHANGED stop
  BY <1>21 DEF CleanupStop, Last, Terminate, HasMembers
<1>22. CASE CleanupRest /\ UNCHANGED stop
  BY <1>22 DEF CleanupRest, proc
<1>23. CASE EndCleanup /\ UNCHANGED stop
  BY <1>23 DEF EndCleanup, Persisted, HasMembers, proc
<1>24. CASE Leave /\ UNCHANGED stop
  BY <1>24 DEF Leave, Persisted, HasMembers, proc
<1>25. CASE BeginStale
  BY <1>25 DEF BeginStale, proc
<1>26. CASE StaleCheck
  (* ours when it was looked at: no stranger has the id yet *)
  BY <1>26 DEF StaleCheck, MatchesMarker, FirstSignal, HasMembers, proc
<1>27. CASE StaleSignal
  (* killpg reaches whoever has the id; a refused or needless one returns *)
  <2>0. /\ pc = "strike" /\ UNCHANGED <<kind, trial, up, born, foreign, todo, owned>>
        /\ UNCHANGED <<registry, summary, got, tdOk, exc, sigints, failed, code, escaped>>
    BY <1>27 DEF StaleSignal, proc
  <2>1. CASE StaleReturn /\ (~KillMayFail => \A g \in aim : g \notin up)
    BY <2>0, <2>1 DEF StaleReturn
  <2>2. CASE /\ pc' = "await" /\ hits' = hits \cup (aim \cap foreign)
             /\ UNCHANGED <<aim, signal, late>>
    BY <2>0, <2>2
  <2>3. aim = {} \/ \E g \in Groups : aim = {g}
    BY DEF AimOK
  <2> QED
    BY <1>27, <2>1, <2>2, <2>3 DEF StaleSignal, HasMembers
<1>28. CASE StaleWait
  BY <1>28 DEF StaleWait, StaleReturn, HasMembers
<1>29. CASE EndStale
  BY <1>29 DEF EndStale, MatchesMarker, proc
<1>30. CASE Sigint /\ UNCHANGED stop
  (* where the KeyboardInterrupt lands decides which handles are lost *)
  <2>1. CASE pc \in Body
    BY <1>30, <2>1 DEF Sigint, proc
  <2>2. CASE pc = "enter"
    BY <1>30, <2>2 DEF Sigint, proc
  <2>3. CASE pc \in {"idle", "judge"}
    BY <1>30, <2>3 DEF Sigint, proc
  <2>4. CASE pc = "abort"
    BY <1>30, <2>4 DEF Sigint, proc
  <2>5. CASE pc = "leave"
    BY <1>30, <2>5 DEF Sigint, proc
  <2>6. CASE pc \in Ignoring
    BY <1>30, <2>6 DEF Sigint, proc
  <2> QED
    BY <1>30, <2>1, <2>2, <2>3, <2>4, <2>5, <2>6 DEF Sigint
<1>31. CASE WorkerDies /\ UNCHANGED stop
  (* what dies unrecorded belongs to the trial under way *)
  <2>1. up \subseteq registry \cup escaped'
    BY <1>31 DEF WorkerDies
  <2> QED
    BY <1>31, <2>1 DEF WorkerDies, proc
<1>32. CASE InnerStarts /\ UNCHANGED stop
  BY <1>32 DEF InnerStarts
<1>33. CASE ProcExits /\ UNCHANGED stop
  BY <1>33 DEF ProcExits
<1>34. CASE PolicyReports /\ UNCHANGED stop
  BY <1>34 DEF PolicyReports, proc
<1>35. CASE IdRecycled
  BY <1>35 DEF IdRecycled, HasMembers
<1>36. CASE UNCHANGED vars
  BY <1>36 DEF vars
<1> QED
  BY <1>1, <1>2, <1>3, <1>4, <1>5, <1>6, <1>7, <1>8, <1>9, <1>10, <1>11, <1>12,
     <1>13, <1>14, <1>15, <1>16, <1>17, <1>18, <1>19, <1>20, <1>21, <1>22, <1>23,
     <1>24, <1>25, <1>26, <1>27, <1>30, <1>31, <1>32, <1>33, <1>34, <1>35, <1>36,
     <1>28, <1>29
  DEF Next, Worker, Stale, Environment

(* IInv holds of every reachable state. *)
THEOREM Invariance == Spec => []IInv
  BY InitEstablishesIInv, StepPreservesIInv, PTL DEF Spec

(* Every variable keeps its type. *)
THEOREM TypeCorrect == Spec => []TypeOK
<1>1. IInv => TypeOK
  BY DEF IInv
<1> QED
  BY <1>1, Invariance, PTL

(* The registry file lags ctx.active_groups by at most the launch under way. *)
THEOREM RecordedHolds == Spec => []Recorded
<1>1. IInv => Recorded
  BY DEF IInv
<1> QED
  BY <1>1, Invariance, PTL

(* No process group is lost except in the three ways `escaped' records. *)
THEOREM AccountedForHolds == Spec => []AccountedFor
<1>1. IInv => AccountedFor
  BY DEF IInv
<1> QED
  BY <1>1, Invariance, PTL

(* What is alive is in the registry file, but for the named exceptions.      *)
THEOREM NamedHolds == Spec => []Named
<1>1. Recorded /\ AccountedFor => Named
  BY DEF Named
<1> QED
  BY <1>1, RecordedHolds, AccountedForHolds, PTL

(* Exit code 0 is only returned after every trial succeeded and was torn down. *)
THEOREM CleanExitHolds == Spec => []CleanExit
<1>1. IInv => CleanExit
  BY DEF IInv, Reported, CleanExit
<1> QED
  BY <1>1, Invariance, PTL

(* A surviving group of an earlier trial means that trial is in failed_indices. *)
THEOREM RemnantReportedHolds == Spec => []RemnantReported
<1>1. IInv => RemnantReported
  BY CollectorAssumption
  DEF IInv, TypeOK, BornOK, Reported, RemnantReported, Ahead, OfTrial, G, Groups,
      Kinds, Trials
<1> QED
  BY <1>1, Invariance, PTL

(* Policy and recorder are down before the simulator of the trial is stopped. *)
THEOREM TeardownOrderHolds == Spec => []TeardownOrder
<1>1. IInv => TeardownOrder
  BY DEF IInv, TornDown, TeardownOrder, Held, InFlight, Running, Body, Ignoring
<1> QED
  BY <1>1, Invariance, PTL

(* A later --cleanup whose kills succeed leaves nothing of what was registered. *)
THEOREM StaleCleansHolds == Spec => []StaleCleans
<1>1. IInv => StaleCleans
  BY DEF IInv
<1> QED
  BY <1>1, Invariance, PTL

(* However often --cleanup runs, the only strangers it signals took the id while
   its former owner, whose marker had been checked, was being stopped. *)
THEOREM StaleSparesStrangersHolds == Spec => []StaleSparesStrangers
<1>1. IInv => StaleSparesStrangers
  BY DEF IInv, AimOK
<1> QED
  BY <1>1, Invariance, PTL

-----------------------------------------------------------------------------
(* The participant's node. *)


(* No goal has been requested: every part of the invariant starts out true. *)
LEMMA NodeInitially == NodeInit => NodeInv
<1> SUFFICES ASSUME NodeInit PROVE NodeInv
  OBVIOUS
<1>1. NodeTypeOK
  <2>0. isActive \in BOOLEAN
    BY DEF NodeInit
  <2>1. transitions \in 0..MaxTransitions
    BY AicModelAssumption DEF NodeInit
  <2>2. /\ status \in [Goals -> {"none"} \cup Active \cup Terminal]
        /\ request \in [Goals -> {"none", "accept", "done"}]
        /\ loop \in [Goals -> LoopPc] /\ thread \in [Goals -> {"none", "run", "done"}]
    BY DEF NodeInit, Active, Terminal, LoopPc
  <2>3. /\ handle \in Goals \cup {Nobody} /\ actionThread \in Goals \cup {Nobody}
        /\ shared \in Answers /\ answer \in [Goals -> Answers]
        /\ reported \in [Goals -> Answers]
    BY DEF NodeInit, Answers
  <2> QED
    BY <2>0, <2>1, <2>2, <2>3 DEF NodeInit, NodeTypeOK
<1>2. \A g \in Goals : GoalOK(g)
  BY DEF NodeInit, GoalOK, Active, Terminal
<1>3. \A g \in Goals : SlotOK(g) /\ ResultOK(g)
  BY DEF NodeInit, SlotOK, ResultOK, Busy, Started
<1> QED
  BY <1>1, <1>2, <1>3 DEF NodeInv

(* Each loop step moves one goal; what it must keep is that goal's own record
   (GoalOK), who owns the node's slots (SlotOK) and who wrote them (ResultOK). *)
LEMMA NodeInductive == NodeInv /\ [NodeNext]_nodeVars => NodeInv'
<1> SUFFICES ASSUME NodeInv, [NodeNext]_nodeVars PROVE NodeInv'
  OBVIOUS
<1> USE AicModelAssumption
    DEF NodeInv, NodeTypeOK, GoalOK, SlotOK, ResultOK, Busy, CutOff, Started, Answers,
        LoopPc, Active, Terminal, Goto, node
<1>1. CASE Lifecycle
  <2>1. UNCHANGED <<status, request, handle, loop, thread, actionThread, shared,
                    answer, reported>>
    BY <1>1 DEF Lifecycle, OnConfigure, OnActivate, OnDeactivate, OnCleanup,
                OnShutdown, Transition
  <2>2. NodeTypeOK'
    <3>1. transitions' \in 0..MaxTransitions
      BY <1>1 DEF Lifecycle, OnConfigure, OnActivate, OnDeactivate, OnCleanup,
                  OnShutdown, Transition
    <3>2. isActive' \in BOOLEAN
      BY <1>1 DEF Lifecycle, OnConfigure, OnActivate, OnDeactivate, OnCleanup,
                  OnShutdown, Transition
    <3>3. life' \in {"unconfigured", "inactive", "active", "finalized"}
      BY <1>1 DEF Lifecycle, OnConfigure, OnActivate, OnDeactivate, OnCleanup,
                  OnShutdown, Transition
    <3> QED
      BY <2>1, <3>1, <3>2, <3>3
  <2> QED
    BY <2>1, <2>2
<1>2. CASE CancelTask
  BY <1>2 DEF CancelTask
<1>3. ASSUME NEW g \in Goals, GoalCallback(g) PROVE NodeInv'
  BY <1>3 DEF GoalCallback, MaySend
<1>4. ASSUME NEW g \in Goals, AcceptedGoalCallback(g) PROVE NodeInv'
  BY <1>4 DEF AcceptedGoalCallback
<1>5. ASSUME NEW g \in Goals, CancelRequest(g) PROVE NodeInv'
  BY <1>5 DEF CancelRequest
<1>6. ASSUME NEW g \in Goals, StartThread(g) PROVE NodeInv'
  BY <1>6 DEF StartThread
<1>7. ASSUME NEW g \in Goals, CheckCancel(g) PROVE NodeInv'
  BY <1>7 DEF CheckCancel, CancelRequested
<1>8. ASSUME NEW g \in Goals, Canceled(g) PROVE NodeInv'
  BY <1>8 DEF Canceled
<1>9. ASSUME NEW g \in Goals, ClearHandle(g) PROVE NodeInv'
  BY <1>9 DEF ClearHandle
<1>10. ASSUME NEW g \in Goals, CheckActive(g) PROVE NodeInv'
  BY <1>10 DEF CheckActive
<1>11. ASSUME NEW g \in Goals, CheckThread(g) PROVE NodeInv'
  BY <1>11 DEF CheckThread
<1>12. ASSUME NEW g \in Goals, Succeed(g) PROVE NodeInv'
  BY <1>12 DEF Succeed
<1>13. ASSUME NEW g \in Goals, Answer(g) PROVE NodeInv'
  BY <1>13 DEF Answer
<1>14. ASSUME NEW g \in Goals, Return(g) PROVE NodeInv'
  <2>1. NodeTypeOK'
    BY <1>14 DEF Return
  <2>2. ASSUME NEW h \in Goals PROVE GoalOK(h)'
    BY <1>14 DEF Return
  <2>3. ASSUME NEW h \in Goals, Client = "sequential" PROVE SlotOK(h)'
    BY <1>14, <2>3 DEF Return
  <2>4. ASSUME NEW h \in Goals, Client = "sequential" PROVE ResultOK(h)'
    BY <1>14, <2>4 DEF Return
  <2> QED
    BY <2>1, <2>2, <2>3, <2>4
<1>15. ASSUME NEW g \in Goals, PolicyEnds(g) PROVE NodeInv'
  BY <1>15 DEF PolicyEnds, AsSuccess
<1>16. CASE UNCHANGED nodeVars
  BY <1>16 DEF nodeVars
<1>17. QED
  BY <1>1, <1>2, <1>3, <1>4, <1>5, <1>6, <1>7, <1>8, <1>9,
     <1>10, <1>11, <1>12, <1>13, <1>14, <1>15, <1>16 DEF NodeNext, LoopStep

(* The invariant holds in every reachable state. *)
THEOREM NodeInvariance == NodeSpec => []NodeInv
<1> QED
  BY NodeInitially, NodeInductive, PTL DEF NodeSpec

(* Every variable keeps its type. *)
THEOREM NodeTypeCorrect == NodeSpec => []NodeTypeOK
<1>1. NodeInv => NodeTypeOK
  BY DEF NodeInv
<1> QED
  BY <1>1, NodeInvariance, PTL

(* success = True is only sent for a goal that reached SUCCEEDED. *)
THEOREM SuccessIsRealHolds == NodeSpec => []SuccessIsReal
<1>1. NodeInv => SuccessIsReal
  BY DEF NodeInv, GoalOK, SuccessIsReal
<1> QED
  BY <1>1, NodeInvariance, PTL

(* A sequential client receives its own policy's answer unless an earlier goal
   was canceled or aborted and its policy thread left running. *)
THEOREM OwnResultHolds == NodeSpec => []OwnResultUnlessCutShort
<1>1. NodeInv => OwnResultUnlessCutShort
  BY DEF NodeInv, ResultOK, CutOff, OwnResultUnlessCutShort
<1> QED
  BY <1>1, NodeInvariance, PTL

(* The active node accepts every goal of a sequential client: the handle it may
   have kept belongs to a goal that is not active any more. *)
THEOREM NeverLockedOutHolds == NodeSpec => NeverLockedOut
<1> DEFINE Refuses(g) == /\ Client = "sequential" /\ isActive
                         /\ request[g] = "none" /\ request'[g] # "none"
                         /\ request'[g] # "accept"
<1>1. ASSUME NodeInv, NodeNext, NEW g \in Goals, Refuses(g) PROVE FALSE
  <2>1. GoalCallback(g)
    <3>1. CASE Lifecycle \/ CancelTask
      BY <1>1, <3>1 DEF Lifecycle, OnConfigure, OnActivate, OnDeactivate, OnCleanup,
                        OnShutdown, Transition, CancelTask
    <3>2. ASSUME NEW h \in Goals, GoalCallback(h) \/ AcceptedGoalCallback(h)
          PROVE GoalCallback(g)
      BY <1>1, <3>2 DEF GoalCallback, AcceptedGoalCallback, NodeInv, NodeTypeOK
    <3>3. ASSUME NEW h \in Goals, CancelRequest(h) \/ LoopStep(h) \/ PolicyEnds(h)
          PROVE FALSE
      BY <1>1, <3>3 DEF CancelRequest, LoopStep, StartThread, CheckCancel, Canceled,
         ClearHandle, CheckActive, CheckThread, Succeed, Answer, Return, PolicyEnds
    <3> QED
      BY <1>1, <3>1, <3>2, <3>3 DEF NodeNext
  <2>2. ~GoalFree
    BY <1>1, <2>1 DEF GoalCallback, NodeInv, NodeTypeOK
  <2>3. handle \in Goals /\ status[handle] \in Active
    BY <1>1, <2>2 DEF GoalFree, NodeInv, NodeTypeOK
  <2>4. loop[handle] \notin {"none", "returned"} /\ handle # g
    BY <1>1, <2>3 DEF NodeInv, GoalOK, Active
  <2> QED
    BY <1>1, <2>1, <2>3, <2>4 DEF GoalCallback, MaySend
<1>2. NodeInv /\ [NodeNext]_nodeVars => [\A g \in Goals : ~Refuses(g)]_nodeVars
  BY <1>1
<1>3. [\A g \in Goals : ~Refuses(g)]_nodeVars
        => [\A g \in Goals : /\ Client = "sequential" /\ isActive
                             /\ request[g] = "none" /\ request'[g] # "none"
              => request'[g] = "accept"]_nodeVars
  OBVIOUS
<1> QED
  BY <1>2, <1>3, NodeInvariance, PTL DEF NodeSpec, NeverLockedOut

-----------------------------------------------------------------------------
(* The simulated scene. *)

(***************************************************************************)
(* The inductive invariant.                                                 *)
(***************************************************************************)
NoCable == {"deactivating", "resetting", "activating", "done", "board", "cable"}

\* Removals are requested and carried out within an iteration; a removed cable's
\* plugin has cleaned up; the board in the world is that of a trial begun.
WorldOK ==
  /\ phase = "commands" => dying = {}
  /\ phase \in {"commands", "cable"} => doomed = {}
  /\ eng \in NoCable => cable = 0
  /\ cable = 0 \/ ("cable" \in dying /\ phase # "cable") => cableState = "CABLE_REMOVED"
  /\ IF eng = "done" THEN round = NRounds + 1 ELSE round \in Rounds

\* What the plugin remembers in each state ...
HandlesOK ==
  /\ cableState \in {"HARNESS", "CREATE_CONNECTIONS", "ATTACH_CABLE_TO_PORT"}
       => joint0 = "none" /\ ~static
  /\ cableState = "WAITING" => joint0 = "none" /\ static
  /\ cableState = "CABLE_ATTACHED_TO_GRIPPER" => joint0 = "grip" /\ ~static
  /\ cableState \notin {"COMPLETED", "CABLE_REMOVED"} => event = 0

\* ... accounts for all it has made and not yet asked to be removed.
HeldOK ==
  /\ made \subseteq doomed \cup (IF cableState = "CABLE_REMOVED" THEN {} ELSE HeldEntities)
  /\ ~({[joint |-> "grip"], [joint |-> "connection_0"]} \subseteq made)
  /\ cableState = "WAITING" => doomed = {} /\ Joints(Connections) \subseteq made
  /\ cableState = "CABLE_ATTACHED_TO_GRIPPER" => doomed = {} /\ Joints({"grip"}) \subseteq made

\* The controller is only switched on when every reset asked for has been applied.
HomeOK ==
  /\ controller \/ (\E i \in 1..Len(switches) : switches[i]) => resets = 0
  /\ eng = "deactivating" => Len(switches) > 0 /\ ~switches[Len(switches)]
  /\ ~jumped

\* Whatever is watched was there; the names stay open until two were found.
ContactsOK ==
  /\ offLimitEntities \subseteq {Enclosure} \cup 1..round
  /\ offLimitEntities # {} => Enclosure \in offLimitEntities
  /\ board # 0 => board = round
  /\ eng \in (NoCable \ {"cable"}) \cup {"deactivate"} => board = 0
  /\ eng = "delete_cable" => board = 0 \/ "board" \in dying
  /\ FirstContactsSeen

SceneInv == SceneTypeOK /\ WorldOK /\ HandlesOK /\ HeldOK /\ HomeOK /\ ContactsOK

(* No world, no request, nothing made: every part of the invariant starts out true. *)
LEMMA SceneInitially == SceneInit => SceneInv
<1> SUFFICES ASSUME SceneInit PROVE SceneInv
  OBVIOUS
<1> USE GzSceneAssumption DEF SceneInit
<1>1. SceneTypeOK
  <2>1. /\ round \in 1..(NRounds + 1) /\ board \in 0..NRounds /\ cable \in 0..NRounds
        /\ resets \in Nat /\ slow \in 0..MaxSlow /\ event \in 0..1
    OBVIOUS
  <2>2. switches \in Seq(BOOLEAN)
    OBVIOUS
  <2>3. /\ static \in BOOLEAN /\ touched \in BOOLEAN /\ subscribed \in BOOLEAN
        /\ published \in BOOLEAN /\ controller \in BOOLEAN /\ jumped \in BOOLEAN
    OBVIOUS
  <2>4. /\ made \subseteq Entities /\ doomed \subseteq made /\ dying \subseteq {"board", "cable"}
        /\ offLimitEntities \subseteq OffLimitModels /\ contact \subseteq OffLimitModels
    OBVIOUS
  <2> QED
    BY <2>1, <2>2, <2>3, <2>4 DEF SceneTypeOK
<1>2. WorldOK /\ HandlesOK /\ HeldOK /\ HomeOK
  BY DEF WorldOK, NoCable, Rounds, HandlesOK, HeldOK, HomeOK
<1>3. ContactsOK
  BY DEF ContactsOK, FirstContactsSeen
<1> QED
  BY <1>1, <1>2, <1>3 DEF SceneInv

(* What a plugin makes are entities, and no joint is another or a static model. *)
LEMMA EntityFacts ==
  /\ Joints(Links \cup {"grip"}) \subseteq Entities /\ Static(Links) \subseteq Entities
  /\ Joints(Connections) \subseteq Joints(Links \cup {"grip"})
  /\ Joints(Links) \subseteq Joints(Links \cup {"grip"})
  /\ Joints({"grip"}) \subseteq Joints(Links \cup {"grip"})
  /\ Joints({"end_effector"}) \subseteq Joints(Links \cup {"grip"})
  /\ Static(Connections) \subseteq Static(Links)
  /\ Joints(Links) = Joints(Connections) \cup Joints({"end_effector"})
  BY DEF Entities, Joints, Static, Links, Connections

(* The joint that holds the plug to the gripper is none of those that hold it in place. *)
LEMMA JointFacts ==
  /\ [joint |-> "connection_0"] \in Joints(Connections)
  /\ [joint |-> "connection_0"] \notin Joints({"grip"})
  /\ [joint |-> "grip"] \in Joints({"grip"}) /\ [joint |-> "grip"] \notin Joints(Links)
  BY DEF Joints, Links, Connections

(* A static model is not a joint. *)
LEMMA JointNoStatic ==
  /\ [joint |-> "grip"] \notin Static(Links) /\ [joint |-> "connection_0"] \notin Static(Links)
  BY DEF Static, Links, Connections

(* A request is added at the end of the queue, and nothing else of it changes. *)
LEMMA RequestsOK ==
  ASSUME NEW s \in Seq(BOOLEAN), NEW b \in BOOLEAN
  PROVE  /\ <<>> \in Seq(BOOLEAN) /\ Append(s, b) \in Seq(BOOLEAN)
         /\ Len(Append(s, b)) = Len(s) + 1 /\ Append(s, b)[Len(s) + 1] = b
         /\ \A i \in 1..Len(s) : Append(s, b)[i] = s[i]
  OBVIOUS

(* No command, plugin or answer changes the type of anything. *)
LEMMA StepSceneTypeOK == SceneInv /\ [SceneNext]_sceneVars => SceneTypeOK'
<1> SUFFICES ASSUME SceneInv, [SceneNext]_sceneVars PROVE SceneTypeOK'
  OBVIOUS
<1> USE GzSceneAssumption DEF SceneInv, SceneTypeOK, WorldOK, HandlesOK, Rounds, OffLimitModels, engineVars, worldVars, cableVars, contactVars, homeVars
<1>1. CASE NoCommand
  BY <1>1 DEF NoCommand
<1>2. CASE SpawnBoard
  BY <1>2 DEF SpawnBoard, Command
<1>3. CASE SpawnCable
  <2>1. cable' \in 0..NRounds
    BY <1>3 DEF SpawnCable, Command
  <2>2. /\ event' = 0 /\ cableState' = "HARNESS" /\ joint0' = "none"
        /\ static' = FALSE /\ touched' = FALSE /\ subscribed' = FALSE
    BY <1>3, Zenon DEF SpawnCable, NoPlugin
  <2>3. UNCHANGED <<round, board, dying, made, doomed, contactVars, homeVars>>
    BY <1>3 DEF SpawnCable, Command
  <2>4. eng' = "run" /\ phase' = "cable"
    BY <1>3 DEF SpawnCable, Command
  <2>5. static' \in BOOLEAN /\ touched' \in BOOLEAN /\ subscribed' \in BOOLEAN
    BY <2>2, Zenon
  <2>6. event' \in 0..1
    BY <2>2
  <2>7. made' \subseteq Entities /\ doomed' \subseteq made'
    BY <2>3
  <2> QED
    BY <2>1, <2>2, <2>3, <2>4, <2>5, <2>6, <2>7
<1>4. CASE DeleteBoard
  BY <1>4 DEF DeleteBoard, Command
<1>5. CASE DeleteCable
  BY <1>5 DEF DeleteCable, Command
<1>6. CASE EndTrial
  BY <1>6 DEF EndTrial
<1>7. CASE CablePreUpdate
  <2>1. CASE Cleanup
    BY <1>7, <2>1 DEF CablePreUpdate, Cleanup, RequestRemove, HeldEntities
  <2>2. CASE Harness
    <3>1. made' \subseteq Entities /\ doomed' \subseteq made'
      BY <1>7, <2>2, EntityFacts DEF HeldOK, CablePreUpdate, Harness, In, MakeStatic, RequestRemove
    <3>2. event' \in 0..1
      BY <1>7, <2>2 DEF HandlesOK, CablePreUpdate, Harness, In, MakeStatic, RequestRemove
    <3> QED
      BY <3>1, <3>2, <1>7, <2>2 DEF CablePreUpdate, Harness, In, MakeStatic, RequestRemove
  <2>3. CASE Waiting
    <3>1. made' \subseteq Entities /\ doomed' \subseteq made'
      BY <1>7, <2>3, EntityFacts DEF HeldOK, CablePreUpdate, Waiting, In, RequestRemove
    <3>2. event' \in 0..1
      BY <1>7, <2>3 DEF HandlesOK, CablePreUpdate, Waiting, In, RequestRemove
    <3> QED
      BY <3>1, <3>2, <1>7, <2>3 DEF CablePreUpdate, Waiting, In, RequestRemove
  <2>4. CASE CreateConnections
    <3>1. made' \subseteq Entities /\ doomed' \subseteq made'
      BY <1>7, <2>4, EntityFacts DEF HeldOK, CablePreUpdate, CreateConnections, In
    <3>2. event' \in 0..1
      BY <1>7, <2>4 DEF HandlesOK, CablePreUpdate, CreateConnections, In
    <3> QED
      BY <3>1, <3>2, <1>7, <2>4 DEF CablePreUpdate, CreateConnections, In
  <2>5. CASE Release
    <3>1. made' \subseteq Entities /\ doomed' \subseteq made'
      BY <1>7, <2>5, EntityFacts DEF HeldOK, CablePreUpdate, Release, In, RequestRemove
    <3>2. event' \in 0..1
      BY <1>7, <2>5 DEF HandlesOK, CablePreUpdate, Release, In, RequestRemove
    <3> QED
      BY <3>1, <3>2, <1>7, <2>5 DEF CablePreUpdate, Release, In, RequestRemove
  <2>6. CASE AwaitTouch
    BY <1>7, <2>6 DEF CablePreUpdate, AwaitTouch, In
  <2>7. CASE AttachToPort
    <3>1. made' \subseteq Entities /\ doomed' \subseteq made'
      BY <1>7, <2>7, EntityFacts DEF HeldOK, CablePreUpdate, AttachToPort, In, MakeStatic
    <3>2. event' \in 0..1
      BY <1>7, <2>7 DEF HandlesOK, CablePreUpdate, AttachToPort, In, MakeStatic
    <3> QED
      BY <3>1, <3>2, <1>7, <2>7 DEF CablePreUpdate, AttachToPort, In, MakeStatic
  <2>8. CASE Idle
    BY <1>7, <2>8 DEF CablePreUpdate, Idle, In
  <2> QED
    BY <1>7, <2>1, <2>2, <2>3, <2>4, <2>5, <2>6, <2>7, <2>8 DEF CablePreUpdate
<1>8. CASE Touch
  BY <1>8 DEF Touch
<1>9. CASE ContactsPreUpdate
  <2>1. board # 0 => board \in Rounds
    OBVIOUS
  <2>2. offLimitEntities' \subseteq OffLimitModels
    BY <1>9, <2>1 DEF ContactsPreUpdate, TrackedEntities, Resolved
  <2>3. contact' \subseteq OffLimitModels /\ published' \in BOOLEAN
    BY <1>9, <2>1 DEF ContactsPreUpdate
  <2> QED
    BY <1>9, <2>2, <2>3 DEF ContactsPreUpdate
<1>10. CASE Deactivate
  BY <1>10 DEF Deactivate, Switch
<1>11. CASE Switched
  BY <1>11 DEF Switched, AskReset, NextTrial, Awaited
<1>12. CASE HomeFails
  <2>1. slow' \in 0..MaxSlow
    BY <1>12 DEF HomeFails
  <2>2. /\ round' \in 1..(NRounds + 1) /\ eng' \in {"board", "done"} /\ UNCHANGED resets
    BY <1>12 DEF HomeFails, EndHoming, NextTrial, Awaited
  <2>3. switches' = <<>> \/ switches' = switches
    BY <1>12 DEF HomeFails
  <2>4. switches' \in Seq(BOOLEAN)
    BY <2>3, RequestsOK DEF SceneTypeOK
  <2> QED
    BY <1>12, <2>1, <2>2, <2>4 DEF HomeFails
<1>13. CASE ResetPreUpdate
  <2>1. CASE UNCHANGED <<engineVars, homeVars>>
    BY <1>13, <2>1 DEF ResetPreUpdate
  <2>2. CASE /\ resets > 0 /\ resets' = resets - 1 /\ jumped' = (jumped \/ controller)
             /\ IF resets = 1 /\ eng = "resetting"
                THEN eng' = "activating" /\ Switch(TRUE) /\ UNCHANGED round
                ELSE UNCHANGED <<engineVars, switches>>
             /\ UNCHANGED <<controller, slow>>
    <3>1. resets' \in Nat /\ jumped' \in BOOLEAN
      BY <2>2
    <3>2. eng' \in {eng, "activating"} /\ round' = round
      BY <2>2
    <3>3. switches' = Append(switches, TRUE) \/ switches' = switches
      BY <2>2 DEF Switch
    <3>4. switches' \in Seq(BOOLEAN)
      BY <3>3, RequestsOK
    <3> QED
      BY <1>13, <2>2, <3>1, <3>2, <3>4 DEF ResetPreUpdate
  <2> QED
    BY <1>13, <2>1, <2>2 DEF ResetPreUpdate
<1>14. CASE Physics
  BY <1>14 DEF Physics
<1>15. CASE UNCHANGED sceneVars
  BY <1>15 DEF sceneVars
<1> QED
  BY <1>1, <1>2, <1>3, <1>4, <1>5, <1>6, <1>7, <1>8, <1>9, <1>10, <1>11, <1>12, <1>13, <1>14, <1>15 DEF SceneNext, Iteration

(* Removals stay within their iteration, and a removed cable's plugin has cleaned up. *)
LEMMA StepWorldOK == SceneInv /\ [SceneNext]_sceneVars => WorldOK'
<1> SUFFICES ASSUME SceneInv, [SceneNext]_sceneVars PROVE WorldOK'
  OBVIOUS
<1> USE GzSceneAssumption DEF SceneInv, SceneTypeOK, WorldOK, NoCable, Rounds, engineVars, worldVars, cableVars, contactVars, homeVars
<1>1. CASE NoCommand
  BY <1>1 DEF NoCommand
<1>2. CASE SpawnBoard
  BY <1>2 DEF SpawnBoard, Command
<1>3. CASE SpawnCable
  BY <1>3 DEF SpawnCable, Command, NoPlugin
<1>4. CASE DeleteBoard
  BY <1>4 DEF DeleteBoard, Command
<1>5. CASE DeleteCable
  BY <1>5 DEF DeleteCable, Command
<1>6. CASE EndTrial
  BY <1>6 DEF EndTrial
<1>7. CASE CablePreUpdate
  <2>1. CASE Cleanup
    BY <1>7, <2>1 DEF CablePreUpdate, Cleanup, RequestRemove, HeldEntities
  <2>2. CASE Harness
    BY <1>7, <2>2 DEF CablePreUpdate, Harness, In, MakeStatic, RequestRemove
  <2>3. CASE Waiting
    BY <1>7, <2>3 DEF CablePreUpdate, Waiting, In, RequestRemove
  <2>4. CASE CreateConnections
    BY <1>7, <2>4 DEF CablePreUpdate, CreateConnections, In
  <2>5. CASE Release
    BY <1>7, <2>5 DEF CablePreUpdate, Release, In, RequestRemove
  <2>6. CASE AwaitTouch
    BY <1>7, <2>6 DEF CablePreUpdate, AwaitTouch, In
  <2>7. CASE AttachToPort
    BY <1>7, <2>7 DEF CablePreUpdate, AttachToPort, In, MakeStatic
  <2>8. CASE Idle
    BY <1>7, <2>8 DEF CablePreUpdate, Idle, In
  <2> QED
    BY <1>7, <2>1, <2>2, <2>3, <2>4, <2>5, <2>6, <2>7, <2>8 DEF CablePreUpdate
<1>8. CASE Touch
  BY <1>8 DEF Touch
<1>9. CASE ContactsPreUpdate
  BY <1>9 DEF ContactsPreUpdate, TrackedEntities, Resolved
<1>10. CASE Deactivate
  BY <1>10 DEF Deactivate, Switch
<1>11. CASE Switched
  BY <1>11 DEF Switched, AskReset, NextTrial, Awaited
<1>12. CASE HomeFails
  BY <1>12 DEF HomeFails, EndHoming, NextTrial, Awaited
<1>13. CASE ResetPreUpdate
  BY <1>13 DEF ResetPreUpdate, Switch
<1>14. CASE Physics
  BY <1>14 DEF Physics
<1>15. CASE UNCHANGED sceneVars
  BY <1>15 DEF sceneVars
<1> QED
  BY <1>1, <1>2, <1>3, <1>4, <1>5, <1>6, <1>7, <1>8, <1>9, <1>10, <1>11, <1>12, <1>13, <1>14, <1>15 DEF SceneNext, Iteration

(* In every state of the plugin its handles are those that state made. *)
LEMMA StepHandlesOK == SceneInv /\ [SceneNext]_sceneVars => HandlesOK'
<1> SUFFICES ASSUME SceneInv, [SceneNext]_sceneVars PROVE HandlesOK'
  OBVIOUS
<1> USE GzSceneAssumption DEF SceneInv, SceneTypeOK, WorldOK, HandlesOK, engineVars, worldVars, cableVars, contactVars, homeVars
<1>1. CASE NoCommand
  BY <1>1 DEF NoCommand
<1>2. CASE SpawnBoard
  BY <1>2 DEF SpawnBoard, Command
<1>3. CASE SpawnCable
  BY <1>3 DEF SpawnCable, Command, NoPlugin
<1>4. CASE DeleteBoard
  BY <1>4 DEF DeleteBoard, Command
<1>5. CASE DeleteCable
  BY <1>5 DEF DeleteCable, Command
<1>6. CASE EndTrial
  BY <1>6 DEF EndTrial
<1>7. CASE CablePreUpdate
  <2>1. CASE Cleanup
    BY <1>7, <2>1 DEF CablePreUpdate, Cleanup, RequestRemove, HeldEntities
  <2>2. CASE Harness
    BY <1>7, <2>2 DEF CablePreUpdate, Harness, In, MakeStatic, RequestRemove
  <2>3. CASE Waiting
    BY <1>7, <2>3 DEF CablePreUpdate, Waiting, In, RequestRemove
  <2>4. CASE CreateConnections
    BY <1>7, <2>4 DEF CablePreUpdate, CreateConnections, In
  <2>5. CASE Release
    BY <1>7, <2>5 DEF CablePreUpdate, Release, In, RequestRemove
  <2>6. CASE AwaitTouch
    BY <1>7, <2>6 DEF CablePreUpdate, AwaitTouch, In
  <2>7. CASE AttachToPort
    BY <1>7, <2>7 DEF CablePreUpdate, AttachToPort, In, MakeStatic
  <2>8. CASE Idle
    BY <1>7, <2>8 DEF CablePreUpdate, Idle, In
  <2> QED
    BY <1>7, <2>1, <2>2, <2>3, <2>4, <2>5, <2>6, <2>7, <2>8 DEF CablePreUpdate
<1>8. CASE Touch
  BY <1>8 DEF Touch
<1>9. CASE ContactsPreUpdate
  BY <1>9 DEF ContactsPreUpdate, TrackedEntities, Resolved
<1>10. CASE Deactivate
  BY <1>10 DEF Deactivate, Switch
<1>11. CASE Switched
  BY <1>11 DEF Switched, AskReset, NextTrial, Awaited
<1>12. CASE HomeFails
  BY <1>12 DEF HomeFails, EndHoming, NextTrial, Awaited
<1>13. CASE ResetPreUpdate
  BY <1>13 DEF ResetPreUpdate, Switch
<1>14. CASE Physics
  BY <1>14 DEF Physics
<1>15. CASE UNCHANGED sceneVars
  BY <1>15 DEF sceneVars
<1> QED
  BY <1>1, <1>2, <1>3, <1>4, <1>5, <1>6, <1>7, <1>8, <1>9, <1>10, <1>11, <1>12, <1>13, <1>14, <1>15 DEF SceneNext, Iteration

(* Whatever the plugin made it still remembers or has asked to be removed. *)
LEMMA StepHeldOK == SceneInv /\ [SceneNext]_sceneVars => HeldOK'
<1> SUFFICES ASSUME SceneInv, [SceneNext]_sceneVars PROVE HeldOK'
  OBVIOUS
<1> USE GzSceneAssumption DEF SceneInv, SceneTypeOK, WorldOK, HandlesOK, HeldOK, HeldEntities, engineVars, worldVars, cableVars, contactVars, homeVars
<1>1. CASE NoCommand
  BY <1>1 DEF NoCommand
<1>2. CASE SpawnBoard
  BY <1>2 DEF SpawnBoard, Command
<1>3. CASE SpawnCable
  <2>1. made = {}
    BY <1>3 DEF SpawnCable, Command, NoCable
  <2> QED
    BY <1>3, <2>1 DEF SpawnCable, NoPlugin
<1>4. CASE DeleteBoard
  BY <1>4 DEF DeleteBoard, Command
<1>5. CASE DeleteCable
  BY <1>5 DEF DeleteCable, Command
<1>6. CASE EndTrial
  BY <1>6 DEF EndTrial
<1>7. CASE CablePreUpdate
  <2>1. CASE Cleanup
    BY <1>7, <2>1 DEF CablePreUpdate, Cleanup, RequestRemove, HeldEntities
  <2>2. CASE Harness
    <3>1. made \subseteq Static(Links)
      BY <1>7, <2>2 DEF CablePreUpdate, Harness, In
    <3>2. made' \subseteq Static(Links) \cup Joints(Connections)
      BY <2>2, <3>1, EntityFacts DEF Harness, MakeStatic
    <3>3. [joint |-> "grip"] \notin made'
      BY <3>2, JointFacts, JointNoStatic, EntityFacts
    <3> QED
      BY <1>7, <2>2, <3>2, <3>3 DEF CablePreUpdate, Harness, In, MakeStatic, RequestRemove
  <2>3. CASE Waiting
    BY <1>7, <2>3 DEF CablePreUpdate, Waiting, In, RequestRemove
  <2>4. CASE CreateConnections
    <3>1. made \subseteq Static(Links)
      BY <1>7, <2>4 DEF CablePreUpdate, CreateConnections, In
    <3>2. made' = made \cup Joints({"grip"}) /\ joint0' = "grip" /\ doomed' = {}
      BY <1>7, <2>4 DEF CablePreUpdate, CreateConnections
    <3>3. [joint |-> "connection_0"] \notin made'
      BY <3>1, <3>2, JointFacts, JointNoStatic
    <3> QED
      BY <2>4, <3>1, <3>2, <3>3 DEF CreateConnections
  <2>5. CASE Release
    BY <1>7, <2>5 DEF CablePreUpdate, Release, In, RequestRemove
  <2>6. CASE AwaitTouch
    BY <1>7, <2>6 DEF CablePreUpdate, AwaitTouch, In
  <2>7. CASE AttachToPort
    <3>1. made \subseteq Static(Links)
      BY <1>7, <2>7 DEF CablePreUpdate, AttachToPort, In
    <3>2. made' \subseteq Static(Links) \cup Joints(Links)
      BY <2>7, <3>1 DEF AttachToPort, MakeStatic
    <3>3. [joint |-> "grip"] \notin made'
      BY <3>2, JointFacts, JointNoStatic
    <3>4. HeldEntities' = Static(Links) \cup Joints(Links)
      BY <2>7, EntityFacts DEF AttachToPort
    <3> QED
      BY <2>7, <3>2, <3>3, <3>4 DEF AttachToPort
  <2>8. CASE Idle
    BY <1>7, <2>8 DEF CablePreUpdate, Idle, In
  <2> QED
    BY <1>7, <2>1, <2>2, <2>3, <2>4, <2>5, <2>6, <2>7, <2>8 DEF CablePreUpdate
<1>8. CASE Touch
  BY <1>8 DEF Touch
<1>9. CASE ContactsPreUpdate
  BY <1>9 DEF ContactsPreUpdate, TrackedEntities, Resolved
<1>10. CASE Deactivate
  BY <1>10 DEF Deactivate, Switch
<1>11. CASE Switched
  BY <1>11 DEF Switched, AskReset, NextTrial, Awaited
<1>12. CASE HomeFails
  BY <1>12 DEF HomeFails, EndHoming, NextTrial, Awaited
<1>13. CASE ResetPreUpdate
  BY <1>13 DEF ResetPreUpdate, Switch
<1>14. CASE Physics
  BY <1>14 DEF Physics
<1>15. CASE UNCHANGED sceneVars
  BY <1>15 DEF sceneVars
<1> QED
  BY <1>1, <1>2, <1>3, <1>4, <1>5, <1>6, <1>7, <1>8, <1>9, <1>10, <1>11, <1>12, <1>13, <1>14, <1>15 DEF SceneNext, Iteration

(* No late answer or request lets a joint reset meet an active controller. *)
LEMMA StepHomeOK == SceneInv /\ [SceneNext]_sceneVars => HomeOK'
<1> SUFFICES ASSUME SceneInv, [SceneNext]_sceneVars PROVE HomeOK'
  OBVIOUS
<1> USE GzSceneAssumption DEF SceneInv, SceneTypeOK, HomeOK, engineVars, worldVars, cableVars, contactVars, homeVars
<1>1. CASE NoCommand
  BY <1>1 DEF NoCommand
<1>2. CASE SpawnBoard
  BY <1>2 DEF SpawnBoard, Command
<1>3. CASE SpawnCable
  BY <1>3 DEF SpawnCable, Command, NoPlugin
<1>4. CASE DeleteBoard
  BY <1>4 DEF DeleteBoard, Command
<1>5. CASE DeleteCable
  BY <1>5 DEF DeleteCable, Command
<1>6. CASE EndTrial
  BY <1>6 DEF EndTrial
<1>7. CASE CablePreUpdate
  <2>1. CASE Cleanup
    BY <1>7, <2>1 DEF CablePreUpdate, Cleanup, RequestRemove, HeldEntities
  <2>2. CASE Harness
    BY <1>7, <2>2 DEF CablePreUpdate, Harness, In, MakeStatic, RequestRemove
  <2>3. CASE Waiting
    BY <1>7, <2>3 DEF CablePreUpdate, Waiting, In, RequestRemove
  <2>4. CASE CreateConnections
    BY <1>7, <2>4 DEF CablePreUpdate, CreateConnections, In
  <2>5. CASE Release
    BY <1>7, <2>5 DEF CablePreUpdate, Release, In, RequestRemove
  <2>6. CASE AwaitTouch
    BY <1>7, <2>6 DEF CablePreUpdate, AwaitTouch, In
  <2>7. CASE AttachToPort
    BY <1>7, <2>7 DEF CablePreUpdate, AttachToPort, In, MakeStatic
  <2>8. CASE Idle
    BY <1>7, <2>8 DEF CablePreUpdate, Idle, In
  <2> QED
    BY <1>7, <2>1, <2>2, <2>3, <2>4, <2>5, <2>6, <2>7, <2>8 DEF CablePreUpdate
<1>8. CASE Touch
  BY <1>8 DEF Touch
<1>9. CASE ContactsPreUpdate
  BY <1>9 DEF ContactsPreUpdate, TrackedEntities, Resolved
<1>10. CASE Deactivate
  BY <1>10 DEF Deactivate, Switch
<1>11. CASE Switched
  <2>1. /\ switches \in Seq(BOOLEAN) /\ Len(switches) > 0 /\ controller' = switches[1]
        /\ switches' = Tail(switches) /\ UNCHANGED jumped
    BY <1>11 DEF Switched
  <2>2. /\ Len(switches') = Len(switches) - 1
        /\ \A i \in 1..Len(switches') : switches'[i] = switches[i + 1] /\ i + 1 \in 1..Len(switches)
    BY <2>1
  <2>3. CASE Awaited /\ eng = "deactivating" /\ AskReset
    <3>1. ~switches[1] /\ Len(switches') = 0 /\ eng' = "resetting"
      BY <2>2, <2>3 DEF Awaited, AskReset
    <3> QED
      BY <2>1, <3>1
  <2>4. CASE Awaited /\ eng = "activating" /\ NextTrial /\ UNCHANGED resets
    BY <2>1, <2>2, <2>4 DEF Awaited, NextTrial
  <2>5. CASE ~Awaited /\ UNCHANGED <<engineVars, resets>>
    <3>1. controller' \/ (\E i \in 1..Len(switches') : switches'[i]) => resets' = 0
      BY <2>1, <2>2, <2>5
    <3>2. eng' = "deactivating" => Len(switches') > 0 /\ ~switches'[Len(switches')]
      <4>1. SUFFICES ASSUME eng = "deactivating" PROVE Len(switches') > 0 /\ ~switches'[Len(switches')]
        BY <2>5
      <4>2. Len(switches) \in Nat /\ Len(switches) > 1
        <5>1. Len(switches) # 1
          BY <2>5, <4>1, Zenon DEF Awaited
        <5>2. Len(switches) \in Nat /\ Len(switches) > 0
          BY <2>1
        <5>3. \A n \in Nat : n > 0 /\ n # 1 => n > 1
          BY SMT
        <5> QED
          BY <5>1, <5>2, <5>3, Zenon
      <4>3. Len(switches') \in 1..Len(switches') /\ Len(switches') + 1 = Len(switches)
        BY <2>2, <4>2
      <4> QED
        BY <2>2, <4>1, <4>3
    <3> QED
      BY <2>1, <3>1, <3>2
  <2> QED
    BY <1>11, <2>3, <2>4, <2>5 DEF Switched
<1>12. CASE HomeFails
  BY <1>12 DEF HomeFails, EndHoming, NextTrial, Awaited
<1>13. CASE ResetPreUpdate
  <2>1. CASE UNCHANGED <<engineVars, homeVars>>
    BY <2>1
  <2>2. CASE /\ resets > 0 /\ resets' = resets - 1 /\ jumped' = (jumped \/ controller)
             /\ UNCHANGED controller
             /\ IF resets = 1 /\ eng = "resetting"
                THEN eng' = "activating" /\ Switch(TRUE) ELSE UNCHANGED <<eng, switches>>
    <3>1. ~controller /\ ~jumped' /\ \A i \in 1..Len(switches) : ~switches[i]
      BY <2>2
    <3>2. CASE resets = 1 /\ eng = "resetting"
      <4>1. switches' = Append(switches, TRUE) /\ eng' = "activating"
        BY <2>2, <3>2, Zenon DEF Switch
      <4>2. resets' = 0
        BY <2>2, <3>2
      <4> QED
        BY <3>1, <4>1, <4>2
    <3>3. CASE ~(resets = 1 /\ eng = "resetting")
      <4>1. UNCHANGED <<eng, switches, controller>>
        BY <2>2, <3>3
      <4> QED
        BY <2>2, <3>1, <4>1
    <3> QED
      BY <3>2, <3>3
  <2> QED
    BY <1>13, <2>1, <2>2 DEF ResetPreUpdate
<1>14. CASE Physics
  BY <1>14 DEF Physics
<1>15. CASE UNCHANGED sceneVars
  BY <1>15 DEF sceneVars
<1> QED
  BY <1>1, <1>2, <1>3, <1>4, <1>5, <1>6, <1>7, <1>8, <1>9, <1>10, <1>11, <1>12, <1>13, <1>14, <1>15 DEF SceneNext, Iteration

(* Two names found, one of them the enclosure, in the first trial: the other is its board. *)
LEMMA BoardFound ==
  ASSUME NEW S, S \subseteq {0, 1}, Cardinality(S) = 2 PROVE 0 \in S /\ 1 \in S
<1>1. \A x \in {0, 1} : x \notin S => Cardinality(S) <= 1
  <2> SUFFICES ASSUME NEW x \in {0, 1}, x \notin S PROVE Cardinality(S) <= 1
    OBVIOUS
  <2>1. PICK y : S \in SUBSET {y}
    OBVIOUS
  <2>2. IsFiniteSet({y}) /\ Cardinality({y}) = 1
    BY FS_Singleton
  <2>3. Cardinality(S) <= Cardinality({y})
    BY <2>1, <2>2, FS_Subset
  <2> QED
    BY <2>2, <2>3
<1> QED
  BY <1>1

(* What is watched was there, and in the first trial includes whatever is touched. *)
LEMMA StepContactsOK == SceneInv /\ [SceneNext]_sceneVars => ContactsOK'
<1> SUFFICES ASSUME SceneInv, [SceneNext]_sceneVars PROVE ContactsOK'
  OBVIOUS
<1> USE GzSceneAssumption DEF SceneInv, SceneTypeOK, WorldOK, ContactsOK, NoCable, FirstContactsSeen, Rounds, engineVars, worldVars, cableVars, contactVars, homeVars
<1>1. CASE NoCommand
  BY <1>1 DEF NoCommand
<1>2. CASE SpawnBoard
  BY <1>2 DEF SpawnBoard, Command
<1>3. CASE SpawnCable
  BY <1>3 DEF SpawnCable, Command, NoPlugin
<1>4. CASE DeleteBoard
  BY <1>4 DEF DeleteBoard, Command
<1>5. CASE DeleteCable
  BY <1>5 DEF DeleteCable, Command
<1>6. CASE EndTrial
  BY <1>6 DEF EndTrial
<1>7. CASE CablePreUpdate
  <2>1. CASE Cleanup
    BY <1>7, <2>1 DEF CablePreUpdate, Cleanup, RequestRemove, HeldEntities
  <2>2. CASE Harness
    BY <1>7, <2>2 DEF CablePreUpdate, Harness, In, MakeStatic, RequestRemove
  <2>3. CASE Waiting
    BY <1>7, <2>3 DEF CablePreUpdate, Waiting, In, RequestRemove
  <2>4. CASE CreateConnections
    BY <1>7, <2>4 DEF CablePreUpdate, CreateConnections, In
  <2>5. CASE Release
    BY <1>7, <2>5 DEF CablePreUpdate, Release, In, RequestRemove
  <2>6. CASE AwaitTouch
    BY <1>7, <2>6 DEF CablePreUpdate, AwaitTouch, In
  <2>7. CASE AttachToPort
    BY <1>7, <2>7 DEF CablePreUpdate, AttachToPort, In, MakeStatic
  <2>8. CASE Idle
    BY <1>7, <2>8 DEF CablePreUpdate, Idle, In
  <2> QED
    BY <1>7, <2>1, <2>2, <2>3, <2>4, <2>5, <2>6, <2>7, <2>8 DEF CablePreUpdate
<1>8. CASE Touch
  BY <1>8 DEF Touch
<1>9. CASE ContactsPreUpdate
  <2>1. UNCHANGED <<round, board, eng, dying>> /\ round \in Nat /\ phase' = "reset"
    BY <1>9 DEF ContactsPreUpdate
  <2>2. CASE /\ offLimitEntities' = TrackedEntities
             /\ contact' \subseteq {Enclosure} \cup (IF board = 0 THEN {} ELSE {board})
             /\ published' = (contact' \cap offLimitEntities' # {})
    <3>1. offLimitEntities' \subseteq {Enclosure} \cup 1..round
      BY <2>2 DEF TrackedEntities, Resolved
    <3>2. Enclosure \in offLimitEntities'
      <4>1. Cardinality({}) = 0
        BY FS_EmptySet
      <4>2. CASE Cardinality(offLimitEntities) = Names
        <5>1. ASSUME offLimitEntities = {} PROVE FALSE
          <6>1. Cardinality(offLimitEntities) = 0
            BY <4>1, <5>1, Zenon
          <6> QED
            BY <4>2, <6>1 DEF Names
        <5> QED
          BY <2>2, <4>2, <5>1 DEF TrackedEntities, Resolved
      <4>3. CASE Cardinality(offLimitEntities) # Names
        BY <2>2, <4>3 DEF TrackedEntities, Resolved
      <4> QED
        BY <4>2, <4>3
    <3>3. ASSUME 1 \in contact' PROVE 1 \in offLimitEntities'
      <4>1. board = 1 /\ round = 1
        BY <2>2, <3>3 DEF Enclosure
      <4>2. offLimitEntities \subseteq {0, 1}
        BY <4>1 DEF Enclosure
      <4>3. CASE Cardinality(offLimitEntities) = Names
        <5>1. 1 \in offLimitEntities
          BY <4>2, <4>3, BoardFound DEF Names
        <5> QED
          BY <2>2, <4>3, <5>1 DEF TrackedEntities, Resolved
      <4>4. CASE Cardinality(offLimitEntities) # Names
        BY <2>2, <4>1, <4>4 DEF TrackedEntities, Resolved
      <4> QED
        BY <4>3, <4>4
    <3> QED
      BY <2>1, <2>2, <3>1, <3>2, <3>3
  <2>3. CASE UNCHANGED offLimitEntities /\ contact' = {} /\ published' = FALSE
    BY <2>1, <2>3
  <2> QED
    BY <1>9, <2>2, <2>3 DEF ContactsPreUpdate
<1>10. CASE Deactivate
  BY <1>10 DEF Deactivate, Switch
<1>11. CASE Switched
  BY <1>11 DEF Switched, AskReset, NextTrial, Awaited
<1>12. CASE HomeFails
  BY <1>12 DEF HomeFails, EndHoming, NextTrial, Awaited
<1>13. CASE ResetPreUpdate
  BY <1>13 DEF ResetPreUpdate, Switch
<1>14. CASE Physics
  BY <1>14 DEF Physics
<1>15. CASE UNCHANGED sceneVars
  BY <1>15 DEF sceneVars
<1> QED
  BY <1>1, <1>2, <1>3, <1>4, <1>5, <1>6, <1>7, <1>8, <1>9, <1>10, <1>11, <1>12, <1>13, <1>14, <1>15 DEF SceneNext, Iteration

(* The invariant holds for every number of trials and of failed home_robot calls. *)
THEOREM SceneInvariance == SceneSpec => []SceneInv
<1>1. SceneInv /\ [SceneNext]_sceneVars => SceneInv'
  BY StepSceneTypeOK, StepWorldOK, StepHandlesOK, StepHeldOK, StepHomeOK, StepContactsOK DEF SceneInv
<1> QED
  BY SceneInitially, <1>1, PTL DEF SceneSpec

(* The state of the world and its plugins is well typed. *)
THEOREM SceneTypeCorrect == SceneSpec => []SceneTypeOK
<1>1. SceneInv => SceneTypeOK
  BY DEF SceneInv
<1> QED
  BY <1>1, SceneInvariance, PTL

(* No cable leaves a joint or a static model behind, whenever it is deleted. *)
THEOREM FreeGripperHolds == SceneSpec => []FreeGripper
<1>1. SceneInv => FreeGripper
  BY DEF SceneInv, WorldOK, HeldOK, FreeGripper
<1> QED
  BY <1>1, SceneInvariance, PTL

(* The plug is never fixed to the gripper and to the world in one physics step. *)
THEOREM OneHoldHolds == SceneSpec => []OneHold
<1>1. SceneInv => OneHold
  BY DEF SceneInv, HeldOK, OneHold
<1> QED
  BY <1>1, SceneInvariance, PTL

(* The joints are never reset under an active controller. *)
THEOREM ResetUnderControlHolds == SceneSpec => []ResetUnderControl
<1>1. SceneInv => ResetUnderControl
  BY DEF SceneInv, HomeOK, ResetUnderControl
<1> QED
  BY <1>1, SceneInvariance, PTL

(* Contacts with the enclosure and with the first board are published when sampled. *)
THEOREM FirstContactsSeenHolds == SceneSpec => []FirstContactsSeen
<1>1. SceneInv => FirstContactsSeen
  BY DEF SceneInv, ContactsOK
<1> QED
  BY <1>1, SceneInvariance, PTL
=============================================================================
