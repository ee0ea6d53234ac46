-------------------------- MODULE FinalPolicyProofs --------------------------
(***************************************************************************)
(* What FinalPolicy guarantees for every set of goals, classes and places,  *)
(* every number of waypoints, hits and retries, and every run of images;    *)
(* Dashboard for every set of cameras, tasks and frames; PortVision for all  *)
(* integer pixels, places and thresholds.                                   *)
(***************************************************************************)
EXTENDS MCFinalPolicy, FiniteSetTheorems, SequenceTheorems, TLAPS

(***************************************************************************)
(* The policy: its inductive invariant.                                     *)
(***************************************************************************)
Places == {"idle", "told", "cleared", "lift", "lifting", "settle", "guard", "track", "recover", "go", "done"}
Threads ==
    [pc : Places, step : Nat, tries : Nat, future : Nat,
     confirmations : Seq(Estimates), locked : Estimates \cup {None}, image : Nat,
     hits : Nat, last : Int, stop : Nat,
     entered : Nat, row : SUBSET Nat, licence : Estimates \cup {None}]

Types ==
    /\ now \in 0 .. Horizon /\ task \in [Goals -> Classes] /\ misses \in Nat
    /\ estimate \in Estimates \cup {None}
    /\ thread \in [Goals -> Threads]
    /\ shared_target \in Classes \cup {NoClass} /\ wanted \in [Goals -> Classes \cup {NoClass}]
    /\ overtaken \subseteq Goals

\* A goal nobody wrote over still finds its own target, and its vision is made for it.
Aims ==
    \A g \in Goals \ overtaken :
        /\ thread[g].pc \in {"told", "cleared"} => shared_target = task[g]
        /\ wanted[g] \in {NoClass, task[g]}

\* The results of a row that count: of images after the stop, one after the other.
Evidence(t) == {at \in t.row : at > t.stop /\ at <= t.last}

\* No image is of the future; a stop and the image under the guard are of the time
\* since the guard was called.
Stamps(t) ==
    /\ t.future <= now /\ t.entered <= now
    /\ t.pc \in {"guard", "track"} => t.stop = 0
    /\ t.pc = "track" => t.entered <= t.image /\ t.image <= now
    /\ t.pc = "recover" => t.entered <= t.stop

\* Each hit stands for an image of its own.
Hits(t) ==
    /\ IsFiniteSet(t.row) /\ t.hits <= Cardinality(Evidence(t))
    /\ t.hits <= VisionRetries
    /\ t.pc = "recover" => t.hits <= t.tries /\ t.tries <= VisionRetries

\* A waypoint is cleared by a sighting of the task's port at the place of the lock.
Licensed(t, cls) ==
    t.pc = "go" =>
        /\ t.licence \in Estimates
        /\ t.licence.cls = cls /\ t.locked.cls = cls /\ t.licence.spot = t.locked.spot
        /\ t.licence.at >= t.entered
        /\ t.stop # 0 => t.hits >= ReacquireHits

Sound(t, cls) == Stamps(t) /\ Hits(t) /\ Licensed(t, cls)

IInv == Types /\ Aims /\ \A g \in Goals : Sound(thread[g], wanted[g])

(***************************************************************************)
(* Threads.                                                                 *)
(***************************************************************************)
\* The numbers of images and polls that the guard waits for.
LEMMA Parameters ==
    /\ LiftSteps \in Nat \ {0} /\ ApproachSteps \in Nat \ {0} /\ LockHits \in Nat \ {0}
    /\ ReacquireHits \in Nat \ {0} /\ VisionRetries \in Nat \ {0}
    /\ MaxMisses \in Nat \ {0} /\ Horizon \in Nat
  BY FinalPolicyAssumption

\* A sighting is a record of a class, a place and a stamp of the run.
LEMMA Sightings ==
    ASSUME NEW e \in Estimates
    PROVE  e.at \in 1 .. Horizon /\ e.at \in Nat /\ e.cls \in Classes /\ e # None
  BY Parameters, FinalPolicyAssumption DEF Estimates, None, NoClass

\* A thread that begins somewhere has counted nothing yet.
LEMMA Begun ==
    ASSUME now \in Nat, NEW where \in Places, NEW cls
    PROVE  /\ At(where) \in Threads
           /\ Stamps(At(where)) /\ Hits(At(where)) /\ (where # "go" => Licensed(At(where), cls))
<1>1. /\ At(where).pc = where /\ At(where).future = 0 /\ At(where).entered = 0
      /\ At(where).stop = 0 /\ At(where).image = 0 /\ At(where).row = {}
      /\ At(where).hits = 0 /\ At(where).tries = 0
  BY DEF At, NoFuture
<1>2. At(where) \in Threads
  <2>1. <<>> \in Seq(Estimates)
    OBVIOUS
  <2> QED
    BY <2>1 DEF At, Threads, NoFuture
<1>3. where \notin {"track", "recover"} => Stamps(At(where))
  BY <1>1 DEF Stamps
<1>4. Hits(At(where))
  <2>1. Evidence(At(where)) = {}
    BY <1>1 DEF Evidence
  <2> QED
    BY <1>1, <2>1, FS_EmptySet, Parameters DEF Hits
<1>5. Stamps(At(where))
  BY <1>1 DEF Stamps
<1> QED
  BY <1>1, <1>2, <1>4, <1>5 DEF Licensed

\* A step of one goal that leaves its thread sound leaves every thread sound.
LEMMA OneThread ==
    ASSUME IInv, NEW g \in Goals, NEW t \in Threads, Sound(t, wanted[g]),
           t.pc \in {"told", "cleared"} => thread[g].pc \in {"told", "cleared"},
           thread' = [thread EXCEPT ![g] = t], UNCHANGED <<now, task, aims>>,
           estimate' \in Estimates \cup {None}, misses' \in Nat
    PROVE  IInv'
<1>1. Types'
  BY DEF IInv, Types, aims
<1>2. ASSUME NEW h \in Goals PROVE Sound(thread[h], wanted[h])'
  <2>1. thread'[h] = IF h = g THEN t ELSE thread[h]
    BY DEF IInv, Types
  <2>2. Sound(thread'[h], wanted[h])
    BY <2>1 DEF IInv
  <2> QED
    BY <2>2 DEF Sound, Stamps, Hits, Licensed, Evidence, aims
<1>3. Aims'
  <2> SUFFICES ASSUME NEW h \in Goals, h \notin overtaken
               PROVE  /\ thread'[h].pc \in {"told", "cleared"} => shared_target = task[h]
                      /\ wanted[h] \in {NoClass, task[h]}
    BY DEF Aims, aims
  <2>1. thread'[h] = IF h = g THEN t ELSE thread[h]
    BY DEF IInv, Types
  <2> QED
    BY <2>1 DEF IInv, Aims
<1> QED
  BY <1>1, <1>2, <1>3 DEF IInv

\* A thread that has taken another place, with or without an image under way, has
\* gathered as much evidence as before; only three places ask for more.
LEMMA Moves ==
    ASSUME IInv, NEW g \in Goals, NEW t \in Threads,
           t.pc \notin {"guard", "track", "recover", "go"},
           t.future <= now, t.entered = thread[g].entered, t.stop = thread[g].stop,
           t.row = thread[g].row, t.hits = thread[g].hits, t.last = thread[g].last
    PROVE  Sound(t, wanted[g])
<1>1. Sound(thread[g], wanted[g])
  BY DEF IInv
<1>2. Stamps(t)
  BY <1>1 DEF Sound, Stamps
<1>3. Hits(t)
  <2>1. Evidence(t) = Evidence(thread[g])
    BY DEF Evidence
  <2> QED
    BY <1>1, <2>1 DEF Sound, Hits
<1> QED
  BY <1>2, <1>3 DEF Sound, Licensed

\* The thread ends.
LEMMA Returns ==
    ASSUME IInv, NEW g \in Goals, Return(g), UNCHANGED <<now, task, aims>>,
           estimate' \in Estimates \cup {None}, misses' \in Nat
    PROVE  IInv'
<1>1. now \in Nat
  BY Parameters DEF IInv, Types
<1>2. At("done") \in Threads /\ Sound(At("done"), wanted[g]) /\ At("done").pc = "done"
  BY <1>1, Begun DEF Places, Sound, At
<1> QED
  BY <1>2, OneThread DEF Return

\* What a thread is given is of an image taken before, and of its vision's class.
LEMMA Given ==
    ASSUME IInv, NEW g \in Goals
    PROVE  /\ \A e \in Results(g) : e = None \/ /\ e \in Estimates /\ e.cls = wanted[g]
                                                /\ e.at = future(g) /\ e.at <= now
           /\ \A from, image : \A e \in Tracked(g, from, image) :
                 e = None \/ /\ e \in Estimates /\ e.cls = wanted[g] /\ e.at = image
<1>1. Sound(thread[g], wanted[g])
  BY DEF IInv
<1> QED
  BY <1>1 DEF Results, Tracked, future, Sound, Stamps

(***************************************************************************)
(* Up to the lock.                                                          *)
(***************************************************************************)
\* The row of confirmations grows by sightings only.
LEMMA Accepted ==
    ASSUME NEW confirmed \in Seq(Estimates), NEW e \in Estimates \cup {None}
    PROVE  Accept(confirmed, e) \in Seq(Estimates)
<1>1. CASE e = None
  BY <1>1 DEF Accept
<1>2. CASE e \in Estimates
  <2>1. Append(confirmed, e) \in Seq(Estimates) /\ <<e>> \in Seq(Estimates)
    BY <1>2
  <2> QED
    BY <2>1 DEF Accept
<1> QED
  BY <1>1, <1>2

\* The lift leaves what the guard will count alone.
LEMMA TakenOK ==
    ASSUME IInv, NEW g \in Goals, NEW e \in Results(g), NEW resubmit \in BOOLEAN
    PROVE  LET t == Taken(g, e, resubmit)
           IN  /\ t \in Threads /\ t.pc = pc(g) /\ t.future <= now /\ t.step = thread[g].step
               /\ t.tries = thread[g].tries /\ t.entered = thread[g].entered
               /\ t.stop = thread[g].stop /\ t.row = thread[g].row
               /\ t.hits = thread[g].hits /\ t.last = thread[g].last
<1> DEFINE confirmed == Accept(thread[g].confirmations, e)
           f == IF resubmit /\ Len(confirmed) < LockHits THEN submit_latest ELSE NoFuture
           t == [thread[g] EXCEPT !.confirmations = confirmed, !.future = f]
<1>1. thread[g] \in Threads /\ now \in Nat
  BY Parameters DEF IInv, Types
<1>2. confirmed \in Seq(Estimates)
  <2>1. thread[g].confirmations \in Seq(Estimates)
    BY <1>1 DEF Threads
  <2>2. e \in Estimates \cup {None}
    BY Given
  <2> QED
    BY <2>1, <2>2, Accepted
<1>3. f \in Nat /\ f <= now
  BY <1>1 DEF submit_latest, NoFuture
<1> HIDE DEF confirmed, f
<1>4. t \in Threads /\ t.pc = thread[g].pc /\ t.future = f /\ t.step = thread[g].step
      /\ t.tries = thread[g].tries /\ t.entered = thread[g].entered
      /\ t.stop = thread[g].stop /\ t.row = thread[g].row
      /\ t.hits = thread[g].hits /\ t.last = thread[g].last
  BY <1>1, <1>2, <1>3 DEF Threads
<1>5. Taken(g, e, resubmit) = t
  BY DEF Taken, confirmed, f
<1> QED
  BY <1>3, <1>4, <1>5 DEF pc

\* A thread that has not been cleared for a waypoint asks nothing of its vision.
LEMMA Entered ==
    ASSUME IInv, NEW g \in Goals, NEW t \in Threads, Stamps(t), Hits(t), t.pc # "go",
           thread' = [thread EXCEPT ![g] = t], UNCHANGED <<now, task>>,
           estimate' \in Estimates \cup {None}, misses' \in Nat,
           shared_target' \in Classes \cup {NoClass}, overtaken' \subseteq Goals,
           wanted' \in [Goals -> Classes \cup {NoClass}],
           \A h \in Goals \ {g} : wanted'[h] = wanted[h], Aims'
    PROVE  IInv'
<1>1. Types'
  BY DEF IInv, Types
<1>2. ASSUME NEW h \in Goals PROVE Sound(thread[h], wanted[h])'
  <2>1. thread'[h] = IF h = g THEN t ELSE thread[h]
    BY DEF IInv, Types
  <2>2. CASE h = g
    <3>1. Stamps(thread[h])' /\ Hits(thread[h])'
      BY <2>1, <2>2 DEF Stamps, Hits, Evidence
    <3> QED
      BY <2>1, <2>2, <3>1 DEF Sound, Licensed
  <2>3. CASE h # g
    <3>1. Sound(thread[h], wanted[h]) /\ thread'[h] = thread[h] /\ wanted'[h] = wanted[h]
      BY <2>1, <2>3 DEF IInv
    <3> QED
      BY <3>1 DEF Sound, Stamps, Hits, Licensed, Evidence
  <2> QED
    BY <2>2, <2>3
<1> QED
  BY <1>1, <1>2 DEF IInv

\* A thread writes self._target and reads it again: a write in between takes the
\* goals that have yet to read it over.
LEMMA Targets ==
    ASSUME IInv, NEW g \in Goals, InsertCable(g) \/ ForgetEstimate(g) \/ MakeVision(g)
    PROVE  IInv'
<1>1. /\ thread[g] \in Threads /\ now \in Nat /\ thread \in [Goals -> Threads]
      /\ estimate \in Estimates \cup {None} /\ misses \in Nat /\ None \in Estimates \cup {None}
      /\ thread[g].future <= now /\ Aims /\ overtaken \subseteq Goals
      /\ shared_target \in Classes \cup {NoClass} /\ wanted \in [Goals -> Classes \cup {NoClass}]
      /\ task[g] \in Classes
  BY Parameters DEF IInv, Types, Sound, Stamps
<1>2. ASSUME NEW where \in {"told", "cleared", "lift"}
      PROVE  LET t == [thread[g] EXCEPT !.pc = where]
             IN  t \in Threads /\ Stamps(t) /\ Hits(t) /\ t.pc = where
  <2> DEFINE t == [thread[g] EXCEPT !.pc = where]
  <2>1. t \in Threads
    BY <1>1 DEF Threads, Places
  <2>2. /\ t.pc = where /\ t.future <= now
        /\ t.entered = thread[g].entered /\ t.stop = thread[g].stop
        /\ t.row = thread[g].row /\ t.hits = thread[g].hits /\ t.last = thread[g].last
    BY <1>1 DEF Threads
  <2> HIDE DEF t
  <2>3. Sound(t, wanted[g])
    BY <2>1, <2>2, Moves
  <2> QED
    BY <2>1, <2>2, <2>3 DEF Sound, t
<1>3. At("done") \in Threads /\ Stamps(At("done")) /\ Hits(At("done")) /\ At("done").pc = "done"
  BY <1>1, Begun DEF Places, At
<1>4. CASE InsertCable(g)
  <2>1. CASE Return(g) /\ UNCHANGED aims
    BY <1>1, <1>4, <2>1, Returns DEF InsertCable
  <2>2. CASE /\ thread' = [thread EXCEPT ![g].pc = "told"]
             /\ shared_target' = task[g] /\ overtaken' = overtaken \cup Reading
             /\ UNCHANGED wanted
    <3> DEFINE t == [thread[g] EXCEPT !.pc = "told"]
    <3>1. t \in Threads /\ Stamps(t) /\ Hits(t) /\ t.pc = "told"
      BY <1>2
    <3>2. thread' = [thread EXCEPT ![g] = t] /\ UNCHANGED <<now, task, estimate, misses>>
      BY <1>1, <1>4, <2>2 DEF InsertCable
    <3> HIDE DEF t
    <3>3. Aims'
      <4> SUFFICES ASSUME NEW h \in Goals, h \notin overtaken'
                   PROVE  /\ thread'[h].pc \in {"told", "cleared"} => shared_target' = task[h]
                          /\ wanted[h] \in {NoClass, task[h]}
        BY <2>2, <3>2 DEF Aims
      <4>1. h \notin overtaken /\ h \notin Reading
        BY <2>2
      <4>2. thread'[h] = IF h = g THEN t ELSE thread[h]
        BY <1>1, <3>2
      <4> QED
        BY <1>1, <2>2, <4>1, <4>2 DEF Aims, Reading, pc
    <3>4. overtaken' \subseteq Goals /\ shared_target' \in Classes \cup {NoClass}
      BY <1>1, <2>2 DEF Reading
    <3> QED
      BY <1>1, <2>2, <3>1, <3>2, <3>3, <3>4, Entered
  <2> QED
    BY <1>4, <2>1, <2>2 DEF InsertCable
<1>5. CASE ForgetEstimate(g)
  <2> DEFINE t == [thread[g] EXCEPT !.pc = "cleared"]
  <2>1. t \in Threads /\ Stamps(t) /\ Hits(t) /\ t.pc = "cleared"
    BY <1>2
  <2>2. thread' = [thread EXCEPT ![g] = t] /\ UNCHANGED <<now, task, aims, misses>>
        /\ estimate' = None /\ thread[g].pc = "told"
    BY <1>1, <1>5 DEF ForgetEstimate, pc
  <2> HIDE DEF t
  <2>3. Sound(t, wanted[g])
    BY <2>1 DEF Sound, Licensed
  <2> QED
    BY <1>1, <2>1, <2>2, <2>3, OneThread
<1>6. CASE MakeVision(g)
  <2>1. /\ wanted' = [wanted EXCEPT ![g] = shared_target] /\ thread[g].pc = "cleared"
        /\ UNCHANGED <<now, task, shared_target, overtaken, estimate, misses>>
    BY <1>6 DEF MakeVision, pc
  <2>2. PICK t \in Threads : /\ Stamps(t) /\ Hits(t) /\ t.pc \in {"lift", "done"}
                             /\ thread' = [thread EXCEPT ![g] = t]
    <3>1. CASE Return(g)
      BY <1>3, <3>1 DEF Return
    <3>2. CASE thread' = [thread EXCEPT ![g].pc = "lift"]
      <4> DEFINE t == [thread[g] EXCEPT !.pc = "lift"]
      <4>1. t \in Threads /\ Stamps(t) /\ Hits(t) /\ t.pc = "lift"
        BY <1>2
      <4>2. thread' = [thread EXCEPT ![g] = t]
        BY <1>1, <3>2
      <4> QED
        BY <4>1, <4>2
    <3> QED
      BY <1>6, <3>1, <3>2 DEF MakeVision
  <2>3. wanted' \in [Goals -> Classes \cup {NoClass}] /\ wanted'[g] = shared_target
        /\ \A h \in Goals \ {g} : wanted'[h] = wanted[h]
    BY <1>1, <2>1
  <2>4. Aims'
    <3> SUFFICES ASSUME NEW h \in Goals, h \notin overtaken
                 PROVE  /\ thread'[h].pc \in {"told", "cleared"} => shared_target = task[h]
                        /\ wanted'[h] \in {NoClass, task[h]}
      BY <2>1 DEF Aims
    <3>1. thread'[h] = IF h = g THEN t ELSE thread[h]
      BY <1>1, <2>2
    <3> QED
      BY <1>1, <2>1, <2>2, <2>3, <3>1 DEF Aims
  <2> QED
    BY <1>1, <2>1, <2>2, <2>3, <2>4, Entered
<1> QED
  BY <1>4, <1>5, <1>6

\* The lift, from the look at the task to the lock.
LEMMA Lifting ==
    ASSUME IInv, NEW g \in Goals,
           LiftStart(g) \/ LiftWaypoint(g) \/ LiftRetry(g) \/ LiftEnd(g)
    PROVE  IInv'
<1>1. /\ thread[g] \in Threads /\ now \in Nat /\ thread \in [Goals -> Threads]
      /\ estimate \in Estimates \cup {None} /\ misses \in Nat /\ None \in Estimates \cup {None}
      /\ thread[g].future <= now
  BY Parameters DEF IInv, Types, Sound, Stamps
<1>3. CASE LiftStart(g)
  <2>1. CASE now = 0
    BY <1>1, <1>3, <2>1, Returns DEF LiftStart
  <2>2. CASE now # 0
    <3> DEFINE t == [thread[g] EXCEPT !.pc = "lifting", !.future = now]
    <3>1. t \in Threads /\ Sound(t, wanted[g]) /\ t.pc = "lifting"
      <4>1. t \in Threads
        BY <1>1 DEF Threads, Places
      <4>2. /\ t.pc = "lifting" /\ t.future <= now
            /\ t.entered = thread[g].entered /\ t.stop = thread[g].stop
            /\ t.row = thread[g].row /\ t.hits = thread[g].hits /\ t.last = thread[g].last
        BY <1>1 DEF Threads, Places
      <4> QED
        BY <4>1, <4>2, Moves
    <3>2. thread' = [thread EXCEPT ![g] = t]
      BY <1>1, <1>3, <2>2 DEF LiftStart, submit_latest
    <3> QED
      BY <1>1, <1>3, <3>1, <3>2, OneThread DEF LiftStart
  <2> QED
    BY <2>1, <2>2
<1>4. CASE LiftWaypoint(g)
  <2>1. PICK u \in {thread[g]} \cup {Taken(g, e, TRUE) : e \in Results(g)} :
           thread' = [thread EXCEPT ![g] = [u EXCEPT !.step = @ + 1]]
    BY <1>4 DEF LiftWaypoint
  <2> DEFINE t == [u EXCEPT !.step = @ + 1]
  <2>2. /\ u \in Threads /\ u.pc = "lifting" /\ u.future <= now
        /\ u.entered = thread[g].entered /\ u.stop = thread[g].stop
        /\ u.row = thread[g].row /\ u.hits = thread[g].hits /\ u.last = thread[g].last
    <3>1. pc(g) = "lifting"
      BY <1>4 DEF LiftWaypoint
    <3>2. CASE u = thread[g]
      BY <1>1, <3>1, <3>2 DEF pc
    <3>3. CASE \E e \in Results(g) : u = Taken(g, e, TRUE)
      BY <3>1, <3>3, TakenOK
    <3> QED
      BY <3>2, <3>3
  <2>3. /\ t \in Threads /\ t.pc = "lifting" /\ t.future <= now
        /\ t.entered = thread[g].entered /\ t.stop = thread[g].stop
        /\ t.row = thread[g].row /\ t.hits = thread[g].hits /\ t.last = thread[g].last
    BY <2>2 DEF Threads
  <2>4. Sound(t, wanted[g])
    BY <2>3, Moves
  <2> QED
    BY <1>1, <1>4, <2>1, <2>3, <2>4, OneThread DEF LiftWaypoint
<1>5. CASE LiftRetry(g)
  <2>1. CASE thread' = [thread EXCEPT ![g].future = submit_latest]
    <3> DEFINE t == [thread[g] EXCEPT !.future = now]
    <3>1. t \in Threads /\ Sound(t, wanted[g]) /\ t.pc = "lifting"
      <4>1. t \in Threads
        BY <1>1, <1>5 DEF Threads, LiftRetry, pc
      <4>2. /\ t.pc = "lifting" /\ t.future <= now
            /\ t.entered = thread[g].entered /\ t.stop = thread[g].stop
            /\ t.row = thread[g].row /\ t.hits = thread[g].hits /\ t.last = thread[g].last
        BY <1>1, <1>5 DEF Threads, LiftRetry, pc
      <4> QED
        BY <4>1, <4>2, Moves
    <3>2. thread' = [thread EXCEPT ![g] = t]
      BY <1>1, <2>1 DEF submit_latest
    <3> QED
      BY <1>1, <1>5, <3>1, <3>2, OneThread DEF LiftRetry
  <2>2. CASE \E e \in Results(g) :
                thread' = [thread EXCEPT ![g] = [Taken(g, e, FALSE) EXCEPT !.tries = @ + 1]]
    <3>1. PICK e \in Results(g) :
             thread' = [thread EXCEPT ![g] = [Taken(g, e, FALSE) EXCEPT !.tries = @ + 1]]
      BY <2>2
    <3> DEFINE u == Taken(g, e, FALSE)
               t == [u EXCEPT !.tries = @ + 1]
    <3>2. /\ u \in Threads /\ u.pc = "lifting" /\ u.future <= now
          /\ u.entered = thread[g].entered /\ u.stop = thread[g].stop
          /\ u.row = thread[g].row /\ u.hits = thread[g].hits /\ u.last = thread[g].last
      BY <1>5, TakenOK DEF LiftRetry, pc
    <3> HIDE DEF u
    <3>3. /\ t \in Threads /\ t.pc = "lifting" /\ t.future <= now
          /\ t.entered = thread[g].entered /\ t.stop = thread[g].stop
          /\ t.row = thread[g].row /\ t.hits = thread[g].hits /\ t.last = thread[g].last
      BY <3>2 DEF Threads
    <3>4. Sound(t, wanted[g])
      BY <3>3, Moves
    <3> QED
      BY <1>1, <1>5, <3>1, <3>3, <3>4, OneThread DEF LiftRetry, u
  <2> QED
    BY <1>5, <2>1, <2>2 DEF LiftRetry
<1>6. CASE LiftEnd(g)
  <2>1. CASE LockFound(g)
    <3> DEFINE t == [thread[g] EXCEPT !.pc = "settle", !.future = NoFuture]
               row == thread[g].confirmations
    <3>1. t \in Threads /\ Sound(t, wanted[g]) /\ t.pc = "settle"
      <4>1. t \in Threads
        BY <1>1 DEF Threads, Places, NoFuture
      <4>2. /\ t.pc = "settle" /\ t.future <= now
            /\ t.entered = thread[g].entered /\ t.stop = thread[g].stop
            /\ t.row = thread[g].row /\ t.hits = thread[g].hits /\ t.last = thread[g].last
        BY <1>1 DEF Threads, Places, NoFuture
      <4> QED
        BY <4>1, <4>2, Moves
    <3>2. /\ thread' = [thread EXCEPT ![g] = t] /\ estimate' = row[Len(row)]
          /\ UNCHANGED <<now, task, aims, misses>>
      BY <1>1, <1>6, <2>1 DEF LiftEnd
    <3>3. estimate' \in Estimates
      <4>1. row \in Seq(Estimates) /\ Len(row) >= 1
        BY <1>1, <2>1, Parameters DEF Threads, LockFound
      <4> QED
        BY <3>2, <4>1
    <3> QED
      BY <1>1, <3>1, <3>2, <3>3, OneThread
  <2>2. CASE Return(g) /\ UNCHANGED estimate
    BY <1>1, <1>6, <2>2, Returns DEF LiftEnd
  <2> QED
    BY <1>6, <2>1, <2>2 DEF LiftEnd
<1> QED
  BY <1>3, <1>4, <1>5, <1>6

(***************************************************************************)
(* The approach.                                                            *)
(***************************************************************************)
\* A waypoint is cleared by what shows the port of the task.
LEMMA Clears ==
    ASSUME IInv, NEW g \in Goals, NEW t \in Threads, NEW e \in Estimates,
           t.future <= now, t.entered <= now, Hits(t),
           e.cls = wanted[g], Matches(t.locked, e), e.at >= t.entered,
           t.stop # 0 => t.hits >= ReacquireHits,
           Clear(g, t, e), UNCHANGED <<now, task, aims>>, misses' \in Nat
    PROVE  IInv'
<1> DEFINE u == [t EXCEPT !.pc = "go", !.licence = e]
<1>1. u \in Threads
  BY DEF Threads, Places
<1>2. /\ u.pc = "go" /\ u.future = t.future /\ u.entered = t.entered /\ u.stop = t.stop
      /\ u.row = t.row /\ u.hits = t.hits /\ u.last = t.last /\ u.tries = t.tries
      /\ u.locked = t.locked /\ u.licence = e
  BY DEF Threads
<1>3. thread' = [thread EXCEPT ![g] = u] /\ estimate' = e
  BY DEF Clear
<1> HIDE DEF u
<1>4. Stamps(u)
  BY <1>2 DEF Stamps
<1>5. Hits(u)
  BY <1>2 DEF Hits, Evidence
<1>6. Licensed(u, wanted[g])
  BY <1>2 DEF Licensed, Matches
<1> QED
  BY <1>1, <1>3, <1>2, <1>4, <1>5, <1>6, OneThread DEF Sound

\* A stop starts the count over, at the newest image.
LEMMA Stops ==
    ASSUME IInv, NEW g \in Goals, NEW t \in Threads,
           t.future <= now, t.entered <= now, IsFiniteSet(t.row),
           Stop(g, t), UNCHANGED <<now, task, aims>>, misses' \in Nat
    PROVE  IInv'
<1> DEFINE u == [t EXCEPT !.pc = "recover", !.tries = 0, !.hits = 0, !.last = now - 1, !.stop = now]
<1>1. now \in Nat
  BY Parameters DEF IInv, Types
<1>2. u \in Threads
  <2>1. now - 1 \in Int /\ now \in Nat /\ 0 \in Nat /\ "recover" \in Places
    BY <1>1 DEF Places
  <2> QED
    BY <2>1 DEF Threads
<1>3. /\ u.pc = "recover" /\ u.future = t.future /\ u.entered = t.entered /\ u.stop = now
      /\ u.row = t.row /\ u.hits = 0 /\ u.last = now - 1 /\ u.tries = 0
  BY <1>1 DEF Threads
<1>4. thread' = [thread EXCEPT ![g] = u] /\ estimate' = estimate
  BY DEF Stop
<1> HIDE DEF u
<1>5. Stamps(u)
  BY <1>1, <1>3 DEF Stamps
<1>6. Hits(u)
  <2>1. Evidence(u) \subseteq u.row
    BY DEF Evidence
  <2>2. IsFiniteSet(Evidence(u))
    BY <1>3, <2>1, FS_Subset
  <2>3. Cardinality(Evidence(u)) \in Nat
    BY <2>2, FS_CardinalityType
  <2> QED
    BY <1>3, <2>3, Parameters DEF Hits
<1> QED
  BY <1>2, <1>3, <1>4, <1>5, <1>6, OneThread DEF Sound, Licensed, IInv, Types

\* The guard goes on to the flow, or round again, without having been stopped.
LEMMA GoesOn ==
    ASSUME IInv, NEW g \in Goals, NEW t \in Threads, t.pc \in {"guard", "track"},
           t.future <= now, t.entered <= t.image, t.image <= now, t.stop = 0, Hits(t),
           thread' = [thread EXCEPT ![g] = t], UNCHANGED <<now, task, aims, estimate>>, misses' \in Nat
    PROVE  IInv'
<1>1. now \in Nat
  BY Parameters DEF IInv, Types
<1>2. Stamps(t)
  BY <1>1 DEF Stamps, Threads
<1> QED
  BY <1>2, OneThread DEF Sound, Licensed, IInv, Types

\* The approach begins with nothing counted.
LEMMA Starts ==
    ASSUME IInv, NEW g \in Goals, ApproachStart(g) PROVE IInv'
<1>1. /\ thread \in [Goals -> Threads] /\ now \in Nat /\ misses \in Nat
      /\ estimate \in Estimates \cup {None}
  BY Parameters DEF IInv, Types
<1>2. CASE Return(g) /\ UNCHANGED misses
  BY <1>1, <1>2, Returns DEF ApproachStart
<1>3. CASE /\ estimate # None /\ misses' = 0
           /\ thread' = [thread EXCEPT ![g] = [At("guard") EXCEPT !.locked = estimate,
                                                !.future = submit_latest]]
  <2> DEFINE t == [At("guard") EXCEPT !.locked = estimate, !.future = now]
  <2>1. /\ At("guard") \in Threads /\ Stamps(At("guard")) /\ Hits(At("guard"))
        /\ At("guard").pc = "guard"
    BY <1>1, Begun DEF Places, At
  <2>2. t \in Threads
    BY <1>1, <2>1 DEF Threads
  <2>3. /\ t.pc = "guard" /\ t.future = now /\ t.entered = At("guard").entered
        /\ t.stop = At("guard").stop /\ t.row = At("guard").row /\ t.hits = At("guard").hits
        /\ t.last = At("guard").last /\ t.tries = At("guard").tries
    BY <1>1, <2>1 DEF Threads
  <2>4. thread' = [thread EXCEPT ![g] = t] /\ UNCHANGED <<now, task, aims, estimate>> /\ misses' = 0
    BY <1>3 DEF ApproachStart, submit_latest
  <2> HIDE DEF t
  <2>5. Stamps(t) /\ Hits(t) /\ Licensed(t, wanted[g])
    BY <1>1, <2>1, <2>3 DEF Stamps, Hits, Evidence, Licensed
  <2> QED
    BY <1>1, <2>1, <2>2, <2>3, <2>4, <2>5, OneThread DEF Sound
<1> QED
  BY <1>2, <1>3 DEF ApproachStart

\* The guard polls the newest detection: clear, stopped, or asked once more.
LEMMA Polls ==
    ASSUME IInv, NEW g \in Goals, GuardPoll(g) PROVE IInv'
<1>1. /\ thread \in [Goals -> Threads] /\ thread[g] \in Threads /\ now \in Nat /\ misses \in Nat
      /\ estimate \in Estimates \cup {None} /\ Sound(thread[g], wanted[g]) /\ thread[g].pc = "guard"
      /\ UNCHANGED <<now, task, aims>>
  BY Parameters DEF IInv, Types, GuardPoll, pc
<1>2. CASE thread[g].tries = 0 /\ estimate = None
  BY <1>1, <1>2, Returns DEF GuardPoll
<1>3. CASE ~(thread[g].tries = 0 /\ estimate = None)
  <2> DEFINE t == [thread[g] EXCEPT !.image = now,
                     !.entered = IF thread[g].tries = 0 THEN now ELSE @]
             u == [t EXCEPT !.future = submit_latest]
  <2>1. t \in Threads
    BY <1>1 DEF Threads
  <2>2. /\ t.pc = "guard" /\ t.image = now /\ t.entered <= now /\ t.entered \in Nat
        /\ t.future = thread[g].future /\ t.stop = thread[g].stop /\ t.row = thread[g].row
        /\ t.hits = thread[g].hits /\ t.last = thread[g].last /\ t.tries = thread[g].tries
        /\ t.locked = thread[g].locked
    BY <1>1 DEF Threads, Sound, Stamps
  <2>3. \/ Track(g, t) /\ UNCHANGED misses
        \/ \E e \in Results(g) :
             \/ /\ e = None
                /\ misses' = misses + 1
                /\ IF misses' >= MaxMisses THEN Stop(g, u) ELSE Track(g, u)
             \/ /\ e # None /\ ~Matches(thread[g].locked, e)
                /\ Stop(g, u) /\ UNCHANGED misses
             \/ /\ Matches(thread[g].locked, e)
                /\ misses' = 0
                /\ \E now_at \in Reanchored(g, e) :
                     IF Matches(thread[g].locked, now_at)
                     THEN Clear(g, u, now_at) ELSE Track(g, u)
    BY <1>3 DEF GuardPoll
  <2> HIDE DEF t
  <2>4. u \in Threads
    BY <1>1, <2>1 DEF Threads, submit_latest
  <2>5. /\ u.pc = "guard" /\ u.image = now /\ u.entered = t.entered
        /\ u.future = now /\ u.stop = t.stop /\ u.row = t.row
        /\ u.hits = t.hits /\ u.last = t.last /\ u.tries = t.tries /\ u.locked = t.locked
    BY <2>1, <2>2 DEF Threads, submit_latest
  <2> HIDE DEF u
  <2>6. ASSUME NEW v \in {t, u}
        PROVE  /\ v \in Threads /\ v.future <= now /\ v.entered <= v.image /\ v.image = now
               /\ v.entered <= now
               /\ v.stop = 0 /\ v.locked = thread[g].locked /\ Hits(v) /\ IsFiniteSet(v.row)
    <3>1. /\ v \in Threads /\ v.future <= now /\ v.entered <= v.image /\ v.image = now
          /\ v.entered <= now
          /\ v.stop = 0 /\ v.locked = thread[g].locked
          /\ v.row = thread[g].row /\ v.hits = thread[g].hits /\ v.last = thread[g].last
          /\ v.tries = thread[g].tries /\ v.pc = thread[g].pc /\ thread[g].stop = 0
      BY <1>1, <2>1, <2>2, <2>4, <2>5 DEF Sound, Stamps
    <3>2. Evidence(v) = Evidence(thread[g])
      BY <3>1 DEF Evidence
    <3> QED
      BY <1>1, <3>1, <3>2 DEF Sound, Hits
  <2>7. ASSUME NEW v \in {t, u}, Track(g, v), misses' \in Nat PROVE IInv'
    <3> DEFINE w == [v EXCEPT !.pc = "track"]
    <3>1. w \in Threads
      BY <2>6 DEF Threads, Places
    <3>2. /\ w.pc = "track" /\ w.future = v.future /\ w.entered = v.entered
          /\ w.image = v.image /\ w.stop = v.stop /\ w.row = v.row /\ w.hits = v.hits
          /\ w.last = v.last /\ w.tries = v.tries
      BY <2>6 DEF Threads
    <3>3. thread' = [thread EXCEPT ![g] = w] /\ UNCHANGED estimate
      BY <2>7 DEF Track
    <3> HIDE DEF w
    <3>4. Hits(w)
      BY <2>6, <3>2 DEF Hits, Evidence
    <3>5. w.pc \in {"guard", "track"} /\ w.future <= now /\ w.entered <= w.image
          /\ w.image <= now /\ w.stop = 0
      BY <1>1, <2>6, <3>2
    <3>6. UNCHANGED <<now, task, aims, estimate>> /\ misses' \in Nat
      BY <1>1, <2>7, <3>3
    <3> HIDE <2>6, <2>7
    <3> QED
      BY <3>1, <3>3, <3>4, <3>5, <3>6, GoesOn
  <2>8. CASE Track(g, t) /\ UNCHANGED misses
    BY <1>1, <2>7, <2>8
  <2>9. ASSUME NEW e \in Results(g), e = None, misses' = misses + 1,
               IF misses' >= MaxMisses THEN Stop(g, u) ELSE Track(g, u)
        PROVE  IInv'
    <3>1. misses' \in Nat
      BY <1>1, <2>9
    <3>2. CASE Stop(g, u)
      BY <1>1, <2>6, <3>1, <3>2, Stops
    <3>3. CASE Track(g, u)
      BY <2>7, <3>1, <3>3
    <3> QED
      BY <2>9, <3>2, <3>3
  <2>10. CASE Stop(g, u) /\ UNCHANGED misses
    BY <1>1, <2>6, <2>10, Stops
  <2>11. ASSUME NEW e \in Results(g), Matches(thread[g].locked, e), misses' = 0,
                NEW now_at \in Reanchored(g, e),
                IF Matches(thread[g].locked, now_at) THEN Clear(g, u, now_at) ELSE Track(g, u)
         PROVE  IInv'
    <3>1. CASE ~Matches(thread[g].locked, now_at)
      BY <2>7, <2>11, <3>1
    <3>2. CASE Matches(thread[g].locked, now_at)
      <4>1. e # None /\ now_at # None
        BY <2>11, <3>2 DEF Matches
      <4>2. now_at \in Estimates /\ now_at.cls = wanted[g] /\ now_at.at = now
        BY <4>1, Given DEF Reanchored
      <4> QED
        BY <1>1, <2>6, <2>11, <3>2, <4>2, Clears
    <3> QED
      BY <3>1, <3>2
  <2> QED
    BY <2>3, <2>8, <2>9, <2>10, <2>11
<1> QED
  BY <1>2, <1>3

\* Between detections the guard follows the optical flow.
LEMMA Flows ==
    ASSUME IInv, NEW g \in Goals, GuardTrack(g) PROVE IInv'
<1>1. /\ thread \in [Goals -> Threads] /\ thread[g] \in Threads /\ now \in Nat /\ misses \in Nat
      /\ estimate \in Estimates \cup {None} /\ Sound(thread[g], wanted[g]) /\ thread[g].pc = "track"
      /\ UNCHANGED <<now, task, aims, misses>>
  BY Parameters DEF IInv, Types, GuardTrack, pc
<1>2. /\ thread[g].future <= now /\ thread[g].entered <= thread[g].image
      /\ thread[g].image <= now /\ thread[g].entered <= now /\ thread[g].stop = 0
      /\ Hits(thread[g]) /\ IsFiniteSet(thread[g].row)
  BY <1>1 DEF Sound, Stamps, Hits
<1>3. CASE Return(g) /\ UNCHANGED estimate
  BY <1>1, <1>3, Returns
<1>4. ASSUME NEW e \in Tracked(g, estimate, thread[g].image),
             Matches(thread[g].locked, e), Clear(g, thread[g], e)
      PROVE  IInv'
  <2>1. e \in Estimates /\ e.cls = wanted[g] /\ e.at = thread[g].image
    BY <1>4, Given DEF Matches
  <2> QED
    BY <1>1, <1>2, <1>4, <2>1, Clears
<1>5. CASE Stop(g, thread[g])
  BY <1>1, <1>2, <1>5, Stops
<1>6. CASE /\ thread' = [thread EXCEPT ![g].tries = @ + 1, ![g].pc = "guard"]
           /\ UNCHANGED estimate
  <2> DEFINE w == [thread[g] EXCEPT !.tries = @ + 1, !.pc = "guard"]
  <2>1. w \in Threads
    <3>1. thread[g].tries + 1 \in Nat /\ "guard" \in Places
      BY <1>1 DEF Threads, Places
    <3> QED
      BY <1>1, <3>1 DEF Threads
  <2>2. /\ w.pc = "guard" /\ w.future = thread[g].future /\ w.entered = thread[g].entered
        /\ w.image = thread[g].image /\ w.stop = thread[g].stop /\ w.row = thread[g].row
        /\ w.hits = thread[g].hits /\ w.last = thread[g].last
    BY <1>1 DEF Threads
  <2>3. thread' = [thread EXCEPT ![g] = w]
    BY <1>1, <1>6
  <2> HIDE DEF w
  <2>4. Hits(w)
    BY <1>2, <2>2 DEF Hits, Evidence
  <2> QED
    BY <1>1, <1>2, <1>6, <2>1, <2>2, <2>3, <2>4, GoesOn
<1> QED
  BY <1>3, <1>4, <1>5, <1>6 DEF GuardTrack

\* One more image of the row is one more piece of evidence.
LEMMA OneMore ==
    ASSUME NEW t \in Threads, IsFiniteSet(t.row), NEW u \in Threads, NEW at \in Nat,
           u.row = t.row \cup {at}, u.stop = t.stop, u.last = at, at > t.stop, at > t.last
    PROVE  Cardinality(Evidence(u)) >= Cardinality(Evidence(t)) + 1 /\ IsFiniteSet(u.row)
<1>1. IsFiniteSet(u.row)
  BY FS_AddElement
<1>2. IsFiniteSet(Evidence(t)) /\ IsFiniteSet(Evidence(u))
  <2>1. Evidence(t) \subseteq t.row /\ Evidence(u) \subseteq u.row
    BY DEF Evidence
  <2> QED
    BY <1>1, <2>1, FS_Subset
<1>3. at \notin Evidence(t) /\ Evidence(t) \cup {at} \subseteq Evidence(u)
  BY DEF Evidence, Threads
<1>4. Cardinality(Evidence(t) \cup {at}) = Cardinality(Evidence(t)) + 1
  BY <1>2, <1>3, FS_AddElement
<1>5. Cardinality(Evidence(t) \cup {at}) <= Cardinality(Evidence(u))
  BY <1>2, <1>3, FS_Subset
<1>6. Cardinality(Evidence(t)) \in Nat /\ Cardinality(Evidence(u)) \in Nat
  BY <1>2, FS_CardinalityType
<1> QED
  BY <1>1, <1>4, <1>5, <1>6

\* The recovery of a stopped path counts images of after its stop.
LEMMA Recovers ==
    ASSUME IInv, NEW g \in Goals, RecoverPoll(g) PROVE IInv'
<1>1. /\ thread \in [Goals -> Threads] /\ thread[g] \in Threads /\ now \in Nat /\ misses \in Nat
      /\ estimate \in Estimates \cup {None} /\ Sound(thread[g], wanted[g]) /\ thread[g].pc = "recover"
      /\ thread[g].tries < VisionRetries /\ UNCHANGED <<now, task, aims>>
  BY Parameters DEF IInv, Types, RecoverPoll, pc
<1>2. /\ thread[g].future <= now /\ thread[g].entered <= thread[g].stop
      /\ thread[g].entered <= now /\ thread[g].hits <= thread[g].tries
      /\ Hits(thread[g]) /\ IsFiniteSet(thread[g].row)
  BY <1>1 DEF Sound, Stamps, Hits
<1>3. PICK e \in Results(g) :
         LET hits == IF Counts(thread[g], e) THEN thread[g].hits + 1 ELSE 0
             t == [thread[g] EXCEPT !.future = submit_latest, !.tries = @ + 1, !.hits = hits,
                     !.last = IF hits > 0 THEN e.at ELSE @,
                     !.row = IF Matches(thread[g].locked, e) THEN @ \cup {e.at} ELSE {}]
         IN  IF hits >= ReacquireHits THEN Clear(g, t, e) /\ misses' = 0
             ELSE thread' = [thread EXCEPT ![g] = t] /\ UNCHANGED <<estimate, misses>>
  BY Zenon DEF RecoverPoll
<1> DEFINE hits == IF Counts(thread[g], e) THEN thread[g].hits + 1 ELSE 0
           last == IF hits > 0 THEN e.at ELSE thread[g].last
           row == IF Matches(thread[g].locked, e) THEN thread[g].row \cup {e.at} ELSE {}
           t == [thread[g] EXCEPT !.future = submit_latest, !.tries = @ + 1, !.hits = hits,
                   !.last = last, !.row = row]
<1>4. Matches(thread[g].locked, e) => e \in Estimates /\ e.cls = wanted[g] /\ e.at \in Nat
  BY Given, Sightings DEF Matches
<1>5. hits \in Nat /\ last \in Int /\ row \in SUBSET Nat
  BY <1>1, <1>4 DEF Threads, Counts
<1>6. IF hits >= ReacquireHits THEN Clear(g, t, e) /\ misses' = 0
      ELSE thread' = [thread EXCEPT ![g] = t] /\ UNCHANGED <<estimate, misses>>
  BY <1>3
<1>7. hits > 0 => /\ Counts(thread[g], e) /\ Matches(thread[g].locked, e)
                  /\ e.at > thread[g].stop /\ e.at > thread[g].last
                  /\ hits = thread[g].hits + 1 /\ last = e.at /\ row = thread[g].row \cup {e.at}
  BY <1>1 DEF Threads, Counts
<1>8. IsFiniteSet(row)
  BY <1>2, FS_EmptySet, FS_AddElement
<1> HIDE DEF hits, last, row
<1>9. t \in Threads
  <2>1. thread[g].tries + 1 \in Nat /\ submit_latest \in Nat
    BY <1>1 DEF Threads, submit_latest
  <2> QED
    BY <1>1, <1>5, <2>1 DEF Threads
<1>10. /\ t.pc = "recover" /\ t.future = now /\ t.entered = thread[g].entered
       /\ t.stop = thread[g].stop /\ t.hits = hits /\ t.last = last /\ t.row = row
       /\ t.tries = thread[g].tries + 1 /\ t.locked = thread[g].locked
  BY <1>1 DEF Threads, submit_latest
<1> HIDE DEF t
<1>11. Hits(t)
  <2>1. hits <= Cardinality(Evidence(t))
    <3>1. CASE hits > 0
      <4>1. Cardinality(Evidence(t)) >= Cardinality(Evidence(thread[g])) + 1
        BY <1>1, <1>2, <1>4, <1>7, <1>9, <1>10, <3>1, OneMore
      <4>2. thread[g].hits <= Cardinality(Evidence(thread[g]))
        BY <1>2 DEF Hits
      <4>3. Cardinality(Evidence(thread[g])) \in Nat /\ Cardinality(Evidence(t)) \in Nat
        <5>1. Evidence(thread[g]) \subseteq thread[g].row /\ Evidence(t) \subseteq t.row
          BY DEF Evidence
        <5> QED
          BY <1>2, <1>8, <1>10, <5>1, FS_Subset, FS_CardinalityType
      <4>4. thread[g].hits \in Nat
        BY <1>1 DEF Threads
      <4> QED
        BY <1>5, <1>7, <3>1, <4>1, <4>2, <4>3, <4>4
    <3>2. CASE hits = 0
      <4>1. Evidence(t) \subseteq t.row
        BY DEF Evidence
      <4>2. Cardinality(Evidence(t)) \in Nat
        BY <1>8, <1>10, <4>1, FS_Subset, FS_CardinalityType
      <4> QED
        BY <3>2, <4>2
    <3> QED
      BY <1>5, <3>1, <3>2
  <2>2. thread[g].tries \in Nat /\ thread[g].hits \in Nat
    BY <1>1 DEF Threads
  <2>3. hits <= t.tries /\ t.tries <= VisionRetries
    BY <1>1, <1>2, <1>5, <1>7, <1>10, <2>2, Parameters
  <2> QED
    BY <1>5, <1>8, <1>9, <1>10, <2>1, <2>2, <2>3, Parameters DEF Hits
<1>12. CASE hits >= ReacquireHits
  <2>1. hits > 0
    BY <1>5, <1>12, Parameters
  <2>2. e \in Estimates /\ e.cls = wanted[g] /\ Matches(t.locked, e) /\ e.at >= t.entered
    <3>1. thread[g].entered \in Nat /\ thread[g].stop \in Nat
      BY <1>1 DEF Threads
    <3> QED
      BY <1>2, <1>4, <1>7, <1>10, <2>1, <3>1
  <2>3. t.entered <= now /\ t.future <= now
    BY <1>1, <1>2, <1>10
  <2> QED
    BY <1>1, <1>6, <1>9, <1>10, <1>11, <1>12, <2>2, <2>3, Clears
<1>13. CASE ~(hits >= ReacquireHits)
  <2>1. Stamps(t)
    BY <1>1, <1>2, <1>10 DEF Stamps
  <2> QED
    BY <1>1, <1>6, <1>9, <1>10, <1>11, <1>13, <2>1, OneThread DEF Sound, Licensed
<1> QED
  BY <1>12, <1>13

\* A waypoint is commanded, or the path ends.
LEMMA Commands ==
    ASSUME IInv, NEW g \in Goals, RecoverFails(g) \/ ApproachWaypoint(g) PROVE IInv'
<1>1. /\ thread \in [Goals -> Threads] /\ thread[g] \in Threads /\ now \in Nat /\ misses \in Nat
      /\ estimate \in Estimates \cup {None} /\ thread[g].future <= now
  BY Parameters DEF IInv, Types, Sound, Stamps
<1>2. CASE Return(g)
  BY <1>1, <1>2, Returns DEF RecoverFails, ApproachWaypoint
<1>3. CASE ~Return(g)
  <2> DEFINE t == [At("guard") EXCEPT !.step = thread[g].step + 1,
                     !.locked = thread[g].locked, !.future = thread[g].future]
  <2>1. /\ At("guard") \in Threads /\ Stamps(At("guard")) /\ Hits(At("guard"))
        /\ At("guard").pc = "guard"
    BY <1>1, Begun DEF Places, At
  <2>2. t \in Threads
    <3>1. /\ thread[g].step + 1 \in Nat /\ thread[g].locked \in Estimates \cup {None}
          /\ thread[g].future \in Nat
      BY <1>1 DEF Threads
    <3> QED
      BY <2>1, <3>1 DEF Threads
  <2>3. /\ t.pc = "guard" /\ t.future = thread[g].future /\ t.entered = At("guard").entered
        /\ t.stop = At("guard").stop /\ t.row = At("guard").row /\ t.hits = At("guard").hits
        /\ t.last = At("guard").last /\ t.tries = At("guard").tries
    BY <1>1, <2>1 DEF Threads
  <2>4. thread' = [thread EXCEPT ![g] = t] /\ UNCHANGED <<now, task, aims, estimate, misses>>
    BY <1>3 DEF RecoverFails, ApproachWaypoint
  <2> HIDE DEF t
  <2>5. Stamps(t) /\ Hits(t) /\ Licensed(t, wanted[g])
    BY <1>1, <2>1, <2>3 DEF Stamps, Hits, Evidence, Licensed
  <2> QED
    BY <1>1, <2>1, <2>2, <2>3, <2>4, <2>5, OneThread DEF Sound
<1> QED
  BY <1>2, <1>3

(***************************************************************************)
(* The theorems.                                                            *)
(***************************************************************************)
\* No goal has begun: nothing has been seen or counted.
LEMMA Initially == Init => IInv
<1> SUFFICES ASSUME Init PROVE IInv
  OBVIOUS
<1>1. now = 0 /\ now \in 0 .. Horizon
  BY Parameters DEF Init
<1>2. ASSUME NEW g \in Goals
      PROVE  thread[g] \in Threads /\ Sound(thread[g], wanted[g])
  <2>1. thread[g] = At("idle")
    BY DEF Init
  <2> QED
    BY <1>1, <2>1, Begun DEF Places, Sound
<1>3. Types
  BY <1>1, <1>2 DEF Init, Types
<1>4. Aims
  <2> SUFFICES ASSUME NEW g \in Goals
               PROVE  thread[g].pc = "idle" /\ wanted[g] = NoClass
    BY DEF Aims
  <2> QED
    BY DEF Init, At
<1> QED
  BY <1>2, <1>3, <1>4 DEF IInv

\* One step per action; all but the camera and the goals move one thread.
LEMMA Inductive == IInv /\ [Next]_vars => IInv'
<1> SUFFICES ASSUME IInv, [Next]_vars PROVE IInv'
  OBVIOUS
<1>1. ASSUME UNCHANGED <<task, thread, aims, estimate, misses>>, now' = now \/ (now < Horizon /\ now' = now + 1)
      PROVE  IInv'
  <2>1. now \in Nat /\ now' \in 0 .. Horizon /\ now <= now'
    BY <1>1, Parameters DEF IInv, Types
  <2>2. Types' /\ Aims'
    BY <1>1, <2>1 DEF IInv, Types, Aims, aims
  <2>3. ASSUME NEW g \in Goals PROVE Sound(thread[g], wanted[g])'
    <3>1. Sound(thread[g], wanted[g]) /\ thread[g] \in Threads
      BY DEF IInv, Types
    <3>2. thread[g].image \in Nat /\ thread[g].future \in Nat /\ thread[g].entered \in Nat
      BY <3>1 DEF Threads
    <3>3. Stamps(thread[g])'
      BY <1>1, <2>1, <3>1, <3>2 DEF Sound, Stamps
    <3> QED
      BY <1>1, <3>1, <3>3 DEF Sound, Hits, Licensed, Evidence, aims
  <2> QED
    BY <2>2, <2>3 DEF IInv
<1>2. CASE Observe
  BY <1>1, <1>2 DEF Observe
<1>3. ASSUME NEW g \in Goals, Goal(g) PROVE IInv'
  BY <1>3, Targets, Lifting, Starts, Polls, Flows, Recovers, Commands DEF Goal
<1>4. CASE UNCHANGED vars
  BY <1>1, <1>4 DEF vars
<1> QED
  BY <1>2, <1>3, <1>4 DEF Next

\* The invariant holds for every number of goals and of images, also while the
\* thread of a canceled goal shares _estimate with its successor.
THEOREM Invariance == Spec => []IInv
  BY Initially, Inductive, PTL DEF Spec

\* The policy's state is well typed; no image is of the future.
THEOREM TypeCorrect == Spec => []TypeOK
<1>1. IInv => TypeOK
  <2> SUFFICES ASSUME IInv PROVE TypeOK
    OBVIOUS
  <2>1. ASSUME NEW g \in Goals
        PROVE  /\ pc(g) \in Places /\ future(g) \in 0 .. now
               /\ thread[g].hits \in 0 .. VisionRetries
    <3>1. thread[g] \in Threads /\ Sound(thread[g], wanted[g]) /\ now \in Nat
      BY Parameters DEF IInv, Types
    <3>2. thread[g].pc \in Places /\ thread[g].future \in Nat /\ thread[g].hits \in Nat
      BY <3>1 DEF Threads
    <3> QED
      BY <3>1, <3>2, Parameters DEF Sound, Stamps, Hits, pc, future
  <2> QED
    BY <2>1 DEF TypeOK, IInv, Types, Places
<1> QED
  BY <1>1, Invariance, PTL

\* A waypoint is sent towards the port of the goal's own task, at the place that
\* was locked, unless another goal's thread wrote self._target before this goal's
\* read it again (FinalPolicy.py:276, 395, 478-486).
THEOREM OwnPortHolds == Spec => []OwnPort
<1>1. IInv => OwnPort
  <2> SUFFICES ASSUME IInv, NEW g \in Goals, pc(g) = "go"
               PROVE  /\ thread[g].licence.cls = wanted[g] /\ thread[g].locked.cls = wanted[g]
                      /\ thread[g].licence.spot = thread[g].locked.spot
                      /\ g \notin overtaken => wanted[g] = task[g]
    BY DEF OwnPort
  <2>1. Licensed(thread[g], wanted[g]) /\ thread[g].pc = "go"
    BY DEF IInv, Sound, pc
  <2>2. wanted[g] \in Classes
    BY <2>1, Sightings DEF Licensed
  <2>3. g \notin overtaken => wanted[g] \in {NoClass, task[g]}
    BY DEF IInv, Aims
  <2> QED
    BY <2>1, <2>2, <2>3, FinalPolicyAssumption DEF Licensed, NoClass
<1> QED
  BY <1>1, Invariance, PTL

\* No waypoint is sent on what was seen before its guard was called
\* (FinalPolicy.py:350-356).
THEOREM FreshLicenceHolds == Spec => []FreshLicence
<1>1. IInv => FreshLicence
  BY DEF IInv, Sound, Licensed, FreshLicence, pc
<1> QED
  BY <1>1, Invariance, PTL

\* A path that was stopped goes on only on the evidence of ReacquireHits images
\* of after the stop (FinalPolicy.py:288).
THEOREM StoppedEvidenceHolds == Spec => []StoppedEvidence
<1>1. IInv => StoppedEvidence
  <2> SUFFICES ASSUME IInv, NEW g \in Goals, pc(g) = "go", thread[g].stop # 0
               PROVE  Cardinality({at \in thread[g].row : at > thread[g].stop}) >= ReacquireHits
    BY DEF StoppedEvidence
  <2> DEFINE t == thread[g]
             after == {at \in t.row : at > t.stop}
  <2>1. t \in Threads /\ Hits(t) /\ t.hits >= ReacquireHits
    BY DEF IInv, Types, Sound, Licensed, pc
  <2>2. IsFiniteSet(after) /\ Evidence(t) \subseteq after
    <3>1. IsFiniteSet(t.row) /\ after \subseteq t.row
      BY <2>1 DEF Hits
    <3>2. IsFiniteSet(after)
      BY <3>1, FS_Subset
    <3> QED
      BY <3>2 DEF Evidence
  <2>3. Cardinality(Evidence(t)) <= Cardinality(after) /\ Cardinality(after) \in Nat
        /\ IsFiniteSet(Evidence(t))
    BY <2>2, FS_Subset, FS_CardinalityType
  <2>4. Cardinality(Evidence(t)) \in Nat
    BY <2>3, FS_CardinalityType
  <2>5. t.hits <= Cardinality(Evidence(t)) /\ t.hits \in Nat
    BY <2>1 DEF Hits, Threads
  <2> QED
    BY <2>1, <2>3, <2>4, <2>5, Parameters
<1> QED
  BY <1>1, Invariance, PTL

(***************************************************************************)
(* The dashboard: its inductive invariant.                                  *)
(***************************************************************************)
FrameNames ==
    {Board!NoFrame, "gripper/tcp", "base_link", "reset", "blended"} \cup FixedCables
    \cup {t.cable : t \in FrameTasks} \cup {t.port : t \in FrameTasks}
Values == {Board!None} \cup {<<v>> : v \in [frame : FrameNames, sequence : Nat, trial : Nat]}
FramePairs  == [cable : FrameNames, port : FrameNames]
Messages == {Board!None} \cup {<<t>> : t \in FrameTasks}
Lives ==
    [trial : Nat, task : {Board!None} \cup {<<f>> : f \in FramePairs}, point : Values,
     wrench : Values, images : [Streams -> Nat], positions : [Board!Sources -> Values],
     orientations : [{"ee", "cable"} -> Values]]

BoardTypes ==
    /\ live \in Lives /\ frames \in FramePairs /\ fixed \in FixedCables
    /\ mailbox \in Messages /\ published.task \in Messages

\* What a page must show at any time: positions and point of the trial it names, port and
\* cable in the frames of that trial's task.
Shows(s) ==
    s.task # Board!None =>
      /\ s.point # Board!None => s.point[1].trial = s.trial
      /\ \A x \in Board!Sources :
           s.positions[x] # Board!None => s.positions[x][1].trial = s.trial
      /\ s.positions["cable"] # Board!None =>
           s.positions["cable"][1].frame = s.task[1].cable
      /\ s.orientations["cable"] # Board!None =>
           s.orientations["cable"][1].frame = s.task[1].cable
      /\ s.positions["port"] # Board!None => s.positions["port"][1].frame = s.task[1].port

\* The frames the callbacks look up are those of the task that is shown, but for the
\* moment between the two locks of _on_task, when no orientation of the cable is there.
FramesOK ==
    /\ live.task # Board!None => frames.cable = Board!CableFrame
    /\ live.task # Board!None /\ callback # "task" => live.task[1] = frames
    /\ callback = "task" =>
         frames.cable = Board!CableFrame /\ live.orientations["cable"] = Board!None

BoardInv == BoardTypes /\ FramesOK /\ Shows(live) /\ Shows(page.snapshot)

\* A new value is of the trial that is shown.
LEMMA NewValue ==
    ASSUME BoardTypes, NEW old \in Values, NEW f \in FrameNames
    PROVE  /\ Board!Value(old, f) \in Values /\ Board!Value(old, f) # Board!None
           /\ Board!Value(old, f)[1].frame = f /\ Board!Value(old, f)[1].trial = live.trial
<1>1. live.trial \in Nat
  BY DEF BoardTypes, Lives
<1>2. Board!Sequence(old) \in Nat
  <2>1. CASE old = Board!None
    BY <2>1 DEF Board!Sequence
  <2>2. CASE old # Board!None
    <3>1. PICK v \in [frame : FrameNames, sequence : Nat, trial : Nat] : old = <<v>>
      BY <2>2 DEF Values
    <3>2. old[1].sequence \in Nat
      BY <3>1
    <3> QED
      BY <2>2, <3>2 DEF Board!Sequence
  <2> QED
    BY <2>1, <2>2
<1> DEFINE v == [frame |-> f, sequence |-> Board!Sequence(old), trial |-> live.trial]
<1>3. /\ v \in [frame : FrameNames, sequence : Nat, trial : Nat]
      /\ v.frame = f /\ v.trial = live.trial
  BY <1>1, <1>2
<1>4. Board!Value(old, f) = <<v>>
  BY DEF Board!Value
<1> HIDE DEF v
<1> QED
  BY <1>3, <1>4 DEF Values, Board!None

\* The state before the first task, and after a restart of the server.
LEMMA EmptyShows ==
    /\ Board!Empty \in Lives /\ Board!Empty.task = Board!None
    /\ [cable |-> Board!NoFrame, port |-> Board!NoFrame] \in FramePairs
  BY DEF Board!Empty, Lives, Values, FramePairs, FrameNames

\* A position of a source is written, in the frame of the source.
LEMMA Position ==
    ASSUME BoardInv, callback # "task", NEW x \in Board!Sources, NEW f \in FrameNames,
           Board!WritePosition(x, f),
           x = "cable" /\ live.task # Board!None => f = frames.cable,
           x = "port" => f = frames.port
    PROVE  live' \in Lives /\ live'.task = live.task /\ Shows(live')
<1> DEFINE v == Board!Value(live.positions[x], f)
<1>1. /\ live \in Lives /\ live.positions \in [Board!Sources -> Values]
      /\ live.positions[x] \in Values
  BY DEF BoardInv, BoardTypes, Lives
<1>2. v \in Values /\ v # Board!None /\ v[1].frame = f /\ v[1].trial = live.trial
  BY <1>1, NewValue DEF BoardInv
<1>3. live' = [live EXCEPT !.positions = [live.positions EXCEPT ![x] = v]]
  BY <1>1 DEF Board!WritePosition, Lives
<1> HIDE DEF v
<1>4. [live.positions EXCEPT ![x] = v] \in [Board!Sources -> Values]
  BY <1>1, <1>2
<1>5. live' \in Lives
  BY <1>1, <1>3, <1>4 DEF Lives
<1>6. /\ live'.task = live.task /\ live'.trial = live.trial /\ live'.point = live.point
      /\ live'.orientations = live.orientations
      /\ live'.positions = [live.positions EXCEPT ![x] = v]
  BY <1>1, <1>3 DEF Lives
<1>7. \A y \in Board!Sources : live'.positions[y] = IF y = x THEN v ELSE live.positions[y]
  BY <1>1, <1>6
<1>8. live.task # Board!None => live.task[1] = frames
  BY DEF BoardInv, FramesOK
<1>9. "cable" \in Board!Sources /\ "port" \in Board!Sources
  BY DEF Board!Sources
<1>10. Shows(live')
  BY <1>2, <1>6, <1>7, <1>8, <1>9 DEF BoardInv, Shows
<1> QED
  BY <1>5, <1>6, <1>10

\* An orientation of a source is written, in the frame of the source.
LEMMA Orientation ==
    ASSUME BoardInv, callback # "task", NEW x \in {"ee", "cable"}, NEW f \in FrameNames,
           Board!WriteOrientation(x, f),
           x = "cable" /\ live.task # Board!None => f = frames.cable
    PROVE  live' \in Lives /\ live'.task = live.task /\ Shows(live')
<1> DEFINE v == Board!Value(Board!None, f)
<1>1. /\ live \in Lives /\ live.orientations \in [{"ee", "cable"} -> Values]
      /\ Board!None \in Values
  BY DEF BoardInv, BoardTypes, Lives, Values
<1>2. v \in Values /\ v # Board!None /\ v[1].frame = f
  BY <1>1, NewValue DEF BoardInv
<1>3. \/ live' = live
      \/ live' = [live EXCEPT !.orientations = [live.orientations EXCEPT ![x] = v]]
  BY <1>1 DEF Board!WriteOrientation, Lives
<1> HIDE DEF v
<1>4. CASE live' = live
  BY <1>1, <1>4 DEF BoardInv
<1>5. CASE live' = [live EXCEPT !.orientations = [live.orientations EXCEPT ![x] = v]]
  <2>1. [live.orientations EXCEPT ![x] = v] \in [{"ee", "cable"} -> Values]
    BY <1>1, <1>2
  <2>2. live' \in Lives
    BY <1>1, <1>5, <2>1 DEF Lives
  <2>3. /\ live'.task = live.task /\ live'.trial = live.trial /\ live'.point = live.point
        /\ live'.positions = live.positions
        /\ live'.orientations = [live.orientations EXCEPT ![x] = v]
    BY <1>1, <1>5 DEF Lives
  <2>4. live'.orientations["cable"] = IF x = "cable" THEN v ELSE live.orientations["cable"]
    BY <1>1, <2>3
  <2>5. live.task # Board!None => live.task[1] = frames
    BY DEF BoardInv, FramesOK
  <2> QED
    BY <1>2, <2>2, <2>3, <2>4, <2>5 DEF BoardInv, Shows
<1> QED
  BY <1>3, <1>4, <1>5

\* A callback that leaves task, trial, frames and the cable's orientation alone.
LEMMA Rest ==
    ASSUME BoardInv, callback # "task", callback' # "task", live' \in Lives,
           live'.task = live.task, Shows(live'),
           UNCHANGED <<mailbox, published, fixed, frames, page>>
    PROVE  BoardInv'
<1>1. BoardTypes' /\ Shows(live)' /\ Shows(page.snapshot)'
  BY DEF BoardInv, BoardTypes, Shows
<1>2. FramesOK'
  BY DEF BoardInv, FramesOK, Board!CableFrame
<1> QED
  BY <1>1, <1>2 DEF BoardInv

\* Nothing has been received.
LEMMA BoardInitially == Board!Init => BoardInv
<1> SUFFICES ASSUME Board!Init PROVE BoardInv
  OBVIOUS
<1>1. /\ live = Board!Empty /\ page.snapshot = Board!Empty /\ callback # "task"
      /\ frames \in FramePairs /\ fixed \in FixedCables
      /\ mailbox = Board!None /\ published.task = Board!None
  BY EmptyShows DEF Board!Init
<1> QED
  BY <1>1, EmptyShows DEF BoardInv, BoardTypes, FramesOK, Shows, Messages

\* Every callback, between any two of its locks, keeps the state of one trial.
LEMMA BoardInductive == BoardInv /\ [Board!Next]_(Board!vars) => BoardInv'
<1> SUFFICES ASSUME BoardInv, [Board!Next]_(Board!vars) PROVE BoardInv'
  OBVIOUS
<1>1. /\ BoardTypes /\ FramesOK /\ Shows(live) /\ Shows(page.snapshot) /\ live \in Lives
      /\ frames \in FramePairs /\ fixed \in FixedCables
  BY DEF BoardInv, BoardTypes
<1>2. CASE Board!PublishTask
  <2>1. PICK t \in FrameTasks : mailbox' = <<t>> /\ published'.task = <<t>>
    BY <1>2 DEF Board!PublishTask
  <2>2. UNCHANGED <<fixed, frames, callback, live, page>>
    BY <1>2 DEF Board!PublishTask, Board!Page
  <2>3. mailbox' \in Messages /\ published'.task \in Messages
    BY <2>1 DEF Messages
  <2> QED
    BY <1>1, <2>2, <2>3 DEF BoardInv, BoardTypes, FramesOK, Shows, Board!CableFrame
<1>3. CASE Board!OnTask
  <2>1. PICK t \in FrameTasks : mailbox = <<t>>
    BY <1>1, <1>3 DEF Board!OnTask, BoardTypes, Messages
  <2>2. /\ callback = "none" /\ mailbox' = Board!None /\ UNCHANGED <<published, fixed, page>>
    BY <1>3 DEF Board!OnTask, Board!Page
  <2>3. CASE UNCHANGED <<frames, live, callback>>
    BY <1>1, <2>2, <2>3
       DEF BoardInv, BoardTypes, FramesOK, Shows, Board!CableFrame, Messages
  <2>4. CASE /\ frames' = [cable |-> Board!Cable(t), port |-> t.port]
             /\ live' = [live EXCEPT !.orientations["cable"] = Board!None]
             /\ callback' = "task"
    <3>1. Board!Cable(t) \in FrameNames /\ t.port \in FrameNames
      BY <1>1 DEF FrameNames, Board!Cable
    <3>2. /\ frames' \in FramePairs /\ frames'.cable = Board!Cable(t)
      BY <2>4, <3>1 DEF FramePairs
    <3>3. Board!CableFrame' = frames'.cable
      BY <2>2, <3>2 DEF Board!CableFrame, Board!Cable
    <3>4. /\ live.orientations \in [{"ee", "cable"} -> Values] /\ Board!None \in Values
      BY <1>1 DEF Lives, Values
    <3>5. live' = [live EXCEPT !.orientations =
                     [live.orientations EXCEPT !["cable"] = Board!None]]
      BY <1>1, <2>4 DEF Lives
    <3>6. [live.orientations EXCEPT !["cable"] = Board!None] \in [{"ee", "cable"} -> Values]
      BY <3>4
    <3>7. live' \in Lives
      BY <1>1, <3>5, <3>6 DEF Lives
    <3>8. /\ live'.task = live.task /\ live'.trial = live.trial /\ live'.point = live.point
          /\ live'.positions = live.positions
          /\ live'.orientations["cable"] = Board!None
      BY <1>1, <3>4, <3>5 DEF Lives
    <3>9. Shows(live')
      BY <1>1, <3>8 DEF Shows
    <3>10. FramesOK'
      BY <2>4, <3>3, <3>8 DEF FramesOK
    <3>11. BoardTypes'
      BY <1>1, <2>2, <3>2, <3>7 DEF BoardTypes, Messages
    <3> QED
      BY <1>1, <2>2, <3>9, <3>10, <3>11 DEF BoardInv, Shows
  <2> QED
    BY <1>3, <2>1, <2>3, <2>4 DEF Board!OnTask
<1>4. CASE Board!UpdateTask
  <2>1. /\ callback = "task" /\ callback' = "none"
        /\ live' = [Board!Discards(live) EXCEPT !.trial = @ + 1, !.task = <<frames>>]
        /\ UNCHANGED <<mailbox, published, fixed, frames, page>>
    BY <1>4 DEF Board!UpdateTask, Board!Page
  <2> DEFINE empty == [s \in Board!Sources |-> Board!None]
  <2>2. live' = [live EXCEPT !.point = Board!None, !.positions = empty,
                             !.trial = live.trial + 1, !.task = <<frames>>]
    BY <1>1, <2>1 DEF Board!Discards, Lives
  <2>3. /\ empty \in [Board!Sources -> Values] /\ Board!None \in Values
        /\ \A x \in Board!Sources : empty[x] = Board!None
    BY DEF Values
  <2> HIDE DEF empty
  <2>4. live.trial + 1 \in Nat /\ <<frames>> \in {<<f>> : f \in FramePairs}
    BY <1>1 DEF Lives
  <2>5. live' \in Lives
    BY <1>1, <2>2, <2>3, <2>4 DEF Lives
  <2>6. /\ live'.task = <<frames>> /\ live'.point = Board!None /\ live'.positions = empty
        /\ live'.orientations = live.orientations
    BY <1>1, <2>2 DEF Lives
  <2>7. live'.task[1] = frames
    BY <2>6
  <2>8. "cable" \in Board!Sources /\ "port" \in Board!Sources
    BY DEF Board!Sources
  <2>9. Shows(live') /\ FramesOK'
    BY <1>1, <2>1, <2>3, <2>6, <2>7, <2>8 DEF Shows, FramesOK, Board!CableFrame
  <2>10. BoardTypes'
    BY <1>1, <2>1, <2>5 DEF BoardTypes
  <2> QED
    BY <1>1, <2>1, <2>9, <2>10 DEF BoardInv, Shows
<1>5. CASE Board!OnControllerState
  <2>1. /\ callback # "task" /\ callback' # "task"
        /\ Board!WritePosition("ee", "gripper/tcp") \/ Board!WriteOrientation("ee", "gripper/tcp")
        /\ UNCHANGED <<mailbox, published, fixed, frames, page>>
    BY <1>5 DEF Board!OnControllerState, Board!Page
  <2>2. "gripper/tcp" \in FrameNames /\ "ee" \in Board!Sources
    BY DEF FrameNames, Board!Sources
  <2> QED
    BY <1>1, <2>1, <2>2, Position, Orientation, Rest DEF BoardInv
<1>6. CASE Board!OnTimer
  <2>1. /\ callback # "task" /\ callback' # "task"
        /\ UNCHANGED <<mailbox, published, fixed, frames, page>>
        /\ \/ UNCHANGED live
           \/ Board!WritePosition("cable", Board!CableFrame)
           \/ Board!WriteOrientation("cable", Board!CableFrame)
           \/ Board!WritePosition("port", frames.port)
    BY <1>6 DEF Board!OnTimer, Board!Page
  <2>2. /\ Board!CableFrame \in FrameNames /\ frames.port \in FrameNames
        /\ "cable" \in Board!Sources /\ "port" \in Board!Sources
    BY <1>1 DEF FrameNames, Board!CableFrame, FramePairs, Board!Sources
  <2>3. live.task # Board!None => Board!CableFrame = frames.cable
    BY <1>1 DEF FramesOK
  <2>4. live' \in Lives /\ live'.task = live.task /\ Shows(live')
    <3>1. CASE UNCHANGED live
      BY <1>1, <3>1 DEF Shows
    <3>2. CASE Board!WritePosition("cable", Board!CableFrame)
      BY <2>1, <2>2, <2>3, <3>2, Position
    <3>3. CASE Board!WriteOrientation("cable", Board!CableFrame)
      BY <2>1, <2>2, <2>3, <3>3, Orientation
    <3>4. CASE Board!WritePosition("port", frames.port)
      BY <2>1, <2>2, <2>3, <3>4, Position
    <3> QED
      BY <2>1, <3>1, <3>2, <3>3, <3>4
  <2> QED
    BY <2>1, <2>4, Rest
<1>7. CASE Board!OnPoint
  <2> DEFINE v == Board!Value(live.point, "base_link")
  <2>1. /\ callback = "none" /\ callback' = "none" /\ live' = [live EXCEPT !.point = v]
        /\ UNCHANGED <<mailbox, published, fixed, frames, page>>
    BY <1>1, <1>7 DEF Board!OnPoint, Board!Page, Lives
  <2>2. live.point \in Values /\ "base_link" \in FrameNames
    BY <1>1 DEF Lives, FrameNames
  <2>3. v \in Values /\ v # Board!None /\ v[1].trial = live.trial
    BY <1>1, <2>2, NewValue
  <2> HIDE DEF v
  <2>4. live' \in Lives
    BY <1>1, <2>1, <2>3 DEF Lives
  <2>5. /\ live'.task = live.task /\ live'.trial = live.trial /\ live'.point = v
        /\ live'.positions = live.positions /\ live'.orientations = live.orientations
    BY <1>1, <2>1 DEF Lives
  <2>6. Shows(live')
    BY <1>1, <2>3, <2>5 DEF Shows
  <2> QED
    BY <2>1, <2>4, <2>5, <2>6, Rest
<1>8. CASE Board!OnWrench
  <2>1. PICK f \in {"reset", "blended"} :
           /\ callback = "none" /\ callback' = "none"
           /\ live' = [live EXCEPT !.wrench = Board!Value(live.wrench, f)]
           /\ UNCHANGED <<mailbox, published, fixed, frames, page>>
    BY <1>1, <1>8 DEF Board!OnWrench, Board!Page, Lives
  <2>2. live.wrench \in Values /\ f \in FrameNames
    BY <1>1 DEF Lives, FrameNames
  <2>3. Board!Value(live.wrench, f) \in Values
    BY <1>1, <2>2, NewValue
  <2>4. live' \in Lives
    BY <1>1, <2>1, <2>3 DEF Lives
  <2>5. /\ live'.task = live.task /\ live'.trial = live.trial /\ live'.point = live.point
        /\ live'.positions = live.positions /\ live'.orientations = live.orientations
    BY <1>1, <2>1 DEF Lives
  <2>6. Shows(live')
    BY <1>1, <2>5 DEF Shows
  <2> QED
    BY <2>1, <2>4, <2>5, <2>6, Rest
<1>9. ASSUME NEW c \in Streams, Board!OnImage(c) PROVE BoardInv'
  <2>1. /\ callback = "none" /\ callback' = "none"
        /\ live' = [live EXCEPT !.images = [live.images EXCEPT ![c] = live.images[c] + 1]]
        /\ UNCHANGED <<mailbox, published, fixed, frames, page>>
    BY <1>1, <1>9 DEF Board!OnImage, Board!Page, Lives
  <2>2. [live.images EXCEPT ![c] = live.images[c] + 1] \in [Streams -> Nat]
    BY <1>1 DEF Lives
  <2>3. live' \in Lives
    BY <1>1, <2>1, <2>2 DEF Lives
  <2>4. /\ live'.task = live.task /\ live'.trial = live.trial /\ live'.point = live.point
        /\ live'.positions = live.positions /\ live'.orientations = live.orientations
    BY <1>1, <2>1 DEF Lives
  <2>5. Shows(live')
    BY <1>1, <2>4 DEF Shows
  <2> QED
    BY <2>1, <2>3, <2>4, <2>5, Rest
<1>10. CASE Board!Poll
  <2>1. page'.snapshot = live /\ UNCHANGED <<mailbox, published, fixed, frames, callback, live>>
    BY <1>10 DEF Board!Poll
  <2> QED
    BY <1>1, <2>1 DEF BoardInv, BoardTypes, FramesOK, Shows, Board!CableFrame
<1>11. CASE Board!Restart
  <2>1. /\ live' = Board!Empty /\ callback' = "none" /\ mailbox' = published.task
        /\ frames' = [cable |-> Board!NoFrame, port |-> Board!NoFrame]
        /\ UNCHANGED <<published, fixed, page>>
    BY <1>11 DEF Board!Restart
  <2> QED
    BY <1>1, <2>1, EmptyShows DEF BoardInv, BoardTypes, FramesOK, Shows
<1>12. CASE UNCHANGED Board!vars \/ \E c \in Streams : Board!Stream(c)
  <2>1. UNCHANGED <<mailbox, published, fixed, frames, callback, live, page>>
    BY <1>12 DEF Board!vars, Board!Stream
  <2> QED
    BY <1>1, <2>1 DEF BoardInv, BoardTypes, FramesOK, Shows, Board!CableFrame
<1> QED
  BY <1>2, <1>3, <1>4, <1>5, <1>6, <1>7, <1>8, <1>9, <1>10, <1>11, <1>12 DEF Board!Next

\* The dashboard's invariant, for all cameras, tasks and frames.
THEOREM BoardInvariance == Board!Spec => []BoardInv
  BY BoardInitially, BoardInductive, PTL DEF Board!Spec

\* Whenever a page is answered, also between two locks of one callback and after a restart
\* of the server, what it shows was received during the trial it names, and port and
\* cable are in the frames of that trial's task.
THEOREM SnapshotIsOfOneTrialHolds == Board!Spec => []SnapshotIsOfOneTrial
<1>1. BoardInv => SnapshotIsOfOneTrial
  <2> SUFFICES ASSUME BoardInv, page.snapshot.task # Board!None
               PROVE  Board!SnapshotIsOfOneTrial
    BY DEF SnapshotIsOfOneTrial, Board!SnapshotIsOfOneTrial
  <2> QED
    BY DEF BoardInv, Shows, Board!SnapshotIsOfOneTrial
<1> QED
  BY <1>1, BoardInvariance, PTL

(***************************************************************************)
(* PortVision: an estimate is where every camera that sees the port sees it. *)
(***************************************************************************)
Points == [m : Int, d : Int, h : Int]
Pixels == Int \X Int

\* Detections at pixels, by camera.
FoundOK(found) ==
    \A c \in Vision!Cameras :
        /\ found[c] # <<>> <=> DOMAIN found[c] # {}
        /\ \A k \in DOMAIN found[c] : k \in Nat /\ found[c][k].uv \in Pixels

\* Among the subsets of a finite set that have a property one is smallest.
LEMMA Smallest ==
    ASSUME NEW S, IsFiniteSet(S), NEW B \in SUBSET (SUBSET S), B # {}
    PROVE  \E s \in B : \A t \in B : t \subseteq s => t = s
<1>1. IsWellFoundedOn(StrictSubsetOrdering(S), FiniteSubsetsOf(S))
  BY FS_StrictSubsetOrderingWellFounded
<1>2. B \subseteq FiniteSubsetsOf(S)
  BY FS_FiniteSubsetsOfFinite
<1>3. PICK s \in B : \A t \in B : ~ (<<t, s>> \in StrictSubsetOrdering(S))
  BY <1>1, <1>2, WFMin
<1> QED BY <1>3 DEF StrictSubsetOrdering

\* Of some natural numbers one is least.
LEMMA LeastNumber ==
    ASSUME NEW T, T # {}, \A x \in T : x \in Nat
    PROVE  \E x \in T : \A y \in T : x <= y
<1>1. PICK t \in T : TRUE
  OBVIOUS
<1> DEFINE S == 0 .. t
           B == {u \in SUBSET S : \E x \in T : u = 0 .. x}
<1>2. IsFiniteSet(S) /\ S \in B
  BY <1>1, FS_Interval
<1>3. PICK s \in B : \A u \in B : u \subseteq s => u = s
  <2>1. B \in SUBSET (SUBSET S) /\ B # {}
    BY <1>2
  <2> HIDE DEF B, S
  <2> QED BY <1>2, <2>1, Smallest
<1>4. PICK x \in T : s = 0 .. x
  BY <1>3
<1>5. \A y \in T : x <= y
  <2> SUFFICES ASSUME NEW y \in T, ~(x <= y) PROVE FALSE
    OBVIOUS
  <2>1. x \in Nat /\ y \in Nat /\ y < x
    OBVIOUS
  <2>2. 0 .. y \subseteq s /\ s \subseteq S
    BY <1>3, <1>4, <2>1
  <2>3. 0 .. y \in B
    BY <2>2
  <2>4. 0 .. y = s
    BY <1>3, <2>2, <2>3
  <2> QED BY <1>4, <2>1, <2>4
<1> QED BY <1>5

\* Of some things one is least by a number of theirs.
LEMMA LeastBy ==
    ASSUME NEW S, S # {}, NEW f, \A x \in S : f[x] \in Nat
    PROVE  \E x \in S : \A y \in S : f[x] <= f[y]
<1> DEFINE T == {f[x] : x \in S}
<1>1. T # {} /\ \A x \in T : x \in Nat
  OBVIOUS
<1>2. PICK t \in T : \A y \in T : t <= y
  <2> HIDE DEF T
  <2> QED BY <1>1, LeastNumber
<1> QED BY <1>2

\* A square is not negative, and zero only of zero.
LEMMA Squares == \A x \in Int : x * x \in Nat /\ (x * x = 0 => x = 0)
  BY SMT

\* The distance of two pixels is zero only if they are one.
LEMMA AwayType ==
    ASSUME NEW p \in Pixels, NEW q \in Pixels
    PROVE  /\ Vision!Away(p, q) \in Nat
           /\ Vision!Away(p, q) = 0 <=> p = q
<1> DEFINE x == p[1] - q[1]
           y == p[2] - q[2]
<1>1. /\ x \in Int /\ y \in Int /\ p[1] \in Int /\ p[2] \in Int /\ q[1] \in Int /\ q[2] \in Int
      /\ p = <<p[1], p[2]>> /\ q = <<q[1], q[2]>>
  BY DEF Pixels
<1>2. Vision!Away(p, q) = x * x + y * y
  BY DEF Vision!Away, Vision!Square
<1>3. x * x \in Nat /\ y * y \in Nat /\ (x * x = 0 => x = 0) /\ (y * y = 0 => y = 0)
  <2> HIDE DEF x, y
  <2> QED BY <1>1, Squares
<1>4. x = 0 /\ y = 0 => p = q
  BY <1>1
<1>5. p = q => x = 0 /\ y = 0
  BY <1>1
<1> HIDE DEF x, y
<1>6. x = 0 /\ y = 0 => x * x + y * y = 0
  OBVIOUS
<1> QED BY <1>2, <1>3, <1>4, <1>5, <1>6

\* Where a camera sees a point is a pixel.
LEMMA ProjectType ==
    ASSUME shift \in Int, NEW c \in Vision!Cameras, NEW x \in Points
    PROVE  Vision!project_point(c, x) \in Pixels
<1>1. c \in {-1, 0, 1} /\ x.m \in Int /\ x.d \in Int /\ x.h \in Int
  BY DEF Vision!Cameras, Points
<1>2. c * x.d \in Int
  BY <1>1
<1> QED BY <1>1, <1>2 DEF Vision!project_point, Pixels

\* A pair is of two detections, of two cameras.
LEMMA PairIs ==
    ASSUME NEW found, NEW p \in Vision!Pairs(found)
    PROVE  /\ <<p.a, p.b>> \in {<<-1, 0>>, <<-1, 1>>, <<0, 1>>}
           /\ p.i \in DOMAIN found[p.a] /\ p.j \in DOMAIN found[p.b]
<1>1. PICK c \in {<<-1, 0>>, <<-1, 1>>, <<0, 1>>} :
        p \in [a : {c[1]}, b : {c[2]}, i : DOMAIN found[c[1]], j : DOMAIN found[c[2]]]
  BY DEF Vision!Pairs
<1> QED BY <1>1

\* What a pair places is a point.
LEMMA PlacedType ==
    ASSUME shift \in Int, NEW found, FoundOK(found), NEW p \in Vision!Pairs(found)
    PROVE  Vision!Placed(found, p) \in Points
<1> DEFINE u == found[p.a][p.i].uv
           v == found[p.b][p.j].uv
           d == (u[1] - v[1]) \div (p.b - p.a)
           h == (u[2] + v[2]) \div 2
<1>1. /\ <<p.a, p.b>> \in {<<-1, 0>>, <<-1, 1>>, <<0, 1>>}
      /\ p.i \in DOMAIN found[p.a] /\ p.j \in DOMAIN found[p.b]
  BY PairIs
<1>2. p.a \in {-1, 0} /\ p.b \in {0, 1} /\ p.b - p.a \in {1, 2}
  BY <1>1
<1>3. u \in Pixels /\ v \in Pixels
  BY <1>1, <1>2 DEF FoundOK, Vision!Cameras
<1>4. u[1] \in Int /\ v[1] \in Int /\ u[2] \in Int /\ v[2] \in Int
  BY <1>3 DEF Pixels
<1>5. d \in Int /\ h \in Int
  <2>1. u[1] - v[1] \in Int /\ u[2] + v[2] \in Int
    BY <1>4
  <2> HIDE DEF u, v
  <2>2. CASE p.b - p.a = 1
    BY <2>1, <2>2
  <2>3. CASE p.b - p.a = 2
    BY <2>1, <2>3
  <2> QED BY <1>2, <2>1, <2>2, <2>3
<1>6. Vision!Placed(found, p) = [m |-> u[1] + p.a * d + shift, d |-> d, h |-> h]
  BY DEF Vision!Placed, Vision!triangulate_point
<1> HIDE DEF u, v, d, h
<1>7. p.a * d \in Int
  BY <1>2, <1>5
<1> QED BY <1>4, <1>5, <1>6, <1>7 DEF Points

\* A pair is compared with a detection of each camera that sees the port: with its
\* own, and with the nearest one of the third camera.
LEMMA MatchedIs ==
    ASSUME shift \in Int, NEW found, FoundOK(found), NEW p \in Vision!Pairs(found),
           NEW c \in Vision!Seeing(found)
    PROVE  \E k \in DOMAIN found[c] :
             /\ Vision!Matched(found, p, c) = found[c][k].uv
             /\ c = p.a => k = p.i
             /\ c = p.b => k = p.j
             /\ c # p.a /\ c # p.b => \A l \in DOMAIN found[c] :
                  LET at == Vision!project_point(c, Vision!Placed(found, p))
                  IN  Vision!Away(found[c][k].uv, at) <= Vision!Away(found[c][l].uv, at)
<1> DEFINE at == Vision!project_point(c, Vision!Placed(found, p))
           f == [k \in DOMAIN found[c] |-> Vision!Away(found[c][k].uv, at)]
           Near(k, l) == \/ Vision!Away(found[c][k].uv, at) < Vision!Away(found[c][l].uv, at)
                         \/ (Vision!Away(found[c][k].uv, at) = Vision!Away(found[c][l].uv, at) /\ k <= l)
           near == CHOOSE k \in DOMAIN found[c] : \A l \in DOMAIN found[c] : Near(k, l)
<1>1. /\ p.a # p.b /\ p.a \in Vision!Cameras /\ p.b \in Vision!Cameras
      /\ p.i \in DOMAIN found[p.a] /\ p.j \in DOMAIN found[p.b]
  BY PairIs DEF Vision!Cameras
<1>2. /\ c \in Vision!Cameras /\ DOMAIN found[c] # {}
      /\ \A k \in DOMAIN found[c] : k \in Nat /\ found[c][k].uv \in Pixels
  BY DEF Vision!Seeing, FoundOK
<1>3. at \in Pixels
  BY <1>2, PlacedType, ProjectType
<1>4. Vision!Matched(found, p, c) = IF c = p.a THEN found[c][p.i].uv
                                   ELSE IF c = p.b THEN found[c][p.j].uv ELSE found[c][near].uv
  BY <1>1 DEF Vision!Matched
<1> HIDE DEF at
<1>5. \A k \in DOMAIN found[c] : f[k] = Vision!Away(found[c][k].uv, at) /\ f[k] \in Nat
  BY <1>2, <1>3, AwayType
<1>6. near \in DOMAIN found[c] /\ \A l \in DOMAIN found[c] : Near(near, l)
  <2>1. PICK x \in DOMAIN found[c] : \A y \in DOMAIN found[c] : f[x] <= f[y]
    <3> HIDE DEF f
    <3> QED BY <1>2, <1>5, LeastBy
  <2> DEFINE T == {k \in DOMAIN found[c] : f[k] = f[x]}
  <2>2. T # {} /\ \A k \in T : k \in Nat
    BY <1>2
  <2>3. PICK k \in T : \A l \in T : k <= l
    <3> HIDE DEF T
    <3> QED BY <2>2, LeastNumber
  <2>4. k \in DOMAIN found[c] /\ \A l \in DOMAIN found[c] : Near(k, l)
    <3>1. k \in DOMAIN found[c] /\ f[k] = f[x]
      BY <2>3
    <3>2. ASSUME NEW l \in DOMAIN found[c] PROVE Near(k, l)
      <4>1. f[k] <= f[l] /\ f[k] \in Nat /\ f[l] \in Nat
        BY <1>5, <2>1, <3>1
      <4>2. f[k] = f[l] => k <= l
        BY <2>3, <3>1
      <4>3. f[k] < f[l] \/ (f[k] = f[l] /\ k <= l)
        BY <4>1, <4>2
      <4>4. f[k] = Vision!Away(found[c][k].uv, at) /\ f[l] = Vision!Away(found[c][l].uv, at)
        BY <1>5, <3>1
      <4> HIDE DEF f
      <4> QED BY <4>3, <4>4
    <3> QED BY <3>1, <3>2
  <2> HIDE DEF Near
  <2> QED BY <2>4
<1>7. \A l \in DOMAIN found[c] : Vision!Away(found[c][near].uv, at) <= Vision!Away(found[c][l].uv, at)
  <2> TAKE l \in DOMAIN found[c]
  <2>1. Near(near, l) /\ near \in DOMAIN found[c]
    BY <1>6
  <2> HIDE DEF near
  <2>2. Vision!Away(found[c][near].uv, at) \in Nat /\ Vision!Away(found[c][l].uv, at) \in Nat
    BY <1>5, <2>1
  <2> QED BY <2>1, <2>2
<1> HIDE DEF near
<1>8. CASE c = p.a
  BY <1>1, <1>4, <1>8
<1>9. CASE c = p.b
  BY <1>1, <1>4, <1>9
<1>10. CASE c # p.a /\ c # p.b
  BY <1>4, <1>6, <1>7, <1>10 DEF at
<1> QED BY <1>8, <1>9, <1>10

\* The error of a camera is zero only if it sees the port where it should.
LEMMA ErrorType ==
    ASSUME shift \in Int, NEW found, FoundOK(found), NEW p \in Vision!Pairs(found),
           NEW c \in Vision!Seeing(found)
    PROVE  /\ Vision!Matched(found, p, c) \in Pixels
           /\ Vision!Error(found, p, c) \in Nat
           /\ Vision!Error(found, p, c) = 0 <=>
                Vision!Matched(found, p, c) = Vision!project_point(c, Vision!Placed(found, p))
<1>1. c \in Vision!Cameras
  BY DEF Vision!Seeing
<1>2. Vision!project_point(c, Vision!Placed(found, p)) \in Pixels
  BY <1>1, PlacedType, ProjectType
<1>3. Vision!Matched(found, p, c) \in Pixels
  <2>1. PICK k \in DOMAIN found[c] : Vision!Matched(found, p, c) = found[c][k].uv
    BY MatchedIs
  <2> QED BY <1>1, <2>1 DEF FoundOK
<1> QED BY <1>2, <1>3, AwayType DEF Vision!Error

\* The errors of the cameras that see the port add up, and to zero only if each is.
LEMMA ReprojectionIs ==
    ASSUME shift \in Int, NEW found, FoundOK(found), NEW p \in Vision!Pairs(found)
    PROVE  /\ Vision!reprojection(found, p) \in Nat
           /\ Vision!reprojection(found, p) = 0 <=>
                \A c \in Vision!Seeing(found) : Vision!Error(found, p, c) = 0
<1> DEFINE Of(c) == IF c \in Vision!Seeing(found) THEN Vision!Error(found, p, c) ELSE 0
<1>1. Vision!reprojection(found, p) = Of(-1) + Of(0) + Of(1)
  BY DEF Vision!reprojection, Vision!Compared
<1>2. \A c \in Vision!Seeing(found) : c \in {-1, 0, 1} /\ Vision!Error(found, p, c) \in Nat
  BY ErrorType DEF Vision!Seeing, Vision!Cameras
<1>3. Of(-1) \in Nat /\ Of(0) \in Nat /\ Of(1) \in Nat
  BY <1>2
<1>4. Of(-1) = 0 /\ Of(0) = 0 /\ Of(1) = 0 <=> \A c \in Vision!Seeing(found) : Vision!Error(found, p, c) = 0
  BY <1>2
<1> HIDE DEF Of
<1> QED BY <1>1, <1>3, <1>4

\* The best candidate is one of the candidates, and none has a smaller error.
LEMMA BestIs ==
    ASSUME shift \in Int, NEW found, FoundOK(found), Vision!Candidates(found) # {}
    PROVE  \E p \in Vision!Candidates(found) :
             /\ Vision!Best(found) = <<[xyz |-> Vision!Placed(found, p),
                                        uv |-> [c \in Vision!Seeing(found) |-> Vision!Matched(found, p, c)]]>>
             /\ \A q \in Vision!Candidates(found) :
                  Vision!reprojection(found, p) <= Vision!reprojection(found, q)
<1> DEFINE C == Vision!Candidates(found)
           f == [p \in C |-> Vision!reprojection(found, p)]
           fa == [p \in C |-> p.a + 1]
           fb == [p \in C |-> p.b + 1]
           fi == [p \in C |-> p.i]
           fj == [p \in C |-> p.j]
           Better(p, q) == \/ Vision!reprojection(found, p) < Vision!reprojection(found, q)
                           \/ (Vision!reprojection(found, p) = Vision!reprojection(found, q)
                               /\ ~Vision!Before(q, p))
<1>1. \A p \in C : /\ f[p] = Vision!reprojection(found, p) /\ f[p] \in Nat
                   /\ fa[p] = p.a + 1 /\ fa[p] \in Nat /\ fb[p] = p.b + 1 /\ fb[p] \in Nat
                   /\ fi[p] = p.i /\ fi[p] \in Nat /\ fj[p] = p.j /\ fj[p] \in Nat
                   /\ p.a \in Int /\ p.b \in Int
  <2> SUFFICES ASSUME NEW p \in C
               PROVE  /\ f[p] = Vision!reprojection(found, p) /\ f[p] \in Nat
                      /\ fa[p] = p.a + 1 /\ fa[p] \in Nat /\ fb[p] = p.b + 1 /\ fb[p] \in Nat
                      /\ fi[p] = p.i /\ fi[p] \in Nat /\ fj[p] = p.j /\ fj[p] \in Nat
                      /\ p.a \in Int /\ p.b \in Int
    OBVIOUS
  <2>1. p \in Vision!Pairs(found)
    BY DEF Vision!Candidates
  <2>2. Vision!reprojection(found, p) \in Nat
    BY <2>1, ReprojectionIs
  <2>3. /\ p.a \in {-1, 0} /\ p.b \in {0, 1} /\ p.i \in DOMAIN found[p.a] /\ p.j \in DOMAIN found[p.b]
    BY <2>1, PairIs
  <2>4. p.i \in Nat /\ p.j \in Nat
    BY <2>3 DEF FoundOK, Vision!Cameras
  <2> QED BY <2>2, <2>3, <2>4
<1> DEFINE Least(S, g) == {p \in S : \A q \in S : g[p] <= g[q]}
           S0 == Least(C, f)
           S1 == Least(S0, fa)
           S2 == Least(S1, fb)
           S3 == Least(S2, fi)
           S4 == Least(S3, fj)
<1>2. ASSUME NEW S, S # {}, S \subseteq C, NEW g, \A p \in C : g[p] \in Nat
      PROVE  Least(S, g) # {} /\ Least(S, g) \subseteq S
  <2>1. \E p \in S : \A q \in S : g[p] <= g[q]
    <3>1. \A p \in S : g[p] \in Nat
      BY <1>2
    <3> QED BY <1>2, <3>1, LeastBy
  <2> QED BY <2>1
<1> HIDE DEF f, fa, fb, fi, fj, C
<1>3. C # {}
  BY DEF C
<1>4. /\ S0 # {} /\ S0 \subseteq C
  <2> HIDE DEF Least
  <2> QED BY <1>1, <1>2, <1>3
<1>5. /\ S1 # {} /\ S1 \subseteq S0
  <2> HIDE DEF Least, S0
  <2> QED BY <1>1, <1>2, <1>4
<1>6. /\ S2 # {} /\ S2 \subseteq S1
  <2> HIDE DEF Least, S0, S1
  <2> QED BY <1>1, <1>2, <1>4, <1>5
<1>7. /\ S3 # {} /\ S3 \subseteq S2
  <2> HIDE DEF Least, S0, S1, S2
  <2> QED BY <1>1, <1>2, <1>4, <1>5, <1>6
<1>8. /\ S4 # {} /\ S4 \subseteq S3
  <2> HIDE DEF Least, S0, S1, S2, S3
  <2> QED BY <1>1, <1>2, <1>4, <1>5, <1>6, <1>7
<1> HIDE DEF S0, S1, S2, S3, S4
<1>9. PICK p \in C : p \in S0 /\ p \in S1 /\ p \in S2 /\ p \in S3 /\ p \in S4
  BY <1>4, <1>5, <1>6, <1>7, <1>8
<1>10. ASSUME NEW q \in C PROVE Better(p, q)
  <2>1. CASE f[p] # f[q]
    <3>1. f[p] <= f[q] /\ f[p] \in Nat /\ f[q] \in Nat
      BY <1>1, <1>9 DEF S0
    <3>2. f[p] < f[q]
      BY <2>1, <3>1
    <3> QED BY <1>1, <3>2
  <2>2. CASE f[p] = f[q]
    <3>1. ASSUME Vision!Before(q, p) PROVE FALSE
      <4>1. q \in S0
        BY <1>9, <2>2 DEF S0
      <4>2. fa[p] <= fa[q]
        BY <1>9, <4>1 DEF S1
      <4>3. p.a <= q.a
        BY <1>1, <4>2
      <4>4. q.a = p.a
        BY <1>1, <3>1, <4>3 DEF Vision!Before
      <4>5. q \in S1
        <5>1. fa[q] = fa[p]
          BY <1>1, <4>4
        <5> QED BY <1>9, <4>1, <5>1 DEF S1
      <4>6. fb[p] <= fb[q]
        BY <1>9, <4>5 DEF S2
      <4>7. p.b <= q.b
        BY <1>1, <4>6
      <4>8. q.b = p.b
        BY <1>1, <3>1, <4>3, <4>4, <4>7 DEF Vision!Before
      <4>9. q \in S2
        <5>1. fb[q] = fb[p]
          BY <1>1, <4>8
        <5> QED BY <1>9, <4>5, <5>1 DEF S2
      <4>10. p.i <= q.i
        BY <1>1, <1>9, <4>9 DEF S3
      <4>11. q.i = p.i
        BY <1>1, <3>1, <4>4, <4>8, <4>10 DEF Vision!Before
      <4>12. q \in S3
        <5>1. fi[q] = fi[p]
          BY <1>1, <4>11
        <5> QED BY <1>9, <4>9, <5>1 DEF S3
      <4>13. p.j <= q.j
        BY <1>1, <1>9, <4>12 DEF S4
      <4> QED BY <1>1, <3>1, <4>4, <4>8, <4>11, <4>13 DEF Vision!Before
    <3> QED BY <1>1, <2>2, <3>1
  <2> QED BY <2>1, <2>2
<1> DEFINE best == CHOOSE x \in C : \A q \in C : Better(x, q)
<1>11. best \in C /\ \A q \in C : Better(best, q)
  <2> HIDE DEF Better
  <2> QED BY <1>10
<1>12. Vision!Best(found) = <<[xyz |-> Vision!Placed(found, best),
                               uv |-> [c \in Vision!Seeing(found) |-> Vision!Matched(found, best, c)]]>>
  BY <1>3 DEF Vision!Best, C
<1>13. \A q \in C : Vision!reprojection(found, best) <= Vision!reprojection(found, q)
  <2> TAKE q \in C
  <2>1. Better(best, q)
    BY <1>11
  <2>2. Vision!reprojection(found, best) \in Nat /\ Vision!reprojection(found, q) \in Nat
    BY <1>1, <1>11
  <2> HIDE DEF best
  <2> QED BY <2>1, <2>2
<1> HIDE DEF best
<1> QED BY <1>11, <1>12, <1>13 DEF C

\* Three detections that agree on a port make a candidate without an error.
LEMMA PerfectPair ==
    ASSUME shift \in Int, NEW found, FoundOK(found), NEW g \in Ports,
           \A c \in Vision!Cameras : \E k \in DOMAIN found[c] :
             found[c][k].uv = Vision!project_point(c, g)
    PROVE  \E p \in Vision!Candidates(found) : Vision!reprojection(found, p) = 0
<1>1. g \in Points /\ Vision!InWorkspace(g) /\ g.d > 0 /\ ReprojectionMax \in Nat
  BY MCFinalPolicyAssumption DEF Vision!VisionAssumption, Points
<1>2. PICK i \in DOMAIN found[-1] : found[-1][i].uv = Vision!project_point(-1, g)
  BY DEF Vision!Cameras
<1>3. PICK j \in DOMAIN found[0] : found[0][j].uv = Vision!project_point(0, g)
  BY DEF Vision!Cameras
<1> DEFINE p == [a |-> -1, b |-> 0, i |-> i, j |-> j]
<1>4. p \in Vision!Pairs(found)
  <2>1. p \in [a : {-1}, b : {0}, i : DOMAIN found[-1], j : DOMAIN found[0]]
    BY <1>2, <1>3
  <2>2. LET c == <<-1, 0>>
        IN  p \in [a : {c[1]}, b : {c[2]}, i : DOMAIN found[c[1]], j : DOMAIN found[c[2]]]
    BY <2>1
  <2> QED BY <2>2 DEF Vision!Pairs
<1>5. p.a = -1 /\ p.b = 0 /\ p.i = i /\ p.j = j
  OBVIOUS
<1> HIDE DEF p
<1>6. Vision!Placed(found, p) = g
  <2>1. /\ g.m \in Int /\ g.d \in Int /\ g.h \in Int
        /\ g = [m |-> g.m, d |-> g.d, h |-> g.h]
    BY <1>1 DEF Points
  <2>2. /\ Vision!project_point(-1, g) = <<g.m - shift + g.d, g.h>>
        /\ Vision!project_point(0, g) = <<g.m - shift, g.h>>
    BY <2>1 DEF Vision!project_point
  <2>3. Vision!Placed(found, p) = Vision!triangulate_point(-1, 0, <<g.m - shift + g.d, g.h>>, <<g.m - shift, g.h>>)
    BY <1>2, <1>3, <1>5, <2>2 DEF Vision!Placed
  <2>4. /\ ((g.m - shift + g.d) - (g.m - shift)) \div (0 - (-1)) = g.d
        /\ (g.h + g.h) \div 2 = g.h
    BY <2>1
  <2>5. (g.m - shift + g.d) + (-1) * g.d + shift = g.m
    BY <2>1
  <2> QED BY <2>1, <2>3, <2>4, <2>5 DEF Vision!triangulate_point
<1>7. \A c \in Vision!Seeing(found) : Vision!Error(found, p, c) = 0
  <2> SUFFICES ASSUME NEW c \in Vision!Seeing(found) PROVE Vision!Error(found, p, c) = 0
    OBVIOUS
  <2>1. c \in Vision!Cameras /\ Vision!project_point(c, g) \in Pixels
    BY <1>1, ProjectType DEF Vision!Seeing
  <2>2. PICK k \in DOMAIN found[c] :
          /\ Vision!Matched(found, p, c) = found[c][k].uv
          /\ c = -1 => k = i
          /\ c = 0 => k = j
          /\ c # -1 /\ c # 0 => \A l \in DOMAIN found[c] :
               Vision!Away(found[c][k].uv, Vision!project_point(c, g))
                 <= Vision!Away(found[c][l].uv, Vision!project_point(c, g))
    BY <1>4, <1>5, <1>6, MatchedIs
  <2>3. CASE c = -1 \/ c = 0
    <3>1. Vision!Matched(found, p, c) = Vision!project_point(c, g)
      BY <1>2, <1>3, <2>2, <2>3
    <3> QED BY <1>4, <1>6, <3>1, ErrorType
  <2>4. CASE c # -1 /\ c # 0
    <3>1. PICK l \in DOMAIN found[c] : found[c][l].uv = Vision!project_point(c, g)
      BY <2>1
    <3>2. Vision!Away(found[c][l].uv, Vision!project_point(c, g)) = 0
      BY <2>1, <3>1, AwayType
    <3>3. Vision!Away(found[c][k].uv, Vision!project_point(c, g)) <= 0
      BY <2>2, <2>4, <3>2
    <3>4. Vision!Error(found, p, c) <= 0 /\ Vision!Error(found, p, c) \in Nat
      BY <1>4, <1>6, <2>2, <3>3, ErrorType DEF Vision!Error
    <3> QED BY <3>4
  <2> QED BY <2>3, <2>4
<1>8. Vision!Valid(found, p)
  <2>1. \A c \in Vision!Seeing(found) : Vision!Error(found, p, c) <= ReprojectionMax
    BY <1>1, <1>7
  <2> QED BY <1>1, <1>6, <2>1 DEF Vision!Valid, Vision!Compared
<1>9. Vision!reprojection(found, p) = 0
  BY <1>4, <1>7, ReprojectionIs
<1> QED BY <1>4, <1>8, <1>9 DEF Vision!Candidates

\* Where the cameras that see the port see a place.
Agrees(found, x) ==
    \A c \in Vision!Seeing(found) : \E k \in DOMAIN found[c] :
        found[c][k].uv = Vision!project_point(c, x)
Near(found, x) ==
    \A c \in Vision!Seeing(found) : \E k \in DOMAIN found[c] :
        Vision!Away(found[c][k].uv, Vision!project_point(c, x)) <= ReprojectionMax

\* The place believed is near a detection in each, and if all three see some port, it is
\* where they see a port.
LEMMA BestAgrees ==
    ASSUME shift \in Int, NEW found, FoundOK(found), Vision!Best(found) # Vision!None
    PROVE  /\ Vision!Best(found)[1].xyz \in Points
           /\ Vision!Best(found)[1].uv \in [Vision!Seeing(found) -> Pixels]
           /\ Near(found, Vision!Best(found)[1].xyz)
           /\ (Vision!Seeing(found) = Vision!Cameras /\ \E g \in Ports : Agrees(found, g))
                => Agrees(found, Vision!Best(found)[1].xyz)
<1>1. Vision!Candidates(found) # {}
  BY DEF Vision!Best
<1>2. PICK p \in Vision!Candidates(found) :
        /\ Vision!Best(found) = <<[xyz |-> Vision!Placed(found, p),
                                   uv |-> [c \in Vision!Seeing(found) |-> Vision!Matched(found, p, c)]]>>
        /\ \A q \in Vision!Candidates(found) :
             Vision!reprojection(found, p) <= Vision!reprojection(found, q)
  BY <1>1, BestIs
<1>3. /\ Vision!Best(found)[1].xyz = Vision!Placed(found, p)
      /\ Vision!Best(found)[1].uv = [c \in Vision!Seeing(found) |-> Vision!Matched(found, p, c)]
  BY <1>2
<1>4. p \in Vision!Pairs(found) /\ Vision!Valid(found, p)
  BY DEF Vision!Candidates
<1>5. Vision!Placed(found, p) \in Points
  BY <1>4, PlacedType
<1>6. \A c \in Vision!Seeing(found) : Vision!Matched(found, p, c) \in Pixels
  BY <1>4, ErrorType
<1>7. \A c \in Vision!Seeing(found) : \E k \in DOMAIN found[c] : Vision!Matched(found, p, c) = found[c][k].uv
  <2> TAKE c \in Vision!Seeing(found)
  <2> QED BY <1>4, MatchedIs
<1>8. Near(found, Vision!Placed(found, p))
  BY <1>4, <1>7 DEF Near, Vision!Valid, Vision!Error, Vision!Compared
<1>9. ASSUME Vision!Seeing(found) = Vision!Cameras, NEW g \in Ports, Agrees(found, g)
      PROVE  Agrees(found, Vision!Placed(found, p))
  <2>1. PICK q \in Vision!Candidates(found) : Vision!reprojection(found, q) = 0
    BY <1>9, PerfectPair DEF Agrees
  <2>2. Vision!reprojection(found, p) <= 0 /\ Vision!reprojection(found, p) \in Nat
    BY <1>2, <1>4, <2>1, ReprojectionIs
  <2>3. \A c \in Vision!Seeing(found) : Vision!Error(found, p, c) = 0
    BY <1>4, <2>2, ReprojectionIs
  <2>4. \A c \in Vision!Seeing(found) :
          Vision!Matched(found, p, c) = Vision!project_point(c, Vision!Placed(found, p))
    BY <1>4, <2>3, ErrorType
  <2> QED BY <1>7, <2>4 DEF Agrees
<1> QED BY <1>3, <1>5, <1>6, <1>8, <1>9

\* Each rank up to the number of elements is the rank of one.
LEMMA RankExists ==
    ASSUME NEW m \in Nat, NEW K, \A l \in K : l \in 1 .. m, NEW n \in 1 .. Cardinality(K)
    PROVE  \E k \in K : Cardinality({l \in K : l <= k}) = n
<1> DEFINE Up(k) == {l \in K : l <= k}
           T == {k \in 0 .. m : Cardinality(Up(k)) >= n}
<1>1. IsFiniteSet(K) /\ Cardinality(K) \in Nat
  <2>1. IsFiniteSet(1 .. m) /\ K \subseteq 1 .. m
    BY FS_Interval
  <2> QED BY <2>1, FS_Subset, FS_CardinalityType
<1>2. \A k \in 0 .. m : IsFiniteSet(Up(k)) /\ Cardinality(Up(k)) \in Nat
  BY <1>1, FS_Subset, FS_CardinalityType
<1>3. m \in T
  <2>1. Up(m) = K
    OBVIOUS
  <2> QED BY <1>1, <2>1
<1>4. PICK k \in T : \A y \in T : k <= y
  <2>1. T # {} /\ \A x \in T : x \in Nat
    BY <1>3
  <2> HIDE DEF T
  <2> QED BY <2>1, LeastNumber
<1>5. k # 0
  <2>1. Up(0) = {}
    OBVIOUS
  <2>2. Cardinality(Up(0)) = 0
    BY <2>1, FS_EmptySet
  <2> QED BY <1>1, <2>2
<1>6. k - 1 \in 0 .. m /\ k - 1 \notin T
  BY <1>4, <1>5
<1>7. Cardinality(Up(k - 1)) < n /\ Cardinality(Up(k)) >= n
  <2>1. k \in 0 .. m /\ Cardinality(Up(k)) >= n
    BY <1>4
  <2>2. ~(Cardinality(Up(k - 1)) >= n)
    BY <1>6
  <2>3. Cardinality(Up(k - 1)) \in Nat /\ n \in Nat
    BY <1>1, <1>2, <1>6
  <2> HIDE DEF Up
  <2> QED BY <2>1, <2>2, <2>3
<1>8. CASE k \in K
  <2>1. Up(k) = Up(k - 1) \cup {k} /\ k \notin Up(k - 1)
    <3>1. k \in Nat /\ \A l \in K : l \in Nat
      BY <1>4
    <3>2. \A l \in K : l <= k <=> (l <= k - 1 \/ l = k)
      BY <3>1
    <3>3. k <= k /\ ~(k <= k - 1)
      BY <3>1
    <3>4. k \in Up(k) /\ k \notin Up(k - 1)
      BY <1>8, <3>3
    <3>5. \A l : l \in Up(k) <=> (l \in Up(k - 1) \/ l = k)
      BY <1>8, <3>2
    <3> HIDE DEF Up
    <3> QED BY <3>4, <3>5
  <2>2. Cardinality(Up(k)) = Cardinality(Up(k - 1)) + 1
    <3> HIDE DEF Up
    <3> QED BY <1>2, <1>6, <2>1, FS_AddElement
  <2>3. Cardinality(Up(k)) = n
    <3>1. Cardinality(Up(k - 1)) \in Nat /\ n \in Nat
      BY <1>1, <1>2, <1>6
    <3> HIDE DEF Up
    <3> QED BY <1>7, <2>2, <3>1
  <2> QED BY <1>8, <2>3
<1>9. CASE k \notin K
  <2>1. Up(k) = Up(k - 1)
    <3>1. k \in Nat /\ \A l \in K : l \in Nat
      BY <1>4
    <3>2. \A l \in K : l <= k <=> l <= k - 1
      BY <1>9, <3>1
    <3> QED BY <3>2
  <2>2. Cardinality(Up(k - 1)) >= n /\ Cardinality(Up(k - 1)) < n
    BY <1>7, <2>1
  <2> HIDE DEF Up
  <2> QED BY <1>1, <1>2, <1>6, <2>2
<1> QED BY <1>8, <1>9

\* PortVision's Cardinality is that of the theorems about finite sets.
LEMMA SameCardinality == \A S : Vision!Cardinality(S) = Cardinality(S)
  BY Zenon DEF Vision!Cardinality, Cardinality

\* What is kept of YOLO's results are detections.
LEMMA DetectedType ==
    ASSUME NEW r \in Vision!Results
    PROVE  /\ Vision!Detected(r) # <<>> <=> DOMAIN Vision!Detected(r) # {}
           /\ \A k \in DOMAIN Vision!Detected(r) : k \in Nat /\ Vision!Detected(r)[k].uv \in Pixels
<1>1. PICK m \in Nat : r \in [1 .. m -> Detections]
  BY DEF Vision!Results, Vision!BoundedSeq, Vision!SeqOf
<1> DEFINE kept == Vision!Passing(r)
           all == [n \in 1 .. Cardinality(kept) |-> r[Vision!Nth(kept, n)]]
<1>2. Vision!Detected(r) = all
  BY SameCardinality DEF Vision!Detected
<1>3. \A l \in kept : l \in 1 .. m
  BY <1>1 DEF Vision!Passing
<1>4. Cardinality(kept) \in Nat
  <2>1. IsFiniteSet(1 .. m) /\ kept \subseteq 1 .. m
    BY <1>1, <1>3, FS_Interval
  <2> QED BY <2>1, FS_Subset, FS_CardinalityType
<1> HIDE DEF kept
<1>5. \A n \in 1 .. Cardinality(kept) : Vision!Nth(kept, n) \in kept
  <2> TAKE n \in 1 .. Cardinality(kept)
  <2>1. \E k \in kept : Cardinality({l \in kept : l <= k}) = n
    BY <1>1, <1>3, RankExists
  <2> QED BY <2>1, SameCardinality DEF Vision!Nth
<1>6. all \in Seq(Detections) /\ DOMAIN all = 1 .. Cardinality(kept)
  BY <1>1, <1>3, <1>4, <1>5
<1>7. all # <<>> <=> DOMAIN all # {}
  BY <1>6, EmptySeq
<1>8. \A d \in Detections : d.uv \in Pixels
  BY MCFinalPolicyAssumption DEF Vision!VisionAssumption, Pixels
<1>9. \A k \in DOMAIN all : k \in Nat /\ all[k] \in Detections
  BY <1>4, <1>6
<1> HIDE DEF all
<1> QED BY <1>2, <1>7, <1>8, <1>9

\* What optical flow finds are pixels.
LEMMA FlowedType ==
    ASSUME shift \in Int, NEW S \in SUBSET Vision!Cameras, place[1].uv \in [S -> Pixels],
           NEW slip \in [Vision!Cameras -> Slips], NEW lost, NEW c \in Vision!Cameras
    PROVE  LET f == Vision!Flowed(c, lost, slip)
           IN  /\ f # <<>> <=> DOMAIN f # {}
               /\ \A k \in DOMAIN f : k \in Nat /\ f[k].uv \in Pixels
<1>1. DOMAIN place[1].uv = S
  OBVIOUS
<1>2. CASE c \in S /\ c \notin lost
  <2>1. Vision!Flowed(c, lost, slip) =
          <<[uv |-> <<place[1].uv[c][1] - shift + slip[c], place[1].uv[c][2]>>]>>
    BY <1>1, <1>2 DEF Vision!Flowed
  <2>2. /\ place[1].uv[c][1] \in Int /\ place[1].uv[c][2] \in Int /\ slip[c] \in Int
    BY <1>2, MCFinalPolicyAssumption DEF Pixels, Vision!VisionAssumption
  <2> QED BY <2>1, <2>2 DEF Pixels
<1>3. CASE ~(c \in S /\ c \notin lost)
  <2>1. Vision!Flowed(c, lost, slip) = <<>>
    BY <1>1, <1>3 DEF Vision!Flowed
  <2> QED BY <2>1
<1> QED BY <1>2, <1>3

\* So are those that are selected.
LEMMA SelectedType ==
    ASSUME shift \in Int, NEW S \in SUBSET Vision!Cameras, place[1].uv \in [S -> Pixels],
           NEW slip \in [Vision!Cameras -> Slips], NEW lost
    PROVE  FoundOK(Vision!Selected(lost, slip))
<1> SUFFICES ASSUME NEW c \in Vision!Cameras
             PROVE  LET f == Vision!Selected(lost, slip)[c]
                    IN  /\ f # <<>> <=> DOMAIN f # {}
                        /\ \A k \in DOMAIN f : k \in Nat /\ f[k].uv \in Pixels
  BY DEF FoundOK
<1>1. Vision!Selected(lost, slip)[c] \in {Vision!Flowed(c, lost, slip), <<>>}
  BY DEF Vision!Selected
<1>2. CASE Vision!Selected(lost, slip)[c] = Vision!Flowed(c, lost, slip)
  BY <1>2, FlowedType
<1>3. CASE Vision!Selected(lost, slip)[c] = <<>>
  BY <1>3
<1> QED BY <1>1, <1>2, <1>3

\* An estimate is a place and pixels; where it is the policy's, every camera agrees.
VisionInv ==
    /\ shift \in Int
    /\ stage \in {"task", "look"} => place = Vision!None
    /\ stage \in {"moved", "track"} => place # Vision!None
    /\ place # Vision!None =>
         /\ place[1].xyz \in Points
         /\ \E S \in SUBSET Vision!Cameras : place[1].uv \in [S -> Pixels]
    /\ stage \in {"moved", "done"} /\ place # Vision!None =>
         /\ Near(seen, place[1].xyz)
         /\ (Vision!Seeing(seen) = Vision!Cameras /\ \E g \in Ports : Agrees(seen, g))
              => Agrees(seen, place[1].xyz)

\* No place is believed before an image is looked at.
LEMMA VisionInitially == Vision!Init => VisionInv
BY DEF Vision!Init, VisionInv

\* A new estimate.
LEMMA Estimated ==
    ASSUME VisionInv, NEW found, FoundOK(found), seen' = found, UNCHANGED shift,
           place' = Vision!Best(found) \/ place' = Vision!None,
           stage' = "done" \/ (stage' = "moved" /\ place' # Vision!None)
    PROVE  VisionInv'
<1>1. shift \in Int /\ shift' = shift
  BY DEF VisionInv
<1>2. CASE place' = Vision!None
  BY <1>1, <1>2 DEF VisionInv, Vision!None
<1>3. CASE place' # Vision!None
  <2>1. place' = Vision!Best(found)
    BY <1>3
  <2>2. /\ place'[1].xyz \in Points
        /\ place'[1].uv \in [Vision!Seeing(found) -> Pixels]
        /\ Near(found, place'[1].xyz)
        /\ (Vision!Seeing(found) = Vision!Cameras /\ \E g \in Ports : Agrees(found, g))
             => Agrees(found, place'[1].xyz)
    BY <1>1, <1>3, <2>1, BestAgrees
  <2>3. Vision!Seeing(found) \in SUBSET Vision!Cameras
    BY DEF Vision!Seeing
  <2>4. Near(seen, place[1].xyz)'
    BY <1>1, <2>2 DEF Near, Vision!project_point
  <2>5. (Vision!Seeing(seen) = Vision!Cameras /\ \E g \in Ports : Agrees(seen, g))'
           => Agrees(seen, place[1].xyz)'
    BY <1>1, <2>2 DEF Agrees, Vision!project_point
  <2>6. \E S \in SUBSET Vision!Cameras : place'[1].uv \in [S -> Pixels]
    BY <2>2, <2>3
  <2>7. stage' \notin {"task", "look"}
    OBVIOUS
  <2> HIDE DEF Near, Agrees
  <2> QED BY <1>1, <1>3, <2>2, <2>4, <2>5, <2>6, <2>7 DEF VisionInv, Vision!None
<1> QED BY <1>2, <1>3

\* One step per action; an estimate and a track choose the best candidate.
LEMMA VisionStep == VisionInv /\ [Vision!Next]_(Vision!vars) => VisionInv'
<1> SUFFICES ASSUME VisionInv, [Vision!Next]_(Vision!vars) PROVE VisionInv'
  OBVIOUS
<1>1. CASE UNCHANGED Vision!vars
  BY <1>1 DEF VisionInv, Near, Agrees, Vision!vars, Vision!project_point, Vision!None
<1>2. CASE Vision!TargetFromTask
  <2>1. place' = Vision!None /\ shift' \in Int /\ stage' \in {"done", "look"}
    BY <1>2 DEF Vision!TargetFromTask, VisionInv, Vision!None
  <2> QED BY <2>1 DEF VisionInv, Vision!None
<1>3. CASE Vision!Estimate
  <2>1. UNCHANGED shift
    BY <1>3 DEF Vision!Estimate
  <2>2. CASE UNCHANGED <<seen, place>> /\ stage' = "done"
    <3>1. place' = Vision!None /\ shift' \in Int
      BY <1>3, <2>1, <2>2 DEF Vision!Estimate, VisionInv, Vision!None
    <3> QED BY <2>2, <3>1 DEF VisionInv, Vision!None
  <2>3. CASE ~(UNCHANGED <<seen, place>> /\ stage' = "done")
    <3>1. PICK results \in [Vision!Cameras -> Vision!Results] :
            /\ seen' = [c \in Vision!Cameras |-> Vision!Detected(results[c])]
            /\ place' = Vision!Best(seen')
            /\ stage' = IF place' = Vision!None THEN "done" ELSE "moved"
      BY <1>3, <2>3 DEF Vision!Estimate
    <3> DEFINE found == [c \in Vision!Cameras |-> Vision!Detected(results[c])]
    <3>2. FoundOK(found)
      <4>1. \A c \in Vision!Cameras : results[c] \in Vision!Results /\ found[c] = Vision!Detected(results[c])
        OBVIOUS
      <4> HIDE DEF found
      <4> QED BY <4>1, DetectedType DEF FoundOK
    <3>3. /\ seen' = found /\ place' = Vision!Best(found)
          /\ stage' = "done" \/ (stage' = "moved" /\ place' # Vision!None)
      BY <3>1
    <3> HIDE DEF found
    <3> QED BY <2>1, <3>2, <3>3, Estimated
  <2> QED BY <2>2, <2>3
<1>4. CASE Vision!Move
  <2>1. shift' \in Int /\ stage' = "track" /\ stage = "moved" /\ UNCHANGED place
    BY <1>4, MCFinalPolicyAssumption DEF Vision!Move, Vision!VisionAssumption
  <2> QED BY <2>1 DEF VisionInv, Vision!None
<1>5. CASE Vision!Track
  <2>1. UNCHANGED shift /\ stage' = "done" /\ stage = "track"
    BY <1>5 DEF Vision!Track
  <2>2. CASE place' = Vision!None
    BY <2>1, <2>2 DEF VisionInv, Vision!None
  <2>3. CASE place' # Vision!None
    <3>1. PICK lost \in SUBSET Vision!Cameras, slip \in [Vision!Cameras -> Slips] :
            /\ seen' = Vision!Selected(lost, slip)
            /\ place' = Vision!Best(Vision!Selected(lost, slip))
      BY <1>5, <2>3 DEF Vision!Track
    <3> DEFINE found == Vision!Selected(lost, slip)
    <3>2. FoundOK(found)
      <4>1. PICK S \in SUBSET Vision!Cameras : place[1].uv \in [S -> Pixels]
        BY <2>1 DEF VisionInv
      <4>2. shift \in Int
        BY DEF VisionInv
      <4> QED BY <4>1, <4>2, SelectedType
    <3>3. seen' = found /\ place' = Vision!Best(found)
      BY <3>1
    <3> HIDE DEF found
    <3> QED BY <2>1, <3>2, <3>3, Estimated
  <2> QED BY <2>2, <2>3
<1> QED BY <1>1, <1>2, <1>3, <1>4, <1>5 DEF Vision!Next

\* final_policy_vision.py:417-489: the place believed is where every camera that sees the
\* port sees it, and where all three see a port it is where they see one.
THEOREM EveryCameraAgreesHolds == Vision!Spec => []EveryCameraAgrees
<1>1. VisionInv => EveryCameraAgrees
  BY DEF VisionInv, Near, Agrees, EveryCameraAgrees, Vision!EveryCameraAgrees, Vision!AgreeOn
<1> QED BY <1>1, VisionInitially, VisionStep, PTL DEF Vision!Spec
=============================================================================
