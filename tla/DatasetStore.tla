---------------------------- MODULE DatasetStore ----------------------------
(***************************************************************************)
(* The dataset directory the collection policies share (policy/dataset.py:  *)
(* save_sample and what it calls).  Every worker runs its trials one after  *)
(* the other, each in a policy process of its own; the captures of a trial  *)
(* are numbered, and the number is part of the image path.  A capture is    *)
(* three images, then constants.json, then the row of the trial, then the   *)
(* row of the sample; the three files are guarded by one flock, the images  *)
(* are not.  A process may be killed (os._exit of the stop-file watcher)    *)
(* between any two steps, and the disk may refuse any write.                *)
(***************************************************************************)
EXTENDS Naturals, Sequences

CONSTANTS Workers, Trials,
          CameraOrder,  \* left, center, right
          Queue,        \* trials of each worker, in order
          Dir,          \* directory of each trial: split, index, cards, target
          Steps,        \* policy.collect_steps
          MaxAttempts,  \* policy.max_attempts
          DiskMayFail,  \* JPEGs and rows may fail to be written
          Infos,        \* CameraInfo messages: width, height, focal length (pixels)
          ImageWidth, ImageHeight, Tolerance,  \* RGB image; CAMERA_CALIBRATION_PIXEL_ATOL
          Nobody

Cameras == {CameraOrder[i] : i \in DOMAIN CameraOrder}
Dirs == {Dir[t] : t \in Trials}
Numbers == 1..Steps
Shots == Trials \X Numbers \X (1..MaxAttempts)  \* trial, number, attempt

ASSUME DatasetStoreAssumption ==
  /\ Steps \in Nat \ {0} /\ MaxAttempts \in Nat \ {0} /\ DiskMayFail \in BOOLEAN
  /\ Queue \in [Workers -> Seq(Trials)] /\ DOMAIN Dir = Trials
  /\ \A v, w \in Workers : \A i \in DOMAIN Queue[v], j \in DOMAIN Queue[w] :
       Queue[v][i] = Queue[w][j] => v = w /\ i = j  \* a trial is one policy process
  /\ CameraOrder \in Seq(Cameras) \ {<<>>}
  /\ \A i, j \in DOMAIN CameraOrder : CameraOrder[i] = CameraOrder[j] => i = j
  /\ Nobody \notin Workers \cup Trials \cup Shots \cup Nat
  /\ Infos \subseteq [width : Nat, height : Nat, focal : Nat]
  /\ {ImageWidth, ImageHeight} \subseteq Nat \ {0} /\ Tolerance \in Nat

VARIABLES
  job, pc,           \* trial of the queue a worker is at; where its policy is
  saved, tries,      \* counts["collect"]; sample_attempts
  todo, written,     \* cameras still to be written; images on disk of this attempt
  known,             \* policy._normalized_trial_record is set
  candidate, seen,   \* own calibration; constants.json as read under the lock
  files,             \* image files: the shot they show
  lock,              \* holder of .write.lock
  constants,         \* constants.json: the calibration recorded in it
  trialRows,         \* trials.jsonl: trials with a readable row
  rows,              \* samples.jsonl: readable rows
  trialsFile, samplesFile,  \* "clean", "torn" at the end, "bad" line inside
  outcome            \* episode_summary status of each trial

disk == <<files, constants, trialRows, rows, trialsFile, samplesFile>>
vars == <<job, pc, saved, tries, todo, written, known, candidate, seen, lock,
          outcome, disk>>

Ended(w) == job[w] > Len(Queue[w])
Trial(w) == Queue[w][job[w]]
NumberFromTwo(w) == saved[w] + 2  \* mutated form
Number(w) == saved[w] + 1
Shot(w)  == <<Trial(w), Number(w), tries[w]>>
Image(w, c) == <<Dir[Trial(w)], Number(w), c>>

(***************************************************************************)
(* constants.json.  Of a capture's three CameraInfo messages the model keeps *)
(* one, of the constants the calibration of that camera.                     *)
(***************************************************************************)
\* _camera_matrix: an intrinsic matrix, and an image of the same aspect ratio.
Fits(info) == info.focal > 0 /\ info.width > 0
              /\ info.height * ImageWidth = info.width * ImageHeight

\* scale @ K: the depth camera shares the topic, its matrix is enlarged.
Calibration(info) == (info.focal * ImageWidth) \div info.width

\* _verify_camera_calibration: np.allclose(rtol=0, atol).
Same(k, l) == k <= l + Tolerance /\ l <= k + Tolerance

\* what _ensure_dataset_constants returns: the value in the file.
Nominal(w) == IF seen[w] = Nobody THEN candidate[w] ELSE seen[w]

Row == [trial: Trials, step: Numbers, shot: Shots, own: Nat, nominal: Nat]

TypeOK ==
  /\ job \in [Workers -> Nat] /\ \A w \in Workers : job[w] \in 1..(Len(Queue[w]) + 1)
  /\ pc \in [Workers -> {"ready", "images", "lockConstants", "constants", "lockTrial",
                         "trial", "lockRow", "row", "undo"}]
  /\ saved \in [Workers -> 0..Steps] /\ tries \in [Workers -> 0..MaxAttempts]
  /\ todo \in [Workers -> Seq(Cameras)] /\ written \in [Workers -> SUBSET Cameras]
  /\ known \in [Workers -> BOOLEAN]
  /\ candidate \in [Workers -> Nat \cup {Nobody}]
  /\ seen \in [Workers -> Nat \cup {Nobody}]
  /\ files \in [Dirs \X Numbers \X Cameras -> Shots \cup {Nobody}]
  /\ lock \in Workers \cup {Nobody} /\ constants \in Nat \cup {Nobody}
  /\ trialRows \subseteq Trials /\ rows \subseteq Row
  /\ trialsFile \in {"clean", "torn"} /\ samplesFile \in {"clean", "torn", "bad"}
  /\ outcome \in [Trials -> {"none", "ok", "collect_failed", "dead"}]

Init ==
  /\ job = [w \in Workers |-> 1] /\ pc = [w \in Workers |-> "ready"]
  /\ saved = [w \in Workers |-> 0] /\ tries = [w \in Workers |-> 0]
  /\ todo = [w \in Workers |-> <<>>] /\ written = [w \in Workers |-> {}]
  /\ known = [w \in Workers |-> FALSE]
  /\ candidate = [w \in Workers |-> Nobody] /\ seen = [w \in Workers |-> Nobody]
  /\ files = [i \in Dirs \X Numbers \X Cameras |-> Nobody]
  /\ lock = Nobody /\ constants = Nobody /\ trialRows = {} /\ rows = {}
  /\ trialsFile = "clean" /\ samplesFile = "clean"
  /\ outcome = [t \in Trials |-> "none"]

At(w, here) == ~Ended(w) /\ pc[w] = here
Goto(w, to) == pc' = [pc EXCEPT ![w] = to]

(***************************************************************************)
(* The collect loop around save_sample.                                     *)
(***************************************************************************)
\* A synchronized Observation was found; save_sample passed its checks on it.
Shoot(w) ==
  /\ At(w, "ready") /\ saved[w] < Steps /\ tries[w] < MaxAttempts /\ Goto(w, "images")
  /\ tries' = [tries EXCEPT ![w] = @ + 1]
  /\ todo' = [todo EXCEPT ![w] = CameraOrder] /\ written' = [written EXCEPT ![w] = {}]
  /\ UNCHANGED <<job, saved, known, candidate, seen, lock, outcome, disk>>

\* The attempt ends before save_sample stores anything: no convergence, no
\* synchronized Observation, no TF.
Missed(w) ==
  /\ At(w, "ready") /\ saved[w] < Steps /\ tries[w] < MaxAttempts
  /\ tries' = [tries EXCEPT ![w] = @ + 1]
  /\ UNCHANGED <<job, pc, saved, todo, written, known, candidate, seen, lock, outcome, disk>>

\* Port not visible, contact, too close: the next waypoint, with all its attempts.
Skipped(w) ==
  /\ At(w, "ready") /\ saved[w] < Steps /\ tries[w] < MaxAttempts
  /\ tries' = [tries EXCEPT ![w] = 0]
  /\ UNCHANGED <<job, pc, saved, todo, written, known, candidate, seen, lock, outcome, disk>>

\* save_sample returns: its locals are gone.
Forget(w) ==
  /\ candidate' = [candidate EXCEPT ![w] = Nobody] /\ seen' = [seen EXCEPT ![w] = Nobody]

\* The next trial is another policy process.
EndTrial(w, status) ==
  /\ outcome' = [outcome EXCEPT ![Trial(w)] = status]
  /\ job' = [job EXCEPT ![w] = @ + 1] /\ pc' = [pc EXCEPT ![w] = "ready"]
  /\ saved' = [saved EXCEPT ![w] = 0] /\ tries' = [tries EXCEPT ![w] = 0]
  /\ todo' = [todo EXCEPT ![w] = <<>>] /\ written' = [written EXCEPT ![w] = {}]
  /\ known' = [known EXCEPT ![w] = FALSE] /\ Forget(w)

CollectDone(w) ==
  /\ At(w, "ready") /\ saved[w] = Steps /\ EndTrial(w, "ok")
  /\ UNCHANGED <<lock, disk>>

AttemptsExhausted(w) ==
  /\ At(w, "ready") /\ saved[w] < Steps /\ tries[w] = MaxAttempts
  /\ EndTrial(w, "collect_failed")
  /\ UNCHANGED <<lock, disk>>

(***************************************************************************)
(* save_sample.                                                             *)
(***************************************************************************)
CompleteIfAny(images) == images # {}  \* mutated form
Complete(images) == images = Cameras

\* cv2.imwrite of the next camera, or its failure, which removes the file; an
\* incomplete set is undone after the last camera.
WriteImage(w) ==
  /\ At(w, "images") /\ todo' = [todo EXCEPT ![w] = Tail(@)]
  /\ \E ok \in {TRUE} \cup {~DiskMayFail} :
       LET c == Head(todo[w]) IN
       /\ written' = [written EXCEPT ![w] = IF ok THEN @ \cup {c} ELSE @]
       /\ files' = [files EXCEPT ![Image(w, c)] = IF ok THEN Shot(w) ELSE Nobody]
  /\ IF Tail(todo[w]) # <<>> THEN UNCHANGED pc
     ELSE Goto(w, IF Complete(written'[w]) THEN "lockConstants" ELSE "undo")
  /\ UNCHANGED <<job, saved, tries, known, candidate, seen, lock, outcome,
                 constants, trialRows, rows, trialsFile, samplesFile>>

\* Every error path after the first image: unlink what was written, return False.
Unlinked(w) == {Image(w, c) : c \in written[w]}

Undo(w) ==
  /\ At(w, "undo") /\ Goto(w, "ready")
  /\ files' = [i \in DOMAIN files |-> IF i \in Unlinked(w) THEN Nobody ELSE files[i]]
  /\ written' = [written EXCEPT ![w] = {}] /\ Forget(w)
  /\ UNCHANGED <<job, saved, tries, todo, known, lock, outcome,
                 constants, trialRows, rows, trialsFile, samplesFile>>

\* _dataset_write_lock: flock(LOCK_EX).
LockIgnored(w) == TRUE  \* mutated form
LockFree(w) == lock = Nobody

\* The candidate is built before the lock is taken; a CameraInfo that does not fit
\* the image ends the attempt (of a camera the visibility test did not need).
NoCandidate(w) ==
  /\ At(w, "lockConstants") /\ \E info \in Infos : ~Fits(info)
  /\ Goto(w, "undo")
  /\ UNCHANGED <<job, saved, tries, todo, written, known, candidate, seen, lock, outcome, disk>>

\* the lock, then json.loads of constants.json.
LockConstants(w) ==
  /\ At(w, "lockConstants") /\ LockFree(w) /\ Goto(w, "constants")
  /\ \E info \in Infos :
       Fits(info) /\ candidate' = [candidate EXCEPT ![w] = Calibration(info)]
  /\ lock' = w /\ seen' = [seen EXCEPT ![w] = constants]
  /\ UNCHANGED <<job, saved, tries, todo, written, known, outcome, disk>>

\* _ensure_dataset_constants: record the first constants, verify every later ones.
EnsureConstants(w) ==
  /\ At(w, "constants") /\ lock' = Nobody
  /\ \/ /\ seen[w] = Nobody  \* _atomic_write_json
        /\ constants' = candidate[w]
        /\ Goto(w, IF known[w] THEN "lockRow" ELSE "lockTrial")
     \/ /\ seen[w] # Nobody /\ UNCHANGED constants
        /\ Goto(w, IF Same(seen[w], candidate[w])
                   THEN IF known[w] THEN "lockRow" ELSE "lockTrial"
                   ELSE "undo")
     \/ /\ Goto(w, "undo")  \* another constant differs, or the write fails
        /\ UNCHANGED constants
  /\ UNCHANGED <<job, saved, tries, todo, written, known, candidate, seen, outcome,
                 files, trialRows, rows, trialsFile, samplesFile>>

LockTrial(w) ==
  /\ At(w, "lockTrial") /\ LockFree(w) /\ Goto(w, "trial") /\ lock' = w
  /\ UNCHANGED <<job, saved, tries, todo, written, known, candidate, seen, outcome, disk>>

\* mutated form: the cache is set before the row is on disk.
RememberedEarly(appended) == TRUE
Remembered(appended) == appended

\* _ensure_trial_record: a torn line makes every later read of the file fail.
EnsureTrial(w) ==
  /\ At(w, "trial") /\ lock' = Nobody
  /\ \E appended, drift \in BOOLEAN :
       /\ appended \/ DiskMayFail \/ trialsFile = "torn"
       /\ appended => trialsFile = "clean"
       /\ trialRows' = IF appended THEN trialRows \cup {Trial(w)} ELSE trialRows
       /\ \/ UNCHANGED trialsFile
          \/ ~appended /\ trialsFile = "clean" /\ trialsFile' = "torn"
       /\ known' = [known EXCEPT ![w] = Remembered(appended)]
       /\ Goto(w, IF appended /\ ~drift THEN "lockRow" ELSE "undo")
  /\ UNCHANGED <<job, saved, tries, todo, written, candidate, seen, outcome, files,
                 constants, rows, samplesFile>>

LockRow(w) ==
  /\ At(w, "lockRow") /\ LockFree(w) /\ Goto(w, "row") /\ lock' = w
  /\ UNCHANGED <<job, saved, tries, todo, written, known, candidate, seen, outcome, disk>>

\* The row just written is glued to a torn line, if there is one.
Appended(w) ==
  IF samplesFile = "torn" THEN rows
  ELSE rows \cup {[trial |-> Trial(w), step |-> Number(w), shot |-> Shot(w),
                   own |-> candidate[w], nominal |-> Nominal(w)]}

CountedAnyway(ok) == TRUE  \* mutated form
Counted(ok) == ok

\* the append to samples.jsonl; capture_count and counts["collect"] go up with it.
AppendRow(w) ==
  /\ At(w, "row") /\ lock' = Nobody
  /\ \E ok \in BOOLEAN :
       /\ ok \/ DiskMayFail
       /\ IF ok THEN /\ rows' = Appended(w)
                     /\ samplesFile' = IF samplesFile = "torn" THEN "bad" ELSE samplesFile
                ELSE UNCHANGED rows /\ samplesFile' \in {samplesFile, "torn"}
       /\ IF Counted(ok)
          THEN /\ Goto(w, "ready") /\ saved' = [saved EXCEPT ![w] = @ + 1]
               /\ tries' = [tries EXCEPT ![w] = 0] /\ Forget(w)
          ELSE Goto(w, "undo") /\ UNCHANGED <<saved, tries, candidate, seen>>
  /\ UNCHANGED <<job, todo, written, known, outcome, files, constants,
                 trialRows, trialsFile>>

(***************************************************************************)
(* The environment.                                                         *)
(***************************************************************************)
\* os._exit, a signal, or an exception save_sample does not catch; flock is
\* released by the kernel, and an append may be cut short.
LockHeldByDead(w) == lock  \* mutated form: a lock file that outlives its owner
AfterDeath(w) == IF lock = w THEN Nobody ELSE lock

PolicyDies(w) ==
  /\ ~Ended(w) /\ EndTrial(w, "dead") /\ lock' = AfterDeath(w)
  /\ trialsFile' \in {trialsFile} \cup (IF pc[w] = "trial" THEN {"torn"} ELSE {})
  /\ samplesFile' \in {samplesFile} \cup (IF pc[w] = "row" THEN {"torn"} ELSE {})
  /\ UNCHANGED <<files, constants, trialRows, rows>>

Save(w) == \/ Shoot(w) \/ Missed(w) \/ CollectDone(w) \/ AttemptsExhausted(w) \/ WriteImage(w)
           \/ Undo(w) \/ NoCandidate(w) \/ LockConstants(w) \/ EnsureConstants(w)
           \/ LockTrial(w) \/ EnsureTrial(w) \/ LockRow(w) \/ AppendRow(w)

Next == \E w \in Workers : Save(w) \/ Skipped(w) \/ PolicyDies(w)

Spec == Init /\ [][Next]_vars

\* A policy that is not killed keeps running and takes the lock once it is free.
\* The loop has no bound on skipped waypoints: that they end is assumed.
FairSpec == Spec /\ \A w \in Workers : WF_vars(Save(w)) /\ <>[][~Skipped(w)]_vars

(***************************************************************************)
(* Properties.                                                              *)
(***************************************************************************)
\* Readers of samples.jsonl see a log of whole captures that never changes,
\* through concurrent workers, kills, failed writes and torn lines.
Captures == {[trial |-> r.trial, step |-> r.step,
              images |-> [c \in Cameras |-> files[<<Dir[r.trial], r.step, c>>]]] : r \in rows}
Log == INSTANCE CaptureLog WITH log <- Captures
ImplementsLog == Log!Spec

\* evaluation.py joins every sample with its trial: the trial row comes first and
\* is never lost, even if its own append failed in an earlier attempt.
Joinable == \A r \in rows : r.trial \in trialRows

\* A sample is read with constants.json: every sample was stored relative to the
\* value that is in the file, whichever worker recorded it first, and its own
\* camera was within the tolerance of it (not of every other sample's camera).
NominalAgreed == \A r \in rows : r.nominal = constants /\ r.own <= constants + Tolerance
                                /\ constants <= r.own + Tolerance

\* A trial that reports "ok" has its full number of rows, unless some append to
\* samples.jsonl was cut short.
OkIsComplete ==
  samplesFile = "clean" =>
    \A t \in Trials : outcome[t] = "ok" => {r.step : r \in {q \in rows : q.trial = t}} = Numbers

\* README: a partial capture is deleted.  An image without a row belongs to an
\* attempt under way or to a policy that died.
NoOrphans ==
  \A i \in DOMAIN files : files[i] # Nobody =>
    \/ \E r \in rows : Dir[r.trial] = i[1] /\ r.step = i[2]
    \/ samplesFile # "clean"
    \/ \E w \in Workers, c \in Cameras : ~Ended(w) /\ c \in written[w] /\ i = Image(w, c)
    \/ \E t \in Trials : Dir[t] = i[1] /\ outcome[t] = "dead"

\* Nothing dangles: a row finds its trial and its constants, and an image on the
\* disk its row.
Referenced == Joinable /\ NominalAgreed /\ NoOrphans

\* No death keeps the others waiting for the lock: every queue is worked off.
AllTrialsEnd == \A w \in Workers : <>Ended(w)

(* Stated by the repository, and not what the code does. *)
\* README: one row of samples.jsonl is a synchronized capture, all three images of
\* the same stamp; also when --resume continues a dataset.
RowIsOneShot ==
  \A r \in rows, c \in Cameras : files[<<Dir[r.trial], r.step, c>>] = r.shot
=============================================================================
