------------------------- MODULE DatasetStoreProofs -------------------------
(***************************************************************************)
(* What the dataset promises its readers, for any number of workers, trials, *)
(* captures, cameras and calibrations, with kills and failed writes anywhere.*)
(***************************************************************************)
EXTENDS DatasetStore, TLAPS

(***************************************************************************)
(* The inductive invariant.                                                 *)
(***************************************************************************)
Storing == {"lockConstants", "constants", "lockTrial", "trial", "lockRow", "row"}
Agreed  == {"lockTrial", "trial", "lockRow", "row"}  \* the constants are known

\* A capture under way has its number, its attempt and a camera to come; the
\* images are complete before anything else is stored.
PlaceOK ==
  \A w \in Workers :
    /\ Ended(w) => pc[w] = "ready" /\ saved[w] = 0
    /\ pc[w] # "ready" => saved[w] < Steps /\ tries[w] # 0
    /\ pc[w] = "images" => todo[w] # <<>>
    /\ pc[w] \in Storing => written[w] = Cameras

\* Whoever is at one of the three files has the lock.
LockOK == \A w \in Workers : pc[w] \in {"constants", "trial", "row"} => lock = w

\* What was read under the lock is still what the file says.
ConstantsOK ==
  /\ \A w \in Workers :
       /\ pc[w] = "constants" => candidate[w] \in Nat /\ seen[w] = constants
       /\ pc[w] \in Agreed => /\ candidate[w] \in Nat /\ constants \in Nat
                              /\ Nominal(w) = constants /\ Same(constants, candidate[w])
  /\ NominalAgreed

\* The cached trial record is a row on the disk.
TrialOK ==
  /\ \A w \in Workers : /\ known[w] => Trial(w) \in trialRows
                        /\ pc[w] \in {"lockRow", "row"} => known[w]
  /\ Joinable

\* Rows are of trials that have begun, and of captures that were counted.
RowsOK ==
  \A r \in rows : \E v \in Workers : \E i \in DOMAIN Queue[v] :
    Queue[v][i] = r.trial /\ i <= job[v] /\ (i = job[v] => r.step <= saved[v])

\* Only a trial whose process has gone has an outcome.
OutcomeOK ==
  \A t \in Trials : outcome[t] # "none" =>
    \E v \in Workers : \E i \in DOMAIN Queue[v] : Queue[v][i] = t /\ i < job[v]

\* As long as no append was cut short, what was counted is there.
CountOK ==
  samplesFile = "clean" =>
    /\ \A w \in Workers : ~Ended(w) =>
         \A n \in 1..saved[w] : \E r \in rows : r.trial = Trial(w) /\ r.step = n
    /\ \A t \in Trials : outcome[t] = "ok" =>
         \A n \in Numbers : \E r \in rows : r.trial = t /\ r.step = n

\* NoOrphans, of the images of a capture that is really under way.
ImagesOK ==
  samplesFile = "clean" => \A i \in DOMAIN files : files[i] # Nobody =>
    \/ \E r \in rows : Dir[r.trial] = i[1] /\ r.step = i[2]
    \/ \E w \in Workers, c \in Cameras : pc[w] # "ready" /\ c \in written[w] /\ i = Image(w, c)
    \/ \E t \in Trials : Dir[t] = i[1] /\ outcome[t] = "dead"

IInv == /\ TypeOK /\ PlaceOK /\ LockOK /\ ConstantsOK /\ TrialOK
        /\ RowsOK /\ OutcomeOK /\ CountOK /\ ImagesOK

\* What the refinement needs besides, if no two trials share a directory: the
\* images of a capture under way, and of every row, show one shot.
OwnDirectories == \A t, u \in Trials : Dir[t] = Dir[u] => t = u

ShownOK ==
  \A w \in Workers : pc[w] # "ready" =>
    /\ \A c \in written[w] : files[Image(w, c)] = Shot(w)
    /\ pc[w] = "images" =>
         /\ \A i \in DOMAIN todo[w] : todo[w][i] \notin written[w]
         /\ \A i, j \in DOMAIN todo[w] : todo[w][i] = todo[w][j] => i = j

PicturesOK == ShownOK /\ RowIsOneShot

(***************************************************************************)
(* What a worker is at.                                                     *)
(***************************************************************************)
\* A worker with a trial left is at one of its queue.
LEMMA AtTrial ==
  ASSUME TypeOK, NEW w \in Workers, ~Ended(w)
  PROVE  /\ job[w] \in DOMAIN Queue[w] /\ job[w] \in Nat /\ Trial(w) \in Trials
         /\ Dir[Trial(w)] \in Dirs
<1>1. Queue[w] \in Seq(Trials) /\ job[w] \in 1..(Len(Queue[w]) + 1)
  BY DatasetStoreAssumption DEF TypeOK
<1>2. job[w] \in 1..Len(Queue[w])
  BY <1>1 DEF Ended
<1> QED
  BY <1>1, <1>2 DEF Trial, Dirs

\* A worker that saves is at a capture of its trial.
LEMMA AtCapture ==
  ASSUME TypeOK, PlaceOK, NEW w \in Workers, pc[w] # "ready"
  PROVE  /\ ~Ended(w) /\ Trial(w) \in Trials /\ Number(w) \in Numbers /\ Shot(w) \in Shots
         /\ \A c \in Cameras : Image(w, c) \in Dirs \X Numbers \X Cameras
<1>1. /\ ~Ended(w) /\ saved[w] \in 0..Steps /\ saved[w] < Steps
      /\ tries[w] \in 1..MaxAttempts /\ Steps \in Nat
  BY DatasetStoreAssumption DEF TypeOK, PlaceOK
<1>2. Number(w) \in Numbers
  BY <1>1 DEF Number, Numbers
<1>3. Trial(w) \in Trials /\ Dir[Trial(w)] \in Dirs
  BY <1>1, AtTrial
<1> QED
  BY <1>1, <1>2, <1>3 DEF Shot, Shots, Image

\* The step of a worker leaves the others where they are.
LEMMA Others ==
  ASSUME TypeOK, NEW w \in Workers, Save(w) \/ Skipped(w) \/ PolicyDies(w),
         NEW v \in Workers, v # w
  PROVE  /\ job'[v] = job[v] /\ pc'[v] = pc[v] /\ saved'[v] = saved[v] /\ tries'[v] = tries[v]
         /\ todo'[v] = todo[v] /\ written'[v] = written[v] /\ known'[v] = known[v]
         /\ candidate'[v] = candidate[v] /\ seen'[v] = seen[v]
<1> USE DEF TypeOK, Goto, Forget
<1>1. CASE Shoot(w)
  BY <1>1 DEF Shoot
<1>2. CASE Missed(w)
  BY <1>2 DEF Missed
<1>3. CASE Skipped(w)
  BY <1>3 DEF Skipped
<1>4. CASE CollectDone(w)
  BY <1>4 DEF CollectDone, EndTrial
<1>5. CASE AttemptsExhausted(w)
  BY <1>5 DEF AttemptsExhausted, EndTrial
<1>6. CASE WriteImage(w)
  BY <1>6 DEF WriteImage
<1>7. CASE Undo(w)
  BY <1>7 DEF Undo
<1>8. CASE NoCandidate(w)
  BY <1>8 DEF NoCandidate
<1>9. CASE LockConstants(w)
  BY <1>9 DEF LockConstants
<1>10. CASE EnsureConstants(w)
  BY <1>10 DEF EnsureConstants
<1>11. CASE LockTrial(w)
  BY <1>11 DEF LockTrial
<1>12. CASE EnsureTrial(w)
  BY <1>12 DEF EnsureTrial
<1>13. CASE LockRow(w)
  BY <1>13 DEF LockRow
<1>14. CASE AppendRow(w)
  BY <1>14 DEF AppendRow
<1>15. CASE PolicyDies(w)
  BY <1>15 DEF PolicyDies, EndTrial
<1> QED
  BY <1>1, <1>2, <1>3, <1>4, <1>5, <1>6, <1>7, <1>8, <1>9, <1>10, <1>11, <1>12, <1>13, <1>14,
     <1>15 DEF Save

(***************************************************************************)
(* Types.                                                                   *)
(***************************************************************************)
\* The end of a trial, with whatever status.
LEMMA TypesOfEnd ==
  ASSUME TypeOK, NEW w \in Workers, ~Ended(w), NEW status \in {"ok", "collect_failed", "dead"},
         EndTrial(w, status)
  PROVE  /\ job' \in [Workers -> Nat] /\ \A v \in Workers : job'[v] \in 1..(Len(Queue[v]) + 1)
         /\ pc' \in [Workers -> {"ready", "images", "lockConstants", "constants", "lockTrial",
                                 "trial", "lockRow", "row", "undo"}]
         /\ saved' \in [Workers -> 0..Steps] /\ tries' \in [Workers -> 0..MaxAttempts]
         /\ todo' \in [Workers -> Seq(Cameras)] /\ written' \in [Workers -> SUBSET Cameras]
         /\ known' \in [Workers -> BOOLEAN]
         /\ candidate' \in [Workers -> Nat \cup {Nobody}]
         /\ seen' \in [Workers -> Nat \cup {Nobody}]
         /\ outcome' \in [Trials -> {"none", "ok", "collect_failed", "dead"}]
<1>1. Steps \in Nat /\ MaxAttempts \in Nat /\ Queue[w] \in Seq(Trials)
  BY DatasetStoreAssumption
<1>2. job[w] \in 1..Len(Queue[w]) /\ Trial(w) \in Trials
  BY <1>1, AtTrial
<1>3. job' = [job EXCEPT ![w] = job[w] + 1] /\ job \in [Workers -> Nat]
      /\ \A v \in Workers : job[v] \in 1..(Len(Queue[v]) + 1)
  BY DEF EndTrial, TypeOK
<1>4. job' \in [Workers -> Nat] /\ \A v \in Workers : job'[v] \in 1..(Len(Queue[v]) + 1)
  BY <1>1, <1>2, <1>3
<1>5. /\ pc' = [pc EXCEPT ![w] = "ready"] /\ saved' = [saved EXCEPT ![w] = 0]
      /\ tries' = [tries EXCEPT ![w] = 0] /\ todo' = [todo EXCEPT ![w] = <<>>]
      /\ written' = [written EXCEPT ![w] = {}] /\ known' = [known EXCEPT ![w] = FALSE]
      /\ candidate' = [candidate EXCEPT ![w] = Nobody] /\ seen' = [seen EXCEPT ![w] = Nobody]
      /\ outcome' = [outcome EXCEPT ![Trial(w)] = status]
  BY DEF EndTrial, Forget
<1>6. 0 \in 0..Steps /\ 0 \in 0..MaxAttempts /\ <<>> \in Seq(Cameras)
  BY <1>1
<1>7. outcome' \in [Trials -> {"none", "ok", "collect_failed", "dead"}]
  BY <1>2, <1>5 DEF TypeOK
<1>8. known' \in [Workers -> BOOLEAN]
  BY <1>5 DEF TypeOK
<1> QED
  BY <1>4, <1>5, <1>6, <1>7, <1>8 DEF TypeOK

\* Types: the images of a capture are written one by one.
LEMMA TypesOfImage ==
  ASSUME TypeOK, PlaceOK, NEW w \in Workers, WriteImage(w) PROVE TypeOK'
<1>1. pc[w] = "images" /\ todo[w] \in Seq(Cameras) /\ todo[w] # <<>>
  BY DEF WriteImage, At, PlaceOK, TypeOK
<1>2. Head(todo[w]) \in Cameras /\ Tail(todo[w]) \in Seq(Cameras)
  BY <1>1
<1>3. Shot(w) \in Shots /\ Image(w, Head(todo[w])) \in Dirs \X Numbers \X Cameras
  BY <1>1, <1>2, AtCapture
<1>4. files' \in [Dirs \X Numbers \X Cameras -> Shots \cup {Nobody}]
  BY <1>3 DEF WriteImage, TypeOK
<1>5. written' \in [Workers -> SUBSET Cameras] /\ todo' \in [Workers -> Seq(Cameras)]
  BY <1>2 DEF WriteImage, TypeOK
<1>6. pc' \in [Workers -> {"ready", "images", "lockConstants", "constants", "lockTrial",
                           "trial", "lockRow", "row", "undo"}]
  BY DEF WriteImage, TypeOK, Goto
<1> QED
  BY <1>4, <1>5, <1>6 DEF WriteImage, TypeOK

\* The intrinsic matrix, enlarged to the image.
LEMMA Calibrations ==
  ASSUME NEW info \in Infos, Fits(info) PROVE Calibration(info) \in Nat
<1>1. info \in [width : Nat, height : Nat, focal : Nat] /\ ImageWidth \in Nat /\ info.width > 0
  BY DatasetStoreAssumption DEF Fits
<1>2. info.focal * ImageWidth \in Nat /\ info.width \in Nat \ {0}
  BY <1>1
<1> QED
  BY <1>2 DEF Calibration

\* Types: constants.json is read under the lock, and compared or written.
LEMMA TypesOfConstants ==
  ASSUME TypeOK, PlaceOK, ConstantsOK, NEW w \in Workers, LockConstants(w) \/ EnsureConstants(w)
  PROVE  TypeOK'
<1>1. CASE LockConstants(w)
  <2>1. candidate' \in [Workers -> Nat \cup {Nobody}] /\ seen' \in [Workers -> Nat \cup {Nobody}]
    BY <1>1, Calibrations DEF LockConstants, TypeOK
  <2>2. pc' \in [Workers -> {"ready", "images", "lockConstants", "constants", "lockTrial",
                             "trial", "lockRow", "row", "undo"}] /\ lock' = w
    BY <1>1 DEF LockConstants, TypeOK, Goto
  <2> QED
    BY <1>1, <2>1, <2>2 DEF LockConstants, TypeOK, disk
<1>2. CASE EnsureConstants(w)
  <2>1. constants' \in Nat \cup {Nobody} /\ lock' = Nobody
    BY <1>2 DEF EnsureConstants, TypeOK
  <2>2. pc' \in [Workers -> {"ready", "images", "lockConstants", "constants", "lockTrial",
                             "trial", "lockRow", "row", "undo"}]
    BY <1>2 DEF EnsureConstants, TypeOK, Goto
  <2> QED
    BY <1>2, <2>1, <2>2 DEF EnsureConstants, TypeOK
<1> QED
  BY <1>1, <1>2

\* The row that is appended.
NewRow(w) == [trial |-> Trial(w), step |-> Number(w), shot |-> Shot(w),
              own |-> candidate[w], nominal |-> Nominal(w)]

\* Types: a row is appended to samples.jsonl, whole or torn.
LEMMA TypesOfRow ==
  ASSUME TypeOK, PlaceOK, ConstantsOK, NEW w \in Workers, AppendRow(w) PROVE TypeOK'
<1>1. pc[w] = "row" /\ candidate[w] \in Nat /\ Nominal(w) \in Nat
  BY DEF AppendRow, At, ConstantsOK, Agreed
<1>2. Trial(w) \in Trials /\ Number(w) \in Numbers /\ Shot(w) \in Shots
  BY <1>1, AtCapture
<1>3. NewRow(w) \in Row
  BY <1>1, <1>2 DEF NewRow, Row
<1>4. rows' \subseteq Row
  BY <1>3 DEF AppendRow, Appended, NewRow, TypeOK
<1>5. samplesFile' \in {"clean", "torn", "bad"} /\ lock' = Nobody
  BY DEF AppendRow, TypeOK
<1>6. /\ saved' \in [Workers -> 0..Steps] /\ tries' \in [Workers -> 0..MaxAttempts]
      /\ candidate' \in [Workers -> Nat \cup {Nobody}]
      /\ seen' \in [Workers -> Nat \cup {Nobody}]
  <2>1. Steps \in Nat /\ MaxAttempts \in Nat /\ saved[w] \in 0..Steps /\ saved[w] < Steps
    BY <1>1, DatasetStoreAssumption DEF PlaceOK, TypeOK
  <2>2. saved[w] + 1 \in 0..Steps /\ 0 \in 0..MaxAttempts
    BY <2>1
  <2>3. /\ saved' \in {saved, [saved EXCEPT ![w] = saved[w] + 1]}
        /\ tries' \in {tries, [tries EXCEPT ![w] = 0]}
        /\ candidate' \in {candidate, [candidate EXCEPT ![w] = Nobody]}
        /\ seen' \in {seen, [seen EXCEPT ![w] = Nobody]}
    BY DEF AppendRow, Forget
  <2>4. saved' \in [Workers -> 0..Steps] /\ tries' \in [Workers -> 0..MaxAttempts]
    <3>1. saved \in [Workers -> 0..Steps] /\ tries \in [Workers -> 0..MaxAttempts]
      BY DEF TypeOK
    <3>2. saved' \in [Workers -> 0..Steps]
      BY <2>2, <2>3, <3>1
    <3>3. tries' \in [Workers -> 0..MaxAttempts]
      BY <2>2, <2>3, <3>1
    <3> QED
      BY <3>2, <3>3
  <2> QED
    BY <2>3, <2>4 DEF TypeOK
<1>7. pc' \in [Workers -> {"ready", "images", "lockConstants", "constants", "lockTrial",
                           "trial", "lockRow", "row", "undo"}]
  BY DEF AppendRow, TypeOK, Goto
<1> QED
  BY <1>4, <1>5, <1>6, <1>7 DEF AppendRow, TypeOK

\* Every step keeps the types.
LEMMA StepTypeOK ==
  ASSUME IInv, NEW w \in Workers, Save(w) \/ Skipped(w) \/ PolicyDies(w) PROVE TypeOK'
<1>1. TypeOK /\ PlaceOK /\ ConstantsOK
  BY DEF IInv
<1>2. CASE Shoot(w)
  <2>1. CameraOrder \in Seq(Cameras) /\ tries[w] + 1 \in 0..MaxAttempts
    BY <1>1, <1>2, DatasetStoreAssumption DEF Shoot, TypeOK
  <2> QED
    BY <1>1, <1>2, <2>1 DEF Shoot, TypeOK, Goto, disk
<1>3. CASE Missed(w)
  <2>1. tries[w] + 1 \in 0..MaxAttempts
    BY <1>1, <1>3, DatasetStoreAssumption DEF Missed, TypeOK
  <2> QED
    BY <1>1, <1>3, <2>1 DEF Missed, TypeOK, disk
<1>4. CASE Skipped(w)
  <2>1. 0 \in 0..MaxAttempts
    BY DatasetStoreAssumption
  <2> QED
    BY <1>1, <1>4, <2>1 DEF Skipped, TypeOK, disk
<1>5. CASE CollectDone(w)
  <2>1. ~Ended(w) /\ EndTrial(w, "ok") /\ UNCHANGED <<lock, disk>>
    BY <1>5 DEF CollectDone, At
  <2> QED
    BY <1>1, <2>1, TypesOfEnd DEF TypeOK, disk
<1>6. CASE AttemptsExhausted(w)
  <2>1. ~Ended(w) /\ EndTrial(w, "collect_failed") /\ UNCHANGED <<lock, disk>>
    BY <1>6 DEF AttemptsExhausted, At
  <2> QED
    BY <1>1, <2>1, TypesOfEnd DEF TypeOK, disk
<1>7. CASE WriteImage(w)
  BY <1>1, <1>7, TypesOfImage
<1>8. CASE Undo(w)
  <2>1. files' \in [Dirs \X Numbers \X Cameras -> Shots \cup {Nobody}]
    BY <1>1, <1>8 DEF Undo, TypeOK
  <2> QED
    BY <1>1, <1>8, <2>1 DEF Undo, TypeOK, Goto, Forget
<1>9. CASE NoCandidate(w)
  BY <1>1, <1>9 DEF NoCandidate, TypeOK, Goto, disk
<1>10. CASE LockConstants(w) \/ EnsureConstants(w)
  BY <1>1, <1>10, TypesOfConstants
<1>11. CASE LockTrial(w)
  BY <1>1, <1>11 DEF LockTrial, TypeOK, Goto, disk
<1>12. CASE EnsureTrial(w)
  <2>1. lock' = Nobody /\ trialsFile' \in {"clean", "torn"}
    BY <1>1, <1>12 DEF EnsureTrial, TypeOK
  <2>2. trialRows' \subseteq Trials
    <3>1. Trial(w) \in Trials
      BY <1>1, <1>12, AtTrial DEF EnsureTrial, At
    <3> QED
      BY <1>1, <1>12, <3>1 DEF EnsureTrial, TypeOK
  <2>3. known' \in [Workers -> BOOLEAN]
    BY <1>1, <1>12 DEF EnsureTrial, TypeOK, Remembered
  <2>4. pc' \in [Workers -> {"ready", "images", "lockConstants", "constants", "lockTrial",
                             "trial", "lockRow", "row", "undo"}]
    BY <1>1, <1>12 DEF EnsureTrial, TypeOK, Goto
  <2> QED
    BY <1>1, <1>12, <2>1, <2>2, <2>3, <2>4 DEF EnsureTrial, TypeOK
<1>13. CASE LockRow(w)
  BY <1>1, <1>13 DEF LockRow, TypeOK, Goto, disk
<1>14. CASE AppendRow(w)
  BY <1>1, <1>14, TypesOfRow
<1>15. CASE PolicyDies(w)
  <2>1. ~Ended(w) /\ EndTrial(w, "dead") /\ lock' \in {lock, Nobody}
        /\ UNCHANGED <<files, constants, trialRows, rows>>
    BY <1>15 DEF PolicyDies, AfterDeath
  <2>2. trialsFile' \in {"clean", "torn"} /\ samplesFile' \in {"clean", "torn", "bad"}
    BY <1>1, <1>15 DEF PolicyDies, TypeOK
  <2> QED
    BY <1>1, <2>1, <2>2, TypesOfEnd DEF TypeOK
<1> QED
  BY <1>2, <1>3, <1>4, <1>5, <1>6, <1>7, <1>8, <1>9, <1>10, <1>11, <1>12, <1>13, <1>14, <1>15
  DEF Save

(***************************************************************************)
(* Places and the lock.                                                     *)
(***************************************************************************)
\* Every step keeps what the place of a worker says of its trial.
LEMMA StepPlaceOK ==
  ASSUME IInv, NEW w \in Workers, Save(w) \/ Skipped(w) \/ PolicyDies(w) PROVE PlaceOK'
<1> DEFINE Good(v) == /\ Ended(v) => pc[v] = "ready" /\ saved[v] = 0
                      /\ pc[v] # "ready" => saved[v] < Steps /\ tries[v] # 0
                      /\ pc[v] = "images" => todo[v] # <<>>
                      /\ pc[v] \in Storing => written[v] = Cameras
<1>1. TypeOK /\ PlaceOK /\ \A v \in Workers : Good(v)
  BY DEF IInv, PlaceOK
<1>2. ASSUME NEW v \in Workers, v # w PROVE Good(v)'
  BY <1>1, <1>2, Others DEF Ended
<1>3. ASSUME Good(w)' PROVE PlaceOK'
  BY <1>2, <1>3 DEF PlaceOK
\* A step within save_sample, after the images.
<1>4. ASSUME ~Ended(w), pc[w] # "ready", pc'[w] \in Storing \cup {"undo"},
             pc'[w] \in Storing => pc[w] \in Storing,
             UNCHANGED <<job, saved, tries, todo, written>>
      PROVE  PlaceOK'
  BY <1>1, <1>3, <1>4 DEF Ended, Storing
\* The end of a trial.
<1>5. ASSUME NEW status, EndTrial(w, status) PROVE PlaceOK'
  <2>1. pc'[w] = "ready" /\ saved'[w] = 0
    BY <1>1, <1>5 DEF EndTrial, TypeOK
  <2> QED
    BY <1>3, <2>1 DEF Storing
<1>6. CASE Shoot(w)
  <2>1. /\ ~Ended(w) /\ job' = job /\ pc'[w] = "images" /\ saved' = saved /\ saved[w] < Steps
        /\ tries'[w] = tries[w] + 1 /\ tries[w] \in Nat /\ todo'[w] = CameraOrder
        /\ CameraOrder # <<>>
    BY <1>1, <1>6, DatasetStoreAssumption DEF Shoot, At, Goto, TypeOK
  <2> QED
    BY <1>3, <2>1 DEF Ended, Storing
<1>7. CASE Missed(w) \/ Skipped(w)
  <2>1. ~Ended(w) /\ job' = job /\ pc[w] = "ready" /\ pc' = pc
    BY <1>7 DEF Missed, Skipped, At
  <2> QED
    BY <1>3, <2>1 DEF Ended, Storing
<1>8. CASE CollectDone(w) \/ AttemptsExhausted(w) \/ PolicyDies(w)
  BY <1>5, <1>8 DEF CollectDone, AttemptsExhausted, PolicyDies
<1>9. CASE WriteImage(w)
  <2>1. /\ ~Ended(w) /\ pc[w] = "images" /\ UNCHANGED <<job, saved, tries>>
        /\ todo'[w] = Tail(todo[w])
        /\ IF Tail(todo[w]) # <<>> THEN pc' = pc
           ELSE pc'[w] = IF written'[w] = Cameras THEN "lockConstants" ELSE "undo"
    BY <1>1, <1>9 DEF WriteImage, At, Goto, TypeOK, Complete
  <2> QED
    BY <1>1, <1>3, <2>1 DEF Ended, Storing
<1>10. CASE Undo(w)
  <2>1. ~Ended(w) /\ job' = job /\ pc'[w] = "ready"
    BY <1>1, <1>10 DEF Undo, At, Goto, TypeOK
  <2> QED
    BY <1>3, <2>1 DEF Ended, Storing
<1>11. CASE NoCandidate(w)
  BY <1>1, <1>4, <1>11 DEF NoCandidate, At, Goto, TypeOK, Storing
<1>12. CASE LockConstants(w)
  BY <1>1, <1>4, <1>12 DEF LockConstants, At, Goto, TypeOK, Storing
<1>13. CASE EnsureConstants(w)
  BY <1>1, <1>4, <1>13 DEF EnsureConstants, At, Goto, TypeOK, Storing
<1>14. CASE LockTrial(w)
  BY <1>1, <1>4, <1>14 DEF LockTrial, At, Goto, TypeOK, Storing
<1>15. CASE EnsureTrial(w)
  BY <1>1, <1>4, <1>15 DEF EnsureTrial, At, Goto, TypeOK, Storing
<1>16. CASE LockRow(w)
  BY <1>1, <1>4, <1>16 DEF LockRow, At, Goto, TypeOK, Storing
<1>17. CASE AppendRow(w)
  <2>1. /\ ~Ended(w) /\ pc[w] = "row" /\ UNCHANGED <<job, todo, written>>
        /\ \/ pc'[w] = "ready"
           \/ pc'[w] = "undo" /\ UNCHANGED <<saved, tries>>
    BY <1>1, <1>17 DEF AppendRow, At, Goto, TypeOK
  <2> QED
    BY <1>1, <1>3, <2>1 DEF Ended, Storing
<1> QED
  BY <1>6, <1>7, <1>8, <1>9, <1>10, <1>11, <1>12, <1>13, <1>14, <1>15, <1>16, <1>17 DEF Save

\* What a step does to the lock.
LEMMA Locking ==
  ASSUME TypeOK, LockOK, NEW w \in Workers, Save(w) \/ Skipped(w) \/ PolicyDies(w)
  PROVE  \/ UNCHANGED lock /\ (pc'[w] \in {"constants", "trial", "row"} => lock = w)
         \/ lock = Nobody /\ lock' = w
         \/ lock = w /\ lock' = Nobody /\ pc'[w] \notin {"constants", "trial", "row"}
<1> USE DEF TypeOK, At, Goto
<1>1. CASE Shoot(w)
  BY <1>1 DEF Shoot
<1>2. CASE Missed(w) \/ Skipped(w)
  BY <1>2 DEF Missed, Skipped
<1>3. CASE CollectDone(w) \/ AttemptsExhausted(w) \/ PolicyDies(w)
  BY <1>3 DEF CollectDone, AttemptsExhausted, PolicyDies, EndTrial, AfterDeath
<1>4. CASE WriteImage(w)
  <2>1. lock' = lock /\ pc[w] = "images" /\ pc'[w] \in {"images", "lockConstants", "undo"}
    BY <1>4 DEF WriteImage
  <2> QED
    BY <2>1
<1>5. CASE Undo(w) \/ NoCandidate(w)
  BY <1>5 DEF Undo, NoCandidate
<1>6. CASE LockConstants(w) \/ LockTrial(w) \/ LockRow(w)
  BY <1>6 DEF LockConstants, LockTrial, LockRow, LockFree
<1>7. CASE EnsureConstants(w)
  BY <1>7 DEF EnsureConstants, LockOK
<1>8. CASE EnsureTrial(w)
  BY <1>8 DEF EnsureTrial, LockOK
<1>9. CASE AppendRow(w)
  <2>1. lock = w /\ lock' = Nobody /\ pc'[w] \in {"ready", "undo"}
    BY <1>9 DEF AppendRow, LockOK
  <2> QED
    BY <2>1
<1> QED
  BY <1>1, <1>2, <1>3, <1>4, <1>5, <1>6, <1>7, <1>8, <1>9 DEF Save

\* Every step keeps the workers at a file in possession of the lock.
LEMMA StepLockOK ==
  ASSUME IInv, NEW w \in Workers, Save(w) \/ Skipped(w) \/ PolicyDies(w) PROVE LockOK'
<1>1. TypeOK /\ LockOK /\ Nobody \notin Workers
  BY DatasetStoreAssumption DEF IInv
<1>2. ASSUME NEW v \in Workers, v # w, pc'[v] \in {"constants", "trial", "row"} PROVE lock' = v
  BY <1>1, <1>2, Others, Locking DEF LockOK
<1>3. ASSUME pc'[w] \in {"constants", "trial", "row"} PROVE lock' = w
  BY <1>1, <1>3, Locking
<1> QED
  BY <1>2, <1>3 DEF LockOK

(***************************************************************************)
(* Constants and trial rows.                                                *)
(***************************************************************************)
\* What a step does to constants.json, and to what its worker knows of it.
LEMMA Constants ==
  ASSUME IInv, NEW w \in Workers, Save(w) \/ Skipped(w) \/ PolicyDies(w)
  PROVE  /\ \/ UNCHANGED constants
            \/ pc[w] = "constants" /\ constants = Nobody /\ constants' \in Nat
         /\ pc'[w] = "constants" => candidate'[w] \in Nat /\ seen'[w] = constants'
         /\ pc'[w] \in Agreed =>
              /\ candidate'[w] \in Nat /\ constants' \in Nat
              /\ Nominal(w)' = constants' /\ Same(constants', candidate'[w])
<1>1. /\ TypeOK /\ ConstantsOK /\ Tolerance \in Nat
      /\ pc[w] = "constants" => candidate[w] \in Nat /\ seen[w] = constants
      /\ pc[w] \in Agreed => /\ candidate[w] \in Nat /\ constants \in Nat
                             /\ Nominal(w) = constants /\ Same(constants, candidate[w])
  BY DatasetStoreAssumption DEF IInv, ConstantsOK
<1> USE DEF At, Goto, Agreed
\* A step after which the worker is not concerned with constants.json.
<1>2. CASE Shoot(w)
  BY <1>1, <1>2 DEF Shoot, TypeOK, disk
<1>3. CASE Missed(w) \/ Skipped(w)
  BY <1>3 DEF Missed, Skipped, disk
<1>4. CASE CollectDone(w) \/ AttemptsExhausted(w) \/ PolicyDies(w)
  <2>1. pc'[w] = "ready" /\ constants' = constants
    BY <1>1, <1>4 DEF CollectDone, AttemptsExhausted, PolicyDies, EndTrial, TypeOK, disk
  <2> QED
    BY <2>1
<1>5. CASE WriteImage(w)
  <2>1. constants' = constants /\ pc'[w] \in {"images", "lockConstants", "undo"}
    BY <1>1, <1>5 DEF WriteImage, TypeOK
  <2> QED
    BY <2>1
<1>6. CASE Undo(w) \/ NoCandidate(w)
  BY <1>1, <1>6 DEF Undo, NoCandidate, TypeOK, disk
<1>7. CASE LockConstants(w)
  BY <1>1, <1>7, Calibrations DEF LockConstants, TypeOK, disk
<1>8. CASE EnsureConstants(w)
  <2>1. /\ pc[w] = "constants" /\ seen[w] = constants /\ candidate[w] \in Nat
        /\ candidate' = candidate /\ seen' = seen
    BY <1>1, <1>8 DEF EnsureConstants
  <2>2. CASE seen[w] = Nobody /\ constants' = candidate[w]
    <3>1. /\ pc'[w] \in {"lockRow", "lockTrial", "undo"} /\ Nominal(w)' = candidate[w]
          /\ Same(constants', candidate'[w])
      BY <1>1, <1>8, <2>1, <2>2 DEF EnsureConstants, TypeOK, Nominal, Same
    <3> QED
      BY <2>1, <2>2, <3>1
  <2>3. CASE seen[w] # Nobody /\ UNCHANGED constants
    <3>1. Nominal(w)' = constants' /\ constants \in Nat
      BY <1>1, <2>1, <2>3 DEF Nominal, TypeOK
    <3>2. /\ pc'[w] \in {"lockRow", "lockTrial", "undo"}
          /\ pc'[w] # "undo" => Same(seen[w], candidate[w])
      BY <1>1, <1>8, <2>1, <2>3 DEF EnsureConstants, TypeOK
    <3> QED
      BY <2>1, <2>3, <3>1, <3>2
  <2>4. CASE pc'[w] = "undo" /\ UNCHANGED constants
    BY <2>4
  <2> QED
    BY <1>1, <1>8, <2>2, <2>3, <2>4 DEF EnsureConstants, TypeOK
<1>9. CASE LockTrial(w)
  BY <1>1, <1>9 DEF LockTrial, TypeOK, Nominal, disk
<1>10. CASE EnsureTrial(w)
  <2>1. /\ pc[w] = "trial" /\ pc'[w] \in {"lockRow", "undo"} /\ constants' = constants
        /\ candidate' = candidate /\ seen' = seen
    BY <1>1, <1>10 DEF EnsureTrial, TypeOK
  <2> QED
    BY <1>1, <2>1 DEF Nominal
<1>11. CASE LockRow(w)
  BY <1>1, <1>11 DEF LockRow, TypeOK, Nominal, disk
<1>12. CASE AppendRow(w)
  <2>1. constants' = constants /\ pc'[w] \in {"ready", "undo"}
    BY <1>1, <1>12 DEF AppendRow, TypeOK
  <2> QED
    BY <2>1
<1> QED
  BY <1>2, <1>3, <1>4, <1>5, <1>6, <1>7, <1>8, <1>9, <1>10, <1>11, <1>12 DEF Save

\* Rows are only ever added: the row of a capture, with the count of its worker.
LEMMA NextRows ==
  ASSUME TypeOK, NEW w \in Workers, Save(w) \/ Skipped(w) \/ PolicyDies(w)
  PROVE  \/ UNCHANGED rows
         \/ /\ pc[w] = "row" /\ ~Ended(w) /\ rows' = rows \cup {NewRow(w)} /\ pc'[w] = "ready"
            /\ job' = job /\ saved'[w] = saved[w] + 1 /\ UNCHANGED <<outcome, files>>
<1>1. CASE AppendRow(w)
  <2>1. CASE rows' = Appended(w) /\ Counted(TRUE)
    BY <1>1, <2>1 DEF AppendRow, At, Appended, NewRow, Goto, TypeOK, Counted
  <2> QED
    BY <1>1, <2>1 DEF AppendRow, Counted
<1>2. CASE ~AppendRow(w)
  BY <1>2 DEF Save, Shoot, Missed, Skipped, CollectDone, AttemptsExhausted, WriteImage, Undo,
     NoCandidate, LockConstants, EnsureConstants, LockTrial, EnsureTrial, LockRow, PolicyDies, disk
<1> QED
  BY <1>1, <1>2

\* What a worker found or wrote in constants.json stays in it.
LEMMA StepConstantsOK ==
  ASSUME IInv, NEW w \in Workers, Save(w) \/ Skipped(w) \/ PolicyDies(w) PROVE ConstantsOK'
<1>1. TypeOK /\ LockOK /\ ConstantsOK /\ Nobody \notin Nat
  BY DatasetStoreAssumption DEF IInv
<1>2. ASSUME NEW v \in Workers, v # w
      PROVE  /\ pc'[v] = "constants" => candidate'[v] \in Nat /\ seen'[v] = constants'
             /\ pc'[v] \in Agreed =>
                  /\ candidate'[v] \in Nat /\ constants' \in Nat
                  /\ Nominal(v)' = constants' /\ Same(constants', candidate'[v])
  <2>1. pc'[v] = pc[v] /\ candidate'[v] = candidate[v] /\ seen'[v] = seen[v]
    BY <1>1, <1>2, Others
  <2>2. Nominal(v)' = Nominal(v)
    BY <2>1 DEF Nominal
  <2>3. CASE UNCHANGED constants
    BY <1>1, <2>1, <2>2, <2>3 DEF ConstantsOK
  <2>4. CASE pc[w] = "constants" /\ constants = Nobody
    <3>1. pc[v] # "constants" /\ pc[v] \notin Agreed
      BY <1>1, <1>2, <2>4 DEF LockOK, ConstantsOK
    <3> QED
      BY <2>1, <3>1
  <2> QED
    BY <2>3, <2>4, Constants
<1>3. NominalAgreed'
  <2>1. CASE UNCHANGED rows
    <3>1. CASE UNCHANGED constants
      BY <1>1, <2>1, <3>1 DEF ConstantsOK, NominalAgreed
    <3>2. CASE constants = Nobody
      <4>1. rows = {}
        BY <1>1, <3>2 DEF ConstantsOK, NominalAgreed, TypeOK, Row
      <4> QED
        BY <2>1, <4>1 DEF NominalAgreed
    <3> QED
      BY <3>1, <3>2, Constants
  <2>2. CASE pc[w] = "row" /\ rows' = rows \cup {NewRow(w)}
    <3>1. constants' = constants
      BY <2>2, Constants
    <3>2. Nominal(w) = constants /\ Same(constants, candidate[w])
      BY <1>1, <2>2 DEF ConstantsOK, Agreed
    <3>3. /\ NewRow(w).nominal = constants /\ NewRow(w).own <= constants + Tolerance
          /\ constants <= NewRow(w).own + Tolerance
      BY <3>2 DEF NewRow, Same
    <3> QED
      BY <1>1, <2>2, <3>1, <3>3 DEF ConstantsOK, NominalAgreed
  <2> QED
    BY <1>1, <2>1, <2>2, NextRows
<1> QED
  BY <1>2, <1>3, Constants DEF ConstantsOK

\* A worker past the trial row finds it in trials.jsonl.
LEMMA StepTrialOK ==
  ASSUME IInv, NEW w \in Workers, Save(w) \/ Skipped(w) \/ PolicyDies(w) PROVE TrialOK'
<1>1. TypeOK /\ TrialOK
  BY DEF IInv
<1>2. /\ trialRows \subseteq trialRows'
      /\ known'[w] => Trial(w)' \in trialRows'
      /\ pc'[w] \in {"lockRow", "row"} => known'[w]
  <2> USE <1>1 DEF At, Goto, Trial
  <2>1. CASE Shoot(w)
    BY <2>1 DEF Shoot, TypeOK, TrialOK, disk
  <2>2. CASE Missed(w) \/ Skipped(w)
    BY <2>2 DEF Missed, Skipped, TrialOK, disk
  <2>3. CASE CollectDone(w) \/ AttemptsExhausted(w) \/ PolicyDies(w)
    <3>1. pc'[w] = "ready" /\ ~known'[w] /\ trialRows' = trialRows
      BY <2>3 DEF CollectDone, AttemptsExhausted, PolicyDies, EndTrial, TypeOK, disk
    <3> QED
      BY <3>1
  <2>4. CASE WriteImage(w)
    <3>1. /\ UNCHANGED <<job, known, trialRows>>
          /\ pc'[w] \in {"images", "lockConstants", "undo"}
      BY <2>4 DEF WriteImage, TypeOK
    <3> QED
      BY <3>1 DEF TrialOK
  <2>5. CASE Undo(w) \/ NoCandidate(w)
    BY <2>5 DEF Undo, NoCandidate, TypeOK, TrialOK, disk
  <2>6. CASE LockConstants(w)
    BY <2>6 DEF LockConstants, TypeOK, TrialOK, disk
  <2>7. CASE EnsureConstants(w)
    BY <2>7 DEF EnsureConstants, TypeOK, TrialOK
  <2>8. CASE LockTrial(w)
    BY <2>8 DEF LockTrial, TypeOK, TrialOK, disk
  <2>9. CASE EnsureTrial(w)
    BY <2>9 DEF EnsureTrial, TypeOK, Remembered
  <2>10. CASE LockRow(w)
    BY <2>10 DEF LockRow, TypeOK, TrialOK, disk
  <2>11. CASE AppendRow(w)
    <3>1. UNCHANGED <<job, known, trialRows>> /\ pc'[w] \in {"ready", "undo"}
      BY <2>11 DEF AppendRow, TypeOK
    <3> QED
      BY <3>1 DEF TrialOK
  <2> QED
    BY <2>1, <2>2, <2>3, <2>4, <2>5, <2>6, <2>7, <2>8, <2>9, <2>10, <2>11 DEF Save
<1>3. ASSUME NEW v \in Workers, v # w
      PROVE  /\ known'[v] => Trial(v)' \in trialRows'
             /\ pc'[v] \in {"lockRow", "row"} => known'[v]
  <2>1. pc'[v] = pc[v] /\ known'[v] = known[v] /\ Trial(v)' = Trial(v)
    BY <1>1, <1>3, Others DEF Trial
  <2> QED
    BY <1>1, <1>2, <2>1 DEF TrialOK
<1>4. Joinable'
  <2>1. CASE UNCHANGED rows
    BY <1>1, <1>2, <2>1 DEF TrialOK, Joinable
  <2>2. CASE pc[w] = "row" /\ rows' = rows \cup {NewRow(w)}
    <3>1. NewRow(w).trial \in trialRows
      BY <1>1, <2>2 DEF TrialOK, NewRow
    <3> QED
      BY <1>1, <1>2, <2>2, <3>1 DEF TrialOK, Joinable
  <2> QED
    BY <1>1, <2>1, <2>2, NextRows
<1> QED
  BY <1>2, <1>3, <1>4 DEF TrialOK

(***************************************************************************)
(* Rows, outcomes and images.                                               *)
(***************************************************************************)
\* A worker goes from capture to capture and, when its process ends, to the next
\* trial; without its full number of captures it does not report "ok".
LEMMA Moving ==
  ASSUME TypeOK, NEW w \in Workers, Save(w) \/ Skipped(w) \/ PolicyDies(w)
  PROVE  \/ /\ UNCHANGED <<job, outcome>>
            /\ \/ saved'[w] = saved[w]
               \/ /\ saved'[w] = saved[w] + 1 /\ pc[w] = "row" /\ ~Ended(w)
                  /\ samplesFile' = "clean" => NewRow(w) \in rows'
         \/ /\ ~Ended(w) /\ job' = [job EXCEPT ![w] = job[w] + 1] /\ saved'[w] = 0
            /\ pc'[w] = "ready" /\ UNCHANGED <<rows, files>>
            /\ \E status \in {"ok", "collect_failed", "dead"} :
                 /\ outcome' = [outcome EXCEPT ![Trial(w)] = status]
                 /\ status = "ok" => saved[w] = Steps
                 /\ status # "dead" => pc[w] = "ready"
<1>1. CASE AppendRow(w)
  <2>1. CASE Counted(FALSE) \/ UNCHANGED saved
    BY <1>1, <2>1 DEF AppendRow, Counted
  <2>2. CASE saved' = [saved EXCEPT ![w] = saved[w] + 1] /\ rows' = Appended(w)
             /\ samplesFile' = IF samplesFile = "torn" THEN "bad" ELSE samplesFile
    BY <1>1, <2>2 DEF AppendRow, At, Appended, NewRow, TypeOK
  <2> QED
    BY <1>1, <2>1, <2>2 DEF AppendRow, Counted
<1>2. CASE CollectDone(w)
  BY <1>2 DEF CollectDone, At, EndTrial, TypeOK, disk
<1>3. CASE AttemptsExhausted(w)
  BY <1>3 DEF AttemptsExhausted, At, EndTrial, TypeOK, disk
<1>4. CASE PolicyDies(w)
  BY <1>4 DEF PolicyDies, EndTrial, TypeOK
<1>5. CASE UNCHANGED <<job, outcome, saved>>
  BY <1>5
<1> QED
  BY <1>1, <1>2, <1>3, <1>4, <1>5 DEF Save, Shoot, Missed, Skipped, WriteImage, Undo,
     NoCandidate, LockConstants, EnsureConstants, LockTrial, EnsureTrial, LockRow

\* A torn samples.jsonl is never whole again.
LEMMA OnceTorn ==
  ASSUME NEW w \in Workers, Save(w) \/ Skipped(w) \/ PolicyDies(w), samplesFile' = "clean"
  PROVE  samplesFile = "clean"
<1>1. CASE AppendRow(w)
  BY <1>1 DEF AppendRow
<1>2. CASE PolicyDies(w)
  BY <1>2 DEF PolicyDies
<1> QED
  BY <1>1, <1>2 DEF Save, Shoot, Missed, Skipped, CollectDone, AttemptsExhausted, WriteImage,
     Undo, NoCandidate, LockConstants, EnsureConstants, LockTrial, EnsureTrial, LockRow, disk

\* Whoever is at a trial is the only one, and the first time.
LEMMA OnlyOnce ==
  ASSUME TypeOK, NEW w \in Workers, ~Ended(w), NEW v \in Workers, NEW i \in DOMAIN Queue[v],
         Queue[v][i] = Trial(w)
  PROVE  v = w /\ i = job[w]
<1>1. job[w] \in DOMAIN Queue[w]
  BY AtTrial
<1> QED
  BY <1>1, DatasetStoreAssumption DEF Trial

\* Rows keep their trial row and constants, and their numbers are distinct.
LEMMA StepRowsOK ==
  ASSUME IInv, NEW w \in Workers, Save(w) \/ Skipped(w) \/ PolicyDies(w) PROVE RowsOK'
<1>1. TypeOK /\ RowsOK /\ job \in [Workers -> Nat] /\ saved \in [Workers -> 0..Steps]
  BY DEF IInv, TypeOK
<1>2. ASSUME NEW r \in rows
      PROVE  \E v \in Workers : \E i \in DOMAIN Queue[v] :
               Queue[v][i] = r.trial /\ i <= job'[v] /\ (i = job'[v] => r.step <= saved'[v])
  <2>1. PICK v \in Workers : \E i \in DOMAIN Queue[v] :
          Queue[v][i] = r.trial /\ i <= job[v] /\ (i = job[v] => r.step <= saved[v])
    BY <1>1 DEF RowsOK
  <2>2. PICK i \in DOMAIN Queue[v] :
          Queue[v][i] = r.trial /\ i <= job[v] /\ (i = job[v] => r.step <= saved[v])
    BY <2>1
  <2>3. i \in Nat /\ job[v] \in Nat /\ saved[v] \in Nat /\ r.step \in Nat
    <3>1. Queue[v] \in Seq(Trials) /\ Steps \in Nat
      BY DatasetStoreAssumption
    <3>2. r.step \in 1..Steps
      BY <1>1 DEF TypeOK, Row, Numbers
    <3>3. i \in Nat
      BY <3>1
    <3> QED
      BY <1>1, <3>1, <3>2, <3>3
  <2>4. CASE v # w
    BY <1>1, <2>2, <2>4, Others
  <2>5. CASE v = w
    <3>1. CASE job' = job /\ saved'[w] \in {saved[w], saved[w] + 1}
      BY <2>2, <2>3, <2>5, <3>1
    <3>2. CASE job'[w] = job[w] + 1
      BY <2>2, <2>3, <2>5, <3>2
    <3> QED
      BY <1>1, <3>1, <3>2, Moving
  <2> QED
    BY <2>4, <2>5
<1>3. CASE UNCHANGED rows
  BY <1>2, <1>3 DEF RowsOK
<1>4. CASE /\ ~Ended(w) /\ rows' = rows \cup {NewRow(w)} /\ job' = job
           /\ saved'[w] = saved[w] + 1
  <2>1. job[w] \in DOMAIN Queue[w] /\ Queue[w][job[w]] = NewRow(w).trial /\ job[w] <= job'[w]
    BY <1>1, <1>4, AtTrial DEF NewRow, Trial
  <2>2. NewRow(w).step <= saved'[w]
    <3>1. NewRow(w).step = saved[w] + 1 /\ saved[w] + 1 \in Nat
      BY <1>1, DatasetStoreAssumption DEF NewRow, Number
    <3> QED
      BY <1>4, <3>1
  <2>3. \E v \in Workers : \E i \in DOMAIN Queue[v] :
          Queue[v][i] = NewRow(w).trial /\ i <= job'[v] /\ (i = job'[v] => NewRow(w).step <= saved'[v])
    BY <2>1, <2>2
  <2> QED
    BY <1>2, <1>4, <2>3 DEF RowsOK
<1> QED
  BY <1>1, <1>3, <1>4, NextRows

\* A trial has an outcome only when its process has gone.
LEMMA StepOutcomeOK ==
  ASSUME IInv, NEW w \in Workers, Save(w) \/ Skipped(w) \/ PolicyDies(w) PROVE OutcomeOK'
<1>1. TypeOK /\ OutcomeOK /\ job \in [Workers -> Nat]
  BY DEF IInv, TypeOK
<1>2. \A v \in Workers : job'[v] \in {job[v], job[v] + 1}
  BY <1>1, Others, Moving
<1>3. ASSUME NEW t \in Trials, outcome[t] # "none"
      PROVE  \E v \in Workers : \E i \in DOMAIN Queue[v] : Queue[v][i] = t /\ i < job'[v]
  <2>1. PICK v \in Workers : \E i \in DOMAIN Queue[v] : Queue[v][i] = t /\ i < job[v]
    BY <1>1, <1>3 DEF OutcomeOK
  <2>2. PICK i \in DOMAIN Queue[v] : Queue[v][i] = t /\ i < job[v]
    BY <2>1
  <2>3. i < job'[v]
    <3>1. Queue[v] \in Seq(Trials) /\ job[v] \in Nat /\ job'[v] \in {job[v], job[v] + 1}
      BY <1>1, <1>2, DatasetStoreAssumption
    <3> QED
      BY <2>2, <3>1
  <2> QED
    BY <2>2, <2>3
<1>4. CASE UNCHANGED outcome
  BY <1>3, <1>4 DEF OutcomeOK
<1>5. CASE /\ ~Ended(w) /\ job' = [job EXCEPT ![w] = job[w] + 1]
           /\ \E status \in {"ok", "collect_failed", "dead"} :
                outcome' = [outcome EXCEPT ![Trial(w)] = status]
  <2>1. job[w] \in DOMAIN Queue[w] /\ Queue[w][job[w]] = Trial(w) /\ job[w] < job'[w]
    BY <1>1, <1>5, AtTrial DEF Trial
  <2>2. \A t \in Trials : t # Trial(w) => outcome'[t] = outcome[t]
    BY <1>1, <1>5 DEF TypeOK
  <2> QED
    BY <1>3, <2>1, <2>2 DEF OutcomeOK
<1> QED
  BY <1>1, <1>4, <1>5, Moving

\* A worker's count agrees with the rows of its trial, up to a torn append.
LEMMA StepCountOK ==
  ASSUME IInv, NEW w \in Workers, Save(w) \/ Skipped(w) \/ PolicyDies(w) PROVE CountOK'
<1>1. TypeOK /\ CountOK /\ OutcomeOK /\ saved \in [Workers -> 0..Steps] /\ Steps \in Nat
  BY DatasetStoreAssumption DEF IInv, TypeOK
<1>2. rows \subseteq rows'
  BY <1>1, NextRows
<1> SUFFICES ASSUME samplesFile' = "clean"
             PROVE  /\ \A v \in Workers : ~Ended(v)' =>
                         \A n \in 1..saved'[v] : \E r \in rows' : r.trial = Trial(v)' /\ r.step = n
                    /\ \A t \in Trials : outcome'[t] = "ok" =>
                         \A n \in Numbers : \E r \in rows' : r.trial = t /\ r.step = n
  BY DEF CountOK
<1>3. /\ \A v \in Workers : ~Ended(v) =>
           \A n \in 1..saved[v] : \E r \in rows' : r.trial = Trial(v) /\ r.step = n
      /\ \A t \in Trials : outcome[t] = "ok" =>
           \A n \in Numbers : \E r \in rows' : r.trial = t /\ r.step = n
  BY <1>1, <1>2, OnceTorn DEF CountOK
<1>4. ASSUME NEW v \in Workers, v # w, ~Ended(v)'
      PROVE  \A n \in 1..saved'[v] : \E r \in rows' : r.trial = Trial(v)' /\ r.step = n
  BY <1>1, <1>3, <1>4, Others DEF Ended, Trial
<1>5. ASSUME ~Ended(w)'
      PROVE  \A n \in 1..saved'[w] : \E r \in rows' : r.trial = Trial(w)' /\ r.step = n
  <2>1. CASE job' = job /\ saved'[w] = saved[w]
    BY <1>3, <1>5, <2>1 DEF Ended, Trial
  <2>2. CASE /\ job' = job /\ saved'[w] = saved[w] + 1 /\ ~Ended(w)
             /\ samplesFile' = "clean" => NewRow(w) \in rows'
    <3>1. NewRow(w).trial = Trial(w)' /\ NewRow(w).step = saved[w] + 1 /\ Trial(w)' = Trial(w)
      BY <2>2 DEF NewRow, Number, Trial
    <3>2. ASSUME NEW n \in 1..(saved[w] + 1)
          PROVE  \E r \in rows' : r.trial = Trial(w)' /\ r.step = n
      <4>1. CASE n = saved[w] + 1
        BY <2>2, <3>1, <4>1
      <4>2. CASE n \in 1..saved[w]
        BY <1>3, <2>2, <3>1, <4>2
      <4> QED
        BY <1>1, <3>2, <4>1, <4>2
    <3> QED
      BY <2>2, <3>2
  <2>3. CASE saved'[w] = 0
    BY <2>3
  <2> QED
    BY <1>1, <2>1, <2>2, <2>3, Moving
<1>6. ASSUME NEW t \in Trials, outcome'[t] = "ok"
      PROVE  \A n \in Numbers : \E r \in rows' : r.trial = t /\ r.step = n
  <2>1. CASE outcome[t] = "ok"
    BY <1>3, <2>1
  <2>2. CASE outcome[t] # "ok"
    <3>1. PICK status \in {"ok", "collect_failed", "dead"} :
            /\ outcome' = [outcome EXCEPT ![Trial(w)] = status] /\ ~Ended(w)
            /\ status = "ok" => saved[w] = Steps
      BY <1>1, <1>6, <2>2, Moving
    <3>2. t = Trial(w) /\ status = "ok"
      BY <1>1, <1>6, <2>2, <3>1 DEF TypeOK
    <3> QED
      BY <1>3, <3>1, <3>2 DEF Numbers
  <2> QED
    BY <2>1, <2>2
<1> QED
  BY <1>4, <1>5, <1>6

\* What a step does to the images on the disk.
LEMMA Imaging ==
  ASSUME IInv, NEW w \in Workers, Save(w) \/ Skipped(w) \/ PolicyDies(w)
  PROVE  \/ UNCHANGED files
         \/ /\ WriteImage(w) /\ pc[w] = "images" /\ pc'[w] # "ready" /\ ~Ended(w)
            /\ UNCHANGED <<job, saved, tries>> /\ Head(todo[w]) \in Cameras
            /\ todo'[w] = Tail(todo[w]) /\ todo[w] # <<>>
            /\ LET c == Head(todo[w]) IN
               \/ /\ files' = [files EXCEPT ![Image(w, c)] = Shot(w)]
                  /\ written'[w] = written[w] \cup {c}
               \/ /\ files' = [files EXCEPT ![Image(w, c)] = Nobody]
                  /\ written'[w] = written[w]
         \/ /\ pc[w] = "undo" /\ pc'[w] = "ready" /\ ~Ended(w)
            /\ UNCHANGED <<job, saved, tries, outcome>>
            /\ files' = [i \in DOMAIN files |-> IF i \in Unlinked(w) THEN Nobody ELSE files[i]]
<1>1. TypeOK /\ PlaceOK
  BY DEF IInv
<1>2. CASE WriteImage(w)
  <2>1. pc[w] = "images" /\ ~Ended(w) /\ todo[w] \in Seq(Cameras) /\ todo[w] # <<>>
    BY <1>1, <1>2 DEF WriteImage, At, PlaceOK, TypeOK
  <2>2. Head(todo[w]) \in Cameras /\ UNCHANGED <<job, saved, tries>> /\ todo'[w] = Tail(todo[w])
    BY <1>1, <1>2, <2>1 DEF WriteImage, TypeOK
  <2>3. pc'[w] \in {"images", "lockConstants", "undo"}
    BY <1>1, <1>2, <2>1 DEF WriteImage, Goto, TypeOK
  <2>4. LET c == Head(todo[w]) IN
        \/ /\ files' = [files EXCEPT ![Image(w, c)] = Shot(w)]
           /\ written'[w] = written[w] \cup {c}
        \/ /\ files' = [files EXCEPT ![Image(w, c)] = Nobody]
           /\ written'[w] = written[w]
    BY <1>1, <1>2 DEF WriteImage, TypeOK
  <2> QED
    BY <1>2, <2>1, <2>2, <2>3, <2>4
<1>3. CASE Undo(w)
  BY <1>1, <1>3 DEF Undo, At, Goto, TypeOK
<1>4. CASE UNCHANGED files
  BY <1>4
<1> QED
  BY <1>2, <1>3, <1>4 DEF Save, Shoot, Missed, Skipped, CollectDone, AttemptsExhausted,
     NoCandidate, LockConstants, EnsureConstants, LockTrial, EnsureTrial, LockRow, AppendRow,
     PolicyDies, disk

\* A capture under way goes on, ...
LEMMA Capturing ==
  ASSUME IInv, NEW w \in Workers, Save(w) \/ Skipped(w) \/ PolicyDies(w), pc'[w] # "ready"
  PROVE  \/ /\ pc[w] = "ready" /\ pc'[w] = "images" /\ UNCHANGED files
            /\ written'[w] = {} /\ todo'[w] = CameraOrder
         \/ /\ pc[w] # "ready" /\ UNCHANGED <<job, saved, tries>>
            /\ \/ WriteImage(w)
               \/ UNCHANGED <<written, files>> /\ pc'[w] # "images"
<1>1. TypeOK
  BY DEF IInv
<1> USE <1>1 DEF At, Goto
<1>2. CASE Shoot(w)
  BY <1>2 DEF Shoot, TypeOK, disk
<1>3. CASE Missed(w) \/ Skipped(w)
  BY <1>3 DEF Missed, Skipped
<1>4. CASE CollectDone(w) \/ AttemptsExhausted(w) \/ PolicyDies(w)
  BY <1>4 DEF CollectDone, AttemptsExhausted, PolicyDies, EndTrial, TypeOK
<1>5. CASE WriteImage(w)
  BY <1>5 DEF WriteImage
<1>6. CASE Undo(w)
  BY <1>6 DEF Undo, TypeOK
<1>7. CASE NoCandidate(w)
  BY <1>7 DEF NoCandidate, TypeOK, disk
<1>8. CASE LockConstants(w)
  BY <1>8 DEF LockConstants, TypeOK, disk
<1>9. CASE EnsureConstants(w)
  BY <1>9 DEF EnsureConstants, TypeOK
<1>10. CASE LockTrial(w)
  BY <1>10 DEF LockTrial, TypeOK, disk
<1>11. CASE EnsureTrial(w)
  BY <1>11 DEF EnsureTrial, TypeOK
<1>12. CASE LockRow(w)
  BY <1>12 DEF LockRow, TypeOK, disk
<1>13. CASE AppendRow(w)
  <2>1. \/ pc' = [pc EXCEPT ![w] = "ready"]
        \/ pc' = [pc EXCEPT ![w] = "undo"] /\ UNCHANGED <<saved, tries>>
    BY <1>13 DEF AppendRow
  <2>2. pc[w] = "row" /\ UNCHANGED <<job, written, files>>
    BY <1>13 DEF AppendRow
  <2> QED
    BY <2>1, <2>2 DEF TypeOK
<1> QED
  BY <1>2, <1>3, <1>4, <1>5, <1>6, <1>7, <1>8, <1>9, <1>10, <1>11, <1>12, <1>13 DEF Save

\* ... until it is undone or counted, or the process dies.
LEMMA Finishing ==
  ASSUME IInv, NEW w \in Workers, Save(w) \/ Skipped(w) \/ PolicyDies(w),
         pc[w] # "ready", pc'[w] = "ready"
  PROVE  \/ files' = [i \in DOMAIN files |-> IF i \in Unlinked(w) THEN Nobody ELSE files[i]]
         \/ samplesFile' = "clean" => NewRow(w) \in rows'
         \/ outcome' = [outcome EXCEPT ![Trial(w)] = "dead"]
<1>1. TypeOK /\ PlaceOK
  BY DEF IInv
<1>2. CASE Undo(w)
  BY <1>2 DEF Undo
<1>3. CASE PolicyDies(w)
  BY <1>3 DEF PolicyDies, EndTrial
<1>4. CASE AppendRow(w)
  <2>1. CASE rows' = Appended(w) /\ samplesFile' = IF samplesFile = "torn" THEN "bad" ELSE samplesFile
    BY <2>1 DEF Appended, NewRow
  <2>2. CASE pc' = [pc EXCEPT ![w] = "undo"]
    BY <1>1, <2>2 DEF TypeOK
  <2> QED
    BY <1>4, <2>1, <2>2 DEF AppendRow, Goto, Counted
<1>5. CASE WriteImage(w)
  <2>1. pc'[w] \in {"images", "lockConstants", "undo"}
    BY <1>1, <1>5 DEF WriteImage, At, Goto, TypeOK
  <2> QED
    BY <2>1
<1>6. CASE Shoot(w) \/ Missed(w) \/ Skipped(w) \/ CollectDone(w) \/ AttemptsExhausted(w)
  BY <1>6 DEF Shoot, Missed, Skipped, CollectDone, AttemptsExhausted, At
<1>7. CASE NoCandidate(w) \/ LockConstants(w) \/ LockTrial(w) \/ LockRow(w)
  BY <1>1, <1>7 DEF NoCandidate, LockConstants, LockTrial, LockRow, Goto, TypeOK
<1>8. CASE EnsureConstants(w)
  BY <1>1, <1>8 DEF EnsureConstants, Goto, TypeOK
<1>9. CASE EnsureTrial(w)
  BY <1>1, <1>9 DEF EnsureTrial, Goto, TypeOK
<1> QED
  BY <1>2, <1>3, <1>4, <1>5, <1>6, <1>7, <1>8, <1>9 DEF Save

\* Every image on the disk is of a row, of a capture under way, or of one cut off.
LEMMA StepImagesOK ==
  ASSUME IInv, NEW w \in Workers, Save(w) \/ Skipped(w) \/ PolicyDies(w) PROVE ImagesOK'
<1> DEFINE HasRow(i) == \E r \in rows : Dir[r.trial] = i[1] /\ r.step = i[2]
           Underway(i, v) == \E c \in Cameras : pc[v] # "ready" /\ c \in written[v] /\ i = Image(v, c)
           OfDead(i) == \E t \in Trials : Dir[t] = i[1] /\ outcome[t] = "dead"
<1>1. TypeOK /\ PlaceOK /\ OutcomeOK /\ ImagesOK
  BY DEF IInv
<1>2. DOMAIN files = Dirs \X Numbers \X Cameras /\ DOMAIN files' = DOMAIN files
  BY <1>1, StepTypeOK DEF TypeOK
<1> SUFFICES ASSUME samplesFile' = "clean", NEW i \in DOMAIN files, files'[i] # Nobody
             PROVE  HasRow(i)' \/ (\E v \in Workers : Underway(i, v)') \/ OfDead(i)'
  BY <1>2 DEF ImagesOK
<1>3. ASSUME HasRow(i) PROVE HasRow(i)'
  BY <1>1, <1>3, NextRows
<1>4. ASSUME OfDead(i) PROVE OfDead(i)'
  <2>1. PICK t \in Trials : Dir[t] = i[1] /\ outcome[t] = "dead"
    BY <1>4
  <2>2. PICK v \in Workers : \E k \in DOMAIN Queue[v] : Queue[v][k] = t /\ k < job[v]
    BY <1>1, <2>1 DEF OutcomeOK
  <2>3. PICK k \in DOMAIN Queue[v] : Queue[v][k] = t /\ k < job[v]
    BY <2>2
  <2>4. ~Ended(w) => t # Trial(w)
    <3>1. ASSUME ~Ended(w), t = Trial(w) PROVE FALSE
      <4>1. v = w /\ k = job[w]
        BY <1>1, <2>3, <3>1, OnlyOnce
      <4>2. job[w] \in Nat
        BY <1>1 DEF TypeOK
      <4> QED
        BY <2>3, <4>1, <4>2
    <3> QED
      BY <3>1
  <2>5. outcome'[t] = outcome[t]
    <3>1. CASE UNCHANGED outcome
      BY <3>1
    <3>2. CASE /\ ~Ended(w)
               /\ \E status \in {"ok", "collect_failed", "dead"} :
                    outcome' = [outcome EXCEPT ![Trial(w)] = status]
      BY <1>1, <2>4, <3>2 DEF TypeOK
    <3> QED
      BY <1>1, <3>1, <3>2, Moving
  <2> QED
    BY <2>1, <2>5
<1>5. ASSUME NEW v \in Workers, v # w, Underway(i, v) PROVE Underway(i, v)'
  <2>1. pc'[v] = pc[v] /\ written'[v] = written[v] /\ \A c : Image(v, c)' = Image(v, c)
    BY <1>1, <1>5, Others DEF Image, Trial, Number
  <2> QED
    BY <1>5, <2>1
<1>6. ASSUME Underway(i, w)
      PROVE  HasRow(i)' \/ Underway(i, w)' \/ OfDead(i)'
  <2>1. PICK c \in Cameras : pc[w] # "ready" /\ c \in written[w] /\ i = Image(w, c)
    BY <1>6
  <2>2. Trial(w) \in Trials /\ i[1] = Dir[Trial(w)] /\ i[2] = Number(w)
    BY <1>1, <2>1, AtCapture DEF Image
  <2>3. CASE pc'[w] # "ready"
    <3>1. UNCHANGED <<job, saved>> /\ written[w] \subseteq written'[w]
      BY <2>1, <2>3, Capturing, Imaging, <1>1 DEF WriteImage, TypeOK
    <3>2. Image(w, c)' = Image(w, c)
      BY <3>1 DEF Image, Trial, Number
    <3> QED
      BY <2>1, <2>3, <3>1, <3>2
  <2>4. CASE pc'[w] = "ready"
    <3>1. CASE files' = [j \in DOMAIN files |-> IF j \in Unlinked(w) THEN Nobody ELSE files[j]]
      BY <2>1, <3>1 DEF Unlinked
    <3>2. CASE NewRow(w) \in rows'
      BY <2>2, <3>2 DEF NewRow
    <3>3. CASE outcome' = [outcome EXCEPT ![Trial(w)] = "dead"]
      BY <1>1, <2>2, <3>3 DEF TypeOK
    <3> QED
      BY <2>1, <2>4, <3>1, <3>2, <3>3, Finishing
  <2> QED
    BY <2>3, <2>4
<1>7. ASSUME files[i] = Nobody PROVE Underway(i, w)'
  <2>1. /\ pc'[w] # "ready" /\ UNCHANGED <<job, saved>> /\ Head(todo[w]) \in Cameras
        /\ files' = [files EXCEPT ![Image(w, Head(todo[w]))] = Shot(w)]
        /\ written'[w] = written[w] \cup {Head(todo[w])}
    BY <1>7, Imaging
  <2>2. i = Image(w, Head(todo[w])) /\ \A c : Image(w, c)' = Image(w, c)
    BY <1>7, <2>1 DEF Image, Trial, Number
  <2> QED
    BY <2>1, <2>2
<1>8. files[i] # Nobody => HasRow(i) \/ (\E v \in Workers : Underway(i, v)) \/ OfDead(i)
  BY <1>1, OnceTorn DEF ImagesOK
<1> HIDE DEF HasRow, Underway, OfDead
<1> QED
  BY <1>3, <1>4, <1>5, <1>6, <1>7, <1>8

(***************************************************************************)
(* The theorems.                                                            *)
(***************************************************************************)
\* Every worker is before its first trial, and the files are as they were left.
LEMMA Initially ==
  ASSUME Init PROVE IInv
<1> USE DatasetStoreAssumption DEF Init
<1>1. TypeOK
  <2>1. Steps \in Nat /\ MaxAttempts \in Nat /\ 0 \in 0..Steps /\ 0 \in 0..MaxAttempts
    OBVIOUS
  <2>2. ASSUME NEW w \in Workers PROVE 1 \in 1..(Len(Queue[w]) + 1)
    <3>1. Queue[w] \in Seq(Trials)
      OBVIOUS
    <3>2. Len(Queue[w]) \in Nat
      BY <3>1
    <3> QED
      BY <3>2
  <2>3. job \in [Workers -> Nat] /\ \A w \in Workers : job[w] \in 1..(Len(Queue[w]) + 1)
    BY <2>2
  <2>4. known \in [Workers -> BOOLEAN] /\ todo \in [Workers -> Seq(Cameras)]
    OBVIOUS
  <2>5. saved \in [Workers -> 0..Steps] /\ tries \in [Workers -> 0..MaxAttempts]
    BY <2>1
  <2> QED
    BY <2>3, <2>4, <2>5 DEF TypeOK
<1>2. PlaceOK /\ LockOK /\ ConstantsOK /\ TrialOK
  BY DEF PlaceOK, LockOK, ConstantsOK, TrialOK, Storing, Agreed, NominalAgreed, Joinable
<1>3. RowsOK /\ OutcomeOK
  BY DEF RowsOK, OutcomeOK
<1>4. CountOK
  BY DEF CountOK
<1>5. ImagesOK
  BY DEF ImagesOK
<1> QED
  BY <1>1, <1>2, <1>3, <1>4, <1>5 DEF IInv

\* The parts of the invariant, each from the whole before the step.
LEMMA Inductive ==
  ASSUME IInv, [Next]_vars PROVE IInv'
<1>1. CASE Next
  <2>1. PICK w \in Workers : Save(w) \/ Skipped(w) \/ PolicyDies(w)
    BY <1>1 DEF Next
  <2> QED
    BY <2>1, StepTypeOK, StepPlaceOK, StepLockOK, StepConstantsOK, StepTrialOK, StepRowsOK,
       StepOutcomeOK, StepCountOK, StepImagesOK DEF IInv
<1>2. CASE UNCHANGED vars
  <2>1. TypeOK' /\ PlaceOK' /\ LockOK'
    BY <1>2 DEF vars, disk, IInv, TypeOK, PlaceOK, LockOK, Ended
  <2>2. ConstantsOK' /\ TrialOK'
    BY <1>2 DEF vars, disk, IInv, ConstantsOK, TrialOK, Nominal, NominalAgreed, Joinable, Trial
  <2>3. RowsOK' /\ OutcomeOK' /\ CountOK'
    BY <1>2 DEF vars, disk, IInv, RowsOK, OutcomeOK, CountOK, Ended, Trial
  <2>4. ImagesOK'
    BY <1>2 DEF vars, disk, IInv, ImagesOK, Image, Trial, Number
  <2> QED
    BY <2>1, <2>2, <2>3, <2>4 DEF IInv
<1> QED
  BY <1>1, <1>2

\* The inductive invariant holds in every state of every run.
THEOREM Invariance == Spec => []IInv
<1>1. Init => IInv
  BY Initially
<1>2. IInv /\ [Next]_vars => IInv'
  BY Inductive
<1> QED
  BY <1>1, <1>2, PTL DEF Spec

\* The types of the workers' state and of the files.
THEOREM TypeCorrect == Spec => []TypeOK
<1>1. IInv => TypeOK
  BY DEF IInv
<1> QED
  BY <1>1, Invariance, PTL

\* Nothing dangles: every row finds its trial row and its constants, within the
\* tolerance, and every image its row, whoever was killed and whatever failed.
THEOREM ReferencedHolds == Spec => []Referenced
<1>1. ASSUME IInv PROVE Referenced
  <2>1. Joinable /\ NominalAgreed
    BY <1>1 DEF IInv, TrialOK, ConstantsOK
  <2>2. NoOrphans
    <3>1. \A w \in Workers : pc[w] # "ready" => ~Ended(w)
      BY <1>1 DEF IInv, PlaceOK
    <3> QED
      BY <1>1, <3>1 DEF IInv, ImagesOK, NoOrphans
  <2> QED
    BY <2>1, <2>2 DEF Referenced
<1> QED
  BY <1>1, Invariance, PTL

\* A trial that reports "ok" has all its rows, unless an append was cut short.
THEOREM OkIsCompleteHolds == Spec => []OkIsComplete
<1>1. ASSUME IInv PROVE OkIsComplete
  <2> SUFFICES ASSUME samplesFile = "clean", NEW t \in Trials, outcome[t] = "ok"
               PROVE  {r.step : r \in {q \in rows : q.trial = t}} = Numbers
    BY DEF OkIsComplete
  <2>1. \A n \in Numbers : \E r \in rows : r.trial = t /\ r.step = n
    BY <1>1 DEF IInv, CountOK
  <2>2. \A r \in rows : r.step \in Numbers
    BY <1>1 DEF IInv, TypeOK, Row
  <2> QED
    BY <2>1, <2>2
<1> QED
  BY <1>1, Invariance, PTL

(***************************************************************************)
(* The refinement of CaptureLog.                                            *)
(***************************************************************************)
\* A step touches no image but those of the capture its worker is at.
LEMMA Kept ==
  ASSUME IInv, NEW w \in Workers, Save(w) \/ Skipped(w) \/ PolicyDies(w),
         NEW i \in Dirs \X Numbers \X Cameras,
         ~Ended(w) => i[1] # Dir[Trial(w)] \/ i[2] # Number(w)
  PROVE  files'[i] = files[i]
<1>1. files \in [Dirs \X Numbers \X Cameras -> Shots \cup {Nobody}]
  BY DEF IInv, TypeOK
<1>2. ~Ended(w) => \A c : i # Image(w, c)
  BY DEF Image
<1>3. ~Ended(w) => i \notin Unlinked(w)
  BY <1>2 DEF Unlinked
<1> QED
  BY <1>1, <1>2, <1>3, Imaging

\* Two workers are never at captures in one directory.
LEMMA Apart ==
  ASSUME IInv, OwnDirectories, NEW v \in Workers, NEW w \in Workers, v # w,
         ~Ended(v), ~Ended(w)
  PROVE  Dir[Trial(v)] # Dir[Trial(w)]
<1>1. /\ Trial(v) \in Trials /\ Trial(w) \in Trials
      /\ job[v] \in DOMAIN Queue[v] /\ job[w] \in DOMAIN Queue[w]
  BY AtTrial DEF IInv
<1>2. Trial(v) # Trial(w)
  BY <1>1, DatasetStoreAssumption DEF Trial
<1> QED
  BY <1>1, <1>2 DEF OwnDirectories

\* The images of a capture under way are of its own shot, as far as written.
LEMMA StepShownOK ==
  ASSUME IInv, ShownOK, OwnDirectories, NEW w \in Workers, Save(w) \/ Skipped(w) \/ PolicyDies(w)
  PROVE  ShownOK'
<1> DEFINE Shown(v) ==
      pc[v] # "ready" =>
        /\ \A c \in written[v] : files[Image(v, c)] = Shot(v)
        /\ pc[v] = "images" =>
             /\ \A i \in DOMAIN todo[v] : todo[v][i] \notin written[v]
             /\ \A i, j \in DOMAIN todo[v] : todo[v][i] = todo[v][j] => i = j
<1>1. TypeOK /\ PlaceOK /\ \A v \in Workers : Shown(v)
  BY DEF IInv, ShownOK
<1>2. ASSUME NEW v \in Workers, v # w PROVE Shown(v)'
  <2>1. /\ pc'[v] = pc[v] /\ written'[v] = written[v] /\ todo'[v] = todo[v] /\ Shot(v)' = Shot(v)
        /\ \A c : Image(v, c)' = Image(v, c)
    BY <1>1, <1>2, Others DEF Image, Shot, Trial, Number
  <2>2. ASSUME pc[v] # "ready", NEW c \in written[v] PROVE files'[Image(v, c)] = files[Image(v, c)]
    <3>1. ~Ended(v) /\ c \in Cameras /\ Image(v, c) \in Dirs \X Numbers \X Cameras
      BY <1>1, <2>2, AtCapture DEF TypeOK
    <3>2. ~Ended(w) => Image(v, c)[1] # Dir[Trial(w)]
      BY <1>2, <3>1, Apart DEF Image
    <3> QED
      BY <3>1, <3>2, Kept
  <2> QED
    BY <1>1, <2>1, <2>2
<1>3. ASSUME pc'[w] # "ready" PROVE Shown(w)'
  <2>1. CASE pc[w] = "ready"
    <3>1. written'[w] = {} /\ todo'[w] = CameraOrder
      BY <1>3, <2>1, Capturing
    <3> QED
      BY <3>1, DatasetStoreAssumption
  <2>2. CASE pc[w] # "ready" /\ UNCHANGED <<job, saved, tries>>
    <3>1. Shot(w)' = Shot(w) /\ \A c : Image(w, c)' = Image(w, c)
      BY <2>2 DEF Image, Shot, Trial, Number
    <3>2. CASE UNCHANGED <<written, files>> /\ pc'[w] # "images"
      BY <1>1, <2>2, <3>1, <3>2
    <3>3. CASE WriteImage(w)
      <4> DEFINE c == Head(todo[w])
      <4>1. /\ pc[w] = "images" /\ todo[w] \in Seq(Cameras) /\ todo[w] # <<>>
            /\ todo'[w] = Tail(todo[w]) /\ c \in Cameras /\ written[w] \subseteq Cameras
            /\ \/ /\ files' = [files EXCEPT ![Image(w, c)] = Shot(w)]
                  /\ written'[w] = written[w] \cup {c}
               \/ /\ files' = [files EXCEPT ![Image(w, c)] = Nobody]
                  /\ written'[w] = written[w]
        <5>1. pc[w] = "images" /\ todo[w] \in Seq(Cameras) /\ todo[w] # <<>>
          BY <1>1, <3>3 DEF WriteImage, At, PlaceOK, TypeOK
        <5>2. todo'[w] = Tail(todo[w]) /\ written[w] \subseteq Cameras
          BY <1>1, <3>3 DEF WriteImage, TypeOK
        <5>3. \/ /\ files' = [files EXCEPT ![Image(w, c)] = Shot(w)]
                 /\ written'[w] = written[w] \cup {c}
              \/ /\ files' = [files EXCEPT ![Image(w, c)] = Nobody]
                 /\ written'[w] = written[w]
          BY <1>1, <3>3 DEF WriteImage, TypeOK
        <5>4. c \in Cameras
          BY <5>1
        <5> HIDE DEF c
        <5> QED
          BY <5>1, <5>2, <5>3, <5>4
      <4>2. c \notin written[w] /\ \A i \in DOMAIN todo'[w] :
              todo'[w][i] = todo[w][i + 1] /\ i + 1 \in DOMAIN todo[w] /\ i + 1 # 1
        <5>1. c = todo[w][1] /\ 1 \in DOMAIN todo[w]
          BY <4>1
        <5>2. c \notin written[w]
          BY <1>1, <4>1, <5>1
        <5>3. \A i \in DOMAIN todo'[w] :
                todo'[w][i] = todo[w][i + 1] /\ i + 1 \in DOMAIN todo[w] /\ i + 1 # 1
          BY <4>1
        <5> QED
          BY <5>2, <5>3
      <4>3. \A d \in written'[w] : files'[Image(w, d)] = Shot(w)
        <5>1. files \in [Dirs \X Numbers \X Cameras -> Shots \cup {Nobody}]
          BY <1>1 DEF TypeOK
        <5>2. \A d \in Cameras : Image(w, d) \in Dirs \X Numbers \X Cameras
          BY <1>1, <2>2, AtCapture
        <5>3. \A d \in Cameras : d # c => Image(w, d) # Image(w, c)
          BY DEF Image
        <5>4. \A d \in written[w] : files[Image(w, d)] = Shot(w)
          BY <1>1, <2>2
        <5> HIDE DEF c
        <5> QED
          BY <4>1, <4>2, <5>1, <5>2, <5>3, <5>4
      <4>4. /\ \A i \in DOMAIN todo'[w] : todo'[w][i] \notin written'[w]
            /\ \A i, j \in DOMAIN todo'[w] : todo'[w][i] = todo'[w][j] => i = j
        <5>1. /\ \A i \in DOMAIN todo[w] : todo[w][i] \notin written[w]
              /\ \A i, j \in DOMAIN todo[w] : todo[w][i] = todo[w][j] => i = j
          BY <1>1, <4>1
        <5>2. c = todo[w][1] /\ 1 \in DOMAIN todo[w] /\ DOMAIN todo'[w] \subseteq Nat
          BY <4>1
        <5>3. written'[w] \subseteq written[w] \cup {c}
          BY <4>1
        <5> HIDE DEF c
        <5>4. ASSUME NEW i \in DOMAIN todo'[w] PROVE todo'[w][i] \notin written'[w]
          BY <4>2, <5>1, <5>2, <5>3
        <5>5. ASSUME NEW i \in DOMAIN todo'[w], NEW j \in DOMAIN todo'[w],
                     todo'[w][i] = todo'[w][j]
              PROVE  i = j
          BY <4>2, <5>1, <5>2, <5>5
        <5> QED
          BY <5>4, <5>5
      <4> QED
        BY <3>1, <4>3, <4>4
    <3> QED
      BY <1>3, <2>2, <3>2, <3>3, Capturing
  <2> QED
    BY <1>3, <2>1, <2>2, Capturing
<1>4. Shown(w)'
  BY <1>3
<1> QED
  BY <1>2, <1>4 DEF ShownOK

\* The images of a row are never written again: its number has been used.
LEMMA RowKept ==
  ASSUME IInv, OwnDirectories, NEW w \in Workers, Save(w) \/ Skipped(w) \/ PolicyDies(w),
         NEW r \in rows, NEW c \in Cameras
  PROVE  files'[<<Dir[r.trial], r.step, c>>] = files[<<Dir[r.trial], r.step, c>>]
<1>1. TypeOK /\ RowsOK /\ r.trial \in Trials /\ r.step \in Numbers
  BY DEF IInv, TypeOK, Row
<1>2. ASSUME ~Ended(w), Dir[r.trial] = Dir[Trial(w)] PROVE r.step # Number(w)
  <2>1. r.trial = Trial(w)
    BY <1>1, <1>2, AtTrial DEF OwnDirectories
  <2>2. PICK v \in Workers : \E i \in DOMAIN Queue[v] :
          Queue[v][i] = r.trial /\ i <= job[v] /\ (i = job[v] => r.step <= saved[v])
    BY <1>1 DEF RowsOK
  <2>3. r.step <= saved[w]
    BY <1>1, <1>2, <2>1, <2>2, OnlyOnce
  <2>4. r.step \in Nat /\ saved[w] \in Nat
    <3>1. Numbers \subseteq Nat /\ 0..Steps \subseteq Nat
      BY DatasetStoreAssumption DEF Numbers
    <3>2. saved[w] \in 0..Steps
      BY <1>1 DEF TypeOK
    <3> QED
      BY <1>1, <3>1, <3>2
  <2> QED
    BY <2>3, <2>4 DEF Number
<1>3. <<Dir[r.trial], r.step, c>> \in Dirs \X Numbers \X Cameras
  BY <1>1 DEF Dirs
<1> QED
  BY <1>2, <1>3, Kept

\* The images of a row stay of its shot.
LEMMA StepRowIsOneShot ==
  ASSUME IInv, PicturesOK, OwnDirectories, NEW w \in Workers,
         Save(w) \/ Skipped(w) \/ PolicyDies(w)
  PROVE  RowIsOneShot'
<1>1. TypeOK /\ PlaceOK /\ ShownOK /\ RowIsOneShot
  BY DEF IInv, PicturesOK
<1>2. \A r \in rows, c \in Cameras : files'[<<Dir[r.trial], r.step, c>>] = r.shot
  BY <1>1, RowKept DEF RowIsOneShot
<1>3. CASE UNCHANGED rows
  BY <1>2, <1>3 DEF RowIsOneShot
<1>4. CASE pc[w] = "row" /\ rows' = rows \cup {NewRow(w)} /\ UNCHANGED files
  <2>1. \A c \in Cameras : files[Image(w, c)] = Shot(w)
    BY <1>1, <1>4 DEF ShownOK, PlaceOK, Storing
  <2>2. \A c \in Cameras : files'[<<Dir[NewRow(w).trial], NewRow(w).step, c>>] = NewRow(w).shot
    BY <1>4, <2>1 DEF Image, NewRow
  <2> QED
    BY <1>2, <1>4, <2>2 DEF RowIsOneShot
<1> QED
  BY <1>1, <1>3, <1>4, NextRows

\* The capture a reader makes of a row, if all its images are of one shot.
Capture(r) == [trial |-> r.trial, step |-> r.step, images |-> [c \in Cameras |-> r.shot]]

LEMMA Reading ==
  ASSUME RowIsOneShot PROVE Captures = {Capture(r) : r \in rows}
<1>1. ASSUME NEW r \in rows
      PROVE  [c \in Cameras |-> files[<<Dir[r.trial], r.step, c>>]] = [c \in Cameras |-> r.shot]
  BY DEF RowIsOneShot
<1> QED
  BY <1>1 DEF Captures, Capture

\* A step publishes the next capture of a trial, or nothing.
LEMMA StepOfLog ==
  ASSUME IInv, RowIsOneShot, RowIsOneShot', NEW w \in Workers,
         Save(w) \/ Skipped(w) \/ PolicyDies(w)
  PROVE  [Log!Next]_Captures
<1>1. Captures = {Capture(r) : r \in rows} /\ Captures' = {Capture(r) : r \in rows'}
  <2>1. ASSUME NEW r \in rows'
        PROVE  [c \in Cameras |-> files'[<<Dir[r.trial], r.step, c>>]] = [c \in Cameras |-> r.shot]
    BY DEF RowIsOneShot
  <2>2. Captures' = {Capture(r) : r \in rows'}
    BY <2>1 DEF Captures, Capture
  <2> QED
    BY <2>2, Reading
<1>2. CASE UNCHANGED rows
  BY <1>1, <1>2
<1>3. CASE pc[w] = "row" /\ ~Ended(w) /\ rows' = rows \cup {NewRow(w)}
  <2> DEFINE new == Capture(NewRow(w))
  <2>1. Captures' = Captures \cup {new}
    BY <1>1, <1>3
  <2>2. ASSUME NEW r \in rows, r.trial = Trial(w) PROVE r.step < Number(w)
    <3>1. PICK v \in Workers : \E i \in DOMAIN Queue[v] :
            Queue[v][i] = r.trial /\ i <= job[v] /\ (i = job[v] => r.step <= saved[v])
      BY DEF IInv, RowsOK
    <3>2. r.step <= saved[w]
      BY <1>3, <2>2, <3>1, OnlyOnce DEF IInv
    <3>3. r.step \in 1..Steps /\ saved[w] \in 0..Steps /\ Steps \in Nat
      BY DatasetStoreAssumption DEF IInv, TypeOK, Row, Numbers
    <3> QED
      BY <3>2, <3>3 DEF Number
  <2>3. \A d \in Captures : d.trial = new.trial => d.step < new.step
    BY <1>1, <2>2 DEF Capture, NewRow
  <2>4. new \in Log!Capture
    <3>1. Trial(w) \in Trials /\ Number(w) \in 1..Steps /\ Shot(w) \in Shots
      BY <1>3, AtCapture DEF IInv, Numbers
    <3>2. [c \in Cameras |-> Shot(w)] \in Log!Synchronized
      BY <3>1 DEF Log!Synchronized
    <3> QED
      BY <3>1, <3>2 DEF Log!Capture, Capture, NewRow
  <2>5. new \notin Captures
    <3>1. Number(w) \in Nat /\ new.step = Number(w)
      BY <1>3, AtCapture DEF IInv, Numbers, Capture, NewRow
    <3>2. ~(new.step < new.step)
      BY <3>1
    <3> QED
      BY <2>3, <3>2
  <2> HIDE DEF new
  <2>6. Log!Publish(new)
    BY <2>1, <2>3, <2>4 DEF Log!Publish
  <2> QED
    BY <2>1, <2>5, <2>6 DEF Log!Next
<1> QED
  BY <1>2, <1>3, NextRows DEF IInv

\* The images of every capture, under way or stored, are of its own shot.
LEMMA Pictured == Spec /\ OwnDirectories => [](PicturesOK /\ OwnDirectories)
<1>1. Init /\ OwnDirectories => PicturesOK /\ OwnDirectories
  BY DEF Init, PicturesOK, ShownOK, RowIsOneShot
<1>2. IInv /\ PicturesOK /\ OwnDirectories /\ [Next]_vars => (PicturesOK /\ OwnDirectories)'
  <2> SUFFICES ASSUME IInv, PicturesOK, OwnDirectories, [Next]_vars PROVE PicturesOK' /\ OwnDirectories'
    OBVIOUS
  <2>1. OwnDirectories'
    BY DEF OwnDirectories
  <2>2. CASE UNCHANGED vars
    BY <2>2 DEF vars, disk, PicturesOK, ShownOK, RowIsOneShot, Image, Shot, Trial, Number
  <2>3. CASE Next
    BY <2>3, StepShownOK, StepRowIsOneShot DEF Next, PicturesOK
  <2> QED
    BY <2>1, <2>2, <2>3
<1> QED
  BY <1>1, <1>2, Invariance, PTL DEF Spec

\* README of phy_data_collection: one row of samples.jsonl is one synchronized capture.
\* So it is as long as no two trials share a directory: all images of a row show the
\* shot it was written for, and no later step changes one of them.
THEOREM RowIsOneShotHolds == Spec /\ OwnDirectories => []RowIsOneShot
<1>1. PicturesOK => RowIsOneShot
  BY DEF PicturesOK
<1> QED
  BY <1>1, Pictured, PTL

\* With a directory of its own for every trial, readers of samples.jsonl see a log of
\* whole captures that is only ever extended, in the order of each trial.
THEOREM LogImplemented == Spec /\ OwnDirectories => ImplementsLog
<1>1. Init => Log!Init
  BY DEF Init, Log!Init, Captures
<1>2. IInv /\ PicturesOK /\ PicturesOK' /\ [Next]_vars => [Log!Next]_Captures
  <2> SUFFICES ASSUME IInv, PicturesOK, PicturesOK', [Next]_vars PROVE [Log!Next]_Captures
    OBVIOUS
  <2>1. CASE UNCHANGED vars
    BY <2>1 DEF vars, disk, Captures
  <2>2. CASE Next
    BY <2>2, StepOfLog DEF Next, PicturesOK
  <2> QED
    BY <2>1, <2>2
<1> QED
  BY <1>1, <1>2, Invariance, Pictured, PTL DEF Spec, ImplementsLog, Log!Spec
=============================================================================
