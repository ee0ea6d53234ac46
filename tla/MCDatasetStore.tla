--------------------------- MODULE MCDatasetStore ---------------------------
(* Small instances of DatasetStore. *)
EXTENDS DatasetStore, TLC

CONSTANTS w1, w2, t1, t2, left, right

TwoCameras == <<left, right>>

\* Two workers of one run: one trial each, a directory of its own per index.
TwoWorkers == (w1 :> <<t1>>) @@ (w2 :> <<t2>>)
OwnDir == (t1 :> "trial_000") @@ (t2 :> "trial_001")

\* A run and, later, a --resume of the same dataset: indices start at 0 again, and
\* the second run may draw the same cards and target for the index.
ThenResumed == w1 :> <<t1, t2>>
SameDir == (t1 :> "trial_000") @@ (t2 :> "trial_000")

\* The RGB camera, its depth twin at half the size, a camera one pixel off, one that
\* is another camera, and one of another aspect ratio.
CameraInfos ==
  {[width |-> 4, height |-> 2, focal |-> 8], [width |-> 2, height |-> 1, focal |-> 4],
   [width |-> 4, height |-> 2, focal |-> 9], [width |-> 4, height |-> 2, focal |-> 12],
   [width |-> 4, height |-> 3, focal |-> 8]}
=============================================================================
