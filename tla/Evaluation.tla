----------------------------- MODULE Evaluation -----------------------------
(***************************************************************************)
(* The report on a dataset (reporting/evaluation.py).  The collector makes it *)
(* when it has ended, the command line at any moment: the reader takes no lock *)
(* and reads samples.jsonl and trials.jsonl one after the other, and both once *)
(* more for the predictions, while policies append to them.  An append is cut  *)
(* in two by a reader in between, for good by a policy that dies in it.        *)
(*                                                                         *)
(* How the rows come about is DatasetStore's subject: here a policy appends    *)
(* its trial once, then its captures, one policy at a time.                    *)
(***************************************************************************)
EXTENDS Integers, Sequences, FiniteSetsExt, TLC

CONSTANTS NTrials, NSamples,       \* --trials, --samples-per-trial
          TestPercent, ValPercent, \* --test-ratio, --val-ratio
          Tiers,                   \* --sampling-tiers-mm
          Extents,                 \* largest axis of a capture's offset (mm)
          Predictions,             \* files: capture -> error (mm)
          Insertions               \* files: sequences of success, Unknown if not a bool

EvaluationAssumption ==
    /\ NTrials \in Nat /\ Tiers \subseteq Nat /\ IsFiniteSet(Tiers) /\ Extents \subseteq Nat
    /\ \A predictions \in Predictions : \A c \in DOMAIN predictions : predictions[c] \in Nat

Trials == 0..(NTrials - 1)
Splits == {"train", "val", "test"}
Files  == {"trials", "samples"}
OutOfRange == -1
Boxes == {2, 5, 10, 50}  \* of the coverage (mm), whatever --sampling-tiers-mm says

VARIABLES split,    \* split_assignments: the split each trial's policy is given
          rows,     \* of each file: its readable lines
          end,      \* of each file: "absent", "clean", "half" a line, "cut" for good
          writer,   \* the row being appended, under the write lock
          gone,     \* trials that have ended
          section,  \* of the report: "dataset", "model"; then "written" or "failed"
          read,     \* what has been read for the section
          why,      \* the reader failed
          report

store  == <<split, rows, end, writer, gone>>
reader == <<section, read, why, report>>
vars   == <<store, reader>>

-----------------------------------------------------------------------------
(* The splits *)

\* int(round(n * ratio)): a half goes to the even neighbour.
Rounded(n, percent) ==
    LET whole == (n * percent) \div 100
        rest  == (n * percent) % 100
    IN IF rest > 50 \/ (rest = 50 /\ whole % 2 = 1) THEN whole + 1 ELSE whole

\* The shuffled indices: the first ones test, the next val, the others train.
Assignments ==
    LET tests == Rounded(NTrials, TestPercent)
        vals  == Min({Rounded(NTrials, ValPercent), NTrials - tests})
        Of(a, s) == Cardinality({t \in Trials : a[t] = s})
    IN {a \in [Trials -> Splits] : Of(a, "test") = tests /\ Of(a, "val") = vals}

Init ==
    /\ split \in Assignments
    /\ rows = [f \in Files |-> <<>>] /\ end = [f \in Files |-> "absent"]
    /\ writer = [file |-> "none"] /\ gone = {}
    /\ section = "dataset" /\ read = <<>> /\ why = "none" /\ report = <<>>

-----------------------------------------------------------------------------
(* The policies *)

Rows(f)   == {rows[f][i] : i \in DOMAIN rows[f]}
Taken(t)  == Cardinality({r \in Rows("samples") : r.trial = t})
Recorded(t) == \E r \in Rows("trials") : r.trial = t

Reading == section \in {"dataset", "model"}

\* f.write under the lock: the first part of the line is in the file.  (What is
\* appended once the reader has ended is of no interest.)
Begin(f, row) ==
    /\ Reading /\ writer.file = "none" /\ writer' = [file |-> f, row |-> row]
    /\ end' = [end EXCEPT ![f] = IF @ = "cut" THEN "cut" ELSE "half"]
    /\ UNCHANGED <<split, rows, gone, reader>>

\* _ensure_trial_record reads the file first, and fails on a cut line.
BeginTrial(t) ==
    /\ t \notin gone /\ ~Recorded(t) /\ end["trials"] # "cut"
    /\ Begin("trials", [trial |-> t, split |-> split[t]])

BeginSample(t) ==
    /\ t \notin gone /\ Recorded(t) /\ Taken(t) < NSamples
    /\ \E extent \in Extents :
         Begin("samples", [trial |-> t, step |-> Taken(t) + 1, extent |-> extent])

\* The rest of the line; it is glued to a cut one, if there is one.
Finish ==
    /\ writer.file # "none" /\ writer' = [file |-> "none"]
    /\ LET f == writer.file IN
         IF end[f] = "half"
         THEN /\ rows' = [rows EXCEPT ![f] = Append(@, writer.row)]
              /\ end' = [end EXCEPT ![f] = "clean"]
         ELSE UNCHANGED <<rows, end>>
    /\ UNCHANGED <<split, gone, reader>>

\* The append fails and is repeated, or the policy ends in it.
CutShort ==
    /\ writer.file # "none" /\ writer' = [file |-> "none"]
    /\ \E left \in {"clean", "cut"} :  \* nothing, or a part of the line, was flushed
         end' = [end EXCEPT ![writer.file] = IF @ = "cut" THEN "cut" ELSE left]
    /\ gone' \in {gone, gone \cup {writer.row.trial}}
    /\ UNCHANGED <<split, rows, reader>>

-----------------------------------------------------------------------------
(* The report *)

\* A trial's captures can be told from each other by trial and number.
Id(row) == <<row.trial, row.step>>

\* _actual_sampling_tier, as the policy stored it, or the label of no tier.
actual_sampling_tier(extent) ==
    LET around == {tier \in Tiers : extent <= tier}
    IN IF around = {} THEN OutOfRange ELSE Min(around)

\* The joined rows of a capture: its own and its trial's.
Joined(samples, trials) ==
    {[id |-> Id(samples[i]), trial |-> samples[i].trial, extent |-> samples[i].extent,
      split |-> (CHOOSE t \in trials : t.trial = samples[i].trial).split] :
        i \in DOMAIN samples}

\* A Counter over what each capture has.
CountBy(has, values) ==
    [v \in values |-> Cardinality({c \in DOMAIN has : has[c] = v})]

summarize_dataset(captures) ==
    [captures |-> Cardinality(captures), images |-> 3 * Cardinality(captures),
     leaks |-> Cardinality({t \in Trials :
                   Cardinality({c.split : c \in {d \in captures : d.trial = t}}) > 1}),
     by_split |-> CountBy([c \in captures |-> c.split], Splits),
     by_tier |-> CountBy([c \in captures |-> actual_sampling_tier(c.extent)],
                         Tiers \cup {OutOfRange}),
     coverage |-> [box \in Boxes |-> Cardinality({c \in captures : c.extent <= box})]]

\* The k-th smallest of the values of f.
Ranked(f, k) ==
    Min({v \in {f[c] : c \in DOMAIN f} : Cardinality({c \in DOMAIN f : f[c] <= v}) >= k})

\* In hundredths: linear between the two values next to the position.
percentile(norms, percent) ==
    LET position == (Cardinality(DOMAIN norms) - 1) * percent
        low  == position \div 100
        rest == position % 100
    IN IF DOMAIN norms = {} THEN 0
       ELSE IF rest = 0 THEN Ranked(norms, low + 1) * 100
       ELSE Ranked(norms, low + 1) * (100 - rest) + Ranked(norms, low + 2) * rest

prediction_metrics(captures, predictions) ==
    LET matched == {c \in captures : c.id \in DOMAIN predictions}
    IN [total |-> Cardinality(captures), matched |-> Cardinality(matched),
        within |-> Cardinality({c \in matched : predictions[c.id] <= 5}),
        p95 |-> percentile([c \in matched |-> predictions[c.id]], 95)]

evaluate_predictions(captures, predictions, insertions) ==
    [all |-> prediction_metrics(captures, predictions),
     by_split |-> [s \in Splits |->
                     prediction_metrics({c \in captures : c.split = s}, predictions)],
     closed_loop |-> [trials |-> Len(insertions),
                      successes |-> Cardinality({i \in DOMAIN insertions : insertions[i] = "true"})]]

-----------------------------------------------------------------------------
(* The reader *)

TrialsFirst == <<"trials", "samples">>  \* mutated form
Order == <<"samples", "trials">>

NotEvaluated == <<>>  \* without predictions and insertions

Fail(reason) == section' = "failed" /\ why' = reason /\ UNCHANGED <<read, report>>

\* _read_jsonl: JSONDecodeError on any line that is not whole; of half a line nothing
\* may have been flushed yet.  Without trials.jsonl the samples are taken as they are.
ReadLines(f) ==
    /\ Reading /\ Len(read) < 2 /\ f = Order[Len(read) + 1]
    /\ \/ /\ end[f] \in {"half", "cut"} \/ (f = "samples" /\ end[f] = "absent")
          /\ Fail("line")
       \/ /\ end[f] \in {"clean", "half"} \/ (f = "trials" /\ end[f] = "absent")
          /\ read' = Append(read, rows[f]) /\ UNCHANGED <<section, why, report>>
    /\ UNCHANGED store

Of(f) == read[CHOOSE i \in 1..2 : Order[i] = f]
TrialRows == {Of("trials")[i] : i \in DOMAIN Of("trials")}

Duplicates(keys) == \E i, j \in DOMAIN keys : i # j /\ keys[i] = keys[j]

\* What _samples_with_trial_fields and summarize_dataset raise a ValueError for.
Inconsistent ==
    \/ Duplicates([i \in DOMAIN Of("trials") |-> Of("trials")[i].trial])
    \/ Duplicates([i \in DOMAIN Of("samples") |-> Id(Of("samples")[i])])
    \/ \E i \in DOMAIN Of("samples") :
         \A row \in TrialRows : row.trial # Of("samples")[i].trial

Summarize ==
    /\ section = "dataset" /\ Len(read) = 2
    /\ IF Inconsistent THEN Fail("rows")
       ELSE /\ report' = [dataset |-> summarize_dataset(Joined(Of("samples"), TrialRows)),
                        model |-> NotEvaluated]
            /\ section' \in {"model", "written"} /\ read' = <<>>
            /\ UNCHANGED why
    /\ UNCHANGED store

Evaluate ==
    /\ section = "model" /\ Len(read) = 2
    /\ IF Inconsistent THEN Fail("rows")
       ELSE \E predictions \in Predictions, insertions \in Insertions :
              IF \E i \in DOMAIN insertions : insertions[i] = "unknown" THEN Fail("insertions")
              ELSE /\ report' = [dataset |-> report.dataset,
                                 model |-> evaluate_predictions(Joined(Of("samples"), TrialRows),
                                                                predictions, insertions)]
                   /\ section' = "written" /\ read' = <<>> /\ UNCHANGED why
    /\ UNCHANGED store

Next ==
    \/ \E t \in Trials : BeginTrial(t) \/ BeginSample(t)
    \/ Finish \/ CutShort
    \/ \E f \in Files : ReadLines(f)
    \/ Summarize \/ Evaluate

Spec == Init /\ [][Next]_vars

-----------------------------------------------------------------------------
(* Properties *)

TypeOK ==
    /\ split \in Assignments /\ gone \subseteq Trials
    /\ end \in [Files -> {"absent", "clean", "half", "cut"}]
    /\ section \in {"dataset", "model", "written", "failed"}
    /\ why \in {"none", "line", "rows", "insertions"}

\* A reader beside the collection gives up on a line under way or cut, never on a
\* capture whose trial it has not seen: the trial is in the file before its first
\* capture, and is read after it.
OnlyLinesFail == why # "rows"

Added(f, S) == MapThenSumSet(LAMBDA k : f[k], S)

\* README: every capture is counted once.  The counts of one section belong to one
\* moment: by split and by tier they add up, no trial is in two splits.  The boxes of
\* the coverage are fixed (evaluation.py:158) and the tiers are not: a box holds what
\* the tiers within it do, and nothing else if it is a tier itself.
DatasetAddsUp ==
    section \in {"model", "written"} =>
        LET d == report.dataset IN
        /\ Added(d.by_split, Splits) = d.captures
        /\ Added(d.by_tier, Tiers \cup {OutOfRange}) = d.captures
        /\ d.leaks = 0
        /\ \A box \in Boxes :
             LET within == Added(d.by_tier, {tier \in Tiers : tier <= box}) IN
             d.coverage[box] >= within /\ (box \in Tiers => d.coverage[box] = within)

\* The section on the model is of a later moment: of no fewer captures, in every
\* split; its own counts add up.
ModelAddsUp ==
    section = "written" /\ report.model # NotEvaluated =>
        LET m == report.model IN
        /\ \A s \in Splits : report.dataset.by_split[s] <= m.by_split[s].total
        /\ m.all.total = Added([s \in Splits |-> m.by_split[s].total], Splits)
        /\ m.all.matched = Added([s \in Splits |-> m.by_split[s].matched], Splits)
        /\ m.all.within = Added([s \in Splits |-> m.by_split[s].within], Splits)
        /\ m.all.within = m.all.matched => m.all.p95 <= 500

ReportAddsUp == OnlyLinesFail /\ DatasetAddsUp /\ ModelAddsUp
=============================================================================
