--------------------------- MODULE MCParallelRun ---------------------------
(***************************************************************************)
(* A collection and the report on its dataset, in two parts that share no    *)
(* state: two workers, the first with two trials of one capture; the report   *)
(* made while two trials append two captures each.                            *)
(***************************************************************************)
EXTENDS ParallelRun

CONSTANTS ReportTrials, ReportSamples, TestPercent, ValPercent, Tiers, Extents,
          Predictions, Insertions

VARIABLES split, rows, end, writer, gone, section, read, why, report

reportVars == <<split, rows, end, writer, gone, section, read, why, report>>
Reports == INSTANCE Evaluation WITH NTrials <- ReportTrials, NSamples <- ReportSamples

ASSUME MCParallelRunAssumption == Reports!EvaluationAssumption

\* Errors of 2 mm; one capture missing and one 9 mm off.
MCPredictions == {[c \in {<<0, 1>>, <<1, 1>>, <<1, 2>>} |-> 2],
                  [c \in {<<0, 1>>, <<1, 1>>} |-> IF c[1] = 0 THEN 9 ELSE 5]}
MCInsertions == {<<"true", "false">>, <<"unknown">>}

-----------------------------------------------------------------------------
\* The collection is over.
NoRun ==
    /\ pc = "exited" /\ code = 1 /\ started = 0 /\ processes = 0 /\ waitedFor = 0
    /\ life = [w \in Workers |-> "dead"] /\ exit = [w \in Workers |-> 1]
    /\ todo = [w \in Workers |-> {}] /\ at = [w \in Workers |-> None]
    /\ result = [t \in Trials |-> "none"] /\ saved = [t \in Trials |-> 0]
    /\ file = "clean" /\ lines = [t \in Trials |-> <<>>] /\ events = [w \in Workers |-> <<>>]
    /\ sigint = {} /\ sigterm = {} /\ mishaps = 0
    /\ shown = [w \in Workers |-> [state |-> "starting", trial |-> None, captures |-> 0,
                                completed |-> 0, failed |-> 0]]
\* Nobody collects, and nobody asks for a report.
NoReport ==
    /\ split = <<>> /\ rows = <<>> /\ end = <<>> /\ writer = <<>> /\ gone = {}
    /\ section = "none" /\ read = <<>> /\ why = "none" /\ report = <<>>

MCInit == (Init /\ NoReport) \/ (NoRun /\ Reports!Init)
MCNext == \/ Next /\ UNCHANGED reportVars
          \/ section # "none" /\ Reports!Next /\ UNCHANGED vars
MCSpec == MCInit /\ [][MCNext]_<<vars, reportVars>>

ReportAddsUp == Reports!ReportAddsUp
=============================================================================
