CONSTANTS
    A = A
    B = B
    Formulas = {A, B}
    Standard <- OneStandard
    FormulaLists <- RepeatingLists
    RecordSets <- MCRecordSets
    Histories = {0, 3}
    None = None
    ShortMax = 2
    MaxTurns = 3
    MaxFaults = 1

SPECIFICATION Spec

INVARIANT TypeOK
INVARIANT RoutersAgree
INVARIANT PredictionIsLastResort
INVARIANT EvidenceIsExclusive
INVARIANT PredictedLabelsTrue
INVARIANT AnsweredWindowBounded

\* The run stops when MaxTurns turns have run.
CHECK_DEADLOCK FALSE
