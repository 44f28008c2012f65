CONSTANTS
    A = A
    B = B
    Formulas = {A, B}
    Standard <- AsWritten
    FormulaLists <- MCFormulaLists
    RecordSets <- MCRecordSets
    Histories = {0}
    None = None
    ShortMax = 2
    MaxTurns = 2
    MaxFaults = 0

SPECIFICATION Spec
SYMMETRY FormulaSymmetry

INVARIANT PredictionNotLiterature

CHECK_DEADLOCK FALSE
