CONSTANTS
    c1 = c1
    c2 = c2
    Clients = {c1, c2}
    ListLimit = 3
    HistoryTake = 2
    MaxRequests = 3
    MaxStops = 1

SPECIFICATION Spec
SYMMETRY ClientSymmetry

INVARIANT TypeOK
INVARIANT QuestionShownOnce
INVARIANT EditRunsOnRetained
INVARIANT DiscardedStaysOut
INVARIANT OneBranch
PROPERTY EditsOnlyTruncate

\* The run stops when MaxRequests requests have run.
CHECK_DEADLOCK FALSE
