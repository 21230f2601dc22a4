SPECIFICATION FairSpec
CONSTANTS
    OrderIDs = {o1, o2}
    NoOrder = NoOrder
    Terms = {first, other}
    Initial = first
    MaxCalls = 3
    MaxQuestions = 2
    MaxLost = 1
INVARIANTS TypeOK ReportedIsReal RealIsReported NothingForgotten
PROPERTIES OncePerPlacing NothingUnwanted LoopEnds
