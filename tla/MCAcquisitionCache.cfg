CONSTANTS
    Paths = {p, q}
    Limits = {0, 1}
    Total = 1
    MaxBatch = 2
    MaxSize = 1
    MaxGen = 1
SPECIFICATION Spec
SYMMETRY Symmetry
INVARIANTS
    TypeOK
    OneVersion
    ContentsWereThere
    AbsenceWasSeen
    RecordsAgree
    BatchWithinLimits
