CONSTANTS
    N = 1
    MaxRuns = 2
    MaxSteps = 1
    Relax = {1}
    Cell = {1}
    Faults = {{"sacct"}, {"batch", "test"}, {"read"}, {"raise"}}
    MaxFaults = 2
SPECIFICATION Spec
INVARIANTS TypeOK StatusOfTheFinalFiles CompletedIsSupported IncompleteIsSupported
PROPERTY KeepsPromise
