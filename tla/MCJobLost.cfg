CONSTANTS
    N = 1
    MaxRuns = 2
    MaxSteps = 1
    Relax = {1}
    Cell = {1}
    Faults = {{"batch", "test"}}
    MaxFaults = 5
SPECIFICATION Spec
INVARIANT IncompleteMeansAGap
