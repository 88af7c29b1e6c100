CONSTANTS
    N = 1
    MaxRuns = 2
    MaxSteps = 1
    Relax = {1}
    Cell = {1}
    Faults = {}
    MaxFaults = 2
SPECIFICATION Spec
INVARIANT FailedIsFinal
