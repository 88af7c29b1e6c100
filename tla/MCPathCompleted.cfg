CONSTANTS
    N = 1
    MaxRuns = 2
    MaxSteps = 1
    Relax = {1}
    Cell = {}
    Lookup = {"record"}
    Oversized = {}
SPECIFICATION Spec
INVARIANT CompletedMeansTerminated
