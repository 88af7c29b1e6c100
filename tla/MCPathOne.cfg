CONSTANTS
    N = 2
    MaxRuns = 2
    MaxSteps = 1
    Relax = {1}
    Cell = {}
    Lookup = {"record", "none"}
    Oversized = {"outcar"}
SPECIFICATION Spec
INVARIANTS TypeOK CompletedIsSupported FailedIsFinal SameStatusOnceSettled
