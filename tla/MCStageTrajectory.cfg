CONSTANTS
    NELM = 1
    Sites = 1
    MaxForce = 1
    MaxRuns = 2
    MaxSteps = 2
    Criterion = 0
    Prefix = 1
    TailLines = 6
    MaxFaults = 1
SPECIFICATION Spec
INVARIANTS TypeOK ForcesAreOfTheirSteps LabelAgreesWithStatus ConvergedByTheLastCycle ShownForceSupportsLabel
CHECK_DEADLOCK FALSE
