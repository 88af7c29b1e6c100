CONSTANTS
    j1 = j1
    j2 = j2
    a1 = a1
    a2 = a2
    r1 = r1
    r2 = r2
    None = None
    Jobs <- TwoJobs
    Attempts <- TwoAttempts
    Runs <- OneRun
    Flows <- OneRun
    Forms <- FormsUsed
    Reports <- Reporting
    Faults = {"batch", "test", "command"}
    MaxFaults = 1
SPECIFICATION Spec
SYMMETRY Interchangeable
CHECK_DEADLOCK FALSE
INVARIANTS TypeOK SubmissionIsOfTheJob RuntimeOfAnotherIsMarked AmbiguousMeansResubmitted SettledIsResolved
