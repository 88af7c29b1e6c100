CONSTANTS
    Limit = 1
    MaxErrors = 3
    Corrections <- MCCorrections
    Monitors <- MCMonitors
    StepIds <- MCStepIds
    Figures <- MCFigures
    Memories <- MCMemories
    MaxWarnings = 1
    MaxFaults = 1
SPECIFICATION Spec
INVARIANTS TypeOK OomVerdictIsSound MemoryOfItsStep TerminationIsSupported CustodianIsRecognised
CHECK_DEADLOCK FALSE
