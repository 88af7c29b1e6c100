CONSTANT MaxCommands = 4
SPECIFICATION SessionSpec
INVARIANTS SessionTypeOK NoForgottenSocket OpensWhenNeeded CountedWereEstablished
PROPERTY LeavesNoMaster
CHECK_DEADLOCK FALSE
