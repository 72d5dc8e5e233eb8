CONSTANT MaxQuits = 3
SPECIFICATION FairViewsSpec
INVARIANTS ViewsTypeOK TerminalRestored
PROPERTY QuitReturns
CHECK_DEADLOCK FALSE
