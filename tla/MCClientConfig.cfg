CONSTANTS
    Clients = {c1, c2}
    Written <- MCWritten
    Invocations <- MCInvocations
    Dotted = {"a.b"}
    EnvProxy = "http"
    MaxEdits = 1
    MaxStarts = 2
SPECIFICATION ConfigSpec
CHECK_DEADLOCK FALSE
SYMMETRY Symmetry
INVARIANTS
    ConfigTypeOK
    SavesOnlyToken
    RunsAsAsked
