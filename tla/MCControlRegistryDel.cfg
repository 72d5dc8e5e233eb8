CONSTANTS
    Ctls = {c1, c2}
    Ids = {i1}
    NoCtl = NoCtl
    NoId = NoId
SPECIFICATION Spec
CHECK_DEADLOCK FALSE
PROPERTIES
    DelSparesReplacement
