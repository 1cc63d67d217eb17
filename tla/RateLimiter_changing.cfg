\* Settings change between checks; the clock covers two full windows.
SPECIFICATION RLSpec
CONSTANTS
    i1 = i1
    i2 = i2
    IPs = {i1, i2}
    Limits <- ChangingLimits
    DefaultLimit <- Limit2in2
    MinWindow = 2
    MaxLimit = 2
    MaxTime = 5
    MaxChecks = 5
SYMMETRY Symmetry
INVARIANTS RLTypeOK WindowGuarantee
PROPERTY RefusalDeserved
CHECK_DEADLOCK FALSE
