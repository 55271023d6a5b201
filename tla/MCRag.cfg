CONSTANTS
    c1 = c1
    c2 = c2
    c3 = c3
    c4 = c4
    k1 = k1
    k2 = k2
    k3 = k3
    d1 = d1
    Calls = {c1, c2, c3, c4}
    Keys = {k1, k2, k3}
    KeyOf <- MCKeyOf
    Docs = {d1}
    Capacity = 1
    QueueLimit = 1
    MaxVersion = 2
    FaultBudget = 1
SPECIFICATION Spec
INVARIANTS RagTypeOK GateBalanced OneGeneration CitationsHold
PROPERTIES TerminalIsFinal WaitersServed
CHECK_DEADLOCK FALSE
