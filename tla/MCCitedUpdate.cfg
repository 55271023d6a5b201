CONSTANTS
    c1 = c1
    c2 = c2
    c3 = c3
    c4 = c4
    k1 = k1
    k2 = k2
    k3 = k3
    d1 = d1
    Calls = {c1}
    Keys = {k1}
    KeyOf <- LoneKeyOf
    Docs = {d1}
    Capacity = 1
    QueueLimit = 1
    MaxVersion = 2
    FaultBudget = 0
SPECIFICATION Spec
PROPERTY ChangesArrive
CHECK_DEADLOCK FALSE
