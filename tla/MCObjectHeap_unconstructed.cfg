SPECIFICATION Spec
CONSTANTS
    a = a
    b = b
    w1 = w1
    w2 = w2
    NoObject = NoObject
    Stack = Stack
    Objects <- MCObjects
    Weaks <- MCWeaks
    FieldCount <- MCFieldCount
    LocalCount = 2
    Capacity = 4
    MinStack = 1
    YoungTarget = 1
    MinYoung = 1
    MinReuse = 1
    SurvivalPercent = 60
    MayAbandon = TRUE
INVARIANT NoInvalidReference
SYMMETRY Symmetry
