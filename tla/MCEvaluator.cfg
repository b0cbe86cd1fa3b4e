SPECIFICATION Spec
CONSTANTS
    MaxInt = 63
    Precision = 16
    Scale = 32
    MaxExp = 8
    Second = 2
    Minute = 4
    Hour = 12
    Day = 24
    Week = 48
    MaxString = 1
    MaxPending = 1
INVARIANTS
    ValuesHaveTheirTypes
    RulesNeverPanic
    ZeroDivisorsFail
    TruncateFloors
    ScalingRounds
