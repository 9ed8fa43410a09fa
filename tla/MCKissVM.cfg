CONSTANTS
    Radix = 4
    ByteBits = 2
    MaxDigits = 3
    MaxPlaces = 2
    MaxInstructions = 60
    MaxLoop = 30
    Scripts <- MCScripts
SPECIFICATION Spec
INVARIANTS
    ParseInvertsWriting
    VerdictIsMeaning
    BuiltinsKeepTheirLaws
PROPERTY EveryStepIsPaid
