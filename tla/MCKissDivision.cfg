CONSTANTS
    Radix = 256
    ByteBits = 8
    MaxDigits = 4
    MaxPlaces = 2
    MaxInstructions = 60
    MaxLoop = 30
    Scripts <- DivisionLaws
SPECIFICATION Spec
INVARIANT DivisionTruncates
