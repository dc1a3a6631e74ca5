CONSTANTS
    Words <- MCWords
    Lower <- MCLower
    DigitWords <- MCDigitWords
    Devkits <- MCDevkits
    ExampleDirs <- MCExampleDirs
SPECIFICATION Spec
CHECK_DEADLOCK FALSE
INVARIANT
    ValidationFollowsWrite
