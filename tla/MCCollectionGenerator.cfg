CONSTANTS
    Words <- MCWords
    Lower <- MCLower
    DigitWords <- MCDigitWords
    Devkits <- MCDevkits
    ExampleDirs <- MCExampleDirs
SPECIFICATION Spec
\* the script exits after main's validation step
CHECK_DEADLOCK FALSE
INVARIANTS
    TypeOK
    PlaceholdersDeclared
PROPERTIES
    RefinesCollectionSpec
