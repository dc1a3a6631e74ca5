CONSTANTS
    Words <- MCWords
    Lower <- MCLower
    DigitWords <- MCDigitWords
    Names <- MCNames
SPECIFICATION Spec
\* one call of a pure function: the run ends after ClassifyName
CHECK_DEADLOCK FALSE
INVARIANT
    CaseInsensitiveMatching
