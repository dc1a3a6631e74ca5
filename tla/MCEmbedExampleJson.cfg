CONSTANTS
    Texts <- MCTexts
    LinkPath <- MCLinkPath
    SourceDir = "docs"
    ScriptDir = "scripts"
    Parent <- MCParent
    Existing <- MCExisting
    GitDir = "repo"
    MaxVersion = 2
    MaxRuns = 3
SPECIFICATION Spec
\* the runs are bounded by MaxRuns: the last state has no successor
CHECK_DEADLOCK FALSE
INVARIANTS
    TypeOK
    EmbeddedOutsideCode
    Refreshed
PROPERTIES
    Idempotent
