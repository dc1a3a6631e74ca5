CONSTANTS
    PatternLists <- MCPatternLists
    Globs <- MCGlobs
    Parent <- MCParent
    GitDirChoices <- MCGitDirChoices
    RootArgs <- MCRootArgs
    Docs <- MCDocs
    Encoded <- MCEncoded
    Existing <- MCExisting
    Responses <- MCResponses
    MaxWorkers = 2
SPECIFICATION Spec
\* main returns after the report: the final state has no successor
CHECK_DEADLOCK FALSE
INVARIANTS
    TypeOK
    CheckedOnce
    HttpVerdictPerUrl
    EveryMissingTargetReported
PROPERTIES
    RefinesLinkCheckSpec
