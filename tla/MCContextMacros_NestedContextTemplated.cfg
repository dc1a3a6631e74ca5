CONSTANTS
    Documents <- MCDocuments
SPECIFICATION Spec
\* one call of a pure function: the run ends after Transform
CHECK_DEADLOCK FALSE
INVARIANT
    NestedContextTemplated
