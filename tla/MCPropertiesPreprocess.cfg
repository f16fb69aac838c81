\* Every input of up to 4 physical lines, each a comment or not, with any
\* of the four line endings; then a second pass over the output.
CONSTANTS
    MaxLines = 4
    Tails = {"none", "backslash", "backslash_ws", "backslash_s"}
    Undefined = Undefined
INIT MCInit
NEXT MCNext
\* preHighlightingProcessing returns: the final state has no successor.
CHECK_DEADLOCK FALSE
INVARIANTS
    TypeOK
    NothingLostOrReordered
    JoinsJustified
    CommentNeverAbsorbsData
    Idempotent
