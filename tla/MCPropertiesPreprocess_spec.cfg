\* Inputs whose lines end in no backslash or in a backslash followed by
\* whitespace: the code never continues these lines, so no line is read
\* past the end, and any difference from the reference is the pattern.
CONSTANTS
    MaxLines = 3
    Tails = {"none", "backslash_ws"}
    Undefined = Undefined
INIT MCInit
NEXT MCNext
CHECK_DEADLOCK FALSE
INVARIANT MatchesSpecJoin
