\* A continued comment line followed by a comment line.
CONSTANTS
    Lex = {"mark", "bs", "word"}
    MaxPhys = 2
    MaxLex = 2
SPECIFICATION Spec
\* The file has been highlighted: no step follows.
CHECK_DEADLOCK FALSE
INVARIANT
    CommentsDisplayAsComments
