\* Inputs whose lines either end in a plain backslash or in no backslash:
\* a continued data line at the end of the file is among them.
CONSTANTS
    MaxLines = 3
    Tails = {"none", "backslash"}
    Undefined = Undefined
INIT MCInit
NEXT MCNext
CHECK_DEADLOCK FALSE
INVARIANT OutputIsJoinOfInput
