\* Files of up to 4 physical lines with every kind of line ending.
CONSTANTS
    MaxLines = 4
    Tails = {"none", "backslash", "backslash_ws", "backslash_s"}
    Undefined = Undefined
SPECIFICATION Spec
\* The call has returned: no step follows.
CHECK_DEADLOCK FALSE
PROPERTY
    ImplementsLogicalLines
