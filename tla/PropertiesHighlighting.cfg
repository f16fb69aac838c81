\* Files of up to 3 physical lines of up to 2 lexemes over 7 lexemes:
\* keys, separators with and without spaces, escapes, chains of two joins,
\* comment lines between data lines, include lines, braces.  "close" is
\* left out: "}" is a one-character token mapped like "{", and the run
\* stays within minutes without it.
CONSTANTS
    Lex = {"ws", "mark", "at", "eq", "open", "bs", "word"}
    MaxPhys = 3
    MaxLex = 2
SPECIFICATION Spec
\* The file has been highlighted: no step follows.
CHECK_DEADLOCK FALSE
INVARIANTS
    Classified
    KeyMatchesAtCursor
PROPERTY
    ScanAdvances
