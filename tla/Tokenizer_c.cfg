\* The C definition on lines of up to 2 lexemes.
CONSTANTS
    Langs = {"C"}
    MaxLen = 2
    Lex = {"keyword", "type", "word", "op", "lt", "at", "slash", "star", "quote"}
SPECIFICATION Spec
CHECK_DEADLOCK FALSE
PROPERTY
    ScanTerminates
