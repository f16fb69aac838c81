\* The C++ definition on lines of up to 2 lexemes holding an annotation.
CONSTANTS
    Langs = {"Cpp"}
    Lex = {"word", "at"}
    MaxLen = 2
SPECIFICATION Spec
CHECK_DEADLOCK FALSE
INVARIANT
    Classified
