\* JavaScript, Python and Java (C# has Java's tables) on every line of up to
\* 5 lexemes: long enough for "/**/" followed by code, "/*/" still open,
\* a quoted "/*" or "//", and "//" after a closed block comment.  "type",
\* "lt" and "at" add no comment or string case; Tokenizer_c.cfg and
\* Tokenizer_unclassified.cfg have them.
CONSTANTS
    Langs = {"Javascript", "Python", "Java"}
    MaxLen = 5
    Lex = {"keyword", "word", "op", "slash", "star", "quote"}
SPECIFICATION Spec
\* A line is finished when the cursor passes its end: no step follows.
CHECK_DEADLOCK FALSE
INVARIANTS
    Classified
    KeywordsBeatIdentifiers
    BlockCommentsAreComments
    StringsAndLineCommentsWhole
PROPERTY
    ScanAdvances
