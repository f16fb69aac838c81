------------------------- MODULE HighlighterDefinitions -------------------------
(***************************************************************************)
(* The per-language highlighter definitions of src/doc/bdml/js: for each   *)
(* language the ordered PATTERNS table (only the pattern names and their   *)
(* order; the regular expressions are abstracted), the token kinds its     *)
(* ELEMENT_NAMES table maps, and what its accessor methods return.         *)
(* The definitions are frozen prototype data with no state: they are       *)
(* constants here, read by the tokenizer in Tokenizer.tla.                 *)
(***************************************************************************)
EXTENDS Naturals, Sequences, FiniteSets, TLC

Languages ==
    {"C", "Cpp", "Cs", "Java", "Javascript", "Python", "Properties", "Verbatim"}

(***************************************************************************)
(* <<display category (HighlighterElementNames), the kinds mapped to it>>. *)
(* Every definition that maps a kind maps it to the same category, so the  *)
(* tables differ only in which kinds they map.                             *)
(***************************************************************************)
CategoryKinds ==
    { <<"UNKNOWN",            {"UNKNOWN"}>>,
      <<"STRING",             {"STRING_ARRAY", "STRING_CONSTANT"}>>,
      <<"EMPTY",              {"NEWLINE", "WHITESPACE"}>>,
      <<"API_DOC",            {"APIDOC"}>>,
      <<"COMMENT",            {"COMMENT_LINE", "COMMENT_BLOCK_START",
                               "COMMENT_BLOCK_TEXT", "COMMENT_BLOCK_END",
                               "COMMENT_BLOCK_LINE"}>>,
      <<"CPP_DEFINE",         {"CPP_DEFINE"}>>,
      <<"PLAIN",              {"OPEN_SQUARE", "CLOSE_SQUARE", "OPEN_PARENTHESIS",
                               "CLOSE_PARENTHESIS", "OPEN_CURLY", "CLOSE_CURLY",
                               "DOT", "SEMICOLON", "COMMA", "COLON",
                               "QUESTION_MARK", "EQUALS", "LESS_THAN",
                               "GREATER_THAN", "LESS_THAN_OR_EQUAL",
                               "GREATER_THAN_OR_EQUAL", "EXCLAMATION_EQUAL",
                               "EQUAL", "AND", "OR", "AND_AND", "OR_OR",
                               "PLUS_EQUALS", "MINUS_EQUALS", "MULTIPLY_EQUALS",
                               "DIVIDE_EQUALS", "AND_EQUALS", "OR_EQUALS",
                               "PLUS_PLUS", "MINUS_MINUS", "PLUS", "MINUS",
                               "EXCLAMATION", "MULTIPLY", "DIVIDE", "HAT",
                               "DOUBLE_HASH", "BACKSLASH", "SHIFT_LEFT_EQUALS",
                               "SHIFT_RIGHT_EQUALS", "SHIFT_RIGHT3_EQUALS",
                               "SHIFT_LEFT", "SHIFT_RIGHT", "SHIFT_RIGHT3",
                               "_PLAIN_"}>>,
      <<"LAMBDA",             {"LAMBDA"}>>,
      <<"KEYWORD",            {"KEYWORD"}>>,
      <<"TYPE_IDENTIFIER",    {"TYPE_NAME"}>>,
      <<"IDENTIFIER",         {"NAME"}>>,
      <<"NUMBER",             {"NUMBER", "IMAG_NUMBER"}>>,
      <<"HEX_OCT_NUMBER",     {"HEX_NUMBER", "OCTAL_NUMBER", "BINARY_NUMBER",
                               "IMAG_HEX_NUMBER", "IMAG_OCTAL_NUMBER",
                               "IMAG_BINARY_NUMBER"}>>,
      <<"UNDERSCORE",         {"UNDERSCORE"}>>,
      <<"ANNOTATION",         {"ANNOTATION"}>>,
      <<"KEY_VALUE_SEPARATOR",{"KEY_VALUE_SEPARATOR"}>>,
      <<"KEY",                {"KEY"}>>,
      <<"VALUE",              {"VALUE"}>>,
      <<"INCLUDE",            {"INCLUDE"}>> }

CategoryOf(kind) == (CHOOSE ck \in CategoryKinds : kind \in ck[2])[1]

(* ELEMENT_NAMES of a definition: its mapped kinds, each to its category. *)
ElementNames(kinds) == [k \in kinds |-> CategoryOf(k)]

-----------------------------------------------------------------------------
(* CHighlighterDefinition: PATTERNS and ELEMENT_NAMES. *)
CPatterns ==
    << "STRING_ARRAY", "STRING_CONSTANT", "NEWLINE", "WHITESPACE",
       "CPP_DEFINE", "COMMENT_BLOCK_START", "COMMENT_LINE", "OPEN_SQUARE",
       "CLOSE_SQUARE", "OPEN_PARENTHESIS", "CLOSE_PARENTHESIS", "OPEN_CURLY",
       "CLOSE_CURLY", "DOT", "SEMICOLON", "COMMA", "COLON", "LAMBDA",
       "KEYWORD", "TYPE_NAME", "NAME", "NUMBER", "HEX_NUMBER",
       "OCTAL_NUMBER", "EQUALS", "LESS_THAN", "GREATER_THAN",
       "LESS_THAN_OR_EQUAL", "GREATER_THAN_OR_EQUAL", "EXCLAMATION_EQUAL",
       "EQUAL", "PLUS_EQUALS", "MINUS_EQUALS", "MULTIPLY_EQUALS",
       "DIVIDE_EQUALS", "AND_EQUALS", "OR_EQUALS", "PLUS_PLUS",
       "MINUS_MINUS", "PLUS", "MINUS", "EXCLAMATION", "MULTIPLY", "DIVIDE",
       "HAT", "BACKSLASH", "DOUBLE_HASH", "AND_AND", "OR_OR", "AND", "OR",
       "QUESTION_MARK", "SHIFT_LEFT_EQUALS", "SHIFT_RIGHT_EQUALS",
       "SHIFT_LEFT", "SHIFT_RIGHT" >>

CElementKinds ==
    { "UNKNOWN", "STRING_ARRAY", "STRING_CONSTANT", "NEWLINE",
      "WHITESPACE", "APIDOC", "COMMENT_LINE", "COMMENT_BLOCK_START",
      "COMMENT_BLOCK_TEXT", "COMMENT_BLOCK_END", "CPP_DEFINE",
      "OPEN_SQUARE", "CLOSE_SQUARE", "OPEN_PARENTHESIS",
      "CLOSE_PARENTHESIS", "OPEN_CURLY", "CLOSE_CURLY", "DOT",
      "SEMICOLON", "COMMA", "COLON", "LAMBDA", "KEYWORD", "TYPE_NAME",
      "NAME", "NUMBER", "HEX_NUMBER", "OCTAL_NUMBER", "BINARY_NUMBER",
      "IMAG_NUMBER", "IMAG_HEX_NUMBER", "IMAG_OCTAL_NUMBER",
      "IMAG_BINARY_NUMBER", "QUESTION_MARK", "EQUALS", "LESS_THAN",
      "GREATER_THAN", "LESS_THAN_OR_EQUAL", "GREATER_THAN_OR_EQUAL",
      "EXCLAMATION_EQUAL", "EQUAL", "AND", "OR", "AND_AND", "OR_OR",
      "PLUS_EQUALS", "MINUS_EQUALS", "MULTIPLY_EQUALS", "DIVIDE_EQUALS",
      "AND_EQUALS", "OR_EQUALS", "PLUS_PLUS", "MINUS_MINUS", "PLUS",
      "MINUS", "EXCLAMATION", "MULTIPLY", "DIVIDE", "HAT", "DOUBLE_HASH",
      "BACKSLASH", "SHIFT_LEFT_EQUALS", "SHIFT_RIGHT_EQUALS",
      "SHIFT_LEFT", "SHIFT_RIGHT" }

(***************************************************************************)
(* The languages whose KEYWORDS pattern has an empty alternative.  C's is  *)
(* ^(|auto|asm|...|while )(?![\p{L}0-9_]): the leading "|" lets it match   *)
(* the empty string wherever the next character is not a letter, a digit   *)
(* or an underscore.                                                       *)
(***************************************************************************)
KeywordsMatchEmptyAlsoJs == {"C", "Javascript"}   \* mutant: the same typo in JS
KeywordsMatchEmpty == {"C"}

-----------------------------------------------------------------------------
(* CppHighlighterDefinition: C's table plus SHIFT_RIGHT3 and ANNOTATION,   *)
(* which its ELEMENT_NAMES does not map.                                   *)
CppPatterns ==
    << "STRING_ARRAY", "STRING_CONSTANT", "NEWLINE", "WHITESPACE",
       "CPP_DEFINE", "COMMENT_BLOCK_START", "COMMENT_LINE", "OPEN_SQUARE",
       "CLOSE_SQUARE", "OPEN_PARENTHESIS", "CLOSE_PARENTHESIS", "OPEN_CURLY",
       "CLOSE_CURLY", "DOT", "SEMICOLON", "COMMA", "COLON", "LAMBDA",
       "KEYWORD", "TYPE_NAME", "NAME", "NUMBER", "HEX_NUMBER",
       "OCTAL_NUMBER", "EQUALS", "LESS_THAN", "GREATER_THAN",
       "LESS_THAN_OR_EQUAL", "GREATER_THAN_OR_EQUAL", "EXCLAMATION_EQUAL",
       "EQUAL", "PLUS_EQUALS", "MINUS_EQUALS", "MULTIPLY_EQUALS",
       "DIVIDE_EQUALS", "AND_EQUALS", "OR_EQUALS", "PLUS_PLUS",
       "MINUS_MINUS", "PLUS", "MINUS", "EXCLAMATION", "MULTIPLY", "DIVIDE",
       "HAT", "BACKSLASH", "DOUBLE_HASH", "AND_AND", "OR_OR", "AND", "OR",
       "QUESTION_MARK", "SHIFT_LEFT_EQUALS", "SHIFT_RIGHT_EQUALS",
       "SHIFT_LEFT", "SHIFT_RIGHT3", "SHIFT_RIGHT", "ANNOTATION" >>

CppElementKinds == CElementKinds

-----------------------------------------------------------------------------
(* CsHighlighterDefinition and JavaHighlighterDefinition: the same table   *)
(* (only the regular expressions of KEYWORDS and TYPES differ).  Their     *)
(* ELEMENT_NAMES do not map SHIFT_LEFT.                                    *)
JavaPatternsNameFirst ==    \* mutant: NAME and KEYWORD swapped
    << "STRING_ARRAY", "STRING_CONSTANT", "NEWLINE", "WHITESPACE",
       "COMMENT_BLOCK_START", "COMMENT_LINE", "OPEN_SQUARE", "CLOSE_SQUARE",
       "OPEN_PARENTHESIS", "CLOSE_PARENTHESIS", "OPEN_CURLY", "CLOSE_CURLY",
       "DOT", "SEMICOLON", "COMMA", "COLON", "LAMBDA", "NAME",
       "TYPE_NAME", "KEYWORD", "NUMBER", "HEX_NUMBER", "OCTAL_NUMBER",
       "EQUALS", "LESS_THAN", "GREATER_THAN", "LESS_THAN_OR_EQUAL",
       "GREATER_THAN_OR_EQUAL", "EXCLAMATION_EQUAL", "EQUAL", "PLUS_EQUALS",
       "MINUS_EQUALS", "MULTIPLY_EQUALS", "DIVIDE_EQUALS", "AND_EQUALS",
       "OR_EQUALS", "PLUS_PLUS", "MINUS_MINUS", "PLUS", "MINUS",
       "EXCLAMATION", "MULTIPLY", "DIVIDE", "AND_AND", "OR_OR", "AND", "OR",
       "QUESTION_MARK", "SHIFT_LEFT_EQUALS", "SHIFT_RIGHT3_EQUALS",
       "SHIFT_RIGHT_EQUALS", "SHIFT_LEFT", "SHIFT_RIGHT3", "SHIFT_RIGHT",
       "ANNOTATION" >>

JavaPatterns ==
    << "STRING_ARRAY", "STRING_CONSTANT", "NEWLINE", "WHITESPACE",
       "COMMENT_BLOCK_START", "COMMENT_LINE", "OPEN_SQUARE", "CLOSE_SQUARE",
       "OPEN_PARENTHESIS", "CLOSE_PARENTHESIS", "OPEN_CURLY", "CLOSE_CURLY",
       "DOT", "SEMICOLON", "COMMA", "COLON", "LAMBDA", "KEYWORD",
       "TYPE_NAME", "NAME", "NUMBER", "HEX_NUMBER", "OCTAL_NUMBER",
       "EQUALS", "LESS_THAN", "GREATER_THAN", "LESS_THAN_OR_EQUAL",
       "GREATER_THAN_OR_EQUAL", "EXCLAMATION_EQUAL", "EQUAL", "PLUS_EQUALS",
       "MINUS_EQUALS", "MULTIPLY_EQUALS", "DIVIDE_EQUALS", "AND_EQUALS",
       "OR_EQUALS", "PLUS_PLUS", "MINUS_MINUS", "PLUS", "MINUS",
       "EXCLAMATION", "MULTIPLY", "DIVIDE", "AND_AND", "OR_OR", "AND", "OR",
       "QUESTION_MARK", "SHIFT_LEFT_EQUALS", "SHIFT_RIGHT3_EQUALS",
       "SHIFT_RIGHT_EQUALS", "SHIFT_LEFT", "SHIFT_RIGHT3", "SHIFT_RIGHT",
       "ANNOTATION" >>

CsPatterns == JavaPatterns

JavaElementKindsNoCommentLine ==   \* mutant: the COMMENT_LINE line left out
    (CElementKinds \ {"CPP_DEFINE", "HAT", "DOUBLE_HASH", "BACKSLASH",
                      "SHIFT_LEFT", "COMMENT_LINE"})
    \cup {"UNDERSCORE", "SHIFT_RIGHT3_EQUALS", "SHIFT_RIGHT3", "ANNOTATION"}

JavaElementKinds ==
    (CElementKinds \ {"CPP_DEFINE", "HAT", "DOUBLE_HASH", "BACKSLASH",
                      "SHIFT_LEFT"})
    \cup {"UNDERSCORE", "SHIFT_RIGHT3_EQUALS", "SHIFT_RIGHT3", "ANNOTATION"}

CsElementKinds == JavaElementKinds

-----------------------------------------------------------------------------
(* JavascriptHighlighterDefinition: C's tables. *)
JavascriptPatterns == CPatterns

JavascriptElementKinds == CElementKinds

(* PythonHighlighterDefinition: C's tables without TYPE_NAME. *)
PythonPatterns == SelectSeq(CPatterns, LAMBDA p : p # "TYPE_NAME")

PythonElementKinds == CElementKinds \ {"TYPE_NAME"}

(* PropertiesHighlighterDefinition. *)
PropertiesPatterns ==
    << "NEWLINE", "COMMENT_BLOCK_LINE", "INCLUDE", "OPEN_CURLY",
       "CLOSE_CURLY", "KEY_VALUE_SEPARATOR", "KEY", "VALUE" >>

PropertiesElementKindsNoInclude ==   \* mutant: the INCLUDE line left out
    { "UNKNOWN", "NEWLINE", "COMMENT_BLOCK_LINE", "OPEN_CURLY", "CLOSE_CURLY",
      "KEY_VALUE_SEPARATOR", "KEY", "VALUE" }

PropertiesElementKinds ==
    { "UNKNOWN", "NEWLINE", "COMMENT_BLOCK_LINE", "OPEN_CURLY", "CLOSE_CURLY",
      "KEY_VALUE_SEPARATOR", "KEY", "VALUE", "INCLUDE" }

(* VerbatimHighlighterDefinition: one pattern PLAIN, one kind _PLAIN_. *)
VerbatimPatterns == << "PLAIN" >>

VerbatimElementKinds == { "_PLAIN_" }

-----------------------------------------------------------------------------
(***************************************************************************)
(* What a definition's accessors return: getName, patterns, elementNames,  *)
(* getCommentBlockType, commentBlockStart/End ("pattern", "null", or       *)
(* "undefined" when the method returns a static field that was never       *)
(* assigned), hasPrompts, prompt1/2, backslashIsLineContinuation and which *)
(* preHighlightingProcessing it runs.  No definition has prompts or treats *)
(* a backslash as a line continuation.                                     *)
(***************************************************************************)
Definition(name, patterns, kinds, blockType, blockStart, blockEnd, preprocess) ==
    [ name                        |-> name,
      patterns                    |-> patterns,
      elementNames                |-> ElementNames(kinds),
      commentBlockType            |-> blockType,
      commentBlockStart           |-> blockStart,
      commentBlockEnd             |-> blockEnd,
      hasPrompts                  |-> FALSE,
      prompt1                     |-> "null",
      prompt2                     |-> "null",
      backslashIsLineContinuation |-> FALSE,
      preHighlightingProcessing   |-> preprocess ]

CDefinition ==
    Definition("C", CPatterns, CElementKinds,
               "NON_RECURSIVE", "pattern", "pattern", "identity")

CppDefinition ==
    Definition("Cpp", CppPatterns, CppElementKinds,
               "NON_RECURSIVE", "pattern", "pattern", "identity")

CsDefinition ==
    Definition("C#", CsPatterns, CsElementKinds,
               "NON_RECURSIVE", "pattern", "pattern", "identity")

JavaDefinitionNoBlocks ==   \* mutant: the comment block type declared NONE
    Definition("JAVA", JavaPatterns, JavaElementKinds,
               "NONE", "pattern", "pattern", "identity")

JavaDefinition ==
    Definition("JAVA", JavaPatterns, JavaElementKinds,
               "NON_RECURSIVE", "pattern", "pattern", "identity")

JavascriptDefinition ==
    Definition("JAVASCRIPT", JavascriptPatterns, JavascriptElementKinds,
               "NON_RECURSIVE", "pattern", "pattern", "identity")

PythonDefinition ==
    Definition("PYTHON", PythonPatterns, PythonElementKinds,
               "NON_RECURSIVE", "pattern", "pattern", "identity")

(* NON_RECURSIVE, but COMMENT_BLOCK_START and COMMENT_BLOCK_END are never  *)
(* assigned on PropertiesHighlighterDefinition.                            *)
PropertiesDefinition ==
    Definition("PROPERTIES", PropertiesPatterns, PropertiesElementKinds,
               "NON_RECURSIVE", "undefined", "undefined", "join_continuations")

VerbatimDefinition ==
    Definition("None", VerbatimPatterns, VerbatimElementKinds,
               "NONE", "null", "null", "identity")

Definitions ==
    [ l \in Languages |->
        CASE l = "C"          -> CDefinition
          [] l = "Cpp"        -> CppDefinition
          [] l = "Cs"         -> CsDefinition
          [] l = "Java"       -> JavaDefinition
          [] l = "Javascript" -> JavascriptDefinition
          [] l = "Python"     -> PythonDefinition
          [] l = "Properties" -> PropertiesDefinition
          [] l = "Verbatim"   -> VerbatimDefinition ]

=============================================================================
