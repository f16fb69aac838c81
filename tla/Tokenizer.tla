------------------------------ MODULE Tokenizer ------------------------------
(***************************************************************************)
(* The highlighting engine that consumes a highlighter definition (spec    *)
(* sections 2 and 4.1; the engine is not among the sources, so this module *)
(* follows the spec).  At each cursor position it tries the definition's   *)
(* patterns in declared order and takes the first that matches, advances   *)
(* the cursor by the match length and classifies the token through the     *)
(* definition's ELEMENT_NAMES.  A COMMENT_BLOCK_START match enters a block *)
(* comment mode (when the definition declares one) that the first          *)
(* comment-block end leaves (NON_RECURSIVE).  A position no pattern        *)
(* matches yields an UNKNOWN token.                                        *)
(*                                                                         *)
(* The text of one logical line is a sequence of lexemes, each standing    *)
(* for a piece of source text:                                             *)
(*   "keyword"     a word of the language's KEYWORDS pattern;              *)
(*   "type"        a word of its TYPES pattern;                            *)
(*   "word"        any other identifier;                                   *)
(*   "op"          "=";                                                    *)
(*   "lt"          "<";                                                    *)
(*   "at"          an annotation such as "@Override";                      *)
(*   "slash"       "/";                                                    *)
(*   "star"        "*";                                                    *)
(*   "quote"       a double quote.                                         *)
(* Comment markers are the two-character runs "/*", "*/" and "//", so the  *)
(* comment patterns compete with DIVIDE and MULTIPLY in declared order.    *)
(* Every pattern is tried on the rest of the line and the first that       *)
(* matches in declared order wins, whatever its length (spec section 4.1). *)
(***************************************************************************)
EXTENDS HighlighterDefinitions, SequencesExt

CONSTANTS
    Langs,     \* the definitions the model highlights with
    Lex,       \* the lexemes a line may use
    MaxLen     \* bound on the number of lexemes of a line

Lexemes == {"keyword", "type", "word", "op", "lt", "at", "slash", "star",
            "quote"}

ASSUME Langs \subseteq Languages /\ Lex \subseteq Lexemes /\ MaxLen \in Nat

WordLexemes == {"keyword", "type", "word"}

(***************************************************************************)
(* The patterns that match a word or an annotation lexeme.  KEYWORD,       *)
(* TYPE_NAME and NAME are the definitions' own regular expressions;        *)
(* ANNOTATION is the shared HighlighterPatterns one.                       *)
(***************************************************************************)
LexemeMatches(x) ==
    CASE x = "keyword" -> {"KEYWORD", "NAME"}
      [] x = "type"    -> {"TYPE_NAME", "NAME"}
      [] x = "word"    -> {"NAME"}
      [] x = "at"      -> {"ANNOTATION"}
      [] OTHER         -> {}

(***************************************************************************)
(* The patterns that match a fixed text, as lexemes: the definitions'      *)
(* COMMENT_BLOCK_START ^/\* and the shared operator patterns, each taken   *)
(* to match exactly its own text.                                          *)
(***************************************************************************)
FixedText ==
    [COMMENT_BLOCK_START |-> <<"slash", "star">>,
     EQUALS |-> <<"op">>, EQUAL |-> <<"op", "op">>, LESS_THAN |-> <<"lt">>,
     LESS_THAN_OR_EQUAL |-> <<"lt", "op">>, SHIFT_LEFT |-> <<"lt", "lt">>,
     SHIFT_LEFT_EQUALS |-> <<"lt", "lt", "op">>,
     MULTIPLY |-> <<"star">>, MULTIPLY_EQUALS |-> <<"star", "op">>,
     DIVIDE |-> <<"slash">>, DIVIDE_EQUALS |-> <<"slash", "op">>]

(* HighlighterPatterns.STRING_CONSTANT at the rest r of the line: a quote  *)
(* and the text up to and including the next quote; no match without one. *)
StringCloses(r) == r[1] = "quote" /\ \E j \in 2..Len(r) : r[j] = "quote"

StringLength(r) == Min({j \in 2..Len(r) : r[j] = "quote"})

(* COMMENT_LINE, ^//.* : a line comment starts at the rest r. *)
CommentLineStarts(r) == IsPrefix(<<"slash", "slash">>, r)

(* Mutant: a line comment pattern that stops after the marker. *)
CommentLineLengthMarkerOnly(r) == 2

(* COMMENT_LINE, ^//.* : the marker and the rest of the line. *)
CommentLineLength(r) == Len(r)

(* An empty KEYWORD match: the lexeme starts with no word character. *)
EmptyMatch(l, p, x) ==
    p = "KEYWORD" /\ l \in KeywordsMatchEmpty /\ x \notin WordLexemes

(* Whether pattern p of definition l matches the rest r of the line. *)
PatternMatches(l, p, r) ==
    \/ p \in LexemeMatches(r[1])
    \/ EmptyMatch(l, p, r[1])
    \/ p \in DOMAIN FixedText /\ IsPrefix(FixedText[p], r)
    \/ p = "STRING_CONSTANT" /\ StringCloses(r)
    \/ p = "COMMENT_LINE" /\ CommentLineStarts(r)

(* The first pattern of the table that matches the rest r of the line,    *)
(* or UNKNOWN.                                                             *)
FirstMatch(l, r) ==
    LET pats == Definitions[l].patterns
        hits == {j \in 1..Len(pats) : PatternMatches(l, pats[j], r)}
    IN  IF hits = {} THEN "UNKNOWN" ELSE pats[Min(hits)]

(* ELEMENT_NAMES[kind]: undefined when the table has no entry. *)
Category(l, kind) ==
    IF kind \in DOMAIN Definitions[l].elementNames
    THEN Definitions[l].elementNames[kind]
    ELSE "undefined"

(* How far a match of pattern kind at the rest r advances the cursor. *)
MatchLength(l, kind, r) ==
    CASE EmptyMatch(l, kind, r[1])       -> 0
      [] kind \in DOMAIN FixedText       -> Len(FixedText[kind])
      [] kind = "STRING_CONSTANT"        -> StringLength(r)
      [] kind = "COMMENT_LINE"           -> CommentLineLength(r)
      [] OTHER                           -> 1

NoToken == [pos |-> 0, lexeme |-> "none", kind |-> "none",
            category |-> "none", length |-> 0]

VARIABLES
    lang,     \* the definition in use
    text,     \* the lexemes of the line being highlighted
    cursor,   \* the position of the next lexeme to scan
    mode,     \* "code", or "block" inside a block comment
    last      \* the token produced by the latest step

vars == <<lang, text, cursor, mode, last>>

Init ==
    /\ lang \in Langs
    /\ text \in SeqOf(Lex, MaxLen)
    /\ cursor = 1
    /\ mode = "code"
    /\ last = NoToken

(* Code mode: the first matching pattern makes the token; a block comment *)
(* start enters block mode when the definition has block comments.        *)
ScanCode ==
    /\ mode = "code"
    /\ cursor <= Len(text)
    /\ LET x    == text[cursor]
           rest == SubSeq(text, cursor, Len(text))
           kind == FirstMatch(lang, rest)
           len  == MatchLength(lang, kind, rest)
       IN  /\ last' = [pos |-> cursor, lexeme |-> x, kind |-> kind,
                       category |-> Category(lang, kind), length |-> len]
           /\ cursor' = cursor + len
           /\ mode' = IF /\ kind = "COMMENT_BLOCK_START"
                         /\ Definitions[lang].commentBlockType # "NONE"
                      THEN "block" ELSE "code"
    /\ UNCHANGED <<lang, text>>

(* Block mode: commentBlockEnd, \*/, closes the block at its first        *)
(* occurrence; everything else, a nested start included, is comment text. *)
ScanBlock ==
    /\ mode = "block"
    /\ cursor <= Len(text)
    /\ LET closes == IsPrefix(<<"star", "slash">>, SubSeq(text, cursor, Len(text)))
           kind   == IF closes THEN "COMMENT_BLOCK_END" ELSE "COMMENT_BLOCK_TEXT"
           len    == IF closes THEN 2 ELSE 1
       IN  /\ last' = [pos |-> cursor, lexeme |-> text[cursor], kind |-> kind,
                       category |-> Category(lang, kind), length |-> len]
           /\ cursor' = cursor + len
           /\ mode' = IF closes THEN "code" ELSE "block"
    /\ UNCHANGED <<lang, text>>

Next == ScanCode \/ ScanBlock

(* The engine is a synchronous loop: it keeps scanning while text remains. *)
Spec == Init /\ [][Next]_vars /\ WF_vars(Next)

-----------------------------------------------------------------------------
(***************************************************************************)
(* Reference: the regions of a C-family line, from its lexical rules.      *)
(* Outside comments and strings, "/*" opens a block comment that runs up   *)
(* to and including the first "*/" after it (a "/*" inside does not nest,  *)
(* and the "*" of "/*" does not start its end), "//" opens a line comment  *)
(* that runs to the end of the line, and a quote followed by another quote *)
(* opens a string that the other quote closes.  RegionsFrom(t, k, st) is   *)
(* the region of each of the lexemes k.. of t, st being the region the     *)
(* text is in before lexeme k.                                             *)
(***************************************************************************)
RECURSIVE RegionsFrom(_, _, _)
RegionsFrom(t, k, st) ==
    IF k > Len(t) THEN <<>>
    ELSE LET r == SubSeq(t, k, Len(t))
             Span(n, reg, next) == [i \in 1..n |-> reg] \o RegionsFrom(t, k + n, next)
         IN  CASE st = "code" /\ IsPrefix(<<"slash", "star">>, r)  -> Span(2, "block", "block")
               [] st = "code" /\ IsPrefix(<<"slash", "slash">>, r) -> Span(Len(r), "line", "code")
               [] st = "code" /\ r[1] = "quote" /\ (\E j \in 2..Len(r) : r[j] = "quote")
                      -> Span(Min({j \in 2..Len(r) : r[j] = "quote"}), "string", "code")
               [] st = "code"                                     -> Span(1, "code", "code")
               [] st = "block" /\ IsPrefix(<<"star", "slash">>, r) -> Span(2, "block", "code")
               [] st = "block"                                    -> Span(1, "block", "block")

(* The region lexeme k of t belongs to, its markers included. *)
Region(t, k) == RegionsFrom(t, 1, "code")[k]

(***************************************************************************)
(* Every token is classified: the ELEMENT_NAMES of the definition has an   *)
(* entry for the kind of every token the engine produces with it (spec     *)
(* sections 3 and 7).  An unmapped kind renders as "undefined".            *)
(***************************************************************************)
Classified == last.category # "undefined"

(***************************************************************************)
(* Highlighting a line terminates: every match consumes text, so the       *)
(* cursor reaches the end of the line.  A pattern that can match the empty *)
(* string ahead of the patterns that would consume the text stalls it.     *)
(***************************************************************************)
ScanTerminates == <>(cursor > Len(text))

(***************************************************************************)
(* Every step of the scan consumes text: the cursor moves forward at each  *)
(* token.  Since the cursor is bounded by the end of the line and Next is  *)
(* weakly fair, this gives ScanTerminates for every definition of the run. *)
(* A pattern that matches the empty string ahead of the consuming patterns *)
(* makes a step that leaves the cursor where it is.                        *)
(***************************************************************************)
ScanAdvances == [][cursor' > cursor]_vars

(***************************************************************************)
(* Declaration order puts keywords before identifiers (spec section 4.1):  *)
(* a keyword in code is displayed as KEYWORD, not as the NAME its text     *)
(* also matches.                                                           *)
(***************************************************************************)
KeywordsBeatIdentifiers ==
    (last.lexeme = "keyword" /\ Region(text, last.pos) = "code") =>
        last.category = "KEYWORD"

(* Reference: the longest operator whose text starts the rest r. *)
LongestOperator(r) ==
    LET ops  == DOMAIN FixedText \ {"COMMENT_BLOCK_START"}
        fits == {q \in ops : IsPrefix(FixedText[q], r)}
    IN  CHOOSE q \in fits : \A o \in fits : Len(FixedText[o]) <= Len(FixedText[q])

BlockCommentsAreComments ==
    (last.pos > 0 /\ Region(text, last.pos) = "block") =>
        last.category = "COMMENT"

(***************************************************************************)
(* Strings and line comments are displayed whole: every token from an      *)
(* opening quote to its closing quote, a "/*" or "//" inside included, is  *)
(* a STRING, and every token from a "//" in code to the end of the line is *)
(* a COMMENT.  It depends on COMMENT_LINE being declared before DIVIDE and *)
(* on each match consuming its whole literal or comment: STRING_CONSTANT   *)
(* up to the closing quote and COMMENT_LINE, ^//.* , up to the end of the  *)
(* line, so that no marker inside is scanned again as code.                *)
(***************************************************************************)
StringsAndLineCommentsWhole ==
    LET r == Region(text, last.pos)
    IN  (last.pos > 0 /\ r \in {"string", "line"}) =>
            last.category = IF r = "string" THEN "STRING" ELSE "COMMENT"

=============================================================================
