------------------------- MODULE PropertiesHighlighting -------------------------
(***************************************************************************)
(* A properties file highlighted end to end: the physical lines are joined *)
(* into logical lines by preHighlightingProcessing (through LogicalLines,  *)
(* which PropertiesPreprocessRefinement shows the loop implements), and    *)
(* each logical line is scanned with the PATTERNS of                       *)
(* PropertiesHighlighterDefinition by the engine of spec section 4.1:      *)
(* first match in declared order, cursor advanced by the match length, an *)
(* UNKNOWN token where nothing matches.                                    *)
(*                                                                         *)
(* A line is a sequence of lexemes:                                        *)
(*   "ws" a space; "mark" # or !; "at" @; "eq" : or =; "open" {; "close" };*)
(*   "bs" a backslash; "word" a run of other characters; "nl" the newline  *)
(*   the joiner puts between two physical lines.                           *)
(* A joined line always has "bs" just before its "nl", so the \s of the    *)
(* patterns never meets a newline.  The patterns are taken as BdmlXRegExp  *)
(* builds them from the sources with no flags: "." and "$" stop at a       *)
(* newline.  HighlighterPatterns.NEWLINE is taken to match "\n".           *)
(***************************************************************************)
EXTENDS HighlighterDefinitions, SequencesExt

CONSTANTS
    Lex,       \* the lexemes the physical lines may use
    MaxPhys,   \* bound on the physical lines of a file
    MaxLex     \* bound on the lexemes of a physical line

ASSUME Lex \subseteq {"ws", "mark", "at", "eq", "open", "close", "bs", "word"}

-----------------------------------------------------------------------------
(* COMMENT_LINE_START, ^\s*([#!]), on a physical line. *)
IsCommentLine(p) ==
    LET k == SelectInSeq(p, LAMBDA x : x # "ws") IN k > 0 /\ p[k] = "mark"

(* LINE_CONTINUATION: the line's last character is a backslash. *)
EndsInBackslash(p) == p # <<>> /\ Last(p) = "bs"

(* A physical line as the joiner sees it. *)
AsPhysical(p) == [comment |-> IsCommentLine(p), cont |-> EndsInBackslash(p)]

PhysCont(pl) == pl.cont

Joiner(ps) == INSTANCE LogicalLines WITH
    Lines     <- [comment : BOOLEAN, cont : BOOLEAN],
    Continues <- PhysCont,
    lines     <- [k \in 1..Len(ps) |-> AsPhysical(ps[k])],
    out       <- <<>>,
    done      <- FALSE

(* Lines s..e joined with "\n", as line + "\n" + input[i+1] builds them. *)
RECURSIVE JoinText(_, _, _)
JoinText(ps, s, e) ==
    IF s = e THEN ps[s] ELSE ps[s] \o <<"nl">> \o JoinText(ps, s + 1, e)

(* A data run that ends at a continued last line joins input[i+1], which *)
(* is undefined: the text "\nundefined" (a word after a newline).         *)
PastEnd(ps, s, e) ==
    IF e = Len(ps) /\ EndsInBackslash(ps[e]) /\ ~IsCommentLine(ps[s])
    THEN <<"nl", "word">> ELSE <<>>

(* Where the logical line starting at each physical line s ends. *)
RunEnds(ps) == [s \in 1..Len(ps) |-> Joiner(ps)!RunEnd(s, s)]

(* The logical lines from line s, each with whether it starts with a      *)
(* comment line.                                                           *)
RECURSIVE LogicalFrom(_, _, _)
LogicalFrom(ps, ends, s) ==
    IF s > Len(ps) THEN <<>>
    ELSE << [text |-> JoinText(ps, s, ends[s]) \o PastEnd(ps, s, ends[s]),
             comment |-> IsCommentLine(ps[s])] >>
         \o LogicalFrom(ps, ends, ends[s] + 1)

LogicalLinesOf(ps) == LogicalFrom(ps, RunEnds(ps), 1)

-----------------------------------------------------------------------------
(* The patterns on the rest r of a line: the match length, or -1 when the *)
(* pattern does not match.  An unanchored pattern matches at its leftmost *)
(* position; MatchAt gives that position (1 for an anchored match).       *)

RECURSIVE WsRun(_, _)
WsRun(r, k) == IF k <= Len(r) /\ r[k] = "ws" THEN 1 + WsRun(r, k + 1) ELSE 0

(* ^\s*(#|!).*$ and ^\s*@.*$: "." and "$" stop at the first newline. *)
WholeLineFrom(r, first) ==
    LET w == WsRun(r, 1)
    IN  IF w < Len(r) /\ r[w + 1] = first /\ "nl" \notin ToSet(r)
        THEN Len(r) ELSE -1

MatchCommentBlockLine(r) == WholeLineFrom(r, "mark")

MatchInclude(r) == WholeLineFrom(r, "at")

(* Mutants: the separator made optional; the space separator left out. *)
MatchSeparatorOptional(r) ==
    LET w == WsRun(r, 1)
    IN  IF w < Len(r) /\ r[w + 1] = "eq" THEN w + 1 + WsRun(r, w + 2) ELSE w
MatchSeparatorNoSpace(r) ==
    LET w == WsRun(r, 1)
    IN  IF w < Len(r) /\ r[w + 1] = "eq" THEN w + 1 + WsRun(r, w + 2) ELSE -1

(* ^\s*(:|=| )\s*: the spaces, then ":" or "=" with the spaces after it; *)
(* without one, the last space is the separator.                          *)
MatchSeparator(r) ==
    LET w == WsRun(r, 1)
    IN  IF w < Len(r) /\ r[w + 1] = "eq" THEN w + 1 + WsRun(r, w + 2)
        ELSE IF w > 0 THEN w ELSE -1

(* KEY_STRING from k: the KEY_VALUE_BASE alternatives, tried in order.    *)
(* "\:", "\=" and "\ " are escapes; any other backslash is matched alone  *)
(* by the lone \\ alternative, so the LINE_CONT alternative, which needs  *)
(* that backslash, never gets it and a key stops at the newline.          *)
RECURSIVE KeyRun(_, _)
KeyRun(r, k) ==
    IF k > Len(r) THEN 0
    ELSE IF r[k] \in {"word", "mark", "at", "open", "close"}
         THEN 1 + KeyRun(r, k + 1)
    ELSE IF r[k] = "bs"
         THEN IF k < Len(r) /\ r[k + 1] \in {"eq", "ws"}
              THEN 2 + KeyRun(r, k + 2) ELSE 1 + KeyRun(r, k + 1)
    ELSE 0

(* KEY has no ^: exec finds the leftmost position where it matches. *)
KeyAt(r) == SelectInSeq([k \in 1..Len(r) |-> KeyRun(r, k)], LAMBDA n : n > 0)

MatchKey(r) == IF KeyAt(r) = 0 THEN -1 ELSE KeyRun(r, KeyAt(r))

(* VALUE: the KEY_VALUE_BASE alternatives and # ! } : = space tab; it    *)
(* too stops at a newline.                                                *)
MatchValue(r) == LET n == SelectInSeq(r, LAMBDA x : x = "nl")
                 IN  IF n = 1 THEN -1 ELSE IF n = 0 THEN Len(r) ELSE n - 1

Match(p, r) ==
    CASE p = "NEWLINE"             -> IF r[1] = "nl" THEN 1 ELSE -1
      [] p = "COMMENT_BLOCK_LINE"  -> MatchCommentBlockLine(r)
      [] p = "INCLUDE"             -> MatchInclude(r)
      [] p = "OPEN_CURLY"          -> IF r[1] = "open" THEN 1 ELSE -1
      [] p = "CLOSE_CURLY"         -> IF r[1] = "close" THEN 1 ELSE -1
      [] p = "KEY_VALUE_SEPARATOR" -> MatchSeparator(r)
      [] p = "KEY"                 -> MatchKey(r)
      [] p = "VALUE"               -> MatchValue(r)

MatchAt(p, r) == IF p = "KEY" THEN KeyAt(r) ELSE 1

(* The first pattern of the table that matches r, or UNKNOWN. *)
FirstMatch(r) ==
    LET pats == PropertiesDefinition.patterns
        hits == {j \in 1..Len(pats) : Match(pats[j], r) >= 0}
    IN  IF hits = {} THEN "UNKNOWN" ELSE pats[Min(hits)]

Category(kind) ==
    IF kind \in DOMAIN PropertiesDefinition.elementNames
    THEN PropertiesDefinition.elementNames[kind]
    ELSE "undefined"

NoToken == [line |-> 0, pos |-> 0, kind |-> "none", category |-> "none",
            at |-> 1, length |-> 0]

-----------------------------------------------------------------------------
VARIABLES
    phys,     \* the physical lines of the file
    logical,  \* the lines preHighlightingProcessing returned for them
    li,       \* the logical line being scanned
    cursor,   \* the position of the next lexeme in it
    last,     \* the token produced by the latest step
    prevKind  \* the kind of the token before it on the same line

vars == <<phys, logical, li, cursor, last, prevKind>>

(* The files of the model: up to MaxPhys lines of up to MaxLex lexemes. *)
Files == SeqOf(SeqOf(Lex, MaxLex), MaxPhys)

Init ==
    /\ phys \in Files
    /\ logical = LogicalLinesOf(phys)
    /\ li = 1
    /\ cursor = 1
    /\ last = NoToken
    /\ prevKind = "none"

(* One token: the first matching pattern at the cursor; UNKNOWN takes one *)
(* lexeme.                                                                 *)
Scan ==
    /\ li <= Len(logical)
    /\ cursor <= Len(logical[li].text)
    /\ LET t    == logical[li].text
           r    == SubSeq(t, cursor, Len(t))
           kind == FirstMatch(r)
           len  == IF kind = "UNKNOWN" THEN 1 ELSE Match(kind, r)
       IN  /\ last' = [line |-> li, pos |-> cursor, kind |-> kind,
                       category |-> Category(kind),
                       at |-> IF kind = "UNKNOWN" THEN 1 ELSE MatchAt(kind, r),
                       length |-> len]
           /\ cursor' = cursor + len
    /\ prevKind' = last.kind
    /\ UNCHANGED <<phys, logical, li>>

(* The line is done: the next logical line starts. *)
NextLine ==
    /\ li <= Len(logical)
    /\ cursor > Len(logical[li].text)
    /\ li' = li + 1
    /\ cursor' = 1
    /\ last' = NoToken
    /\ prevKind' = "none"
    /\ UNCHANGED <<phys, logical>>

Next == Scan \/ NextLine

(* Highlighting a file is one synchronous call. *)
Spec == Init /\ [][Next]_vars /\ WF_vars(Next)

-----------------------------------------------------------------------------
(***************************************************************************)
(* Every token of a properties file has a display category: each pattern  *)
(* of PATTERNS that the engine can commit to has an ELEMENT_NAMES entry    *)
(* (spec sections 3 and 8).                                                *)
(***************************************************************************)
Classified == last.category # "undefined"

(***************************************************************************)
(* KEY is the one pattern built without a ^: whenever the engine commits  *)
(* to it, its leftmost match starts at the cursor, so advancing by the     *)
(* match length is right.  It holds only because KEY_VALUE_SEPARATOR and   *)
(* NEWLINE, declared before it, take every position KEY cannot start at.   *)
(***************************************************************************)
KeyMatchesAtCursor == last.kind = "KEY" => last.at = 1

(***************************************************************************)
(* Highlighting a file makes progress at every step: a token moves the    *)
(* cursor forward on its line, or the scan moves to the next line.  With   *)
(* the lines and the cursor bounded and Next weakly fair, the scan of the  *)
(* file ends.  A committed pattern that can match the empty string would   *)
(* make a step that stays where it is.                                     *)
(***************************************************************************)
ScanAdvances == [][li' > li \/ (li' = li /\ cursor' > cursor)]_vars

(***************************************************************************)
(* A comment is displayed as a comment: every token of a logical line that *)
(* starts with a comment line, other than the newlines between its        *)
(* physical lines, has the category COMMENT.  preHighlightingProcessing    *)
(* joins a continued comment line with a following comment line on        *)
(* purpose, and COMMENT_BLOCK_LINE ends in .*$.                            *)
(***************************************************************************)
CommentsDisplayAsComments ==
    (last.line > 0 /\ logical[last.line].comment /\ last.kind # "NEWLINE")
        => last.category = "COMMENT"

=============================================================================
