------------------------ MODULE PropertiesPreprocess ------------------------
(***************************************************************************)
(* PropertiesHighlighterDefinition.prototype.preHighlightingProcessing:    *)
(* the loop that joins backslash-continued physical lines of a properties  *)
(* file into logical lines before highlighting.                            *)
(*                                                                         *)
(* A physical line is abstracted to the two facts the loop's regular       *)
(* expressions read from it:                                               *)
(*   comment : COMMENT_LINE_START  (^\s*([#!])) matches it;                *)
(*   tail    : how the line ends, one of                                   *)
(*     "none"         no backslash at the end,                             *)
(*     "backslash"    a backslash is the last character,                   *)
(*     "backslash_ws" a backslash followed by spaces or tabs,              *)
(*     "backslash_s"  a backslash followed by letters 's' (e.g. "C:\s").  *)
(* A line being assembled is the sequence of the input positions it        *)
(* joined; the JavaScript string is their texts joined with "\n".  When    *)
(* the loop reads input[i+1] past the end it gets undefined, whose text    *)
(* "undefined" is joined instead: that element is Undefined.               *)
(***************************************************************************)
EXTENDS Naturals, Sequences, SequencesExt

CONSTANTS
    MaxLines,   \* bound on the number of physical input lines
    Tails,      \* the line endings the model's inputs may use
    Undefined   \* model value: the text "undefined" read past the end

ASSUME MaxLines \in Nat /\ "none" \in Tails
ASSUME Tails \subseteq {"none", "backslash", "backslash_ws", "backslash_s"}

VARIABLES
    input,               \* the argument: a sequence of physical lines
    i,                   \* the loop index (1-based here, 0-based in the code)
    line,                \* the logical line being assembled
    matcher,             \* LINE_CONTINUATION.exec(line) != null
    currentLineComment,  \* COMMENT_LINE_START.exec(line) != null
    nextLineComment,     \* COMMENT_LINE_START.exec(input[i+1]) != null
    output,              \* the logical lines pushed so far
    pc                   \* "for" (loop head), "while" (join loop), "done"

vars == <<input, i, line, matcher, currentLineComment, nextLineComment,
          output, pc>>

PhysicalLine == [comment : BOOLEAN, tail : Tails]

(***************************************************************************)
(* LINE_CONTINUATION is BdmlXRegExp("\\\\s*$"): the JavaScript string is  *)
(* the pattern \\s*$, a backslash followed by any number of the letter     *)
(* 's' at the end of the string.  Trailing whitespace after the backslash  *)
(* therefore defeats it.                                                   *)
(***************************************************************************)
IsContinued(pl) == pl.tail \in {"backslash", "backslash_s"}

IsComment(pl) == pl.comment

(* input[k] as the code reads it: undefined past the end. *)
ElementAt(k) == IF k <= Len(input) THEN k ELSE Undefined

(***************************************************************************)
(* The regular expressions applied to an assembled line.  The pattern     *)
(* \\s*$ has no multiline flag, so only the last joined text decides it;  *)
(* "undefined" does not end in a backslash.  ^\s*([#!]) is decided by the *)
(* first joined line: a line is only ever extended when it ends in a       *)
(* backslash, so its first line is never all whitespace.                   *)
(***************************************************************************)
(* Mutants: the matcher left stale, or the while loop written as an if. *)
LineContinuesStale(l) == IsContinued(input[l[1]])
LineContinuesNever(l) == FALSE

LineContinues(l) == Last(l) # Undefined /\ IsContinued(input[Last(l)])

LineIsComment(l) == IsComment(input[l[1]])

(* Mutant: the lookahead taken from input[i] instead of input[i+1]. *)
LookaheadCommentSame(k) == k < Len(input) /\ IsComment(input[k])

(* nextLineCommentMatcher for loop index k: null when k is the last line. *)
LookaheadComment(k) == k < Len(input) /\ IsComment(input[k + 1])

(* Mutants: the comment safeguard dropped from the while condition; the *)
(* continuation test dropped from it.                                      *)
JoinConditionNoComment(m, cur, next) == m
JoinConditionNoMatcher(m, cur, next) == ~cur \/ next

(* The condition of the while loop. *)
JoinCondition(m, cur, next) == m /\ (~cur \/ next)

(* Mutant: the for loop written with i < input.length - 1. *)
ForConditionShort(k) == k < Len(input)

(* The condition of the for loop. *)
ForCondition(k) == k <= Len(input)

-----------------------------------------------------------------------------
Init ==
    /\ input \in SeqOf(PhysicalLine, MaxLines)
    /\ i = 1
    /\ line = <<>>
    /\ matcher = FALSE
    /\ currentLineComment = FALSE
    /\ nextLineComment = FALSE
    /\ output = <<>>
    /\ pc = "for"

(* Head of the for loop body: take input[i] and evaluate the three        *)
(* matchers on it and on its successor.                                   *)
StartLine ==
    /\ pc = "for"
    /\ ForCondition(i)
    /\ line' = <<i>>
    /\ matcher' = IsContinued(input[i])
    /\ currentLineComment' = IsComment(input[i])
    /\ nextLineComment' = LookaheadComment(i)
    /\ pc' = "while"
    /\ UNCHANGED <<input, i, output>>

(* One iteration of the while loop: join input[i+1], re-evaluate the      *)
(* matchers on the joined line, advance i and look one line ahead.        *)
JoinNext ==
    /\ pc = "while"
    /\ JoinCondition(matcher, currentLineComment, nextLineComment)
    /\ LET joined == line \o <<ElementAt(i + 1)>>
       IN /\ line' = joined
          /\ matcher' = LineContinues(joined)
          /\ currentLineComment' = LineIsComment(joined)
    /\ i' = i + 1
    /\ nextLineComment' = LookaheadComment(i + 1)
    /\ UNCHANGED <<input, output, pc>>

(* The while loop exits: push the line, and the for loop advances i.      *)
Emit ==
    /\ pc = "while"
    /\ ~JoinCondition(matcher, currentLineComment, nextLineComment)
    /\ output' = Append(output, line)
    /\ i' = i + 1
    /\ pc' = "for"
    /\ UNCHANGED <<input, line, matcher, currentLineComment, nextLineComment>>

(* The for loop ends and the function returns output. *)
Finish ==
    /\ pc = "for"
    /\ ~ForCondition(i)
    /\ pc' = "done"
    /\ UNCHANGED <<input, i, line, matcher, currentLineComment,
                   nextLineComment, output>>

Next == StartLine \/ JoinNext \/ Emit \/ Finish

Spec == Init /\ [][Next]_vars /\ WF_vars(Next)

-----------------------------------------------------------------------------
Element == Nat \cup {Undefined}

TypeOK ==
    /\ input \in Seq(PhysicalLine)
    /\ i \in 1..(Len(input) + 2)
    /\ line \in Seq(Element)
    /\ {matcher, currentLineComment, nextLineComment} \subseteq BOOLEAN
    /\ output \in Seq(Seq(Element))
    /\ pc \in {"for", "while", "done"}

(* The input positions that reached the output, in order. *)
Joined == SelectSeq(FlattenSeq(output), LAMBDA e : e # Undefined)

(***************************************************************************)
(* Nothing lost, duplicated or reordered: the physical lines the loop has  *)
(* emitted are exactly the first input lines, each once, in file order.    *)
(* It is about the index bookkeeping of the for and while loops, which     *)
(* both advance i.                                                         *)
(***************************************************************************)
NothingLostOrReordered ==
    /\ Joined = [k \in 1..Len(Joined) |-> k]
    /\ pc = "done" => Len(Joined) = Len(input)

(***************************************************************************)
(* Every join is justified: inside an emitted logical line, every physical *)
(* line except the last ends in a continuation marker.  It is about the    *)
(* matcher being recomputed on the joined line after each join.            *)
(***************************************************************************)
JoinsJustified ==
    \A k \in 1..Len(output) :
        \A j \in 1..(Len(output[k]) - 1) :
            output[k][j] # Undefined /\ IsContinued(input[output[k][j]])

(***************************************************************************)
(* A comment never absorbs data: a logical line that starts with a         *)
(* comment line consists of comment lines only.  This is the safeguard    *)
(* the lookahead (nextLineCommentMatcher) exists for.                      *)
(***************************************************************************)
CommentNeverAbsorbsData ==
    \A k \in 1..Len(output) :
        LineIsComment(output[k]) =>
            \A j \in 1..Len(output[k]) :
                output[k][j] # Undefined /\ IsComment(input[output[k][j]])

(***************************************************************************)
(* Spec section 4.2: every logical line is the concatenation of one or     *)
(* more consecutive physical lines, and a continued last line is emitted   *)
(* as it is.  The code's while loop reads input[i+1] past the end when the *)
(* last line is a continued data line.                                     *)
(***************************************************************************)
OutputIsJoinOfInput ==
    pc = "done" => FlattenSeq(output) = [k \in 1..Len(input) |-> k]

=============================================================================
