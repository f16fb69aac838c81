---------------------------- MODULE LogicalLines ----------------------------
(***************************************************************************)
(* What PropertiesHighlighterDefinition.preHighlightingProcessing promises *)
(* its caller, without its loop variables: the physical lines are cut, in  *)
(* file order, into maximal runs of consecutive lines, each emitted as one *)
(* logical line, and then the call returns.                                *)
(*                                                                         *)
(* A run starting at line s grows past line e while e is not the last     *)
(* line, e ends in a continuation, and either s is not a comment line or   *)
(* line e + 1 is one too: a comment never absorbs a data line.  An output  *)
(* line is the sequence of the input positions it holds.                   *)
(***************************************************************************)
EXTENDS Naturals, Sequences, SequencesExt

CONSTANTS
    Lines,          \* the physical lines a file may hold
    Continues(_)    \* whether a physical line ends in a continuation

VARIABLES
    lines,   \* the physical lines of the file
    out,     \* the logical lines returned so far
    done     \* whether the call has returned

absVars == <<lines, out, done>>

(* The first physical line not yet in a logical line. *)
NextStart == Len(FlattenSeq(out)) + 1

(* Whether the run starting at s takes line e + 1 after line e. *)
Extends(s, e) ==
    /\ e < Len(lines)
    /\ Continues(lines[e])
    /\ (~lines[s].comment \/ lines[e + 1].comment)

(* The last line of the maximal run from s, looking from line e on. *)
RECURSIVE RunEnd(_, _)
RunEnd(s, e) == IF Extends(s, e) THEN RunEnd(s, e + 1) ELSE e

Init ==
    /\ lines \in Seq(Lines)
    /\ out = <<>>
    /\ done = FALSE

(* The next logical line is the maximal run from the first line left. *)
EmitLogicalLine ==
    /\ ~done
    /\ NextStart <= Len(lines)
    /\ LET s == NextStart
       IN  out' = Append(out, [j \in 1..(RunEnd(s, s) - s + 1) |-> s + j - 1])
    /\ UNCHANGED <<lines, done>>

(* Every physical line is in a logical line: the call returns. *)
Return ==
    /\ ~done
    /\ NextStart > Len(lines)
    /\ done' = TRUE
    /\ UNCHANGED <<lines, out>>

Next == EmitLogicalLine \/ Return

(* The call runs to completion: it is a synchronous loop. *)
Spec == Init /\ [][Next]_absVars /\ WF_absVars(Next)

=============================================================================
