-------------------- MODULE PropertiesPreprocessRefinement --------------------
(***************************************************************************)
(* The loop of PropertiesPreprocess implements LogicalLines.  The mapping: *)
(* the file is the input; the logical lines are the pushed lines with the  *)
(* "undefined" the code joins past the last line left out (spec section   *)
(* 4.2 emits a continued last line as it is); the call has returned once   *)
(* the for loop has ended.  StartLine and JoinNext change none of these    *)
(* and are stuttering steps of LogicalLines; Emit is EmitLogicalLine and   *)
(* Finish is Return.                                                       *)
(***************************************************************************)
EXTENDS PropertiesPreprocess

(* An output line without the text read past the end of the input. *)
Visible(l) == SelectSeq(l, LAMBDA e : e # Undefined)

Abstract == INSTANCE LogicalLines WITH
    Lines     <- PhysicalLine,
    Continues <- IsContinued,
    lines     <- input,
    out       <- [k \in 1..Len(output) |-> Visible(output[k])],
    done      <- (pc = "done")

(***************************************************************************)
(* Every behaviour of the join loop is a behaviour of LogicalLines: each   *)
(* push emits exactly the maximal run of continued lines from the first   *)
(* line not yet emitted (so the index bookkeeping of the two loops, the    *)
(* re-evaluated matchers and the comment lookahead agree), and the loop   *)
(* returns after all lines.  The fairness of LogicalLines makes it also   *)
(* say that the loop terminates.                                           *)
(***************************************************************************)
ImplementsLogicalLines == Abstract!Spec

=============================================================================
