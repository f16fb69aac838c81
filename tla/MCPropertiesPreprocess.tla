----------------------- MODULE MCPropertiesPreprocess -----------------------
(***************************************************************************)
(* Model-checking harness for PropertiesPreprocess.  A behaviour runs      *)
(* preHighlightingProcessing on every input of at most MaxLines lines and  *)
(* then, once, on its own output (spec section 8: preprocessing is         *)
(* idempotent).  It also holds the reference definition of the joiner as  *)
(* spec section 4.2 describes it.                                          *)
(***************************************************************************)
EXTENDS PropertiesPreprocess

VARIABLE pass   \* 1: the input file; 2: the output of pass 1 fed back in

mcVars == <<vars, pass>>

(***************************************************************************)
(* A logical line seen as a physical line by a second call: its comment   *)
(* status is that of its first line, its ending that of its last one (the *)
(* text "undefined" ends in no backslash).                                 *)
(***************************************************************************)
AsPhysical(l) ==
    [comment |-> LineIsComment(l),
     tail    |-> IF Last(l) = Undefined THEN "none" ELSE input[Last(l)].tail]

MCInit == Init /\ pass = 1

(* The caller hands the returned array to preHighlightingProcessing again. *)
Reprocess ==
    /\ pass = 1
    /\ pc = "done"
    /\ input' = [k \in 1..Len(output) |-> AsPhysical(output[k])]
    /\ i' = 1
    /\ line' = <<>>
    /\ matcher' = FALSE
    /\ currentLineComment' = FALSE
    /\ nextLineComment' = FALSE
    /\ output' = <<>>
    /\ pc' = "for"
    /\ pass' = 2

MCNext == (Next /\ UNCHANGED pass) \/ Reprocess

MCSpec == MCInit /\ [][MCNext]_mcVars /\ WF_mcVars(MCNext)

(***************************************************************************)
(* Idempotence (spec section 8): preprocessing the output of a completed  *)
(* preprocessing joins nothing more, so every line of the second output   *)
(* is one line of its input.  It fails if the join loop stops early or    *)
(* the lookahead is taken from the wrong line.                             *)
(***************************************************************************)
Idempotent ==
    (pass = 2 /\ pc = "done") => output = [k \in 1..Len(input) |-> <<k>>]

-----------------------------------------------------------------------------
(***************************************************************************)
(* Reference: the joiner of spec section 4.2.  A line ending in a         *)
(* backslash, trailing whitespace ignored, continues; the join is allowed *)
(* when the first line of the candidate is not a comment or the lookahead *)
(* line is one; a continued last line is emitted as it is.                 *)
(***************************************************************************)
SpecContinued(pl) == pl.tail \in {"backslash", "backslash_ws"}

RECURSIVE SpecEnd(_, _, _)
SpecEnd(in, first, last) ==
    IF /\ last < Len(in)
       /\ SpecContinued(in[last])
       /\ (~in[first].comment \/ in[last + 1].comment)
    THEN SpecEnd(in, first, last + 1)
    ELSE last

RECURSIVE SpecSegments(_, _)
SpecSegments(in, k) ==
    IF k > Len(in) THEN <<>>
    ELSE LET e == SpecEnd(in, k, k)
         IN  <<[j \in 1..(e - k + 1) |-> k + j - 1]>> \o SpecSegments(in, e + 1)

(***************************************************************************)
(* The code's result equals the reference joiner's on every input.  This  *)
(* is what the spec says of preHighlightingProcessing; the code's         *)
(* LINE_CONTINUATION pattern does not ignore trailing whitespace.          *)
(***************************************************************************)
MatchesSpecJoin ==
    (pass = 1 /\ pc = "done") => output = SpecSegments(input, 1)

=============================================================================
