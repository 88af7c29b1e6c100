---------------------------- MODULE OutcarForces ----------------------------
(***************************************************************************)
(* The force tables of OUTCAR: how the two extractors, awk on the cluster  *)
(* (job mode) and Python on a local file (path mode), cut a growing file   *)
(* into blocks, and when a block counts as the force of an ionic step.     *)
(*                                                                         *)
(* A line is its kind, with the length of the force vector in a row.  A    *)
(* force of stars (too large for its format) is no number for either       *)
(* extractor; a NaN is one for Python's float, and not for the regular     *)
(* expression of the awk program.                                          *)
(***************************************************************************)
EXTENDS Integers, Sequences

CONSTANTS
    Sites,      \* the number of atoms (POSCAR)
    MaxForce    \* the largest force that can be told apart (bound)

ASSUME SitesAssumption == Sites \in Nat \ {0} /\ MaxForce \in Nat

Line == [kind : {"header", "separator", "row", "nan", "stars"}, force : 0..MaxForce]

\* The kinds of rows an extractor takes for numbers.
Numeric(mode) == IF mode = "job" THEN {"row"} ELSE {"row", "nan"}

Unknown == 0    \* the number of sites when POSCAR could not be read

\* A block of the force tables, as the extractors give it back.
Block == [index : Nat, complete : BOOLEAN, force : Nat]

Blank == [state |-> "none", block |-> 0, rows |-> 0, largest |-> 0,
          malformed |-> FALSE, blocks |-> <<>>]

-----------------------------------------------------------------------------
(* p is the state of an extractor, expected the number of sites or Unknown. *)

FinalStatus(p, status, expected) ==
    CASE p.malformed -> "malformed"
      [] ~p.malformed /\ status = "complete" /\ p.rows > 0
                      /\ expected \notin {Unknown, p.rows} -> "row_count_mismatch"
      [] OTHER -> status

\* The end of a block: of its table, of the file, or the next header.
Finish(p, status, expected) ==
    LET final == FinalStatus(p, status, expected)
        complete == final = "complete" /\ p.rows > 0
    IN  [Blank EXCEPT
            !.block = p.block,
            !.blocks = Append(p.blocks,
                [index |-> p.block, complete |-> complete,
                 force |-> IF complete THEN p.largest ELSE 0])]

FinishOpen(p, expected) ==
    IF p.state = "none" THEN p ELSE Finish(p, "incomplete", expected)

Header(p, expected) ==
    LET q == FinishOpen(p, expected)
    IN  [q EXCEPT !.state = "separator", !.block = @ + 1]

Separator(p, expected) ==
    IF p.state = "separator"
    THEN [p EXCEPT !.state = "rows"]
    ELSE Finish(p, "complete", expected)

\* A row before the separator spoils the block and is counted all the same;
\* a NaN is never larger than the largest force so far.
TableRow(p, line, mode) ==
    LET q == [p EXCEPT !.state = "rows", !.malformed = @ \/ p.state = "separator"]
    IN  IF line.kind \in Numeric(mode)
        THEN [q EXCEPT !.rows = @ + 1,
                       !.largest = IF line.force > @ THEN line.force ELSE @]
        ELSE [q EXCEPT !.malformed = TRUE]

Feed(p, line, mode, expected) ==
    CASE line.kind = "header" -> Header(p, expected)
      [] line.kind # "header" /\ p.state = "none" -> p
      [] line.kind = "separator" /\ p.state # "none" -> Separator(p, expected)
      [] OTHER -> TableRow(p, line, mode)

\* The extractor after all these lines.
Scanned(lines, mode, expected) ==
    LET scanned[n \in 0..Len(lines)] ==
            IF n = 0 THEN Blank ELSE Feed(scanned[n - 1], lines[n], mode, expected)
    IN  scanned[Len(lines)]

Blocks(lines, mode, expected) ==
    FinishOpen(Scanned(lines, mode, expected), expected).blocks

\* The elements of s at the places in K, in their order.
Picked(s, K) ==
    LET picked[n \in 0..Len(s)] ==
            IF n = 0 THEN <<>>
            ELSE IF n \in K THEN Append(picked[n - 1], s[n]) ELSE picked[n - 1]
    IN  picked[Len(s)]

CompleteBlocks(blocks) == Picked(blocks, {i \in DOMAIN blocks : blocks[i].complete})

-----------------------------------------------------------------------------
(* Blocks beside the steps that OSZICAR has completed.                     *)

\* Mutant: job mode counts blocks as path mode does.
AlignedByCount(steps, blocks, mode) ==
    CompleteBlocks(blocks) # <<>> /\ Len(CompleteBlocks(blocks)) = steps

\* Job mode compares the numbers of the blocks, path mode how many they are.
Aligned(steps, blocks, mode) ==
    LET complete == CompleteBlocks(blocks)
    IN  /\ complete # <<>>
        /\ Len(complete) = steps
        /\ mode = "job" => \A i \in 1..steps : complete[i].index = i

\* The force given to each completed step, or no force at all.
ForcesOfSteps(steps, blocks, mode) ==
    IF Aligned(steps, blocks, mode)
    THEN [i \in 1..steps |-> CompleteBlocks(blocks)[i].force]
    ELSE <<>>
=============================================================================
