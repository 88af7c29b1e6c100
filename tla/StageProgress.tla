--------------------------- MODULE StageProgress ----------------------------
(***************************************************************************)
(* What the report of a stage says beside its status: the progress label   *)
(* of the electronic and the ionic scope and of the stage, and the course  *)
(* of the forces.  The evidence e is that of Completion; t tells, of the   *)
(* OSZICAR that was read, the number of completed ionic steps (or          *)
(* NoCount), whether an electronic cycle is open, and the iterations of    *)
(* the completed cycles.                                                   *)
(***************************************************************************)
EXTENDS Completion, Integers, Sequences, FiniteSetsExt

CONSTANT NELM   \* the limit of electronic iterations of a cycle

ASSUME NelmAssumption == NELM \in Nat \ {0}

NoCount == -1

Label == {"CONVERGED", "EVIDENCE_OF_PROGRESS", "NO_CLEAR_EVIDENCE_OF_PROGRESS",
          "INSUFFICIENT_EVIDENCE"}

OpenFirstCycle(t) == t.steps = 0 /\ t.open

BelowNelm(t) == \E i \in DOMAIN t.iterations : t.iterations[i] < NELM

\* Without a verdict: a completed cycle that ended before NELM is progress.
ElectronicLabel(e, t) ==
    LET outcome == ElectronicOutcome(e)
    IN  CASE outcome = "converged" -> "CONVERGED"
          [] outcome \in {"counter", "silent"} /\ ~OpenFirstCycle(t) ->
                IF BelowNelm(t) THEN "EVIDENCE_OF_PROGRESS"
                ELSE IF outcome = "counter" /\ e.cycle # "none"
                THEN "NO_CLEAR_EVIDENCE_OF_PROGRESS"
                ELSE "INSUFFICIENT_EVIDENCE"
          [] OTHER -> "INSUFFICIENT_EVIDENCE"

\* The trend of the forces is never interpreted.
IonicLabel(e, cell) ==
    IF IonicOutcome(e, cell) = "converged" THEN "CONVERGED" ELSE "INSUFFICIENT_EVIDENCE"

\* Mutant: the electronic scope speaks for the stage.
ElectronicStageLabel(e, t, ionic, cell) == ElectronicLabel(e, t)

StageLabel(e, t, ionic, cell) ==
    LET electronic == ElectronicLabel(e, t)
        usable == /\ t.steps # 0
                  /\ "contradictory" \notin ScopeOutcomes(e, TRUE, cell)
                  /\ IonicLabel(e, cell) = "CONVERGED"
    IN  IF ~ionic \/ usable THEN electronic ELSE "INSUFFICIENT_EVIDENCE"

-----------------------------------------------------------------------------
(* The course of the forces of the completed steps, a sequence.            *)

NoProgress == [count |-> 0, initial |-> 0, current |-> 0, best |-> 0, step |-> 0,
               improvements |-> 0]

Smallest(forces) == Min({forces[i] : i \in DOMAIN forces})

\* The first step with the smallest force.
BestStep(forces) == Min({i \in DOMAIN forces : forces[i] = Smallest(forces)})

\* A step improves when its force is below that of every step before it.
Improvements(forces) ==
    {i \in DOMAIN forces : \A j \in 1..(i - 1) : forces[i] < forces[j]}

Progress(forces) ==
    IF forces = <<>>
    THEN NoProgress
    ELSE [count |-> Len(forces), initial |-> forces[1],
          current |-> forces[Len(forces)], best |-> Smallest(forces),
          step |-> BestStep(forces), improvements |-> Cardinality(Improvements(forces))]
=============================================================================
