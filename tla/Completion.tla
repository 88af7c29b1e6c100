----------------------------- MODULE Completion -----------------------------
(***************************************************************************)
(* The pure decision functions of bmd-check: from the evidence acquired    *)
(* about one stage to its convergence class, from the stages to the        *)
(* workflow status, and from there to the status a user is shown, in job   *)
(* mode (bmd-check JOB_ID) and in path mode (bmd-check PATH).              *)
(*                                                                         *)
(* Numbers are abstracted to what the code compares: a measure against its *)
(* criterion is "reached", "above" or, when either is missing, "none".     *)
(***************************************************************************)

Flag    == {"true", "false", "none"}        \* vasprun flags and markers
Measure == {"reached", "above", "none"}     \* EDIFF and EDIFFG comparisons
Source  == {"vasprun", "outcar", "none"}    \* where the final force came from

\* What StageTrajectoryObservation offers the two assessments.
Evidence == [flagE : Flag, flagI : Flag, cycle : Measure, force : Measure,
             source : Source]

NoEvidence == [flagE |-> "none", flagI |-> "none", cycle |-> "none",
               force |-> "none", source |-> "none"]

Outcome     == {"converged", "contradictory", "counter", "silent"}
Convergence == {"converged", "not_converged", "undetermined"}

-----------------------------------------------------------------------------
(* One scope of one stage.                                                 *)

\* Positive and negative evidence of one scope, put together.
Weigh(basis, counter) ==
    CASE basis /\ counter   -> "contradictory"
      [] basis /\ ~counter  -> "converged"
      [] ~basis /\ counter  -> "counter"
      [] ~basis /\ ~counter -> "silent"

\* An explicit vasprun flag True returns before OSZICAR is looked at.
ElectronicOutcome(e) ==
    IF e.flagE = "true"
    THEN "converged"
    ELSE Weigh(e.cycle = "reached", e.flagE = "false" \/ e.cycle = "above")

\* Atomic forces out of OUTCAR say nothing about the cell (ISIF >= 3).
ForceOnlyCellLimited(e, cell) ==
    /\ cell
    /\ e.force = "reached"
    /\ e.source = "outcar"
    /\ e.flagI # "true"

IonicOutcome(e, cell) ==
    LET weighed == Weigh(e.flagI = "true" \/ e.force = "reached",
                         e.flagI = "false" \/ e.force = "above")
    IN  IF weighed = "converged" /\ ForceOnlyCellLimited(e, cell)
        THEN "silent"
        ELSE weighed

-----------------------------------------------------------------------------
(* One stage.                                                              *)

ScopeOutcomes(e, ionic, cell) ==
    {ElectronicOutcome(e)} \cup {o \in {IonicOutcome(e, cell)} : ionic}

\* The trajectory's own flag wins; the final result's flag only fills a gap.
WithFallback(e, fallback) ==
    IF e.flagE = "none" THEN [e EXCEPT !.flagE = fallback] ELSE e

\* Mutant: nothing against convergence is taken for convergence.
ConvergedByDefault(e, ionic, cell) ==
    IF "counter" \in ScopeOutcomes(e, ionic, cell) THEN "not_converged" ELSE "converged"

StageConvergence(e, ionic, cell) ==
    LET outcomes == ScopeOutcomes(e, ionic, cell)
    IN  CASE "counter" \in outcomes -> "not_converged"
          [] outcomes = {"converged"} -> "converged"
          [] OTHER -> "undetermined"

\* marker is "none" where the caller never reads the termination marker.
StageCompletion == [started : BOOLEAN, marker : Flag, convergence : Convergence]

\* Mutant: outputs and a clean exit are enough.
CompleteOnceStarted(c) == c.started /\ c.marker # "false"

Complete(c) ==
    /\ c.started
    /\ c.marker # "false"
    /\ c.convergence = "converged"

-----------------------------------------------------------------------------
(* All stages.  stages is a function; its domain is empty when the run     *)
(* could not be analysed.                                                  *)

\* Mutant: a stage that never started is passed over.
CompletedWhereStarted(stages, succeeded) ==
    \A s \in DOMAIN stages : stages[s].started =>
        Complete(stages[s]) /\ (stages[s].marker = "true" \/ succeeded)

CompletedStages(stages, succeeded) ==
    \A s \in DOMAIN stages :
        Complete(stages[s]) /\ (stages[s].marker = "true" \/ succeeded)

TerminatedUnconverged(stages) ==
    \E s \in DOMAIN stages :
        stages[s].marker = "true" /\ stages[s].convergence = "not_converged"

StoppedShort(stages) ==
    \E s \in DOMAIN stages :
        \/ ~stages[s].started
        \/ stages[s].marker = "false"
        \/ stages[s].convergence = "not_converged"

WorkflowStatus(stages, succeeded) ==
    CASE DOMAIN stages = {} -> "UNKNOWN"
      [] DOMAIN stages # {} /\ CompletedStages(stages, succeeded) -> "COMPLETED"
      [] OTHER -> IF \/ TerminatedUnconverged(stages)
                     \/ succeeded /\ StoppedShort(stages)
                  THEN "INCOMPLETE"
                  ELSE "UNKNOWN"

-----------------------------------------------------------------------------
(* Scheduler records and the status shown to the user.                     *)
(*                                                                         *)
(* RUNNING stands for the states both modes call running (RUNNING,         *)
(* COMPLETING, RESIZING, SUSPENDED, STAGE_OUT), PENDING for PENDING and    *)
(* CONFIGURING, REQUEUED for REQUEUED and BOOT_FAIL_REQUEUE_FED, FAILED    *)
(* for the ten states of _INACTIVE_UNSUCCESSFUL_STATES.  The state of      *)
(* NoRecord, "none", is a lookup that failed or was never made.            *)

SchedulerState == {"PENDING", "RUNNING", "REQUEUED", "COMPLETED", "FAILED"}
ExitCode       == {"zero", "nonzero", "none"}
NoRecord       == [state |-> "none", exit |-> "none"]
Record         == [state : SchedulerState, exit : ExitCode] \cup {NoRecord}

SchedulerSuccess(r) == r.state = "COMPLETED" /\ r.exit = "zero"

Status == {"COMPLETED", "INCOMPLETE", "FAILED", "UNKNOWN", "PENDING",
           "RUNNING", "PRE_RUN"}

\* Mutant: a state that is not named is shown as it is.
RawJobStatus(r, stages) ==
    CASE SchedulerSuccess(r) -> WorkflowStatus(stages, TRUE)
      [] r.state = "none" -> "UNKNOWN"
      [] OTHER -> r.state

\* Job mode: the scheduler first, the evidence only after a clean exit.
JobStatus(r, stages) ==
    CASE r.state = "PENDING" -> "PENDING"
      [] r.state = "RUNNING" -> "RUNNING"
      [] SchedulerSuccess(r) -> WorkflowStatus(stages, TRUE)
      [] r.state = "COMPLETED" /\ r.exit = "none" -> "UNKNOWN"
      [] r.state = "none" -> "UNKNOWN"
      [] OTHER -> "FAILED"

\* Mutant: REQUEUED is forgotten.
ActiveStatesButRequeued == {"PENDING", "RUNNING"}

ActiveStates == {"PENDING", "RUNNING", "REQUEUED"}

\* Mutant: the marker of the current stage stands for the workflow.
LifecycleStateOfTarget(r, stages, normal, inputs, executed) ==
    CASE r.state \in ActiveStates -> "RUNNING"
      [] r.state \notin ActiveStates /\ normal -> "COMPLETED"
      [] OTHER -> IF r.state = "FAILED" \/ r.exit = "nonzero" THEN "INCOMPLETE"
                  ELSE IF inputs /\ ~executed THEN "PRE_RUN" ELSE "UNKNOWN"

\* Path mode: the lifecycle state of a bmd-compute run.  normal is the
\* termination marker of the stage bmd-check was invoked in.
LifecycleState(r, stages, normal, inputs, executed) ==
    LET status == WorkflowStatus(stages, SchedulerSuccess(r))
        stopped == \/ r.state = "FAILED"
                   \/ r.exit = "nonzero" /\ ~normal
                   \/ status = "INCOMPLETE"
    IN  CASE r.state \in ActiveStates -> "RUNNING"
          [] r.state \notin ActiveStates /\ status = "COMPLETED" -> "COMPLETED"
          [] OTHER -> IF stopped THEN "INCOMPLETE"
                      ELSE IF inputs /\ ~executed THEN "PRE_RUN" ELSE "UNKNOWN"

FailureEvidence(r) == r.state \notin {"none", "COMPLETED"} \/ r.exit = "nonzero"

\* Mutant: what the scheduler says is always shown.
RawPathStatus(r, state) == IF r.state = "none" THEN state ELSE r.state

PathStatus(r, state) ==
    CASE r.state \in {"PENDING", "RUNNING"} -> r.state
      [] OTHER -> IF state = "INCOMPLETE" /\ FailureEvidence(r)
                  THEN "FAILED"
                  ELSE state
=============================================================================
