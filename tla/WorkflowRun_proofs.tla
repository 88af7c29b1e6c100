------------------------- MODULE WorkflowRun_proofs -------------------------
(***************************************************************************)
(* Lemmas about the job and its files, for every number of stages,         *)
(* attempts and steps, and about the decision functions: what the theorems *)
(* about both modes rest on.                                               *)
(***************************************************************************)
EXTENDS WorkflowRun, TLAPS

FilesType == [Stages -> [Files -> Content]]
VaspType == [Stages -> [runs : Nat, running : BOOLEAN]]

-----------------------------------------------------------------------------
(* Types.                                                                  *)

\* Writing one file keeps the type of all.
LEMMA WriteType ==
  ASSUME NEW s \in Stages, NEW f \in Files, NEW c \in Content, files \in FilesType,
         Write(s, f, c)
  PROVE  files' \in FilesType
  BY DEF FilesType, Write

\* A file that is absent, and one that VASP has just opened.
LEMMA ContentType == Absent \in Content /\ Fresh \in Content
  BY DEF Content, Fresh, Absent, Measure, Flag

\* The files, VASP and the job at the start.
LEMMA WorldTypeInit == WorldInit => WorldTypeOK
<1> SUFFICES ASSUME WorldInit PROVE WorldTypeOK
  OBVIOUS
<1>1. job \in Record \ {NoRecord}
  BY DEF WorldInit, Record, NoRecord, SchedulerState, ExitCode
<1>2. vasp \in VaspType
  BY DEF WorldInit, VaspType
<1>3. files \in FilesType
  BY ContentType DEF WorldInit, FilesType
<1> QED
  BY <1>1, <1>2, <1>3 DEF WorldTypeOK, VaspType, FilesType

\* No step of SLURM, VASP or Custodian disturbs the types.
LEMMA WorldTypeStep == WorldTypeOK /\ WorldNext => WorldTypeOK'
<1> SUFFICES ASSUME WorldTypeOK, WorldNext PROVE WorldTypeOK'
  OBVIOUS
<1> USE DEF WorldTypeOK
<1>f. files \in FilesType
  BY DEF FilesType
<1>v. vasp \in VaspType
  BY DEF VaspType
<1>1. CASE StartJob
  BY <1>1 DEF StartJob, Record, NoRecord, SchedulerState, ExitCode
<1>2. CASE RequeueJob
  <2>1. vasp' \in VaspType
    BY <1>2, <1>v DEF RequeueJob, VaspType
  <2>2. job' \in Record \ {NoRecord}
    BY <1>2 DEF RequeueJob, Record, NoRecord, SchedulerState, ExitCode
  <2> QED
    BY <1>2, <2>1, <2>2 DEF RequeueJob, VaspType
<1>3. CASE EndJob
  BY <1>3 DEF EndJob, Record, NoRecord, SchedulerState, ExitCode
<1>4. CASE KillJob
  <2>1. vasp' \in VaspType
    BY <1>4, <1>v DEF KillJob, VaspType
  <2>2. job' \in Record \ {NoRecord}
    BY <1>4 DEF KillJob, Record, NoRecord, SchedulerState, ExitCode
  <2> QED
    BY <1>4, <2>1, <2>2 DEF KillJob, VaspType
<1>5. ASSUME NEW s \in Stages, StartVasp(s) PROVE WorldTypeOK'
  <2>1. files' \in FilesType
    BY <1>5, <1>f, ContentType DEF StartVasp, FilesType
  <2>2. vasp' \in VaspType
    BY <1>5, <1>v DEF StartVasp, VaspType
  <2> QED
    BY <1>5, <2>1, <2>2 DEF StartVasp, FilesType, VaspType
<1>6. ASSUME NEW s \in Stages, WriteForces(s) PROVE WorldTypeOK'
  <2>1. PICK force \in {"reached", "above"} :
          Write(s, "outcar", [files[s]["outcar"] EXCEPT !.steps = @ + 1, !.force = force])
    BY <1>6 DEF WriteForces
  <2>2. files[s]["outcar"] \in Content /\ files[s]["outcar"].steps + 1 \in Nat
    BY <1>f DEF FilesType, Files, Content
  <2>3. [files[s]["outcar"] EXCEPT !.steps = @ + 1, !.force = force] \in Content
    BY <2>2 DEF Content, Measure
  <2> QED
    BY <1>6, <1>f, <2>1, <2>3, WriteType DEF WriteForces, FilesType, Files
<1>7. ASSUME NEW s \in Stages, WriteStep(s) PROVE WorldTypeOK'
  <2>1. PICK cycle \in {"reached", "above"} :
          Write(s, "oszicar", [files[s]["oszicar"] EXCEPT !.steps = @ + 1, !.cycle = cycle])
    BY <1>7 DEF WriteStep
  <2>2. files[s]["oszicar"] \in Content /\ files[s]["oszicar"].steps + 1 \in Nat
    BY <1>f DEF FilesType, Files, Content
  <2>3. [files[s]["oszicar"] EXCEPT !.steps = @ + 1, !.cycle = cycle] \in Content
    BY <2>2 DEF Content, Measure
  <2> QED
    BY <1>7, <1>f, <2>1, <2>3, WriteType DEF WriteStep, FilesType, Files
<1>8. ASSUME NEW s \in Stages, EndVasp(s) PROVE WorldTypeOK'
  <2> DEFINE Closed == [files[s]["outcar"] EXCEPT !.closed = TRUE]
             Xml(e, i) == [files[s]["vasprun"] EXCEPT
                              !.closed = TRUE,
                              !.steps = files[s]["outcar"].steps,
                              !.force = files[s]["outcar"].force,
                              !.flagE = e,
                              !.flagI = i]
  <2>1. PICK flagE \in {"true", "false"}, flagI \in {"true", "false"} :
          files' = [files EXCEPT ![s]["outcar"] = Closed, ![s]["vasprun"] = Xml(flagE, flagI)]
    BY <1>8 DEF EndVasp
  <2>2. files[s]["outcar"] \in Content /\ files[s]["vasprun"] \in Content
    BY <1>f DEF FilesType, Files
  <2>3. Closed \in Content
    BY <2>2 DEF Content
  <2>4. Xml(flagE, flagI) \in Content
    BY <2>2 DEF Content, Flag
  <2> HIDE DEF Closed, Xml
  <2>5. files' \in FilesType
    BY <1>f, <2>1, <2>3, <2>4 DEF FilesType
  <2>6. vasp' \in VaspType
    BY <1>8, <1>v DEF EndVasp, VaspType
  <2> QED
    BY <1>8, <2>5, <2>6 DEF EndVasp, FilesType, VaspType
<1>9. ASSUME NEW s \in Stages, CrashVasp(s) PROVE WorldTypeOK'
  <2>1. vasp' \in VaspType
    BY <1>9, <1>v DEF CrashVasp, VaspType
  <2> QED
    BY <1>9, <2>1 DEF CrashVasp, VaspType
<1> QED
  BY <1>1, <1>2, <1>3, <1>4, <1>5, <1>6, <1>7, <1>8, <1>9 DEF WorldNext

-----------------------------------------------------------------------------
(* A job that is over stays so, and nothing writes its files any more.     *)

\* VASP only runs inside a running job.
Deserted == JobOver => \A s \in Stages : ~vasp[s].running

\* At the start no VASP runs.
LEMMA DesertedInit == WorldInit => Deserted
  BY DEF WorldInit, Deserted, JobOver

\* A job that ends takes VASP with it.
LEMMA DesertedStep == WorldTypeOK /\ Deserted /\ WorldNext => Deserted'
<1> SUFFICES ASSUME WorldTypeOK, Deserted, WorldNext, JobOver',
                    NEW s \in Stages
             PROVE  ~vasp'[s].running
  BY DEF Deserted
<1> USE DEF Deserted, JobOver
<1>v. vasp \in VaspType
  BY DEF WorldTypeOK, VaspType
<1>1. CASE StartJob
  BY <1>1 DEF StartJob
<1>2. CASE RequeueJob
  BY <1>2 DEF RequeueJob
<1>3. CASE EndJob
  BY <1>3 DEF EndJob
<1>4. CASE KillJob
  BY <1>4, <1>v DEF KillJob, VaspType
<1>5. ASSUME NEW t \in Stages, StartVasp(t) PROVE FALSE
  BY <1>5 DEF StartVasp
<1>6. ASSUME NEW t \in Stages, WriteForces(t) PROVE FALSE
  BY <1>6 DEF WriteForces
<1>7. ASSUME NEW t \in Stages, WriteStep(t) PROVE FALSE
  BY <1>7 DEF WriteStep
<1>8. ASSUME NEW t \in Stages, EndVasp(t) PROVE FALSE
  BY <1>8 DEF EndVasp
<1>9. ASSUME NEW t \in Stages, CrashVasp(t) PROVE FALSE
  BY <1>9 DEF CrashVasp
<1> QED
  BY <1>1, <1>2, <1>3, <1>4, <1>5, <1>6, <1>7, <1>8, <1>9 DEF WorldNext

\* Nothing happens to the files of a job that is over.
LEMMA OverIsFinal == Deserted /\ JobOver => ~WorldNext
<1> SUFFICES ASSUME Deserted, JobOver, WorldNext PROVE FALSE
  OBVIOUS
<1>1. \A s \in Stages : ~vasp[s].running
  BY DEF Deserted
<1>2. job.state \notin {"PENDING", "RUNNING", "REQUEUED"}
  BY DEF JobOver
<1> QED
  BY <1>1, <1>2 DEF WorldNext, StartJob, RequeueJob, EndJob, KillJob,
     StartVasp, WriteForces, WriteStep, EndVasp, CrashVasp

-----------------------------------------------------------------------------
(* What the decision functions of Completion need before they say          *)
(* "converged" or "COMPLETED", for whatever evidence and however many      *)
(* stages.                                                                 *)

\* The electronic scope converges only on an explicit flag or on a final
\* cycle that reached EDIFF.
LEMMA ElectronicNeeds ==
  ASSUME NEW e, ElectronicOutcome(e) = "converged"
  PROVE  e.flagE = "true" \/ e.cycle = "reached"
  BY DEF ElectronicOutcome, Weigh

\* Atomic forces out of OUTCAR are not enough for a stage of variable cell.
LEMMA IonicNeeds ==
  ASSUME NEW e, NEW cell, IonicOutcome(e, cell) = "converged"
  PROVE  \/ e.flagI = "true"
         \/ e.force = "reached" /\ ~(cell /\ e.source = "outcar")
<1>1. CASE ForceOnlyCellLimited(e, cell)
  <2>1. IonicOutcome(e, cell) # "converged"
    BY <1>1 DEF IonicOutcome, Weigh
  <2> QED
    BY <2>1
<1>2. CASE ~ForceOnlyCellLimited(e, cell)
  <2>1. e.flagI = "true" \/ e.force = "reached"
    BY <1>2 DEF IonicOutcome, Weigh
  <2> QED
    BY <1>2, <2>1 DEF ForceOnlyCellLimited
<1> QED
  BY <1>1, <1>2

\* A stage is converged only when each of its scopes is.
LEMMA StageNeeds ==
  ASSUME NEW e, NEW ionic, NEW cell,
         StageConvergence(e, ionic, cell) = "converged"
  PROVE  /\ ElectronicOutcome(e) = "converged"
         /\ ionic => IonicOutcome(e, cell) = "converged"
<1>1. ScopeOutcomes(e, ionic, cell) = {"converged"}
  BY DEF StageConvergence
<1> QED
  BY <1>1 DEF ScopeOutcomes

\* Stages alone never make a status of the scheduler.
LEMMA WorkflowStatusType ==
  ASSUME NEW stages, NEW succeeded
  PROVE  WorkflowStatus(stages, succeeded) \in {"COMPLETED", "INCOMPLETE", "UNKNOWN"}
  BY DEF WorkflowStatus

\* A workflow is COMPLETED only when it has stages and all are complete.
LEMMA WorkflowNeeds ==
  ASSUME NEW stages, NEW succeeded \in BOOLEAN,
         WorkflowStatus(stages, succeeded) = "COMPLETED"
  PROVE  DOMAIN stages # {} /\ \A s \in DOMAIN stages : Complete(stages[s])
<1>1. DOMAIN stages # {} /\ CompletedStages(stages, succeeded)
  BY DEF WorkflowStatus
<1> QED
  BY <1>1 DEF CompletedStages

\* Whatever the record and the stages, job mode shows one of the statuses
\* the README lists.
LEMMA JobStatusType ==
  ASSUME NEW r, NEW stages
  PROVE  JobStatus(r, stages) \in Status
  BY WorkflowStatusType DEF JobStatus, Status

\* Job mode says COMPLETED only after a clean exit, and of complete stages.
LEMMA JobStatusNeeds ==
  ASSUME NEW r, NEW stages, JobStatus(r, stages) = "COMPLETED"
  PROVE  /\ SchedulerSuccess(r)
         /\ DOMAIN stages # {}
         /\ \A s \in DOMAIN stages : Complete(stages[s])
<1>1. SchedulerSuccess(r) /\ WorkflowStatus(stages, TRUE) = "COMPLETED"
  BY DEF JobStatus, SchedulerSuccess
<1> QED
  BY <1>1, WorkflowNeeds

\* Evidence against a scope is an explicit flag or a final measure above
\* its criterion.
LEMMA ElectronicCounterNeeds ==
  ASSUME NEW e, ElectronicOutcome(e) = "counter"
  PROVE  e.flagE = "false" \/ e.cycle = "above"
  BY DEF ElectronicOutcome, Weigh

LEMMA IonicCounterNeeds ==
  ASSUME NEW e, NEW cell, IonicOutcome(e, cell) = "counter"
  PROVE  e.flagI = "false" \/ e.force = "above"
<1>1. Weigh(e.flagI = "true" \/ e.force = "reached",
            e.flagI = "false" \/ e.force = "above") = "counter"
  BY DEF IonicOutcome
<1> QED
  BY <1>1 DEF Weigh

\* A stage is not converged only when the evidence is against a scope.
LEMMA UnconvergedNeeds ==
  ASSUME NEW e, NEW ionic, NEW cell,
         StageConvergence(e, ionic, cell) = "not_converged"
  PROVE  \/ ElectronicOutcome(e) = "counter"
         \/ ionic /\ IonicOutcome(e, cell) = "counter"
<1>1. "counter" \in ScopeOutcomes(e, ionic, cell)
  BY DEF StageConvergence
<1> QED
  BY <1>1 DEF ScopeOutcomes

\* Job mode says INCOMPLETE only after a clean exit, and of a stage that is
\* missing, terminated or not, or is not converged.
LEMMA IncompleteNeeds ==
  ASSUME NEW r, NEW stages, JobStatus(r, stages) = "INCOMPLETE"
  PROVE  /\ SchedulerSuccess(r)
         /\ DOMAIN stages # {}
         /\ \E s \in DOMAIN stages : \/ ~stages[s].started
                                     \/ stages[s].marker = "false"
                                     \/ stages[s].marker = "true"
                                     \/ stages[s].convergence = "not_converged"
<1>1. SchedulerSuccess(r) /\ WorkflowStatus(stages, TRUE) = "INCOMPLETE"
  BY DEF JobStatus, SchedulerSuccess
<1>2. DOMAIN stages # {} /\ (TerminatedUnconverged(stages) \/ StoppedShort(stages))
  BY <1>1 DEF WorkflowStatus
<1> QED
  BY <1>1, <1>2 DEF TerminatedUnconverged, StoppedShort
=============================================================================
