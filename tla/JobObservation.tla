--------------------------- MODULE JobObservation ---------------------------
(***************************************************************************)
(* Job mode (bmd-check JOB_ID) beside a live job.  One inspection asks     *)
(* sacct first, resolves the run, primes the acquisition cache with one    *)
(* batch, reads what is left file by file, and only then decides.  Every   *)
(* read is a step of its own, so the job, VASP and Custodian may act       *)
(* between any two of them.                                                *)
(*                                                                         *)
(* Faults are what the transport may do to one read:                       *)
(*   "sacct"  accounting fails or times out                                *)
(*   "batch"  the batch fails, and the cache disables itself               *)
(*   "test"   the channel of a `test -f` dies: ssh returns 255, which      *)
(*            _remote_path_exists reads as "the file is not there"         *)
(*   "read"   the transfer of a present file fails, or its size exceeds    *)
(*            the limit                                                    *)
(*   "raise"  an exception nothing catches below inspect_slurm_job         *)
(***************************************************************************)
EXTENDS Evidence, FiniteSets

CONSTANTS
    Faults,         \* the faults that one inspection may meet together
    MaxFaults       \* how many of them per inspection (bound)

FaultKinds == {"sacct", "batch", "test", "read", "raise"}

ASSUME FaultsAssumption == Faults \subseteq SUBSET FaultKinds /\ MaxFaults \in Nat

VARIABLES
    pc,         \* where the inspection is
    record,     \* the accounting record acquired
    acq,        \* what was acquired, per slot
    analysed,   \* was the run resolved and its analysis not abandoned?
    faulted,    \* the faults that hit this inspection, with their slots
    status      \* the status shown at the end

observer == <<pc, record, acq, analysed, faulted, status>>
vars == <<job, vasp, files, pc, record, acq, analysed, faulted, status>>

\* What is read: four files per stage, and vasprun.xml of the last stage a
\* second time, for the scientific result.
Slots == Stages \X Files \cup {<<N, "scientific">>}

OnDisk(slot) ==
    files[slot[1]][IF slot[2] = "scientific" THEN "vasprun" ELSE slot[2]]

-----------------------------------------------------------------------------
(* From acquisitions to evidence.  a is a function on Slots.               *)

\* Forces of vasprun.xml are merged first, by index; those of OUTCAR fill
\* the gaps, and only when its blocks match the steps of OSZICAR.
FromVasprun(a, s) ==
    /\ VasprunSteps(a, s) > 0
    /\ VasprunSteps(a, s) >= OszicarSteps(a, s)

ForceSource(a, s) ==
    CASE FromVasprun(a, s) -> "vasprun"
      [] ~FromVasprun(a, s) /\ Aligned(a, s) -> "outcar"
      [] OTHER -> "none"

Trajectory(a, s) ==
    [flagE  |-> VasprunFlag(a, s, "vasprun", "flagE"),
     flagI  |-> VasprunFlag(a, s, "vasprun", "flagI"),
     cycle  |-> CycleMeasure(a, s),
     force  |-> ForceMeasure(a, s, ForceSource(a, s)),
     source |-> ForceSource(a, s)]

Fallback(a, s) ==
    IF s = N THEN VasprunFlag(a, N, "scientific", "flagE") ELSE "none"

Observed(a, s) ==
    \E f \in {"oszicar", "vasprun", "outcar"} :
        a[<<s, f>>].how \in {"listed", "read", "unreadable"}

StageEvidence(a, s) ==
    IF Observed(a, s)
    THEN WithFallback(Trajectory(a, s), Fallback(a, s))
    ELSE NoEvidence

\* Job mode never reads the termination marker.
JobStages(a) ==
    [s \in Stages |->
        [started |-> Observed(a, s),
         marker |-> "none",
         convergence |-> StageConvergence(StageEvidence(a, s), s \in Relax,
                                          s \in Cell)]]

-----------------------------------------------------------------------------
(* The inspection.                                                         *)

NoSlot == <<0, "none">>

Fault(fault, slot) ==
    /\ \E together \in Faults : {fault} \cup {f[1] : f \in faulted} \subseteq together
    /\ Cardinality(faulted) < MaxFaults
    /\ faulted' = faulted \cup {<<fault, slot>>}

ReadScheduler ==
    /\ pc = "scheduler"
    /\ \/ record' = job /\ UNCHANGED faulted
       \/ record' = NoRecord /\ Fault("sacct", NoSlot)
    /\ pc' = "resolve"
    /\ UNCHANGED <<env, acq, analysed, status>>

\* The records may not resolve (yet), whatever the reason.
Resolve ==
    /\ pc = "resolve"
    /\ \/ pc' = "prime" /\ analysed' = TRUE
       \/ pc' = "report" /\ analysed' = FALSE
    /\ UNCHANGED <<env, record, acq, faulted, status>>

\* What the batch brings of one slot: a file that is there is only listed
\* when its contents were not requested or the size limits deferred it.
PrimedSlot(deferred, slot) ==
    IF OnDisk(slot).present
       /\ (slot \in deferred \/ slot[2] \notin {"incar", "oszicar"})
    THEN [how |-> "listed", content |-> Absent]
    ELSE Reading(OnDisk(slot))

Primed(deferred) == [slot \in Slots |-> PrimedSlot(deferred, slot)]

\* One batch: INCAR and OSZICAR are read, unless deferred by the size
\* limits, and for the others it is noted whether they are there.
Prime ==
    /\ pc = "prime"
    /\ \/ /\ \E deferred \in SUBSET {slot \in Slots : slot[2] = "oszicar"} :
                acq' = Primed(deferred)
          /\ UNCHANGED faulted
       \/ /\ Fault("batch", NoSlot)
          /\ UNCHANGED acq
    /\ pc' = "acquire"
    /\ UNCHANGED <<env, record, analysed, status>>

\* The order of inspect_remote_run and _observe_stage_trajectories: all
\* INCARs, the scientific result, then the trajectory of stage after stage.
Rank(slot) ==
    CASE slot[2] = "incar" -> slot[1]
      [] slot[2] = "scientific" -> N + 1
      [] slot[2] = "oszicar" -> N + 3 * slot[1]
      [] slot[2] = "vasprun" -> N + 3 * slot[1] + 1
      [] slot[2] = "outcar" -> N + 3 * slot[1] + 2

Due(slot) ==
    /\ acq[slot].how \in {"unread", "listed"}
    /\ \A other \in Slots :
          Rank(other) < Rank(slot) => acq[other].how \notin {"unread", "listed"}

\* retrieve_remote_file remembers the bytes of the scientific result: the
\* trajectory of the last stage is given the same ones.
Remembered(slot) ==
    slot = <<N, "vasprun">> /\ acq[<<N, "scientific">>].how = "read"

Transfer(slot) ==
    IF Remembered(slot) THEN acq[<<N, "scientific">>] ELSE Reading(OnDisk(slot))

Acquire(slot) ==
    /\ pc = "acquire"
    /\ Due(slot)
    /\ \/ /\ acq' = [acq EXCEPT ![slot] = Transfer(slot)]
          /\ UNCHANGED faulted
       \/ /\ acq[slot].how = "unread" /\ ~Remembered(slot)
          /\ Fault("test", slot)
          /\ acq' = [acq EXCEPT ![slot] = [how |-> "missing", content |-> Absent]]
       \/ /\ OnDisk(slot).present /\ slot[2] # "scientific"
          /\ Fault("read", slot)
          /\ acq' = [acq EXCEPT ![slot] = [how |-> "unreadable", content |-> Absent]]
    /\ UNCHANGED <<env, pc, record, analysed, status>>

\* inspect_slurm_job answers "could not be analyzed"; a failed transfer of
\* the scientific result ends here too, nothing catches it before.
Abandon ==
    /\ pc \in {"prime", "acquire"}
    /\ Fault("raise", NoSlot)
    /\ pc' = "report"
    /\ analysed' = FALSE
    /\ acq' = [slot \in Slots |-> Nothing]
    /\ UNCHANGED <<env, record, status>>

EndAcquisition ==
    /\ pc = "acquire"
    /\ \A slot \in Slots : acq[slot].how \notin {"unread", "listed"}
    /\ pc' = "report"
    /\ UNCHANGED <<env, record, acq, analysed, faulted, status>>

NoStages == [s \in {} |-> NoEvidence]

\* Mutant: sacct is asked after the files were read.
ReportAfterAsking ==
    /\ pc = "report"
    /\ record' = job
    /\ status' = JobStatus(job, IF analysed THEN JobStages(acq) ELSE NoStages)
    /\ pc' = "done"
    /\ acq' = [slot \in Slots |-> Nothing]
    /\ UNCHANGED <<env, analysed, faulted>>

Report ==
    /\ pc = "report"
    /\ status' = JobStatus(record, IF analysed THEN JobStages(acq) ELSE NoStages)
    /\ pc' = "done"
    /\ acq' = [slot \in Slots |-> Nothing]
    /\ UNCHANGED <<env, record, analysed, faulted>>

\* The command is run again; nothing is kept from one call to the next.
Again ==
    /\ pc = "done"
    /\ pc' = "scheduler"
    /\ record' = NoRecord
    /\ analysed' = FALSE
    /\ faulted' = {}
    /\ status' = "UNKNOWN"
    /\ UNCHANGED <<env, acq>>

-----------------------------------------------------------------------------

Init ==
    /\ WorldInit
    /\ pc = "scheduler"
    /\ record = NoRecord
    /\ acq = [slot \in Slots |-> Nothing]
    /\ analysed = FALSE
    /\ faulted = {}
    /\ status = "UNKNOWN"

World == WorldNext /\ UNCHANGED observer

Inspect ==
    \/ ReadScheduler \/ Resolve \/ Prime \/ Abandon \/ EndAcquisition \/ Report
    \/ \E slot \in Slots : Acquire(slot)

Next == World \/ Inspect \/ Again

\* Every remote command has a timeout, so an inspection always goes on.
Spec == Init /\ [][Next]_vars /\ WF_vars(Inspect)

-----------------------------------------------------------------------------
(* Properties.                                                             *)

TypeOK ==
    /\ WorldTypeOK
    /\ pc \in {"scheduler", "resolve", "prime", "acquire", "report", "done"}
    /\ record \in Record
    /\ acq \in [Slots -> Acquired]
    /\ analysed \in BOOLEAN
    /\ faulted \subseteq FaultKinds \X (Slots \cup {NoSlot})
    /\ status \in Status

\* What a reader of the directories, with nothing in the way, finds now.
FullReading == [slot \in Slots |-> Reading(OnDisk(slot))]

\* An inspection that met no fault and found a clean exit shows exactly
\* what the final files of the job say, although it read them one by one
\* while VASP, Custodian and SLURM were free to act: asking sacct first is
\* what makes the reads belong together (inspect_slurm_job).
StatusOfTheFinalFiles ==
    pc = "done" /\ faulted = {} /\ analysed /\ SchedulerSuccess(record)
        => status = JobStatus(job, JobStages(FullReading))

\* Whatever is lost on the way, COMPLETED is only shown of a job that ended
\* with exit code 0:0 and whose every stage has, in its final files,
\* positive evidence in every scope (_job_status, stage_convergence).
CompletedIsSupported ==
    status = "COMPLETED" => SchedulerSuccess(job) /\ SupportedCompletion

\* INCOMPLETE is only shown of a job that ended with exit code 0:0 and has
\* a stage without outputs or with evidence against its convergence, when
\* no presence test was lost (remote_file_exists).
IncompleteIsSupported ==
    status = "INCOMPLETE" /\ (\A slot \in Slots : <<"test", slot>> \notin faulted)
        => SchedulerSuccess(job) /\ SupportedGap

\* The same whatever was lost: what the README promises of INCOMPLETE and
\* of missing evidence.
IncompleteMeansAGap ==
    status = "INCOMPLETE" => SchedulerSuccess(job) /\ SupportedGap

\* Job mode keeps the promise of StatusPromise, whatever the interleaving
\* and the faults: refinement of the README's statuses.  An INCOMPLETE that
\* rests on a lost presence test is no claim of the promise, see
\* IncompleteMeansAGap.
Promise == INSTANCE StatusPromise WITH
    settled <- SchedulerSuccess(job),
    grounds <- {g \in {"complete", "gap"} :
                    /\ SchedulerSuccess(job)
                    /\ g = "complete" => SupportedCompletion
                    /\ g = "gap" => SupportedGap},
    answer  <- CASE pc # "done" -> "none"
                 [] pc = "done" /\ status = "COMPLETED" -> status
                 [] pc = "done" /\ status = "INCOMPLETE"
                      /\ \A slot \in Slots : <<"test", slot>> \notin faulted -> status
                 [] OTHER -> "OTHER"

KeepsPromise == Promise!Spec

\* FAILED is only shown of a job that will not run again.
FailedIsFinal == status = "FAILED" => JobOver
=============================================================================
