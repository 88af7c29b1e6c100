-------------------------- MODULE PathObservation --------------------------
(***************************************************************************)
(* Path mode (bmd-check PATH) beside a live bmd-compute job.  One analysis *)
(* decides which stage it is invoked in, looks at every declared stage,    *)
(* then again at that one, then asks sacct, then reads the termination     *)
(* marker of that one stage and, file by file, the trajectories: the       *)
(* scheduler is asked in the middle, so a part of the evidence is older    *)
(* than its answer and a part is younger.                                  *)
(***************************************************************************)
EXTENDS Evidence

CONSTANTS
    Lookup,     \* the answers of sacct: "record", "none", or both
    Oversized   \* the files that may be too large, or not readable (bound)

ASSUME LookupAssumption == Lookup \subseteq {"record", "none"} /\ Oversized \subseteq Files

VARIABLES
    pc,         \* where the analysis is
    target,     \* the stage the analysis is invoked in, while it matters
    early,      \* what was seen of each stage before sacct was asked
    executed,   \* was any sign of execution seen by then?
    record,     \* the accounting record acquired
    normal,     \* the termination marker of that stage
    acq,        \* the local reads, per slot
    status,     \* the status shown at the end
    settled     \* history: was the job over when the analysis began, and
                \* every file since then readable?

analysis == <<pc, target, early, executed, record, normal, acq, status, settled>>
vars == <<job, vasp, files, pc, target, early, executed, record, normal, acq,
          status, settled>>

Slots == Stages \X Files

OnDisk(slot) == files[slot[1]][slot[2]]

Outputs == {"oszicar", "vasprun", "outcar"}

-----------------------------------------------------------------------------
(* From reads to the status.                                               *)

\* _stage_evidence of one stage.
StageEarly == [seen : BOOLEAN, inputs : BOOLEAN, started : BOOLEAN,
               marker : {"true", "false"}]

Unseen == [seen |-> FALSE, inputs |-> FALSE, started |-> FALSE, marker |-> "false"]

Mark(s) == IF files[s]["outcar"].closed THEN "true" ELSE "false"

HasOutputs(s) == \E f \in Outputs : files[s][f].present

EarlyLook(s) ==
    [seen |-> TRUE,
     inputs |-> files[s]["incar"].present,
     started |-> HasOutputs(s),
     marker |-> Mark(s)]

\* A local trajectory takes forces from OUTCAR only, and has no fallback.
LocalForceSource(a, s) == IF Aligned(a, s) THEN "outcar" ELSE "none"

LocalTrajectory(a, s) ==
    [flagE  |-> VasprunFlag(a, s, "vasprun", "flagE"),
     flagI  |-> VasprunFlag(a, s, "vasprun", "flagI"),
     cycle  |-> CycleMeasure(a, s),
     force  |-> ForceMeasure(a, s, LocalForceSource(a, s)),
     source |-> LocalForceSource(a, s)]

\* The marker is as old as the early look, the trajectory is not.
PathStages(looks, a) ==
    [s \in Stages |->
        [started |-> looks[s].started,
         marker |-> looks[s].marker,
         convergence |->
            StageConvergence(IF looks[s].started THEN LocalTrajectory(a, s)
                             ELSE NoEvidence, s \in Relax, s \in Cell)]]

PathAnswer(r, looks, a, isNormal, isExecuted) ==
    PathStatus(r, LifecycleState(r, PathStages(looks, a), isNormal,
                                 \E s \in Stages : looks[s].inputs, isExecuted))

-----------------------------------------------------------------------------
(* The analysis.                                                           *)

\* A directory of a stage stands for that stage; the root (0) for the last
\* stage with outputs on disk, and before there are any for the first.
CurrentStage(directory, s) ==
    \/ s = directory
    \/ /\ directory = 0
       /\ \/ HasOutputs(s) /\ \A t \in Stages : HasOutputs(t) => t <= s
          \/ s = 1 /\ \A t \in Stages : ~HasOutputs(t)

\* The analysis begins, in any directory of the workflow.
FindCurrentStage ==
    /\ pc = "discover"
    /\ \E directory \in 0..N : \E s \in Stages :
          CurrentStage(directory, s) /\ target' = s
    /\ settled' = JobOver
    /\ pc' = "stages"
    /\ UNCHANGED <<env, early, executed, record, normal, acq, status>>

LookAt(s) ==
    /\ pc = "stages"
    /\ ~early[s].seen
    /\ \A t \in Stages : t < s => early[t].seen
    /\ early' = [early EXCEPT ![s] = EarlyLook(s)]
    /\ pc' = IF s = N THEN "target" ELSE pc
    /\ UNCHANGED <<env, target, executed, record, normal, acq, status, settled>>

\* The files of that stage and the declared logs, which are empty or absent
\* until the job has started.
LookAtTarget ==
    /\ pc = "target"
    /\ \E logs \in {FALSE} \cup {job.state # "PENDING"} :
          executed' = \/ HasOutputs(target)
                      \/ logs
                      \/ \E s \in Stages : early[s].started
    /\ pc' = "lookup"
    /\ UNCHANGED <<env, target, early, record, normal, acq, status, settled>>

\* No job id, a failed lookup or a relocated copy: no record.
LookupScheduler ==
    /\ pc = "lookup"
    /\ \/ "record" \in Lookup /\ record' = job
       \/ "none" \in Lookup /\ record' = NoRecord
    /\ pc' = "marker"
    /\ UNCHANGED <<env, target, early, executed, normal, acq, status, settled>>

DetectNormalCompletion ==
    /\ pc = "marker"
    /\ normal' = (Mark(target) = "true")
    /\ target' = 0
    /\ pc' = "read"
    /\ UNCHANGED <<env, early, executed, record, acq, status, settled>>

\* Only the trajectories of stages that were seen to have started count.
Wanted == {slot \in Slots : executed /\ early[slot[1]].started}

\* OSZICAR, vasprun.xml, OUTCAR and at last INCAR of one stage, then of the
\* next one.
Place(slot) ==
    4 * slot[1] + (CASE slot[2] = "oszicar" -> 0
                     [] slot[2] = "vasprun" -> 1
                     [] slot[2] = "outcar" -> 2
                     [] slot[2] = "incar" -> 3)

ReadLocal(slot) ==
    /\ pc = "read"
    /\ slot \in Wanted
    /\ acq[slot].how = "unread"
    /\ \A other \in Wanted : Place(other) < Place(slot) => acq[other].how # "unread"
    /\ \/ /\ acq' = [acq EXCEPT ![slot] = Reading(OnDisk(slot))]
          /\ UNCHANGED settled
       \/ /\ slot[2] \in Oversized
          /\ OnDisk(slot).present
          /\ settled' = FALSE
          /\ acq' = [acq EXCEPT ![slot] = [how |-> "unreadable", content |-> Absent]]
    /\ UNCHANGED <<env, pc, target, early, executed, record, normal, status>>

Classify ==
    /\ pc = "read"
    /\ \A slot \in Wanted : acq[slot].how # "unread"
    /\ status' = PathAnswer(record, early, acq, normal, executed)
    /\ pc' = "done"
    /\ acq' = [slot \in Slots |-> Nothing]
    /\ UNCHANGED <<env, target, early, executed, record, normal, settled>>

\* The command is run again.
AskAgain ==
    /\ pc = "done"
    /\ pc' = "discover"
    /\ early' = [s \in Stages |-> Unseen]
    /\ executed' = FALSE
    /\ record' = NoRecord
    /\ normal' = FALSE
    /\ status' = "UNKNOWN"
    /\ settled' = FALSE
    /\ UNCHANGED <<env, target, acq>>

-----------------------------------------------------------------------------

Init ==
    /\ WorldInit
    /\ pc = "discover"
    /\ target = 0
    /\ early = [s \in Stages |-> Unseen]
    /\ executed = FALSE
    /\ record = NoRecord
    /\ normal = FALSE
    /\ acq = [slot \in Slots |-> Nothing]
    /\ status = "UNKNOWN"
    /\ settled = FALSE

World == WorldNext /\ UNCHANGED analysis

Analyse ==
    \/ FindCurrentStage
    \/ LookAtTarget \/ LookupScheduler \/ DetectNormalCompletion \/ Classify
    \/ \E s \in Stages : LookAt(s)
    \/ \E slot \in Slots : ReadLocal(slot)

Next == World \/ Analyse \/ AskAgain

Spec == Init /\ [][Next]_vars

-----------------------------------------------------------------------------
(* Properties.                                                             *)

TypeOK ==
    /\ WorldTypeOK
    /\ pc \in {"discover", "stages", "target", "lookup", "marker", "read", "done"}
    /\ IF pc \in {"discover", "read", "done"} THEN target = 0 ELSE target \in Stages
    /\ early \in [Stages -> StageEarly]
    /\ executed \in BOOLEAN
    /\ record \in Record
    /\ normal \in BOOLEAN
    /\ acq \in [Slots -> Acquired]
    /\ status \in Status
    /\ settled \in BOOLEAN

\* Although a part of its evidence may be older than the accounting record,
\* an analysis that got a record shows COMPLETED only of a job that is over
\* and whose final files support it in every stage (_analyze_bmd_workflow:
\* the trajectories are read after the lookup).
CompletedIsSupported ==
    status = "COMPLETED" /\ record # NoRecord => JobOver /\ SupportedCompletion

\* FAILED is only shown of a job that will not run again, REQUEUED included
\* (_is_active_scheduler_state comes first).
FailedIsFinal == status = "FAILED" => JobOver

\* Of a job that was over before the analysis began, and whose files are
\* all readable, the same status is shown from the root and from every
\* stage: that of the final files of all stages, whichever stage the
\* analysis is invoked in.  (Not with a COMPLETED record of nonzero exit,
\* where _analyze_bmd_workflow lets the marker of that stage decide.)
SameStatusOnceSettled ==
    /\ pc = "done" /\ settled /\ record # NoRecord
    /\ record # [state |-> "COMPLETED", exit |-> "nonzero"]
    => status = PathAnswer(job, [s \in Stages |-> EarlyLook(s)],
                           [slot \in Slots |-> Reading(OnDisk(slot))],
                           FALSE, executed)

\* The same without the exception: the README's claim about directories.
\* Any stage could have been the one the command was invoked in.
SameStatusFromEveryDirectory ==
    pc = "done" /\ settled /\ record # NoRecord
    => \A s \in Stages :
         status = PathAnswer(job, early, [slot \in Slots |-> Reading(OnDisk(slot))],
                             Mark(s) = "true", executed)

\* COMPLETED is only shown when the job ended with exit code 0:0 or VASP
\* terminated normally in every stage, as the README has it.
CompletedMeansTerminated ==
    status = "COMPLETED" /\ record # NoRecord =>
        SchedulerSuccess(record) \/ \A s \in Stages : Mark(s) = "true"
=============================================================================
