-------------------------- MODULE StageTrajectory --------------------------
(***************************************************************************)
(* One stage looked at while VASP may still write into it: the trajectory  *)
(* of OSZICAR, vasprun.xml and OUTCAR, each read at another moment, the    *)
(* force given to every ionic step, and the labels and the course of the   *)
(* forces that the report shows beside the status.                         *)
(*                                                                         *)
(* The world is WorkflowRun's, one stage of it, line by line: a table of   *)
(* OUTCAR can be caught half written.  The criteria of INCAR are known.    *)
(***************************************************************************)
EXTENDS StageProgress, OutcarForces, FiniteSets

CONSTANTS
    MaxRuns,    \* VASP runs in the directory, restarts included (bound)
    MaxSteps,   \* ionic steps of a run (bound)
    Criterion,  \* the largest force that meets EDIFFG
    Prefix,     \* the cycles in the part of OSZICAR that path mode reads
    TailLines,       \* the lines in the part of OUTCAR that path mode reads
    MaxFaults   \* reads that fail (bound)

ASSUME TrajectoryAssumption ==
    /\ MaxRuns \in Nat /\ MaxSteps \in Nat /\ MaxFaults \in Nat
    /\ Criterion \in 0..MaxForce /\ Prefix \in Nat \ {0} /\ TailLines \in Nat \ {0}

VARIABLES
    run,        \* how many VASP runs there were, if one is running, if the job is over
    oszicar,    \* the completed cycles, and whether one is open
    table,      \* lines of the force table of the open cycle written so far
    outcar,     \* the lines of OUTCAR
    vasprun,    \* vasprun.xml, of use once it is closed
    forces,     \* the forces of the steps as VASP computed them
    mode,       \* "job" or "path"
    pc,         \* the read that comes next
    got,        \* what was read
    faults      \* the reads that failed

world == <<run, oszicar, table, outcar, vasprun, forces>>
vars == <<run, oszicar, table, outcar, vasprun, forces, mode, pc, got, faults>>

NoForce == -1   \* no number

\* A cycle ends because EDIFF is met, or at the limit.
Cycle == {[iterations |-> n, measure |-> "reached"] : n \in 1..NELM}
         \cup {[iterations |-> NELM, measure |-> "above"]}

ForceValue == 0..MaxForce \cup {NoForce}

OszicarType == [readable : BOOLEAN, cycles : Seq(Cycle), open : BOOLEAN]
VasprunType == [closed : BOOLEAN, forces : Seq(ForceValue), flagE : Flag, flagI : Flag]

\* What is read of a stage; truth and calm are history: the forces of the
\* steps when OUTCAR was read, and whether the job was over at the first read.
GotType == [oszicar : OszicarType, vasprun : VasprunType, blocks : Seq(Block),
            truth : Seq(ForceValue), calm : BOOLEAN]

NoOszicar == [readable |-> FALSE, cycles |-> <<>>, open |-> FALSE]
NoVasprun == [closed |-> FALSE, forces |-> <<>>, flagE |-> "none", flagI |-> "none"]
NothingRead == [oszicar |-> NoOszicar, vasprun |-> NoVasprun,
                blocks |-> <<>>, truth |-> <<>>, calm |-> FALSE]

TableLength == Sites + 3    \* header, separator, rows, separator

Init ==
    /\ run = [number |-> 0, running |-> FALSE, over |-> FALSE]
    /\ oszicar = NoOszicar
    /\ table = 0
    /\ outcar = <<>>
    /\ vasprun = NoVasprun
    /\ forces = <<>>
    /\ mode \in {"job", "path"}
    /\ pc = "first"
    /\ got = NothingRead
    /\ faults = 0

-----------------------------------------------------------------------------
(* VASP, Custodian and SLURM.  What they do after the last read is left    *)
(* out (bound).                                                            *)

Watched == pc # "done"

StartVasp ==
    /\ Watched
    /\ ~run.over /\ ~run.running
    /\ run.number < MaxRuns
    /\ run' = [run EXCEPT !.number = @ + 1, !.running = TRUE]
    /\ oszicar' = [NoOszicar EXCEPT !.readable = TRUE]
    /\ table' = 0
    /\ outcar' = <<>>
    /\ vasprun' = NoVasprun
    /\ forces' = <<>>
    /\ UNCHANGED <<mode, pc, got, faults>>

OpenCycle ==
    /\ Watched
    /\ run.running
    /\ ~oszicar.open
    /\ Len(oszicar.cycles) < MaxSteps
    /\ oszicar' = [oszicar EXCEPT !.open = TRUE]
    /\ UNCHANGED <<run, table, outcar, vasprun, forces, mode, pc, got, faults>>

\* The lines that may come after the first n lines of a table.
LinesAfter(n) ==
    CASE n = 0 -> {[kind |-> "header", force |-> 0]}
      [] n \in {1, Sites + 2} -> {[kind |-> "separator", force |-> 0]}
      [] OTHER -> [kind : {"row"}, force : 0..MaxForce]
                  \cup {[kind |-> "nan", force |-> 0],
                        [kind |-> "stars", force |-> MaxForce]}

\* The force of a table with these rows.
ForceOfRows(rows) ==
    IF \E i \in DOMAIN rows : rows[i].kind = "nan"
    THEN NoForce
    ELSE Max({rows[i].force : i \in DOMAIN rows})

WriteLine ==
    /\ Watched
    /\ run.running
    /\ oszicar.open
    /\ table < TableLength
    /\ \E line \in LinesAfter(table) : outcar' = Append(outcar, line)
    /\ table' = table + 1
    /\ forces' = IF table + 1 = TableLength
                 THEN Append(forces, ForceOfRows(
                          SubSeq(outcar, Len(outcar) - Sites + 1, Len(outcar))))
                 ELSE forces
    /\ UNCHANGED <<run, oszicar, vasprun, mode, pc, got, faults>>

\* The summary line of a step follows its forces.
SummariseStep ==
    /\ Watched
    /\ run.running
    /\ oszicar.open
    /\ table = TableLength
    /\ \E cycle \in Cycle :
          oszicar' = [oszicar EXCEPT !.cycles = Append(@, cycle), !.open = FALSE]
    /\ table' = 0
    /\ UNCHANGED <<run, outcar, vasprun, forces, mode, pc, got, faults>>

\* VASP ends by itself, and never with forces that are no numbers.
EndVasp ==
    /\ Watched
    /\ run.running
    /\ ~oszicar.open
    /\ oszicar.cycles # <<>>
    /\ \A i \in DOMAIN forces : forces[i] # NoForce
    /\ \E flagE, flagI \in {"true", "false"} :
          vasprun' = [closed |-> TRUE, forces |-> forces, flagE |-> flagE, flagI |-> flagI]
    /\ run' = [run EXCEPT !.running = FALSE]
    /\ UNCHANGED <<oszicar, table, outcar, forces, mode, pc, got, faults>>

\* VASP crashes, or Custodian terminates it.
CrashVasp ==
    /\ Watched
    /\ run.running
    /\ run' = [run EXCEPT !.running = FALSE]
    /\ UNCHANGED <<oszicar, table, outcar, vasprun, forces, mode, pc, got, faults>>

\* The job ends, or SLURM kills it with what it runs.
EndJob ==
    /\ Watched
    /\ ~run.over
    /\ run' = [run EXCEPT !.running = FALSE, !.over = TRUE]
    /\ UNCHANGED <<oszicar, table, outcar, vasprun, forces, mode, pc, got, faults>>

-----------------------------------------------------------------------------
(* The reads, in the order of both modes.  Of the last stage, job mode has *)
(* vasprun.xml from the scientific result when the batch brought no        *)
(* OSZICAR: it is the first to be read, and not read again.                *)

Fails == faults < MaxFaults /\ faults' = faults + 1
Succeeds == faults' = faults

\* Path mode cuts OSZICAR off after its first part.
OszicarText ==
    IF mode = "path" /\ Len(oszicar.cycles) > Prefix
    THEN [oszicar EXCEPT !.cycles = SubSeq(@, 1, Prefix), !.open = TRUE]
    ELSE oszicar

ReadOszicar ==
    /\ pc \in {"first", "oszicar"}
    /\ pc' = "vasprun"
    /\ \/ /\ Succeeds
          /\ got' = [got EXCEPT !.oszicar = OszicarText, !.calm = run.over]
       \/ /\ Fails
          /\ got' = [got EXCEPT !.calm = run.over]
    /\ UNCHANGED <<world, mode>>

\* A vasprun.xml that is not there, or seems so because a presence test is
\* lost, is left to the trajectory.
ReadResult ==
    /\ pc = "first" /\ mode = "job"
    /\ \/ /\ Succeeds
          /\ run.number > 0
          /\ got' = [got EXCEPT !.vasprun = vasprun, !.calm = run.over]
          /\ pc' = "oszicar after result"
       \/ /\ Fails
          /\ UNCHANGED got
          /\ pc' = "oszicar"
    /\ UNCHANGED <<world, mode>>

ReadOszicarLater ==
    /\ pc = "oszicar after result"
    /\ pc' = "outcar"
    /\ \/ Succeeds /\ got' = [got EXCEPT !.oszicar = OszicarText]
       \/ Fails /\ UNCHANGED got
    /\ UNCHANGED <<world, mode>>

\* A vasprun.xml that is still open does not parse.
ReadVasprun ==
    /\ pc = "vasprun"
    /\ pc' = "outcar"
    /\ \/ Succeeds /\ got' = [got EXCEPT !.vasprun = vasprun]
       \/ Fails /\ UNCHANGED got
    /\ UNCHANGED <<world, mode>>

\* The whole file goes through awk on the cluster; path mode reads its end.
OutcarText ==
    IF mode = "job" \/ Len(outcar) <= TailLines
    THEN outcar
    ELSE SubSeq(outcar, Len(outcar) - TailLines + 1, Len(outcar))

Extracted(sites) ==
    [got EXCEPT !.blocks = Blocks(OutcarText, mode, sites), !.truth = forces]

\* With it goes the number of sites, when POSCAR, which nothing changes,
\* can be read.
ReadOutcar ==
    /\ pc = "outcar"
    /\ pc' = "done"
    /\ \/ Succeeds /\ got' = Extracted(Sites)
       \/ Fails /\ got' \in {Extracted(Unknown), got}
    /\ UNCHANGED <<world, mode>>

Next ==
    \/ StartVasp \/ OpenCycle \/ WriteLine \/ SummariseStep
    \/ EndVasp \/ CrashVasp \/ EndJob
    \/ ReadResult \/ ReadOszicar \/ ReadOszicarLater \/ ReadVasprun \/ ReadOutcar

Spec == Init /\ [][Next]_vars

-----------------------------------------------------------------------------
(* What is made of the reads.                                              *)

Steps == IF got.oszicar.readable THEN Len(got.oszicar.cycles) ELSE NoCount

OutcarStepForces == ForcesOfSteps(Steps, got.blocks, mode)

\* Job mode alone takes forces from vasprun.xml, of as many steps as it has.
VasprunForces == IF mode = "job" THEN got.vasprun.forces ELSE <<>>

StepsKnown == Max({Steps, 0, Len(VasprunForces)})

\* vasprun.xml comes first, OUTCAR fills the gaps.
StepForce(i) ==
    CASE i \in DOMAIN VasprunForces ->
            [force |-> VasprunForces[i], source |-> "vasprun"]
      [] i \notin DOMAIN VasprunForces /\ i \in DOMAIN OutcarStepForces ->
            [force |-> OutcarStepForces[i], source |-> "outcar"]
      [] OTHER -> [force |-> NoForce, source |-> "none"]

\* Mutant: the best step is judged.
BestForce ==
    LET known == {i \in 1..StepsKnown : StepForce(i).force # NoForce}
    IN  IF known = {}
        THEN StepForce(0)
        ELSE StepForce(CHOOSE i \in known :
                \A j \in known : StepForce(i).force <= StepForce(j).force)

\* The last step that any file knows is the one that is judged.
FinalForce == StepForce(StepsKnown)

\* Mutant: the first completed cycle is judged.
FirstCycleMeasure ==
    IF Steps > 0 THEN got.oszicar.cycles[1].measure ELSE "none"

\* The last completed cycle is judged, never the open one.
CycleMeasure ==
    IF Steps > 0 THEN got.oszicar.cycles[Steps].measure ELSE "none"

TrajectoryEvidence ==
    [flagE |-> got.vasprun.flagE, flagI |-> got.vasprun.flagI,
     cycle |-> CycleMeasure,
     force |-> CASE FinalForce.force = NoForce -> "none"
                 [] FinalForce.force \in 0..Criterion -> "reached"
                 [] OTHER -> "above",
     source |-> FinalForce.source]

TrajectorySteps ==
    [steps |-> Steps, open |-> got.oszicar.open,
     iterations |-> [i \in DOMAIN got.oszicar.cycles |-> got.oszicar.cycles[i].iterations]]

\* Mutant: the steps without a force are not left out.
ForcesOfEveryStep ==
    [i \in 1..(IF Steps = NoCount THEN StepsKnown ELSE Steps) |-> StepForce(i).force]

\* The forces of the completed steps, in their order.
ShownForces ==
    LET last == IF Steps = NoCount THEN StepsKnown ELSE Steps
        all == [i \in 1..last |-> StepForce(i).force]
    IN  Picked(all, {i \in 1..last : all[i] # NoForce})

\* What the report shows of a stage of this kind.
Report(ionic, cell) ==
    [label |-> StageLabel(TrajectoryEvidence, TrajectorySteps, ionic, cell),
     electronic |-> ElectronicLabel(TrajectoryEvidence, TrajectorySteps),
     ionic |-> IonicLabel(TrajectoryEvidence, cell),
     progress |-> Progress(ShownForces)]

-----------------------------------------------------------------------------

\* The forces of a course are numbers, and its best step and its improvements
\* are steps of the course.
CourseOK(course) ==
    /\ {course.initial, course.current, course.best} \subseteq Nat
    /\ course.count \in Nat
    /\ course.step \in 0..course.count
    /\ course.improvements \in 0..course.count

\* The files, what was read of them, and what is made of it: the evidence that
\* the assessments take and the course of the forces (_trajectory_criteria,
\* _trajectory_force_steps).
TypeOK ==
    /\ run \in [number : 0..MaxRuns, running : BOOLEAN, over : BOOLEAN]
    /\ oszicar \in OszicarType
    /\ table \in 0..TableLength
    /\ outcar \in Seq(Line)
    /\ vasprun \in VasprunType
    /\ forces \in Seq(ForceValue)
    /\ mode \in {"job", "path"}
    /\ pc \in {"first", "oszicar", "oszicar after result", "vasprun", "outcar", "done"}
    /\ got \in GotType
    /\ faults \in 0..MaxFaults
    /\ pc = "done" => TrajectoryEvidence \in Evidence /\ CourseOK(Progress(ShownForces))

Done == pc = "done"

\* The job was over, whatever it left behind, before the first read.
Calm == Done /\ got.calm

\* A force out of OUTCAR is the one VASP computed in that very step of the
\* run that wrote OUTCAR, although the file was half written or cut off, had
\* rows that are no numbers, and is newer than the OSZICAR beside it.  Path
\* mode counts blocks, and gives this only of a job that is over, whose forces
\* are numbers, and when OSZICAR as read has every step that has forces:
\* else a spoilt or cut off block and a missing summary line make up for each
\* other, and the step before gets the force of the step after.
ForcesAreOfTheirSteps ==
    /\ Done
    /\ \/ mode = "job"
       \/ /\ got.calm
          /\ Len(got.truth) = Steps
          /\ \A i \in DOMAIN got.truth : got.truth[i] # NoForce
    => \A i \in DOMAIN OutcarStepForces :
          i \in DOMAIN got.truth /\ OutcarStepForces[i] = got.truth[i]

\* The label shown for a stage and the convergence its status is derived
\* from are computed by different functions; of files that rest they say the
\* same, for every kind of stage.
LabelAgreesWithStatus ==
    Calm => \A ionic, cell \in BOOLEAN :
               (Report(ionic, cell).label = "CONVERGED")
               <=> (StageConvergence(TrajectoryEvidence, ionic, cell) = "converged")

\* Of files that rest, the electronic scope is CONVERGED only when VASP says
\* so, or its last cycle met EDIFF; the one exception is an OSZICAR longer
\* than the part that path mode reads, which is judged by an older cycle.
ConvergedByTheLastCycle ==
    Calm /\ Report(FALSE, FALSE).electronic = "CONVERGED"
    => \/ vasprun.flagE = "true"
       \/ oszicar.cycles # <<>> /\ oszicar.cycles[Len(oszicar.cycles)].measure = "reached"
       \/ mode = "path" /\ Len(oszicar.cycles) > Prefix

\* When the forces make a relaxation CONVERGED, the current force shown beside
\* the label meets the criterion: the label judges the last step known to any
\* file, the course of the forces ends with the last one of OSZICAR.
ShownForceSupportsLabel ==
    Calm /\ Report(TRUE, FALSE).ionic = "CONVERGED" /\ got.vasprun.flagI # "true"
    => /\ Report(TRUE, FALSE).progress.count > 0
       /\ Report(TRUE, FALSE).progress.current <= Criterion
       /\ Report(TRUE, FALSE).progress.best <= Report(TRUE, FALSE).progress.current
=============================================================================
