---------------------------- MODULE WorkflowRun ----------------------------
(***************************************************************************)
(* The world bmd-check looks at, and never changes: one SLURM job that     *)
(* runs the stages of a bmd-compute workflow one after the other, VASP     *)
(* writing into the directory of each stage, Custodian restarting VASP.    *)
(* None of this is code of the repository; it is modelled from what the    *)
(* code reads of it (the scheduler states it names, the files it opens,    *)
(* the markers, flags and counts it extracts from them).                   *)
(***************************************************************************)
EXTENDS Integers, Functions, Completion

CONSTANTS
    N,              \* number of declared stages
    MaxRuns,        \* VASP runs of a job, restarts included (bound)
    MaxSteps,       \* ionic steps per VASP run (bound)
    Relax,          \* the stages with an ionic scope
    Cell            \* the stages of variable cell (ISIF >= 3)

ASSUME StagesAssumption == N \in Nat \ {0}
ASSUME BoundsAssumption == MaxRuns \in Nat /\ MaxSteps \in Nat
ASSUME ScopesAssumption == Relax \subseteq 1..N /\ Cell \subseteq Relax

Stages == 1..N
Files  == {"incar", "oszicar", "vasprun", "outcar"}

VARIABLES
    job,    \* what SLURM accounting says of the job
    vasp,   \* per stage, how often VASP ran and whether it runs now
    files   \* per stage and file, what is on disk

env == <<job, vasp, files>>

\* One record type for the four files; each uses the fields it has: steps
\* are the completed steps (OSZICAR), force blocks (OUTCAR) or ionic steps
\* (vasprun.xml); closed is the termination marker of OUTCAR and the end
\* of the XML document of vasprun.xml.
Content == [present : BOOLEAN, closed : BOOLEAN, steps : Nat,
            cycle : Measure, force : Measure,
            flagE : Flag, flagI : Flag]

Absent == [present |-> FALSE, closed |-> FALSE, steps |-> 0,
           cycle |-> "none", force |-> "none",
           flagE |-> "none", flagI |-> "none"]

Fresh == [Absent EXCEPT !.present = TRUE]

WorldTypeOK ==
    /\ job \in Record \ {NoRecord}
    /\ vasp \in [Stages -> [runs : Nat, running : BOOLEAN]]
    /\ files \in [Stages -> [Files -> Content]]

WorldInit ==
    /\ job = [state |-> "PENDING", exit |-> "none"]
    /\ vasp = [s \in Stages |-> [runs |-> 0, running |-> FALSE]]
    /\ files \in {[s \in Stages |-> [f \in Files |->
                     IF f = "incar" /\ s \in prepared THEN Fresh ELSE Absent]] :
                  prepared \in {{}, {1}}}

JobOver == job.state \in {"COMPLETED", "FAILED"}

-----------------------------------------------------------------------------
(* SLURM.                                                                  *)

StartJob ==
    /\ job.state \in {"PENDING", "REQUEUED"}
    /\ job' = [state |-> "RUNNING", exit |-> "none"]
    /\ UNCHANGED <<vasp, files>>

\* A requeued job will run again; its processes are gone, its files stay.
RequeueJob ==
    /\ job.state = "RUNNING"
    /\ \E s \in Stages : vasp[s].running
    /\ job' = [state |-> "REQUEUED", exit |-> "none"]
    /\ vasp' = [s \in Stages |-> [vasp[s] EXCEPT !.running = FALSE]]
    /\ UNCHANGED files

\* The batch script ends by itself: only between VASP runs.  sacct may lack
\* the exit code of a COMPLETED job.
EndJob ==
    /\ job.state = "RUNNING"
    /\ \A s \in Stages : ~vasp[s].running
    /\ job' \in {[state |-> "FAILED", exit |-> "nonzero"]} \cup
                [state : {"COMPLETED"}, exit : ExitCode]
    /\ UNCHANGED <<vasp, files>>

\* TIMEOUT, CANCELLED, NODE_FAIL, OUT_OF_MEMORY: VASP stops where it is.
KillJob ==
    /\ job.state = "RUNNING"
    /\ \E exit \in {"zero", "nonzero"} : job' = [state |-> "FAILED", exit |-> exit]
    /\ vasp' = [s \in Stages |-> [vasp[s] EXCEPT !.running = FALSE]]
    /\ UNCHANGED files

-----------------------------------------------------------------------------
(* VASP and Custodian in the directory of stage s.                         *)

\* A run truncates the outputs of the run before it.
StartVasp(s) ==
    /\ job.state = "RUNNING"
    /\ \A t \in Stages : ~vasp[t].running
    /\ \A t \in Stages : t < s => vasp[t].runs > 0
    /\ \A t \in Stages : t > s => vasp[t].runs = 0
    /\ SumFunction([t \in Stages |-> vasp[t].runs]) < MaxRuns
    /\ vasp' = [vasp EXCEPT ![s] = [runs |-> @.runs + 1, running |-> TRUE]]
    /\ files' = [files EXCEPT ![s] = [f \in Files |-> Fresh]]
    /\ UNCHANGED job

Write(s, f, content) == files' = [files EXCEPT ![s][f] = content]

\* The forces of a step reach OUTCAR before its summary line reaches
\* OSZICAR.
WriteForces(s) ==
    /\ vasp[s].running
    /\ files[s]["outcar"].steps = files[s]["oszicar"].steps
    /\ files[s]["outcar"].steps < MaxSteps
    /\ \E force \in {"reached", "above"} :
          Write(s, "outcar", [files[s]["outcar"] EXCEPT !.steps = @ + 1,
                                                        !.force = force])
    /\ UNCHANGED <<job, vasp>>

WriteStep(s) ==
    /\ vasp[s].running
    /\ files[s]["oszicar"].steps < files[s]["outcar"].steps
    /\ \E cycle \in {"reached", "above"} :
          Write(s, "oszicar", [files[s]["oszicar"] EXCEPT !.steps = @ + 1,
                                                          !.cycle = cycle])
    /\ UNCHANGED <<job, vasp>>

\* VASP ends by itself: the marker is written and the XML is closed.  The
\* flags are VASP's own judgement, which the two measures need not share.
EndVasp(s) ==
    /\ vasp[s].running
    /\ files[s]["oszicar"].steps = files[s]["outcar"].steps
    /\ files[s]["oszicar"].steps > 0
    /\ \E flagE, flagI \in {"true", "false"} :
          files' = [files EXCEPT
             ![s]["outcar"] = [files[s]["outcar"] EXCEPT !.closed = TRUE],
             ![s]["vasprun"] = [files[s]["vasprun"] EXCEPT
                                    !.closed = TRUE,
                                    !.steps = files[s]["outcar"].steps,
                                    !.force = files[s]["outcar"].force,
                                    !.flagE = flagE,
                                    !.flagI = flagI]]
    /\ vasp' = [vasp EXCEPT ![s].running = FALSE]
    /\ UNCHANGED job

\* VASP crashes, or Custodian terminates it.
CrashVasp(s) ==
    /\ vasp[s].running
    /\ vasp' = [vasp EXCEPT ![s].running = FALSE]
    /\ UNCHANGED <<job, files>>

WorldNext ==
    \/ StartJob \/ RequeueJob \/ EndJob \/ KillJob
    \/ \E s \in Stages : \/ StartVasp(s) \/ WriteForces(s) \/ WriteStep(s)
                         \/ EndVasp(s) \/ CrashVasp(s)
=============================================================================
