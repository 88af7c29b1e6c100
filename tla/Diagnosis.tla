----------------------------- MODULE Diagnosis -----------------------------
(***************************************************************************)
(* bmd-check explaining a job of one stage while it runs and ends:         *)
(* Custodian starts VASP as a step of the job, terminates and restarts it, *)
(* SLURM kills what exceeds its limits; sacct, the logs, custodian.json    *)
(* and the error archives are read one after the other, in the order of    *)
(* the mode, and the end of the job is judged by what they said.           *)
(*                                                                         *)
(* Job mode declares the log of SLURM in submission.json and reads it      *)
(* again, at the path sacct knows, when the first read failed.             *)
(***************************************************************************)
EXTENDS Explanations

CONSTANTS
    MaxErrors,  \* the corrections Custodian allows
    Corrections,    \* those it may make: handler, terminating and remedy
    Monitors,   \* the handlers that terminate VASP, the others look at it once it has ended
    StepIds,    \* the numbers of the steps that run VASP, in their order (bound)
    Figures,    \* what sacct says of each of them: rss, tasks, cpus and nodes
    Memories,   \* what sacct may say of the memory of the job: scope and size
    MaxWarnings,    \* messages VASP writes of its own accord (bound)
    MaxFaults   \* reads that fail (bound)

ASSUME DiagnosisAssumption ==
    /\ MaxErrors \in Nat \ {0} /\ MaxWarnings \in Nat /\ MaxFaults \in Nat
    /\ StepIds \in Seq(Nat)
    /\ \A i, j \in DOMAIN StepIds : i < j => StepIds[i] < StepIds[j]

\* A handler whose configuration says is_terminating is one that terminates
\* VASP, and so is the one for frozen jobs.
ASSUME HandlersAssumption ==
    /\ Corrections \subseteq [handler : STRING, terminating : BOOLEAN, remedy : STRING]
    /\ "frozen" \in Monitors /\ "none" \notin Monitors /\ "nonzero" \notin Monitors
    /\ \A correction \in Corrections :
          /\ correction.handler \notin {"none", "nonzero"}
          /\ correction.terminating => correction.handler \in Monitors

Handlers == {correction.handler : correction \in Corrections}

\* What sacct says of a step are numbers, 0 where a field is blank.
ASSUME FiguresAssumption ==
    Figures \in [DOMAIN StepIds -> [rss : Nat, tasks : Nat, cpus : Nat, nodes : Nat]]

VARIABLES
    job,        \* the state of the job
    steps,      \* the steps of the job, as sacct lists them
    stageLog,   \* what VASP of the current step wrote to its logs
    slurmLog,   \* what SLURM wrote to the log of the job
    custodian,  \* custodian.json
    archives,   \* how many error.N.tar.gz there are
    pending,    \* the handler whose error Custodian is correcting, "nonzero" or "none"
    history,    \* what really happened: how often a handler had VASP terminated, ...
    mode,       \* the mode, and whether job mode read a batch first
    todo,       \* the reads to come
    got,        \* what was read
    faults      \* the reads that failed

world == <<job, steps, stageLog, slurmLog, custodian, archives, pending, history>>
vars == <<world, mode, todo, got, faults>>

Mode == {"batch", "live", "path"}

\* The order of the reads.
Reads == [batch |-> <<"sacct", "custodian", "stage", "archives", "slurm", "again">>,
          live |-> <<"sacct", "custodian", "slurm", "stage", "archives", "again">>,
          path |-> <<"sacct", "stage", "slurm", "custodian", "archives">>]

ActiveState == {"RUNNING"}
JobOver == job \notin ActiveState

StepRow(step, state, figures) ==
    [step |-> step, state |-> state, rss |-> figures.rss, tasks |-> figures.tasks,
     cpus |-> figures.cpus, nodes |-> figures.nodes]

NoFigures == [rss |-> 0, tasks |-> 0, cpus |-> 0, nodes |-> 0]

NothingRead == [record |-> NoSacct, messages |-> {}, inspected |-> FALSE,
                custodian |-> NoCustodian, archives |-> 0, calm |-> FALSE,
                oomInRecord |-> FALSE, oomInLog |-> FALSE, slurmRead |-> FALSE]

Init ==
    /\ job = "RUNNING"
    /\ steps = <<>>
    /\ stageLog = <<>>
    /\ slurmLog = <<>>
    /\ custodian = NoCustodian
    /\ archives = 0
    /\ pending = "none"
    /\ history = [terminated |-> [h \in Monitors |-> 0], oom |-> FALSE, nonzero |-> FALSE,
                  budget |-> FALSE, warnings |-> 0]
    /\ mode \in Mode
    /\ todo = Reads[mode]
    /\ got = NothingRead
    /\ faults = 0

-----------------------------------------------------------------------------
(* The job.  What happens after the last read is left out (bound).         *)

Watched == todo # <<>>
LastState == IF steps = <<>> THEN "NONE" ELSE Last(steps).state
Running == Watched /\ ~JobOver /\ LastState = "RUNNING"
Idle == Watched /\ ~JobOver /\ pending = "none" /\ LastState # "RUNNING"

\* The running step ends in this state, with the figures of its RSS.
EndStep(state) ==
    steps' = [steps EXCEPT ![Len(steps)] = StepRow(@.step, state, Figures[Len(steps)])]

\* Custodian truncates the logs of VASP when it starts it again.
StartStep ==
    /\ Idle
    /\ Len(steps) < Len(StepIds)
    /\ LastState # "COMPLETED"
    /\ steps' = Append(steps, StepRow(StepIds[Len(steps) + 1], "RUNNING", NoFigures))
    /\ stageLog' = <<>>
    /\ UNCHANGED <<job, slurmLog, custodian, archives, pending, history>>

VaspWarns ==
    /\ Running
    /\ history.warnings < MaxWarnings
    /\ stageLog' = Append(stageLog, IF Contains(stageLog, "zbrent") THEN "brmix" ELSE "zbrent")
    /\ history' = [history EXCEPT !.warnings = @ + 1]
    /\ UNCHANGED <<job, steps, slurmLog, custodian, archives, pending>>

\* What Custodian writes to the log of the job when a handler finds an error.
Announcement(handler) == IF handler = "frozen" THEN "frozen_error" ELSE "vasp_error"

\* A handler that watches VASP finds an error; Custodian terminates VASP,
\* which reports the signal.
TerminateVasp ==
    /\ Running
    /\ \E handler \in Handlers \cap Monitors :
          /\ pending' = handler
          /\ slurmLog' = Append(slurmLog, Announcement(handler))
          /\ history' = [history EXCEPT !.terminated[handler] = @ + 1]
    /\ stageLog' = Append(stageLog, "sigterm")
    /\ EndStep("FAILED")
    /\ UNCHANGED <<job, custodian, archives>>

\* VASP ends by itself, and a handler finds an error in what it left.
EndWithError ==
    /\ Running
    /\ \E handler \in Handlers \ Monitors :
          /\ pending' = handler
          /\ slurmLog' = Append(slurmLog, Announcement(handler))
    /\ EndStep("FAILED")
    /\ UNCHANGED <<job, stageLog, custodian, archives, history>>

Correcting == pending \in Handlers

\* It keeps the files, records the correction, and gives up at the limit.
ArchiveFiles ==
    /\ Watched /\ ~JobOver /\ Correcting
    /\ archives = Len(custodian.corrections)
    /\ archives' = archives + 1
    /\ UNCHANGED <<job, steps, stageLog, slurmLog, custodian, pending, history>>

RecordCorrection ==
    /\ Watched /\ ~JobOver /\ Correcting
    /\ archives > Len(custodian.corrections)
    /\ \E correction \in {c \in Corrections : c.handler = pending} :
          LET spent == Len(custodian.corrections) + 1 = MaxErrors
          IN  /\ custodian' = [present |-> TRUE,
                               corrections |-> Append(custodian.corrections, correction),
                               flags |-> IF spent THEN {"max_errors"} ELSE {}]
              /\ history' = [history EXCEPT !.budget = spent]
              /\ job' = IF spent THEN "FAILED" ELSE job
    /\ pending' = "none"
    /\ UNCHANGED <<steps, stageLog, slurmLog, archives>>

\* VASP ends with a nonzero code, for want of memory or not; Custodian
\* records that and ends the job.
CrashVasp ==
    /\ Running
    /\ \E lines \in {<<>>, <<"alloc">>} : stageLog' = stageLog \o lines
    /\ EndStep("FAILED")
    /\ pending' = "nonzero"
    /\ history' = [history EXCEPT !.nonzero = TRUE]
    /\ UNCHANGED <<job, slurmLog, custodian, archives>>

\* The kernel kills VASP; SLURM says so in its log and in accounting.
KillForMemory ==
    /\ Running
    /\ EndStep("OUT_OF_MEMORY")
    /\ slurmLog' = Append(slurmLog, "oom")
    /\ pending' = "nonzero"
    /\ history' = [history EXCEPT !.oom = TRUE, !.nonzero = TRUE]
    /\ UNCHANGED <<job, stageLog, custodian, archives>>

RecordNonzero ==
    /\ Watched /\ ~JobOver /\ pending = "nonzero"
    /\ custodian' = [custodian EXCEPT !.present = TRUE,
                                      !.flags = @ \cup {"nonzero_return_code"}]
    /\ job' \in {"FAILED"} \cup {s \in {"OUT_OF_MEMORY"} : history.oom}
    /\ pending' = "none"
    /\ UNCHANGED <<steps, stageLog, slurmLog, archives, history>>

\* The time limit, or scancel: VASP reports the same signal.
KillJob ==
    /\ Running
    /\ job' \in {"TIMEOUT", "CANCELLED"}
    /\ EndStep("CANCELLED")
    /\ stageLog' = Append(stageLog, "sigterm")
    /\ UNCHANGED <<slurmLog, custodian, archives, pending, history>>

EndVasp ==
    /\ Running
    /\ EndStep("COMPLETED")
    /\ UNCHANGED <<job, stageLog, slurmLog, custodian, archives, pending, history>>

EndJob ==
    /\ Idle
    /\ LastState = "COMPLETED"
    /\ job' = "COMPLETED"
    /\ UNCHANGED <<steps, stageLog, slurmLog, custodian, archives, pending, history>>

WorldNext ==
    \/ StartStep \/ VaspWarns \/ TerminateVasp \/ EndWithError \/ ArchiveFiles \/ RecordCorrection
    \/ CrashVasp \/ KillForMemory \/ RecordNonzero \/ KillJob \/ EndVasp \/ EndJob

-----------------------------------------------------------------------------
(* The reads.                                                              *)

Reading(name) ==
    /\ todo # <<>>
    /\ Head(todo) = name
    /\ todo' = Tail(todo)
    /\ UNCHANGED <<world, mode>>

\* A read that fails leaves what is known as it is.
Learn(new) ==
    \/ /\ got' = new
       /\ faults' = faults
    \/ /\ faults < MaxFaults
       /\ faults' = faults + 1
       /\ got' = got

JobRow == [StepRow(NoStep, job, NoFigures) EXCEPT !.nodes = 1]

ReadSacct ==
    /\ Reading("sacct")
    /\ Learn([got EXCEPT !.record = ParseSacct(<<JobRow>>, steps),
                         !.calm = JobOver, !.oomInRecord = history.oom])

\* Path mode counts custodian.json among the logs it has looked into.
ReadCustodian ==
    /\ Reading("custodian")
    /\ Learn([got EXCEPT !.custodian = IF custodian.present THEN ParseCustodian(<<custodian>>)
                                                           ELSE NoCustodian,
                         !.inspected = @ \/ (mode = "path" /\ custodian.present)])

ReadStageLogs ==
    /\ Reading("stage")
    /\ Learn([got EXCEPT !.messages = @ \cup DiagnosticMessages(stageLog),
                         !.inspected = @ \/ steps # <<>>])

\* Mutant: the archives are counted from zero.
ReadArchivesFromZero ==
    /\ Reading("archives")
    /\ Learn([got EXCEPT !.archives = archives + 1])

ReadArchives ==
    /\ Reading("archives")
    /\ Learn([got EXCEPT !.archives = archives])

ReadSlurmLog ==
    /\ Reading("slurm")
    /\ Learn([got EXCEPT !.messages = @ \cup IF mode = "path" THEN DiagnosticMessages(slurmLog)
                                                             ELSE RuntimeMessages(slurmLog),
                         !.inspected = TRUE, !.slurmRead = TRUE,
                         !.oomInLog = history.oom])

\* Only for memory, and only when sacct gave the path and it was not read.
ReadSlurmLogAgain ==
    /\ Reading("again")
    /\ IF Known(got.record) /\ ~got.slurmRead
       THEN Learn([got EXCEPT !.messages = @ \cup CandidateLines(slurmLog, OomWords),
                              !.inspected = TRUE, !.oomInLog = history.oom])
       ELSE UNCHANGED <<got, faults>>

Next ==
    \/ WorldNext /\ UNCHANGED <<mode, todo, got, faults>>
    \/ ReadSacct \/ ReadCustodian \/ ReadStageLogs \/ ReadArchives
    \/ ReadSlurmLog \/ ReadSlurmLogAgain

Spec == Init /\ [][Next]_vars

-----------------------------------------------------------------------------

Oom(memory) == OomAssessment(got.record, memory, got.messages, got.inspected)

Termination == TerminationAssessment(got.record, got.custodian, got.messages, got.archives)

OomStatus == {"ESTABLISHED", "POSSIBLE", "NO_EVIDENCE", "INSUFFICIENT"}

TypeOK ==
    /\ job \in {"RUNNING", "COMPLETED", "FAILED", "OUT_OF_MEMORY", "TIMEOUT", "CANCELLED"}
    /\ Len(steps) <= Len(StepIds)
    /\ stageLog \in Seq(LineKind) /\ slurmLog \in Seq(LineKind)
    /\ custodian.corrections \in Seq(Corrections) /\ Len(custodian.corrections) <= MaxErrors
    /\ custodian.flags \subseteq {"max_errors", "nonzero_return_code"}
    /\ archives \in 0..MaxErrors
    /\ pending \in {"none", "nonzero"} \cup Handlers
    /\ mode \in Mode /\ faults \in 0..MaxFaults
    /\ got.messages \subseteq LineKind /\ got.archives \in 0..MaxErrors
    /\ got.custodian.corrections \in Seq(Corrections)
    /\ Len(got.record.rows) <= Len(StepIds) + 1
    /\ LargestRow(got.record) \in 0..Len(got.record.rows)
    /\ \A memory \in Memories : Oom(memory) \in OomStatus

Done == todo = <<>>

\* Exhausted memory is ESTABLISHED only of a job of which a step was killed
\* for memory; and it is, whatever the order of the reads and however many
\* of them failed, when the step was killed before sacct answered (with the
\* job itself FAILED), or before job mode read the log of SLURM, where other
\* errors do not push the message out of the lines that are kept.
OomVerdictIsSound ==
    Done => \A memory \in Memories :
       /\ Oom(memory) = "ESTABLISHED" => history.oom
       /\ got.oomInRecord \/ (mode # "path" /\ got.oomInLog) => Oom(memory) = "ESTABLISHED"

\* The RSS of a task is held against the memory of the job only if the very
\* step it was measured in allows that.  The exception is a step whose number
\* begins with that of an earlier one: its row is looked up by a search for
\* the id in a text, which finds the earlier step.
MemoryOfItsStep ==
    Done => \A memory \in Memories :
       LET rows == got.record.rows
           i == LargestRow(got.record)
       IN  UtilizationKnown(got.record, memory)
           => \/ Comparable(rows[i], memory.scope)
              \/ \E j \in 2..(i - 1) : BeginsWith(rows[i].step, rows[j].step)

\* Two records of the same correction, of one of these handlers.
SameTwice(corrections, handlers) ==
    \E i, j \in DOMAIN corrections :
        i # j /\ corrections[i] = corrections[j] /\ corrections[i].handler \in handlers

\* Whatever is said of the end of the job did happen to it.  An end laid to
\* Custodian is one of a job in which Custodian terminated VASP twice for the
\* same handler and corrected it twice in the same way; and if the job was
\* over before the first read, Custodian gave up on it, or it was cancelled,
\* which leaves the same signal in the logs.
TerminationIsSupported ==
    Done => /\ Termination = "custodian_triggered_process_termination"
               => /\ \E handler \in Monitors : /\ SameTwice(custodian.corrections, {handler})
                                               /\ history.terminated[handler] > 1
                  /\ got.calm => history.budget \/ job = "CANCELLED"
            /\ Termination = "slurm_timeout" => job = "TIMEOUT"
            /\ Termination = "slurm_out_of_memory" => history.oom
            /\ Termination = "vasp_nonzero_exit_observed" => history.nonzero

\* What custodian.json shows to terminate VASP: the handler of frozen jobs, and
\* those whose configuration says so.
ShownToTerminate ==
    {"frozen"} \cup {correction.handler : correction \in {c \in ToSet(custodian.corrections) : c.terminating}}

\* A job that is over because Custodian, having terminated VASP and corrected
\* it in the same way twice, gave up on it, is explained so once everything
\* was read, unless VASP wrote so much before the last signal that the line
\* with it was dropped.
CustodianIsRecognised ==
    /\ Done /\ faults = 0 /\ got.calm
    /\ history.budget /\ SameTwice(custodian.corrections, ShownToTerminate)
    /\ Last(custodian.corrections).handler \in Monitors
    /\ Len(stageLog) <= Limit
    => Termination = "custodian_triggered_process_termination"
=============================================================================
