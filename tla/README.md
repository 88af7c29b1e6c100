# Specifications of bmd-check

`bmd-check` (distribution `bmd-agent`) tells a user whether a calculation that
ran, or still runs, on a cluster is finished. It never changes what it looks
at. It asks SLURM for the accounting record of one job, reads the files VASP
wrote into the directory of each stage of a `bmd-compute` workflow, and gives
one of seven statuses. The interesting part is that it looks at a moving
target, one read after the other, over a connection that may fail, and must not
say COMPLETED or INCOMPLETE of something that is neither.

This directory specifies that core in TLA+: the decision functions, the two
ways evidence is gathered (job mode and path mode), the records a job is found
by, the world beside them, the cache of remote files, and the SSH session the
reads go through. Around it stand the explanations given beside a status
(force trajectories, memory, termination) and the maintenance of the packaged
VASP Wiki corpus. TLC checks small instances; TLAPS proves every safety property
of the passing runs for any number of stages, restarts, steps, lines, faults,
files, jobs and commands. Only liveness is left to TLC alone.

## 1. Inventory

The program is one process and one thread. It keeps nothing between two calls.
What makes it hard is outside: SLURM, Custodian and VASP change the job and the
files while it reads, the SSH master is a process of its own, and every remote
read can fail or time out.

| Component (under `src/src/bmd_agent/`) | State | Operations | Interacts with | Hard behaviours | Correct when |
|---|---|---|---|---|---|
| Completion semantics (`resources/completion.py`) | none | `stage_convergence`, `workflow_completion_status` | both modes call it | missing and contradictory evidence | COMPLETED needs positive evidence in every scope of every stage |
| Status of job mode (`presentation.py`) | none | `_job_status`, `_job_stage_completion` | reads a `JobInspection` | states without a name of their own, missing exit codes | scheduler first, evidence only after a clean exit |
| Job inspection (`resources/run.py`) | the record and evidence of one call | `inspect_slurm_job`, `diagnose_remote_run`, `inspect_remote_run` | SLURM adapter, resolution, cache, readers | reads between steps of the job; faults at every read | the reads belong to one instant whenever they count |
| Stage trajectories (`resources/run.py`, `lifecycle.py`) | none | parsers of OSZICAR, OUTCAR, `vasprun.xml`; assessments; progress | readers | half-written tables, rows that are no numbers, files of different age, ISIF | a force belongs to the step it is given to; labels, status and shown forces agree |
| Path mode (`resources/lifecycle.py`) | what was seen of each stage | `analyze_calculation_directory` | SLURM adapter, local files | evidence from before and after the scheduler lookup | one status from every directory; COMPLETED supported by the final files |
| Acquisition cache and readers (`resources/vasp.py`) | records by path and kind, `_disabled` | `prime`, `record`, `remember_file`, `retrieve_remote_file`, `remote_file_exists`, ... | job inspection | batch fails, contents deferred, presence known but contents not | two reads of one file agree; absence is only said of absent files |
| SSH session (`resources/remote.py`) | control path, `_connected`, `_closed` | `runner`, `_run`, `close` | ssh, its master, profiler | timeouts that leave a master, 255, dead sockets | never trusts or forgets a socket wrongly; leaves no master |
| Transport (`resources/transport.py`) | sealed invocations | `observe`, `run_invocation`, `LocalObservationSession` | session | none (a closed set of operations) | only fixed operations are run |
| Telemetry (`profiling.py`) | counters | `_record_subprocess` | session | failures between connecting and counting | no connection is invented |
| SLURM adapter (`resources/slurm.py`) | none | `get_job_accounting`, `get_queue`, parsers | session | array jobs, steps, truncated lines | the allocation's record, not a step's |
| Job resolution (`resources/job_resolution.py`) | none | `resolve_bmd_compute_job` | readers, records | four records read one by one while a resubmission rewrites them | a resolved job is shown with its own records |
| Compute records (`resources/compute_records.py`, `compute.py`) | none | validation of JSON records | resolution, path mode | versions and legacy fields | conflicting records are refused |
| Custodian evidence (`resources/custodian.py`) | none | parses `custodian.json`, judges terminations | both modes | read while Custodian archives, records and restarts | what is said of the end of a job did happen to it |
| Diagnostics (`observations.py`, `oom.py`, `diagnostics.py` in `resources/`) | none | bounded log search, memory evidence | both modes | bounded lines, step rows, scopes of figures, a second look at a log | ESTABLISHED only of memory that ran out |
| Input check (`resources/input_check.py`, `input_reference.py`) | none | POSCAR and options against a manifest | command line | none | compares like with like |
| Scientific context (`bmdex.py`, `context.py`, `synthesis.py` in `resources/`) | none | queries an external command | command line | timeouts | advisory only |
| Configuration (`config.py`, `deployment.py`) | immutable records | read once | everything | precedence of sources | the configured roots bound every path |
| Command line (`cli.py`) | none | dispatch, printing | everything | one session and one cache per call | nothing outlives a call |
| VASP wiki corpus (`vasp_wiki_corpus.py`, `src/tools/vasp_reference/fetch_corpus.py`) | the corpus directory, its ledger, staging directories | `fetch`, `review`, `release`, `diff`, the loader | the wiki, the repository, maintainers | concurrent releases, writes that die, answers that are damaged | what loads was reviewed and released |
| Git provenance (`resources/git.py`) | none | four git commands | command line | none | independent of every status |

`PROJECT.json` says of each component whether it is modelled, and lists the
hazards of this code, each at its line.

## 2. Modules

```
Completion            decision functions, no variables
  WorkflowRun         SLURM, Custodian, VASP and the files (external world)
    Evidence          from the contents of files to measures and flags
      JobObservation      bmd-check JOB_ID beside a live job   --> StatusPromise
      PathObservation     bmd-check PATH beside a live job
  StageProgress       progress labels and the course of the forces
    StageTrajectory       one stage, line by line, beside a live VASP
OutcarForces          the two extractors of force tables, and alignment
    StageTrajectory
Explanations          logs, memory and Custodian evidence as operators
    Diagnosis             the end of a job explained, beside a live job
ComputeRecords        contracts and refusals of the producer records
    JobResolution         job to records, beside resubmissions
VaspCorpus            identity, validation and loader of the corpus
    CorpusRelease         fetch, review and release by several maintainers
AcquisitionCache      the cache of remote files, its batches and its readers
SshSession            the multiplexed session, ssh and its master
StatusPromise         what the statuses promise, no reads in sight
*_proofs              theorems (WorkflowRun_proofs: lemmas both modes use;
                      RemoteAccess_proofs: the cache and the session)
MC*                   the modules TLC starts from
```

**Completion** translates `resources/completion.py`, the two assessments of
`run.py` (1790-2036) and the status functions of `presentation.py` and
`lifecycle.py`. Numbers are reduced to what the code compares: a final
electronic difference or force is `"reached"`, `"above"` its criterion, or
`"none"` when one of the two is missing.

**WorkflowRun** is not code of the repository. It is the world the code reads:
the job goes PENDING, RUNNING, maybe REQUEUED, and ends; VASP runs in one stage
at a time and may be started again in the same directory (Custodian), which
truncates its outputs; OUTCAR gets the forces of a step before OSZICAR gets its
summary; the termination marker and the end of `vasprun.xml` are written last;
a kill stops everything where it is.

**Evidence** says what a read of one file yields and how the reads of a stage
become a `StageTrajectoryObservation`: `Parsed` (an open `vasprun.xml` does not
parse), `HasCriteria` (EDIFF and EDIFFG come from INCAR or `vasprun.xml`),
`Aligned` (`_aligned_outcar_max_forces`). It also defines `SupportedCompletion`
and `SupportedGap`, what the files on disk themselves support at one instant,
independently of the decision functions; the properties compare a status with
these.

**JobObservation**: one action per step of `inspect_slurm_job`.
`ReadScheduler` (sacct), `Resolve`, `Prime` (the batch), `Acquire(slot)` (one
file), `Abandon` (an exception reaches `inspect_slurm_job`), `EndAcquisition`,
`Report` (`_job_status`), `Again` (the command is run once more). `pc` is where
the call is; `acq` holds what was read of each slot; `faulted` the faults that
hit this call. `Rank` is the order of the reads in `inspect_remote_run` and
`_observe_stage_trajectories`; `vasprun.xml` of the last stage is read for the
scientific result first and remembered (`remember_file`). `Faults` lists the
sets of kinds of fault one call may meet.

**PathObservation**: `FindCurrentStage` (`_current_stage_binding`: the directory
of a stage stands for that stage, the root for the last stage with outputs, or
the first before there are any), `LookAt(s)` (`_stage_evidence`), `LookAtTarget`,
`LookupScheduler`, `DetectNormalCompletion` (the marker of the stage found
first), `ReadLocal(slot)`, `Classify`, `AskAgain`. Here the scheduler is asked in
the middle: started and marker of a stage are older than the record,
trajectories are younger.

**ComputeRecords** has the contracts of `compute_records.py` (schema and version
of the three records, the legacy forms, provenance, automatic treatments) as
functions that return the first refusal. **JobResolution** is
`resolve_bmd_compute_job` look by look: a primed batch, or the presence test, the
size and the contents of the job record, `submission.json`, the attempt state
and the runtime record, with `_validate_resolution` and its cross checks after
each; beside it BMD Compute prepares, submits and resubmits, one file at a time.

**OutcarForces** holds both extractors of force tables: `Feed` is a line fed to
the awk program of `observations.py` (job mode) or to
`parse_outcar_force_blocks` (path mode), which differ in what they take for a
number; `Aligned` is the rule of each mode for when blocks belong to steps.
`Scanned` (the extractor after some lines) and `Picked` (the elements at some
places) are recursive functions, so that proofs can unfold them.
**StageProgress** holds the labels of `_assess_electronic_progress`,
`_assess_ionic_progress` and `_assess_stage_progress` and the figures of
`derive_trajectory_progress_evidence`. **StageTrajectory** puts them beside VASP
writing one stage line by line: `ReadOszicar`, `ReadVasprun` and `ReadOutcar`
are the reads of `_observe_stage_trajectory` and its local counterpart;
`ReadResult` and `ReadOszicarLater` are those of the last stage in job mode when the batch brought
no OSZICAR: `_derive_scientific_result` has then read `vasprun.xml` before, and the
trajectory is given the remembered bytes. `StepForce` is the merge, `Report` what is shown. `truth` and `forces` remember what VASP really
computed; only properties look at them.

**Explanations** has the bounded searches of logs, the selection of sacct rows,
`assess_oom_evidence` and `assess_termination_evidence`. **Diagnosis** runs them
beside a job in which handlers of Custodian terminate VASP or find an error when it
has ended, correct it in one of several ways and restart it (log line, archive,
then `custodian.json`: three steps), the kernel kills a step for memory, VASP
crashes, or the job is cancelled or times out. `Reads` gives the order of the
reads of job mode with a batch, job mode without, and path mode;
`ReadSlurmLogAgain` is the second look of `_assess_remote_oom_evidence`.
`history` remembers what really happened.

**VaspCorpus** is `vasp_wiki_corpus.py`: the digest, the validation of manifest,
license, pages and ledger, and `Loads`, every check of the offline loader.
**CorpusRelease** is the maintainer tool: `Fetch`, `FetchSite`, `FetchPage`,
`FinishFetch`, `Review`, `ReleaseCorpus`, and `Write`, which gives each
directory that an interrupted `_write_corpus` can leave.

**AcquisitionCache**: `Prime` is `prime` with `_pending_requests`; `StartBatch`,
`EndBatch` and `LoseBatch` are the loop around `_acquire_batch`, and between
them the shell script of `observations.py` describes one item after the other:
`DescribeMissing` (`[ -f ]`), `DescribeListed` (metadata only, deferred, or not
readable), `DescribeSize` (`stat`) and then `ReadItem` (`head -c`), with
`Take` what `_parse_acquisition_output` makes of it. `RetrieveCached` and
`RetrieveRemote` are `retrieve_remote_file`; `Invoke` starts the next command
with a new cache. `Append`, `Rewrite` and `Remove` are other processes. The
module is about one file at a time and knows nothing of jobs; `JobObservation`
uses the batch as one step (`Prime`) and is not composed with it.

**SshSession**: `StartCommand` and `FinishCommand` are the two halves of
`_run`, with ssh between them; `Keep` and `Discard` are its exception handlers
and `_update_connection_state`; `CloseWithExit` and `CloseWithoutExit` are
`close`. The client, the master and the expiry of the master are external.

**StatusPromise** is the abstract specification of job mode: execution settles
once, the final files then support completion, a gap, both or neither, and a
question is answered COMPLETED or INCOMPLETE only when that is supported.
`JobObservation!Promise` instantiates it, `KeepsPromise` is the refinement.

### Abstractions

- All stages are bound to directories and the producer's result directory is
  that of the last stage. An inspection that does not resolve has no stages.
- INCAR sets EDIFF and EDIFFG when it can be read; ISIF is a property of the
  stage (`Cell`).
- A read of one file is atomic, and so is the early look at one stage in path
  mode (two listings and one tail). Splitting that look only makes the marker
  older than it already may be against everything that is read later.
- A file that exists is not empty. (An empty one says as little as one with no
  steps.)
- Scheduler states are grouped by what the code does with them; the comment
  before `SchedulerState` lists the groups.
- In JobObservation and PathObservation parsers are functions of whole,
  half-written or absent files. StageTrajectory has the lines of OUTCAR, but
  cycles of OSZICAR are whole: pymatgen parses them.
- StageTrajectory is one stage with one read of each file; the criteria are
  those of INCAR, and a force is one of few numbers, compared with one criterion.
- In Diagnosis there is one stage with one `custodian.json`. A correction is its
  handler, whether its configuration says `is_terminating`, and the rest (errors,
  timeout, other configuration, actions) as one remedy: two are repeated when they
  are equal. `Monitors` are the handlers that terminate VASP; one whose
  configuration says so is taken for one of them, and the handler of frozen jobs is
  one. What a container announces of memory is left out.
- In Diagnosis a line is the kind of its message and a memory figure is a number
  of one unit. A step of the job is one VASP run. Nothing happens after the last
  read: no property could see it.
- In `AcquisitionCache` contents are a generation of the file and a length:
  within a generation a file only grows, so equal pairs are equal bytes.
  Directory and archive entries have no contents and are left out; because they
  share the batches, a batch may hold any number of files up to its limit. The
  order of the items in a batch is free.
- In JobResolution roots are fixed and links out of them left out; the plain
  fields of a record whose type is checked are one field.
- In CorpusRelease a staging directory has one user, so a command that only
  works on it is one step; the interrupted write is not.

## 3. Runs

| Run | Instance | Expected | Shows |
|---|---|---|---|
| `MCJobOne` | 1 relaxation of variable cell, 2 VASP runs, 1 ionic step, up to 2 faults per call (sacct; lost batches and presence tests; a failed read; a timeout) | pass | `TypeOK`, `StatusOfTheFinalFiles`, `CompletedIsSupported`, `IncompleteIsSupported`, `KeepsPromise` |
| `MCJobLost` | lost batches and presence tests only | violation | `IncompleteMeansAGap` |
| `MCJobRequeued` | no faults | violation | `FailedIsFinal` |
| `MCPathOne` | 2 stages, the first a relaxation, 2 VASP runs, with and without record, an OUTCAR that may be unreadable | pass | `TypeOK`, `CompletedIsSupported`, `FailedIsFinal`, `SameStatusOnceSettled` |
| `MCPathCompleted` | 1 relaxation, 2 VASP runs, always a record | violation | `CompletedMeansTerminated` |
| `MCPathSameStatus` | 2 stages, 2 VASP runs, always a record | violation | `SameStatusFromEveryDirectory` |
| `MCJobResolution` | 2 jobs, 2 attempts, 1 run directory, 4 forms of records, 1 fault | pass | `TypeOK`, `SubmissionIsOfTheJob`, `RuntimeOfAnotherIsMarked`, `AmbiguousMeansResubmitted`, `SettledIsResolved` |
| `MCStageTrajectory` | 1 atom, forces 0 and 1, NaN and stars, 2 VASP runs of up to 2 steps, NELM 1, 1 failed read | pass | `TypeOK`, `ForcesAreOfTheirSteps`, `LabelAgreesWithStatus`, `ConvergedByTheLastCycle`, `ShownForceSupportsLabel` |
| `MCDiagnosis` | 3 steps (numbers 0, 1 and 10), 3 errors, 4 corrections of 3 handlers, 1 warning, 1 line kept of a log, 1 failed read | pass | `TypeOK`, `OomVerdictIsSound`, `MemoryOfItsStep`, `TerminationIsSupported`, `CustodianIsRecognised` |
| `MCSshSession` | 4 commands | pass | `SessionTypeOK`, `NoForgottenSocket`, `OpensWhenNeeded`, `CountedWereEstablished`, `LeavesNoMaster` |
| `MCAcquisitionCache` | 2 files of up to 1 unit, each rewritten once; batches of 1 or 2 files, 1 unit of contents each | pass | `TypeOK`, `OneVersion`, `ContentsWereThere`, `AbsenceWasSeen`, `RecordsAgree`, `BatchWithinLimits` |
| `MCCorpusRelease` | 2 maintainers, 1 page of 2 revisions, 2 versions, 6 commands, 1 interrupted write | pass | `TypeOK`, `LoadedIsReviewed`, `LoadedIsReleased`, `VersionNamesOneCorpus`, `NoRevisionRewritten` |

**Bounds.** `MaxRuns = 2` gives one restart, or one run in each of two stages, the
smallest number that lets evidence of one VASP run meet evidence of another; a
third run adds a third age but a call mixes at most the ages its two sides of
the scheduler lookup give it. `MaxSteps = 1` lets OUTCAR be one step ahead of
OSZICAR, and ended runs of 0 and 1 steps. Path mode has two stages, the fewest of
which one can have terminated and the other not; for job mode one is
enough for TLC. The theorems of both modes hold for every number of stages. An
`Oversized` file is one that may be too large for its reader, or unreadable. `MaxFaults = 2`
lets a lost batch and a lost read come together, which is needed because a
presence test only happens when the batch failed; `MCJobLost` needs more because
every output has to be lost.

In `MCStageTrajectory` two steps are the fewest of which the first can be
spoilt and the second miss its summary. `NELM = 1` is enough because a property sees
of a cycle whether it met EDIFF, and not how many iterations it took. `Prefix = 1` (of OSZICAR) stands for two
megabytes and `TailLines = 6` (of OUTCAR, a table and a half) for the tail path mode reads, so that
both cuts happen; what the job does after the last read is left out.
In `MCDiagnosis` `Limit = 1` stands for eight lines, so that a warning crowds
out the line before it; three errors let two corrections be the same with another
between. The four corrections are two of the handler of frozen jobs, which are not
each other's repetition, one of a handler known by its configuration only, and one
of a handler that does not terminate VASP. The numbers 1 and 10 are the smallest with a common beginning.

Two attempts in one directory are what a resubmission is, and more are
proved. In `MCAcquisitionCache` two files of one unit and a budget of one unit
make the second of a batch deferred, two batches follow each other when the
first holds one file, and one rewrite gives contents of two generations. In
`MCCorpusRelease` six commands are a fetch, review and release by each of two
maintainers. Four commands let the session connect, lose, reconnect and time out.
Symmetry is used in MCAcquisitionCache (files), MCCorpusRelease (maintainers) and
MCJobResolution (jobs, attempts), none of which has a temporal property.

**Deadlock** is checked where the model goes on for ever: the two modes and the
cache, which can be asked again. A closed session, a finished inspection
(StageTrajectory, Diagnosis), a resolution with nothing left to produce and
maintainers at the bound of their commands stop.

**Fairness.** `WF_vars(Inspect)`: a call goes on by itself, because every remote
command has a timeout (`_remote_command_timeout`, `_scheduler_accounting_timeout`)
and no read waits for the job. Nothing is assumed of the job: it may stay in the
queue for ever. `WF_sessionVars(Step)` in SshSession is the same for the session's
commands and its exit; `WF_sessionVars(MasterExpires)` is `ControlPersist=60`, which
`transport.py:514-526` passes to every client. Liveness is part of `KeepsPromise`
(every question is answered) and of `LeavesNoMaster`.

### Where code and documentation disagree

1. `MCJobLost`: `_remote_path_exists` (`vasp.py:661`) takes every nonzero return
   code for absence. When ssh itself fails (255) an existing file is "missing",
   and a converged calculation can be shown as INCOMPLETE, where the README
   promises UNKNOWN for missing evidence.
2. `MCJobRequeued`: job mode shows REQUEUED as FAILED (`presentation.py:837`);
   path mode counts it as active.
3. `MCPathCompleted`: path mode looks at the stages before it asks sacct
   (`lifecycle.py:605`, 261). The marker of a VASP run that was restarted since,
   together with the OSZICAR of the restarted and killed one, gives COMPLETED
   beside a FAILED record; a job that ends with 0:0 in between is judged
   INCOMPLETE by markers older than its end.
4. `MCPathSameStatus`: with a COMPLETED record of nonzero exit, the marker of the
   stage the command is invoked in decides (`lifecycle.py:262`, 332). When the first
   of two stages terminated normally and the second was never started, the answer is
   FAILED from the second, and UNKNOWN from the first and from the root, which stands
   for the last stage with outputs (`lifecycle.py:1384-1391`).

The properties that hold say how far these go: job mode is only wrong about
INCOMPLETE when a presence test was lost (`IncompleteIsSupported`), path mode's
COMPLETED always rests on converged final files when there is a record (`CompletedIsSupported`), and
the stage only matters in the one case of item 4 (`SameStatusOnceSettled`).

### Limits that properties name

These contradict no document; the property that holds states them as its
exception, and fails without it.

- Path mode aligns OUTCAR with OSZICAR by counting blocks
  (`lifecycle.py:931`), job mode by their numbers. A spoilt block and a missing
  summary make up for each other, also in the files of a job that is over, and a
  step gets the force of the next (`ForcesAreOfTheirSteps`). The local parser also
  takes NaN for a number and passes over it (`run.py:3325`), awk does not.
- A local OSZICAR longer than its limit is judged by an older cycle
  (`ConvergedByTheLastCycle`).
- The row of the largest RSS is found by searching step ids in a text
  (`oom.py:353`), so step 1 answers for step 10 (`MemoryOfItsStep`).
- Eight lines are kept of a log: more warnings than that hide SIGTERM
  (`CustodianIsRecognised`), and in path mode also the message of the kernel
  (`OomVerdictIsSound` claims the log in job mode only).
- After two equal corrections of a handler that terminates VASP, the SIGTERM of
  scancel is explained as a termination by Custodian; `TerminationIsSupported` only
  claims that Custodian did terminate VASP twice for that handler and, of a job
  that was over before the first read, that it gave up on the job or the job was
  cancelled.
- A handler that terminates VASP is known by its name (the one of frozen jobs) or
  by `is_terminating` in its recorded configuration (`custodian.py:385-402`). Repeated
  corrections of any other are explained as unknown, so `CustodianIsRecognised` is
  about `ShownToTerminate` only.
- Labels and the forces shown are of files read one after the other. That they
  agree is claimed of a job that was over before the first read
  (`LabelAgreesWithStatus`, `ConvergedByTheLastCycle`, `ShownForceSupportsLabel`);
  beside a running VASP only `ForcesAreOfTheirSteps` and the types are.

## 4. Proofs

TLAPS checks, for every value of the constants that satisfies the named
assumptions of the modules:

| Theorem | Statement |
|---|---|
| `JobObservation_proofs!TypeCorrect` | `Spec => []TypeOK` |
| `JobObservation_proofs!CompletedSupported` | `Spec => []CompletedIsSupported` |
| `JobObservation_proofs!StatusIsOfTheFinalFiles` | `Spec => []StatusOfTheFinalFiles` |
| `JobObservation_proofs!IncompleteSupported` | `Spec => []IncompleteIsSupported` |
| `JobObservation_proofs!PromiseImplemented` | `Spec` implements the safety part of `StatusPromise` |
| `PathObservation_proofs!PathTypeCorrect` | `Spec => []TypeOK` |
| `PathObservation_proofs!PathCompletedSupported` | `Spec => []CompletedIsSupported` |
| `PathObservation_proofs!PathFailedFinal` | `Spec => []FailedIsFinal` |
| `PathObservation_proofs!PathSameStatus` | `Spec => []SameStatusOnceSettled` |
| `JobResolution_proofs!TypesKept` | `Spec => []TypeOK` |
| `JobResolution_proofs!FilesAlwaysAgree` | `Spec => []FilesAgree`, the files of BMD Compute |
| `JobResolution_proofs!SubmissionIsOfTheJobHolds` | `Spec => []SubmissionIsOfTheJob` |
| `JobResolution_proofs!RuntimeOfAnotherIsMarkedHolds` | `Spec => []RuntimeOfAnotherIsMarked` |
| `JobResolution_proofs!AmbiguousMeansResubmittedHolds` | `Spec => []AmbiguousMeansResubmitted` |
| `JobResolution_proofs!SettledIsResolvedHolds` | `Spec => []SettledIsResolved` |
| `StageTrajectory_proofs!TrajectoryIsOfTheFiles` | `Spec => []Inv`, the inductive invariant |
| `StageTrajectory_proofs!TrajectoryTypes` | `Spec => []TypeOK` |
| `StageTrajectory_proofs!ForcesAreOfTheirStepsHolds` | `Spec => []ForcesAreOfTheirSteps` |
| `StageTrajectory_proofs!LabelAgreesWithStatusHolds` | `Spec => []LabelAgreesWithStatus` |
| `StageTrajectory_proofs!ConvergedByTheLastCycleHolds` | `Spec => []ConvergedByTheLastCycle` |
| `StageTrajectory_proofs!ShownForceSupportsLabelHolds` | `Spec => []ShownForceSupportsLabel` |
| `Diagnosis_proofs!EvidenceIsOfTheJob` | `Spec => []Inv`, the inductive invariant |
| `Diagnosis_proofs!TypesKept` | `Spec => []TypeOK` |
| `Diagnosis_proofs!OomVerdictIsSoundHolds` | `Spec => []OomVerdictIsSound` |
| `Diagnosis_proofs!MemoryOfItsStepHolds` | `Spec => []MemoryOfItsStep` |
| `Diagnosis_proofs!TerminationIsSupportedHolds` | `Spec => []TerminationIsSupported` |
| `Diagnosis_proofs!CustodianIsRecognisedHolds` | `Spec => []CustodianIsRecognised` |
| `CorpusRelease_proofs!TypesKept` | `Spec => []TypeOK` |
| `CorpusRelease_proofs!LoadedIsReviewedHolds` | `Spec => []LoadedIsReviewed` |
| `CorpusRelease_proofs!LoadedIsReleasedHolds` | `Spec => []LoadedIsReleased` |
| `CorpusRelease_proofs!VersionNamesOneCorpusHolds` | `Spec => []VersionNamesOneCorpus` |
| `CorpusRelease_proofs!NoRevisionRewrittenHolds` | `Spec => []NoRevisionRewritten` |
| `RemoteAccess_proofs!CacheTypes` | `Spec => []TypeOK`, of AcquisitionCache |
| `RemoteAccess_proofs!CacheOneVersion` | `Spec => []OneVersion` |
| `RemoteAccess_proofs!CacheAbsence` | `Spec => []AbsenceWasSeen` |
| `RemoteAccess_proofs!CacheRecordsAgree` | `Spec => []RecordsAgree` |
| `RemoteAccess_proofs!CacheContentsWereThere` | `Spec => []ContentsWereThere` |
| `RemoteAccess_proofs!CacheBatchWithinLimits` | `Spec => []BatchWithinLimits` |
| `RemoteAccess_proofs!SessionTypes` | `SessionSpec => []SessionTypeOK` |
| `RemoteAccess_proofs!SocketNeverForgotten` | `SessionSpec => []NoForgottenSocket` |
| `RemoteAccess_proofs!LabelIsRight` | `SessionSpec => []OpensWhenNeeded` |
| `RemoteAccess_proofs!NoConnectionInvented` | `SessionSpec => []CountedWereEstablished` |

**Assumptions.** Beyond types and bounds being numbers, the named assumptions
that a proof rests on are these. JobResolution: `NoneAssumption`, no record is
named like the mark of a missing one, and a job id is none of the words a state
file has without a job; `FormsAssumption`, a form of record is a `Form` (SettledIsResolved
says itself, in `Settled`, which forms are complete). Diagnosis: `DiagnosisAssumption`, the
steps of a job are numbered in rising order, as SLURM does; `FiguresAssumption`, what sacct
says of a step are numbers. StageTrajectory: `SitesAssumption`, there is an atom;
`NelmAssumption`; `TrajectoryAssumption`, where path mode cuts a file is not before its
first byte. Corpus: `PageOfAssumption`, a title is of one page, and the assumptions
of VaspCorpus on missing texts and rights. No theorem assumes anything of the order of events.

*Job mode.* `CompletedIsSupported` is not inductive: it speaks of a status and
of files, and says nothing of a call under way. `JobInv` adds that a job that is
over has no running VASP (`Deserted`, from which `OverIsFinal`: no step of the
world is possible any more), that a clean record is the job's last one, and that
what was read under a clean record equals what is on disk. So after
`ReadScheduler` returned COMPLETED 0:0 the world stands still, and every later
read is a read of the final files. What is left is that the decision functions
need positive evidence (`WorkflowRun_proofs`: `StageNeeds`, `WorkflowNeeds`,
`JobStatusNeeds`) and that each piece of it is in the file it came from
(`TrajectoryIsFinal`, `FallbackIsFinal`, `CompleteStageIsSupported`).
`FinalInv` adds that without faults every read is sound and that at `Report`
nothing is unread, so `acq` is `FullReading`. `GapInv` adds that without a lost
presence test a slot that counts as missing is absent (`MissingIsAbsent`); then
evidence against a stage is in its final files too. `PromiseImplemented` puts the
three together: with `Completed` and `Incomplete` supported, `Report` is an
answer the promise allows, a job that settles is its `Settle`, and every other
step leaves the promise alone.

*Path mode.* `PathInv` relates what was read after the lookup to the files of a
job that is over; the early look is not part of it, because convergence is only
judged by trajectories. `SettledInv` adds that once the record is of a job that
was over before the question, the early look too is of the final files, so that
the answer is a function of the files alone: the stage found at the beginning only
chooses a marker, and with a plain record no marker is asked.

*Job resolution.* `ResolutionInv` has three parts: an attempt keeps the run
directory it was prepared in and a job its attempt (`Places`), a submission on
disk or read is one of an attempt of that directory (`Submitted`), and what was
read of each record so far agrees with the checks passed (`ReadInOrder`). It knows
nothing of what the records say to each other; the further theorems add that.
`FilesAgree` is about the producer alone: files written one at a time agree where
they are there. `RuntimeInv` follows the mark of a runtime record. `LinkInv` says
that before the last check the state files seen in the records are of attempts in
one directory, so that a refusal as ambiguous needs a resubmission; every other
refusal (`RefusedAlone`) has another name. `CalmInv` says that an inspection
which began with complete records, and saw no write since, has passed every check
so far: each contract accepts what BMD Compute writes in that form.

*Stage trajectories.* A property that compares what was read with what VASP
computed says nothing of an extractor inside a table, of a file cut off in its
middle, or of lines still to come. `ExtractorInv` says of every line of OUTCAR
the extractor could have been started at, and for known and unknown number of
sites: started at the first line it knows every closed table by its number and
has its force when the block is complete (`KnowsTables`; inside the table it has the
largest force so far); started later it has missed a table (`MissedTable`), so
that it has fewer blocks than there are forces. One more line adds one step to
each of these extractors (`ScannedAppend`, `LineIsRead`). `ReaderInv` keeps
this for what was read: the blocks are those of a whole file or of a cut one, in
which path mode cannot find as many complete blocks as steps. `Aligned` does the
rest: as many complete blocks as steps among that many blocks leaves no choice
which block is of which step (`EmbeddingIsTight`), and in job mode the numbers
say it. `CalmInv` says that once the job is over nothing moves, so the three
reads are of one state, in whichever order. That the evidence and the course made of any reads have their types
(`TrajectoryTypes`) needs only that the forces shown are picked from numbers
(`ShownAreNumbers`, `CourseOfForces`). That labels and status agree is then a matter of the two
functions of the same evidence (`LabelsOfScopes`), but for a stage without
steps, which cannot be converged (`ConvergedHasSteps`). That `Scanned` and `Picked` have
the values their recursion says, for sequences of any length, needs an induction; it is
done by the least number at which the function could fail (`Least`).

*Diagnosis.* The properties compare what is said with what happened, and
between them lie the logs and records. `WorldInv` is about these: SLURM logs and
records a step killed for memory exactly when one was (`OutcomeInv`); every
termination of VASP by a handler is recorded or being corrected, so the corrections
of a handler count what happened, less at most one (`TerminatedInv`); the
correction under way, and the error after which Custodian gave up, has its SIGTERM
in the log of the stage, and a SIGTERM there has one of three causes
(`SignalInv`); no more errors are recorded than are allowed (`BudgetInv`).
`ReaderInv` says that what was read has a cause, and that the corrections read are
the first of those recorded (`GotInv`), that sacct is asked
first (`TodoInv`), and that of a job that was over then every read is of how it
was left (`CalmInv`). Bounded logs need that the last `Limit` lines keep the last
line of a kind unless that many follow it; `MemoryOfItsStep` needs the first row whose
text begins with a number, found again by the least number, in rising step ids.

*Corpus.* `HonestInv` says of every directory and of every state an
interrupted write leaves that a sealed, approved page record names a reviewed
revision and stands beside its bytes; `NoRevisionRewritten` follows from it, since a
revision has one content. `LedgerInv` orders the ledgers: the
committed one only grows, and each staging extends the one it was taken from.
`ReleasedInv` says that every ledger anywhere, committed, staged, half-written or in
a draft, lists versions and identities that were released.

*Cache.* `OneVersion` is about what was given, and a batch under way could still
replace it. `CacheInv` adds that what was given is on record (`GivenOnRecord`),
that a path in the hands of `prime`, pending, in the batch or in its output, has
no contents on record (`Underway`; `NeededHasNone` is the condition of
`_pending_requests`), and that entries are sound on record and in the output of
the script alike (`EntriesSound`). Batches and files are of any number.
`ThereInv` adds an order of the states of a file (`Later`): what is on record or in the
output was in the file since the invocation began, and a size that was asked is no
older, so that the bytes read after it are neither. `LimitInv` counts: what the
script has spent covers every byte it brought, and a size that was asked
still fits.

*SSH session.* `LabelInv` relates `_connected` and the label of the command
under way to the socket and to the two counts, in each of the four phases; a
command that is still to be counted leaves `counted < established`.

Only model-checked: liveness, which is out of the prover's reach. That is
`LeavesNoMaster` and the liveness part of `KeepsPromise`, that every question is
answered; its safety part is `PromiseImplemented`. The four runs that expect a
violation are counterexamples and need no proof. Nothing is proved of the pure
functions on their own; the theorems unfold them where they use them.

## 5. Plan

1. `JobObservation` composed with `AcquisitionCache` in place of its one-step
   batch, and the proof that the composition implements `JobObservation`.
2. Direct VASP directories and discovery (bindings, relocated copies, the
   invocation directory), in both modes.
3. Theorems about the decision functions as such (`Completion`, `Explanations`): more
   evidence never turns a status into its opposite.

## Not modelled

- Direct VASP directories, relocated copies and the search for a
  `submission.json` upwards (`lifecycle.py:379-487`, 692-727; `run.py:2707-2905`):
  planned, see above.
- Layout and wording of reports (`presentation.py`, most of `cli.py`, the
  serializers of `run.py`): functions of a finished inspection, without steps.
- Input check, Compute policy, comparison of runs, structures and requested
  options: one pure comparison each, tested on examples.
- Scientific context (`bmdex.py`, `context.py`, `synthesis.py`): an external
  command is asked and its text composed; advisory, no status depends on it.
- Configuration, deployment, Git provenance: read once, in sequence.
- The text of OSZICAR and `vasprun.xml`: pymatgen parses them.
