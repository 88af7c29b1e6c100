----------------------------- MODULE JobResolution -----------------------------
(***************************************************************************)
(* resolve_bmd_compute_job and the part of inspect_remote_run that reads   *)
(* the producer's records, beside a BMD Compute that prepares, submits and *)
(* resubmits runs.  The job record, the run directory, submission.json,    *)
(* the attempt state and the runtime record are looked at one after the    *)
(* other, each at an instant of its own, or at three when the acquisition  *)
(* cache is off: the presence, the size and the contents.                  *)
(*                                                                         *)
(* An inspection starts from a job ("job mode") or from a run directory    *)
(* (inspect-run, compare-runs: no cross-checks, no cache before the run    *)
(* is known).                                                              *)
(***************************************************************************)
EXTENDS ComputeRecords

CONSTANTS
    Jobs,       \* scheduler job ids
    Attempts,   \* submission attempts
    Runs,       \* run directories
    Flows,      \* those within the configured flows root
    Forms,      \* the ways BMD Compute has written its records
    Reports,    \* what a runner reports of its environment
    Faults,     \* "batch", "test", "command": the remote commands that fail
    MaxFaults   \* per inspection (bound)

ASSUME RootsAssumption == Flows \subseteq Runs /\ MaxFaults \in Nat

\* A job id is a number, and none of the marks of a state file without one.
ASSUME NoneAssumption ==
    /\ None \notin Jobs \cup Attempts \cup Runs
    /\ {"absent", "prepared"} \cap Jobs = {}

Identifier == [prefix : {"stage", "relax"}, index : Nat \ {0}]

\* named: do the records name the attempt and the run, the run, or neither?
\* attemptState: is its path within the logs root, elsewhere, or not given?
Form == [schema : {"none", "own", "other"}, version : {"none", "one", "newer", "text"},
         spec : {"stages", "missing", "malformed"}, stages : Nat,
         dirs : SUBSET Identifier \cup {None}, fields : {"sound", "mistyped"},
         named : {"attempt", "run", "nothing"},
         attemptState : {"logs", "elsewhere", "none"}, large : BOOLEAN,
         provenance : {"absent", "unversioned", "one", "other"},
         treatments : {"absent", "null", "malformed", "object"},
         declared : BOOLEAN]

ASSUME FormsAssumption == Forms # {} /\ Forms \subseteq Form

Report == [schema : {"none", "own", "other"}, version : {"none", "one", "newer", "text"},
           status : {"passed", "failed", "other"}, problems : BOOLEAN]

VARIABLES
    form,           \* per attempt, how its records are written
    runOf,          \* per attempt, the run directory it was prepared in
    attemptOf,      \* per job, the attempt it was submitted for
    submission,     \* per run, the attempt whose submission.json is there
    jobRecords,     \* the jobs whose record is there
    attemptState,   \* per attempt, its state file: absent, without or with a job
    runtime,        \* per run, its runtime_environment.json
    removed,        \* the run directories that are gone
    torn,           \* the file being written, if any
    pc,             \* the record looked at next
    step,           \* how far its look has come
    asked,          \* the job inspected, in job mode
    flow,           \* the run directory inspected, otherwise
    cached,         \* does the acquisition cache answer?
    faults,         \* the failed commands so far
    got,            \* per record, its payload as used
    verdict,        \* resolution_status, or how the inspection ended
    shown,          \* the runtime record, job id and treatments shown
    calm            \* history: complete when asked for, nothing has happened since

producer == <<form, runOf, attemptOf, submission, jobRecords, attemptState,
              runtime, removed, torn>>
inspection == <<pc, step, asked, flow, cached, faults, got, verdict, shown>>
vars == <<producer, inspection, calm>>

Targets == {"job", "directory", "submission", "attempt", "runtime"}

JobMode == asked # None

-----------------------------------------------------------------------------
(* Payloads.                                                               *)

Named(a, what) == IF form[a].named \in what THEN a ELSE None
RunNamed(a) == IF form[a].named = "nothing" THEN None ELSE runOf[a]

\* The name of a state file tells the attempt it is of.
StatePaths(a) == IF form[a].attemptState = "none" THEN {} ELSE {a}

SubmissionPayload(a) ==
    [schema |-> form[a].schema, version |-> form[a].version, spec |-> form[a].spec,
     stages |-> form[a].stages, dirs |-> form[a].dirs, fields |-> form[a].fields,
     attempt |-> Named(a, {"attempt"}), run |-> RunNamed(a), states |-> StatePaths(a),
     within |-> form[a].attemptState = "logs", large |-> form[a].large,
     provenance |-> form[a].provenance, treatments |-> form[a].treatments,
     declared |-> form[a].declared]

\* Only a legacy record embeds the submission it was made from.
JobPayload(j) ==
    LET a == attemptOf[j]
        embeds == form[a].schema = "none"
    IN  [schema |-> form[a].schema, version |-> form[a].version,
         fields |-> form[a].fields, job |-> j, run |-> runOf[a],
         attempt |-> Named(a, {"attempt"}), embeddedRun |-> IF embeds THEN RunNamed(a) ELSE None,
         embeddedStates |-> IF embeds /\ form[a].named # "nothing" THEN StatePaths(a) ELSE {}]

AttemptPayload(a) ==
    [job |-> IF attemptState[a] \in Jobs THEN attemptState[a] ELSE None,
     run |-> RunNamed(a), attempt |-> Named(a, {"attempt"})]

\* What one look finds.
Absent == [is |-> "absent", payload |-> None]
Cut == [is |-> "cut", payload |-> None]
Whole(payload) == [is |-> "whole", payload |-> payload]

Present(target, payload) == IF torn = target THEN Cut ELSE Whole(payload)

\* The file a look is at: that of the job or the flow given, and of the run
\* and the attempt read from the records before it.
RunDir == IF JobMode THEN got["job"].run ELSE flow

StateFile == CHOOSE a \in got["submission"].states : TRUE

Found(target) ==
    CASE target = "job" ->
            IF asked \in jobRecords THEN Present(<<"job", asked>>, JobPayload(asked))
            ELSE Absent
      [] target = "directory" -> IF RunDir \in removed THEN Absent ELSE Whole(None)
      [] target = "submission" ->
            IF submission[RunDir] = None THEN Absent
            ELSE Present(<<"submission", RunDir>>, SubmissionPayload(submission[RunDir]))
      [] target = "attempt" ->
            IF attemptState[StateFile] = "absent" THEN Absent
            ELSE Present(<<"attempt", StateFile>>, AttemptPayload(StateFile))
      [] target = "runtime" ->
            IF runtime[RunDir] = None THEN Absent
            ELSE Present(<<"runtime", RunDir>>, runtime[RunDir])

-----------------------------------------------------------------------------
(* The cross-checks, in the order of _validate_resolution.                 *)

Then(first, second) == IF first # "none" THEN first ELSE second

Conflict(left, right) == Check(left # right, "ambiguous")

\* Compared when both are given.
ConflictOfNamed(left, right) ==
    Check(None \notin {left, right} /\ left # right, "ambiguous")

\* Mutant: a record without an embedded submission disagrees with it.
CheckJobAsLegacy(p) ==
    Then(ParseJob(p),
         FirstFailure(
           << Conflict(p.job, asked),
              Check(p.run \notin Flows, "invalid"),
              Conflict(p.embeddedRun, p.run) >>))

\* The job, the flows root, and the embedded submission of a legacy record.
CheckJob(p) ==
    Then(ParseJob(p),
         FirstFailure(
           << Conflict(p.job, asked),
              Check(p.run \notin Flows, "invalid"),
              Check(RecordContract(p) # "v1" /\ p.embeddedRun \notin {None, p.run},
                    "ambiguous") >>))

\* Mutant: the attempt ids are not compared.
CheckSubmissionWithoutAttempt(job, p) ==
    Then(ParseSubmission(p),
         FirstFailure(
           << Check(p.run = None, "invalid"),
              Conflict(p.run, job.run),
              Check(p.states # {} /\ ~p.within, "invalid") >>))

\* _cross_check_submission, and the path of the state file.
CheckSubmission(job, p) ==
    Then(ParseSubmission(p),
         FirstFailure(
           << Check(p.run = None, "invalid"),
              Conflict(p.run, job.run),
              ConflictOfNamed(job.attempt, p.attempt),
              Check(/\ RecordContract(job) # "v1"
                    /\ {} \notin {job.embeddedStates, p.states}
                    /\ job.embeddedStates # p.states, "ambiguous"),
              Check(p.states # {} /\ ~p.within, "invalid") >>))

\* Mutant: the state file must have a job already.
CheckAttemptSubmitted(job, sub, p) ==
    FirstFailure(
      << Conflict(p.job, asked),
         ConflictOfNamed(p.run, job.run),
         Check(Cardinality({job.attempt, sub.attempt, p.attempt} \ {None}) > 1,
               "ambiguous") >>)

\* _cross_check_attempt
CheckAttempt(job, sub, p) ==
    FirstFailure(
      << ConflictOfNamed(p.job, asked),
         ConflictOfNamed(p.run, job.run),
         Check(Cardinality({job.attempt, sub.attempt, p.attempt} \ {None}) > 1,
               "ambiguous") >>)

\* What one look at a record of the resolution comes to: the outcome, or
\* "none" to go on.
Missing == [target \in Targets |->
    CASE target = "job" -> "not_bmd_compute"
      [] target \in {"directory", "submission"} -> "unavailable"
      [] OTHER -> "none"]

CheckFound(target, look) ==
    CASE look.is = "absent" -> Missing[target]
      [] look.is = "cut" -> "invalid"
      [] look.is = "whole" ->
           (CASE target = "job" -> CheckJob(look.payload)
              [] target = "directory" -> "none"
              [] target = "submission" -> CheckSubmission(got["job"], look.payload)
              [] target = "attempt" -> CheckAttempt(got["job"], got["submission"], look.payload))

\* inspect_remote_run alone: no cross-checks, and a state file that is not
\* JSON only leaves the job id unknown.
ParseFound(target, look) ==
    CASE target = "attempt" -> "none"
      [] target = "submission" /\ look.is = "whole" ->
            IF ParseSubmission(look.payload) = "none" THEN "none" ELSE "raised"
      [] OTHER -> "raised"

Judge(target, look) ==
    IF JobMode THEN CheckFound(target, look) ELSE ParseFound(target, look)

\* The record after this one.
After(target, look) ==
    CASE target = "job" -> "directory"
      [] target = "directory" -> "submission"
      [] target = "submission" -> IF look.payload.states = {} THEN "runtime" ELSE "attempt"
      [] target = "attempt" -> "runtime"

-----------------------------------------------------------------------------
(* One inspection.                                                         *)

Nothing == [target \in Targets |-> None]

NothingShown == [job |-> None, treatments |-> "none",
                 runtime |-> [status |-> "none", parity |-> "none", marked |-> FALSE]]

End(outcome) ==
    /\ pc' = "done"
    /\ step' = "start"
    /\ verdict' = outcome

\* The job id: that of the state file, or the one asked for.  That they
\* differ here is an error, though the resolution has compared them.
JobShown(attempt) ==
    IF attempt # None /\ attempt.job # None THEN attempt.job ELSE asked

LateConflict(attempt) == JobMode /\ JobShown(attempt) # asked

\* diagnose_remote_run parses the submission again, and shows the runtime
\* record if one is declared.
Proceed(payloads) ==
    LET sub == payloads["submission"]
        attempt == payloads["attempt"]
    IN  /\ shown' = [job |-> JobShown(attempt), treatments |-> TreatmentsStatus(sub),
                     runtime |-> NothingShown.runtime]
        /\ IF LateConflict(attempt) THEN End("unanalyzed")
           ELSE IF sub.declared THEN pc' = "runtime" /\ step' = "start" /\ UNCHANGED verdict
           ELSE End("resolved")

ShowRuntime(look) ==
    /\ shown' = [shown EXCEPT !.runtime =
          CASE look.is = "absent" -> [NothingShown.runtime EXCEPT !.status = "unavailable"]
            [] look.is = "cut" -> [NothingShown.runtime EXCEPT !.status = "invalid"]
            [] look.is = "whole" ->
                 ObserveRuntime(look.payload, got["submission"].attempt, shown.job)]
    /\ got' = [got EXCEPT !["runtime"] = look.payload]
    /\ End("resolved")

Receive(target, look) ==
    IF target = "runtime" THEN ShowRuntime(look)
    ELSE LET payloads == [got EXCEPT ![target] = look.payload]
             outcome == Judge(target, look)
         IN  IF outcome # "none"
             THEN End(outcome) /\ UNCHANGED <<got, shown>>
             ELSE /\ got' = payloads
                  /\ IF After(target, look) = "runtime" THEN Proceed(payloads)
                     ELSE /\ pc' = After(target, look)
                          /\ step' = "start"
                          /\ UNCHANGED <<verdict, shown>>

\* The records that the cache may hold: all of the resolution, and the
\* runtime record.
Primed(target) == cached /\ (JobMode \/ target = "runtime")

Failing(kind) == kind \in Faults /\ faults < MaxFaults /\ faults' = faults + 1

\* A batch fails, and with it the cache for the rest of the inspection.  The
\* run directory and its submission.json are of one batch.
LoseCache ==
    /\ pc \in Targets \ {"submission"}
    /\ step = "start"
    /\ Primed(pc)
    /\ Failing("batch")
    /\ cached' = FALSE
    /\ UNCHANGED <<producer, pc, step, asked, flow, got, verdict, shown>>
    /\ calm' = FALSE

\* A small file has its contents in the batch; a large one has its size.
LookPrimed ==
    /\ pc \in Targets
    /\ step = "start"
    /\ Primed(pc)
    /\ LET look == Found(pc)
       IN  IF pc = "submission" /\ look.is = "whole" /\ look.payload.large
           THEN End("invalid") /\ UNCHANGED <<got, shown>>
           ELSE Receive(pc, look)
    /\ UNCHANGED <<producer, asked, flow, cached, faults, calm>>

\* test -f, test -d: a lost connection is a file that is not there.
\* inspect_remote_run reads submission.json without a test.
Test ==
    /\ pc \in Targets /\ ~Primed(pc)
    /\ step = "start"
    /\ pc = "submission" => JobMode
    /\ \/ /\ Found(pc).is = "absent"
          /\ Receive(pc, Absent)
          /\ UNCHANGED <<faults, calm>>
       \/ /\ Failing("test")
          /\ Receive(pc, Absent)
          /\ calm' = FALSE
       \/ /\ Found(pc).is # "absent"
          /\ IF pc = "directory" THEN Receive(pc, Whole(None))
             ELSE /\ step' = IF JobMode /\ pc # "runtime" THEN "size" ELSE "read"
                  /\ UNCHANGED <<pc, got, verdict, shown>>
          /\ UNCHANGED <<faults, calm>>
    /\ UNCHANGED <<producer, asked, flow, cached>>

\* How a command that fails or times out ends: the first test of the job
\* record is outside the try of resolve_bmd_compute_job.
Fail ==
    IF pc = "runtime" THEN ShowRuntime(Absent)
    ELSE /\ End(IF JobMode /\ <<pc, step>> # <<"job", "start">> THEN "unavailable"
                ELSE "raised")
         /\ UNCHANGED <<got, shown>>

Reads == step = "read" \/ (pc = "submission" /\ ~JobMode)

\* stat, then cat: the file may have gone, or be another one, in between.
Size ==
    /\ pc \in Targets
    /\ step = "size"
    /\ LET look == Found(pc)
       IN  IF look.is = "absent" THEN Fail
           ELSE /\ IF pc = "submission" /\ look.is = "whole" /\ look.payload.large
                   THEN End("invalid")
                   ELSE step' = "read" /\ UNCHANGED <<pc, verdict>>
                /\ UNCHANGED <<got, shown>>
    /\ UNCHANGED <<producer, asked, flow, cached, faults, calm>>

ReadContents ==
    /\ pc \in Targets /\ ~Primed(pc)
    /\ Reads
    /\ IF Found(pc).is = "absent" THEN Fail ELSE Receive(pc, Found(pc))
    /\ UNCHANGED <<producer, asked, flow, cached, faults, calm>>

CommandFails ==
    /\ pc \in Targets /\ ~Primed(pc)
    /\ Failing("command")
    /\ Fail
    /\ calm' = FALSE
    /\ UNCHANGED <<producer, asked, flow, cached>>

-----------------------------------------------------------------------------
(* BMD Compute, its runner, and whoever removes a run directory.  One file *)
(* is written at a time.                                                   *)

Writes(file) == torn = <<>> /\ torn' = file

\* What BMD Compute does once the inspection has ended is left out.
Produce ==
    /\ pc # "done"
    /\ calm' = FALSE
    /\ UNCHANGED inspection

\* A new attempt, in a new run directory or in that of an earlier one, whose
\* submission.json is overwritten.
Prepare(a, r) ==
    /\ runOf[a] = None
    /\ r \notin removed
    /\ Writes(<<"submission", r>>)
    /\ form' \in {[form EXCEPT ![a] = f] : f \in Forms}
    /\ runOf' = [runOf EXCEPT ![a] = r]
    /\ submission' = [submission EXCEPT ![r] = a]
    /\ Produce
    /\ UNCHANGED <<attemptOf, jobRecords, attemptState, runtime, removed>>

RecordAttempt(a) ==
    /\ runOf[a] # None
    /\ attemptState[a] = "absent"
    /\ Writes(<<"attempt", a>>)
    /\ attemptState' = [attemptState EXCEPT ![a] = "prepared"]
    /\ Produce
    /\ UNCHANGED <<form, runOf, attemptOf, submission, jobRecords, runtime, removed>>

\* sbatch, perhaps again for the same attempt.
Submit(j, a) ==
    /\ attemptOf[j] = None
    /\ attemptState[a] # "absent"
    /\ runOf[a] \notin removed
    /\ attemptOf' = [attemptOf EXCEPT ![j] = a]
    /\ Produce
    /\ UNCHANGED <<form, runOf, submission, jobRecords, attemptState, runtime,
                   removed, torn>>

WriteJobRecord(j) ==
    /\ attemptOf[j] # None
    /\ j \notin jobRecords
    /\ Writes(<<"job", j>>)
    /\ jobRecords' = jobRecords \cup {j}
    /\ Produce
    /\ UNCHANGED <<form, runOf, attemptOf, submission, attemptState, runtime, removed>>

WriteAttemptJob(j) ==
    /\ attemptOf[j] # None
    /\ attemptState[attemptOf[j]] # j
    /\ Writes(<<"attempt", attemptOf[j]>>)
    /\ attemptState' = [attemptState EXCEPT ![attemptOf[j]] = j]
    /\ Produce
    /\ UNCHANGED <<form, runOf, attemptOf, submission, jobRecords, runtime, removed>>

\* The runner of a job reports, before VASP starts, into its run directory.
StartRunner(j) ==
    /\ attemptOf[j] # None
    /\ LET a == attemptOf[j]
           r == runOf[a]
       IN  /\ r \notin removed
           /\ Writes(<<"runtime", r>>)
           /\ \E report \in Reports :
                 runtime' = [runtime EXCEPT ![r] =
                    [schema |-> report.schema, version |-> report.version,
                     status |-> report.status, problems |-> report.problems,
                     attempt |-> Named(a, {"attempt"}), job |-> j]]
    /\ runtime' # runtime
    /\ Produce
    /\ UNCHANGED <<form, runOf, attemptOf, submission, jobRecords, attemptState, removed>>

Remove(r) ==
    /\ r \notin removed
    /\ torn = <<>>
    /\ removed' = removed \cup {r}
    /\ submission' = [submission EXCEPT ![r] = None]
    /\ runtime' = [runtime EXCEPT ![r] = None]
    /\ Produce
    /\ UNCHANGED <<form, runOf, attemptOf, jobRecords, attemptState, torn>>

Written ==
    /\ torn # <<>>
    /\ torn' = <<>>
    /\ Produce
    /\ UNCHANGED <<form, runOf, attemptOf, submission, jobRecords, attemptState,
                   runtime, removed>>

-----------------------------------------------------------------------------

\* Every record of the job is there, whole and of a contract that is read.
Settled(j) ==
    LET a == attemptOf[j]
    IN  /\ j \in jobRecords
        /\ torn = <<>>
        /\ submission[runOf[a]] = a
        /\ attemptState[a] = j
        /\ runOf[a] \in Flows
        /\ form[a].named # "nothing"
        /\ form[a].attemptState # "elsewhere"
        /\ ~form[a].large
        /\ ParseJob(JobPayload(j)) = "none"
        /\ ParseSubmission(SubmissionPayload(a)) = "none"

AskJob(j) ==
    /\ pc = "idle"
    /\ pc' = "job"
    /\ asked' = j
    /\ calm' = Settled(j)
    /\ UNCHANGED <<producer, step, flow, cached, faults, got, verdict, shown>>

AskRun(r) ==
    /\ pc = "idle"
    /\ pc' = "submission"
    /\ flow' = r
    /\ UNCHANGED <<producer, step, asked, cached, faults, got, verdict, shown, calm>>

Init ==
    /\ form = [a \in Attempts |-> CHOOSE f \in Forms : TRUE]
    /\ runOf = [a \in Attempts |-> None]
    /\ attemptOf = [j \in Jobs |-> None]
    /\ submission = [r \in Runs |-> None]
    /\ jobRecords = {}
    /\ attemptState = [a \in Attempts |-> "absent"]
    /\ runtime = [r \in Runs |-> None]
    /\ removed = {}
    /\ torn = <<>>
    /\ pc = "idle" /\ step = "start"
    /\ asked = None /\ flow = None
    /\ cached \in BOOLEAN
    /\ faults = 0
    /\ got = Nothing
    /\ verdict = "none"
    /\ shown = NothingShown
    /\ calm = FALSE

ProducerStep ==
    \/ Written
    \/ \E a \in Attempts : RecordAttempt(a)
    \/ \E a \in Attempts, r \in Runs : Prepare(a, r)
    \/ \E j \in Jobs, a \in Attempts : Submit(j, a)
    \/ \E j \in Jobs : WriteJobRecord(j) \/ WriteAttemptJob(j) \/ StartRunner(j)
    \/ \E r \in Runs : Remove(r)

Ask == (\E j \in Jobs : AskJob(j)) \/ (\E r \in Runs : AskRun(r))

Look == LookPrimed \/ Test \/ Size \/ ReadContents \/ CommandFails \/ LoseCache

Next == ProducerStep \/ Ask \/ Look

Spec == Init /\ [][Next]_vars

-----------------------------------------------------------------------------
(* Properties.                                                             *)

Verdicts == {"none", "resolved", "not_bmd_compute", "unavailable", "ambiguous",
             "invalid", "unsupported_record", "unanalyzed", "raised"}

RuntimeStatus == {"none", "recorded", "unavailable", "invalid", "unsupported_version"}

TypeOK ==
    /\ form \in [Attempts -> Forms]
    /\ runOf \in [Attempts -> Runs \cup {None}]
    /\ attemptOf \in [Jobs -> Attempts \cup {None}]
    /\ submission \in [Runs -> Attempts \cup {None}]
    /\ jobRecords \subseteq Jobs
    /\ attemptState \in [Attempts -> {"absent", "prepared"} \cup Jobs]
    /\ removed \subseteq Runs
    /\ pc \in Targets \cup {"idle", "done"}
    /\ step \in {"start", "size", "read"}
    /\ asked \in Jobs \cup {None}
    /\ flow \in Runs \cup {None}
    /\ cached \in BOOLEAN
    /\ faults \in 0 .. MaxFaults
    /\ verdict \in Verdicts
    /\ shown.job \in Jobs \cup {None}
    /\ shown.runtime.status \in RuntimeStatus
    /\ calm \in BOOLEAN

\* A job resolves to its own run, and the submission.json shown with it is
\* that of its own attempt, whatever was prepared in the directory while the
\* records were read one after the other, as long as the records name their
\* attempts (_cross_check_submission).
SubmissionIsOfTheJob ==
    verdict = "resolved" /\ JobMode =>
        /\ got["job"].run = runOf[attemptOf[asked]]
        /\ None \notin {got["job"].attempt, got["submission"].attempt} =>
              got["submission"].attempt = attemptOf[asked]

\* A runtime record without a mark is of the job the inspection is about and,
\* in job mode, of the attempt of that job, though it is the last record read
\* and every later run in the directory overwrites it
\* (observe_runtime_environment).
RuntimeOfAnotherIsMarked ==
    verdict = "resolved" /\ shown.runtime.status = "recorded" /\ ~shown.runtime.marked =>
        /\ shown.job # None => got["runtime"].job = shown.job
        /\ /\ JobMode
           /\ None \notin {got["job"].attempt, got["submission"].attempt,
                           got["runtime"].attempt}
           => got["runtime"].attempt = attemptOf[asked]

\* Only another attempt in the same directory, or a second submission of the
\* attempt, makes the records of a job disagree: no order in which BMD
\* Compute writes them does.
AmbiguousMeansResubmitted ==
    verdict = "ambiguous" =>
        LET a == attemptOf[asked]
        IN  \/ \E b \in Attempts \ {a} : runOf[b] = runOf[a]
            \/ \E j \in Jobs \ {asked} : attemptOf[j] = a

\* A job whose records were complete when it was asked for, and stayed so,
\* resolves and is analyzed.
SettledIsResolved == pc = "done" /\ calm => verdict = "resolved"
=============================================================================
