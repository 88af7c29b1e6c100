---------------------------- MODULE ComputeRecords ----------------------------
(***************************************************************************)
(* How BMD Agent reads the records of BMD Compute: which contract a record *)
(* is read under, which records are refused and as what, and how the       *)
(* record of the runtime environment is checked against the execution it   *)
(* is shown for.  A field is absent (None) or has a value; the many plain  *)
(* fields whose type is checked are one, "fields".                         *)
(***************************************************************************)
EXTENDS Integers, FiniteSets, Sequences

CONSTANT None

\* The first check that fails decides how a record is refused.
FirstFailure(checks) ==
    LET failing == {i \in DOMAIN checks : checks[i].fails}
    IN  IF failing = {} THEN "none"
        ELSE checks[CHOOSE i \in failing : \A k \in failing : i <= k].outcome

Check(fails, outcome) == [fails |-> fails, outcome |-> outcome]

\* record_contract: a record without schema is a legacy one, unless it has
\* a version.
RecordContract(p) ==
    CASE p.schema = "none" /\ p.version = "none"   -> "legacy"
      [] p.schema = "own"  /\ p.version = "one"    -> "v1"
      [] p.schema = "own"  /\ p.version = "newer"  -> "unsupported_record"
      [] OTHER                                     -> "invalid"

Unread(p) == Check(RecordContract(p) \notin {"legacy", "v1"}, RecordContract(p))

-----------------------------------------------------------------------------
(* submission.json                                                         *)

\* stage_NN and relax_NN both name stage NN: no stage is named twice, none
\* is left out of a workflow of several.
StageDirsAccepted(dirs, count, required) ==
    IF dirs = None THEN ~required /\ count = 1
    ELSE /\ \A d \in dirs : d.index \in 1 .. count
         /\ \A d, e \in dirs : d.index = e.index => d = e
         /\ count > 1 => {d.index : d \in dirs} = 1 .. count

\* parse_submission_record: "none" when the record is accepted.  v1 must name
\* the attempt, its state file and the run; a legacy record may leave them
\* out, but must not name two state files.
ParseSubmission(p) ==
    LET v1 == RecordContract(p) = "v1"
    IN  FirstFailure(
          << Unread(p),
             Check(p.spec = "missing" /\ ~v1, "unsupported_record"),
             Check(p.spec # "stages", "invalid"),
             Check(~StageDirsAccepted(p.dirs, p.stages, v1), "invalid"),
             Check(v1 /\ None \in {p.attempt, p.run}, "invalid"),
             Check(v1 /\ p.states = {}, "invalid"),
             Check(Cardinality(p.states) > 1, "invalid"),
             Check(p.fields = "mistyped", "invalid") >>)

\* read_submission_provenance: a block of another version is not interpreted.
ProvenanceContract(p) ==
    CASE p.provenance = "absent"      -> "absent"
      [] p.provenance = "unversioned" -> "legacy"
      [] p.provenance = "one"         -> "v1"
      [] OTHER                        -> "unsupported"

\* read_automatic_treatments
TreatmentsStatus(p) ==
    CASE ProvenanceContract(p) = "unsupported" -> "unavailable"
      [] ProvenanceContract(p) = "absent"      -> "not_recorded"
      [] OTHER -> (CASE p.treatments = "absent"    -> "not_recorded"
                     [] p.treatments = "null"      -> "none_recorded"
                     [] p.treatments = "malformed" -> "unavailable"
                     [] p.treatments = "object"    -> "recorded")

-----------------------------------------------------------------------------
(* The job record, and the record of the runtime environment.              *)

\* parse_job_record
ParseJob(p) ==
    FirstFailure(
      << Unread(p),
         Check(p.job = None \/ p.run = None, "invalid"),
         Check(RecordContract(p) = "v1" /\ p.attempt = None, "invalid"),
         Check(p.fields = "mistyped", "invalid") >>)

\* parse_runtime_environment_record: there is no legacy form, and no pass
\* beside problems.
ParseRuntime(p) ==
    FirstFailure(
      << Check(p.schema # "own" \/ p.version \notin {"one", "newer"}, "invalid"),
         Check(p.version = "newer", "unsupported_version"),
         Check(p.status \notin {"passed", "failed"}, "invalid"),
         Check(p.status = "passed" /\ p.problems, "invalid") >>)

\* Mutant: only the attempt is compared.
DiffersInAttempt(p, attempt, job) ==
    None \notin {attempt, p.attempt} /\ p.attempt # attempt

\* observe_runtime_environment: the record says that it may be of another
\* execution than the one it is shown for.
Differs(p, attempt, job) ==
    \/ None \notin {attempt, p.attempt} /\ p.attempt # attempt
    \/ None \notin {job, p.job} /\ p.job # job

\* Mutant: the contract of the record stands for the access to it.
ObserveContract(p, attempt, job) ==
    [status |-> RecordContract(p), parity |-> p.status, marked |-> Differs(p, attempt, job)]

ObserveRuntime(p, attempt, job) ==
    IF ParseRuntime(p) # "none"
    THEN [status |-> ParseRuntime(p), parity |-> "none", marked |-> FALSE]
    ELSE [status |-> "recorded", parity |-> p.status, marked |-> Differs(p, attempt, job)]
=============================================================================
