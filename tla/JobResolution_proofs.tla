------------------------- MODULE JobResolution_proofs -------------------------
(***************************************************************************)
(* What a job resolves to, for every number of jobs, attempts and runs,    *)
(* every way BMD Compute writes its records and every command that fails.  *)
(***************************************************************************)
EXTENDS JobResolution, FiniteSetTheorems, TLAPS

(* Of at most eight checks the first that fails decides. *)
LEMMA TheFirstDecides ==
    ASSUME NEW checks, NEW n \in 1 .. 8, DOMAIN checks = 1 .. n,
           NEW i \in 1 .. n, checks[i].fails
    PROVE  \E k \in 1 .. n : /\ checks[k].fails
                             /\ FirstFailure(checks) = checks[k].outcome
                             /\ \A m \in 1 .. n : m < k => ~checks[m].fails
<1> DEFINE failing == {k \in DOMAIN checks : checks[k].fails}
<1>1. i \in failing
  OBVIOUS
<1>2. \E k \in failing : \A m \in failing : k <= m
  <2>1. failing \subseteq {1, 2, 3, 4, 5, 6, 7, 8}
    OBVIOUS
  <2>2. PICK k \in {1, 2, 3, 4, 5, 6, 7, 8} :
           k \in failing /\ \A m \in {1, 2, 3, 4, 5, 6, 7, 8} : m < k => m \notin failing
    BY <1>1, <2>1
  <2> HIDE DEF failing
  <2>3. \A m \in failing : k <= m
    BY <2>1, <2>2
  <2> QED
    BY <2>2, <2>3
<1> DEFINE first == CHOOSE k \in failing : \A m \in failing : k <= m
<1>3. first \in failing /\ \A m \in failing : first <= m
  BY <1>2
<1>4. FirstFailure(checks) = checks[first].outcome
  BY <1>1 DEF FirstFailure
<1> HIDE DEF first
<1>5. \A m \in 1 .. n : m < first => ~checks[m].fails
  BY <1>3
<1> QED
  BY <1>3, <1>4, <1>5

(* If the checks come to "none", none of them fails. *)
LEMMA AFailureShows ==
    ASSUME NEW checks, NEW n \in 1 .. 8, DOMAIN checks = 1 .. n,
           \A i \in 1 .. n : checks[i].outcome # "none",
           FirstFailure(checks) = "none",
           NEW i \in 1 .. n
    PROVE  ~checks[i].fails
  BY TheFirstDecides

(* They come to "none" or to the outcome of one that fails. *)
LEMMA OutcomeOfAFailure ==
    ASSUME NEW checks, NEW n \in 1 .. 8, DOMAIN checks = 1 .. n, NEW S,
           \A i \in 1 .. n : checks[i].fails => checks[i].outcome \in S
    PROVE  FirstFailure(checks) \in S \cup {"none"}
<1>1. CASE \E i \in 1 .. n : checks[i].fails
  <2>1. PICK k \in 1 .. n : checks[k].fails /\ FirstFailure(checks) = checks[k].outcome
    BY <1>1, TheFirstDecides
  <2> QED
    BY <2>1
<1>2. CASE ~ \E i \in 1 .. n : checks[i].fails
  BY <1>2 DEF FirstFailure
<1> QED
  BY <1>1, <1>2

Refusals == {"ambiguous", "invalid", "unsupported_record"}

LEMMA UnreadRefuses ==
    ASSUME NEW p, Unread(p).fails
    PROVE  Unread(p).outcome \in Refusals
<1>1. RecordContract(p) \in {"legacy", "v1", "unsupported_record", "invalid"}
  BY DEF RecordContract
<1>2. Unread(p).fails <=> RecordContract(p) \notin {"legacy", "v1"}
  BY DEF Unread, Check
<1>3. Unread(p).outcome = RecordContract(p)
  BY DEF Unread, Check
<1> QED
  BY <1>1, <1>2, <1>3 DEF Refusals

LEMMA JobRefusals ==
    ASSUME NEW p
    PROVE  CheckJob(p) \in Refusals \cup {"none"}
<1>1. ParseJob(p) \in Refusals \cup {"none"}
  <2> DEFINE checks ==
           << Unread(p),
              Check(p.job = None \/ p.run = None, "invalid"),
              Check(RecordContract(p) = "v1" /\ p.attempt = None, "invalid"),
              Check(p.fields = "mistyped", "invalid") >>
  <2>1. DOMAIN checks = 1 .. 4
    OBVIOUS
  <2>2. \A i \in 1 .. 4 : checks[i].fails => checks[i].outcome \in Refusals
    <3>1. checks[1] = Unread(p)
      OBVIOUS
    <3>2. \A i \in 2 .. 4 : checks[i].outcome = "invalid"
      BY DEF Check
    <3> QED
      BY <3>1, <3>2, UnreadRefuses DEF Refusals
  <2> HIDE DEF checks
  <2>3. FirstFailure(checks) \in Refusals \cup {"none"}
    BY <2>1, <2>2, OutcomeOfAFailure
  <2> QED
    BY <2>3 DEF ParseJob, checks
<1>2. ASSUME NEW checks, checks =
           << Conflict(p.job, asked),
              Check(p.run \notin Flows, "invalid"),
              Check(RecordContract(p) # "v1" /\ p.embeddedRun \notin {None, p.run},
                    "ambiguous") >>
      PROVE  FirstFailure(checks) \in Refusals \cup {"none"}
  <2>1. DOMAIN checks = 1 .. 3
    BY <1>2
  <2>2. \A i \in 1 .. 3 : checks[i].outcome \in Refusals
    BY <1>2 DEF Check, Conflict, Refusals
  <2> QED
    BY <2>1, <2>2, OutcomeOfAFailure
<1> QED
  BY <1>1, <1>2 DEF CheckJob, Then

LEMMA SubmissionRefusals ==
    ASSUME NEW job, NEW p
    PROVE  CheckSubmission(job, p) \in Refusals \cup {"none"}
<1>1. ParseSubmission(p) \in Refusals \cup {"none"}
  <2> DEFINE v1 == RecordContract(p) = "v1"
             checks ==
               << Unread(p),
                  Check(p.spec = "missing" /\ ~v1, "unsupported_record"),
                  Check(p.spec # "stages", "invalid"),
                  Check(~StageDirsAccepted(p.dirs, p.stages, v1), "invalid"),
                  Check(v1 /\ None \in {p.attempt, p.run}, "invalid"),
                  Check(v1 /\ p.states = {}, "invalid"),
                  Check(Cardinality(p.states) > 1, "invalid"),
                  Check(p.fields = "mistyped", "invalid") >>
  <2>1. DOMAIN checks = 1 .. 8
    OBVIOUS
  <2>2. \A i \in 1 .. 8 : checks[i].fails => checks[i].outcome \in Refusals
    <3>1. checks[1] = Unread(p)
      OBVIOUS
    <3>2. \A i \in 2 .. 8 : checks[i].outcome \in {"invalid", "unsupported_record"}
      BY DEF Check
    <3> QED
      BY <3>1, <3>2, UnreadRefuses DEF Refusals
  <2> HIDE DEF checks
  <2>3. FirstFailure(checks) \in Refusals \cup {"none"}
    BY <2>1, <2>2, OutcomeOfAFailure
  <2> QED
    BY <2>3 DEF ParseSubmission, checks
<1>2. ASSUME NEW checks, checks =
           << Check(p.run = None, "invalid"),
              Conflict(p.run, job.run),
              ConflictOfNamed(job.attempt, p.attempt),
              Check(/\ RecordContract(job) # "v1"
                    /\ {} \notin {job.embeddedStates, p.states}
                    /\ job.embeddedStates # p.states, "ambiguous"),
              Check(p.states # {} /\ ~p.within, "invalid") >>
      PROVE  FirstFailure(checks) \in Refusals \cup {"none"}
  <2>1. DOMAIN checks = 1 .. 5
    BY <1>2
  <2>2. \A i \in 1 .. 5 : checks[i].outcome \in Refusals
    BY <1>2 DEF Check, Conflict, ConflictOfNamed, Refusals
  <2> QED
    BY <2>1, <2>2, OutcomeOfAFailure
<1> QED
  BY <1>1, <1>2 DEF CheckSubmission, Then

LEMMA AttemptRefusals ==
    ASSUME NEW job, NEW sub, NEW p
    PROVE  CheckAttempt(job, sub, p) \in Refusals \cup {"none"}
<1> DEFINE checks ==
           << ConflictOfNamed(p.job, asked),
              ConflictOfNamed(p.run, job.run),
              Check(Cardinality({job.attempt, sub.attempt, p.attempt} \ {None}) > 1,
                    "ambiguous") >>
<1>1. DOMAIN checks = 1 .. 3
  OBVIOUS
<1>2. \A i \in 1 .. 3 : checks[i].outcome \in Refusals
  BY DEF Check, ConflictOfNamed, Refusals
<1> HIDE DEF checks
<1>3. FirstFailure(checks) \in Refusals \cup {"none"}
  BY <1>1, <1>2, OutcomeOfAFailure
<1> QED
  BY <1>3 DEF CheckAttempt, checks

LEMMA SubmissionAgrees ==
    ASSUME NEW job, NEW p, CheckSubmission(job, p) = "none"
    PROVE  /\ p.run = job.run
           /\ None \notin {job.attempt, p.attempt} => job.attempt = p.attempt
<1> DEFINE checks ==
           << Check(p.run = None, "invalid"),
              Conflict(p.run, job.run),
              ConflictOfNamed(job.attempt, p.attempt),
              Check(/\ RecordContract(job) # "v1"
                    /\ {} \notin {job.embeddedStates, p.states}
                    /\ job.embeddedStates # p.states, "ambiguous"),
              Check(p.states # {} /\ ~p.within, "invalid") >>
<1>1. FirstFailure(checks) = "none"
  BY DEF CheckSubmission, Then
<1>2. /\ DOMAIN checks = 1 .. 5
      /\ checks[2] = Conflict(p.run, job.run)
      /\ checks[3] = ConflictOfNamed(job.attempt, p.attempt)
  OBVIOUS
<1>3. \A k \in 1 .. 5 : checks[k].outcome # "none"
  BY DEF Check, Conflict, ConflictOfNamed
<1> HIDE DEF checks
<1>4. ~checks[2].fails /\ ~checks[3].fails
  BY <1>1, <1>2, <1>3, AFailureShows
<1>5. Conflict(p.run, job.run).fails <=> p.run # job.run
  BY DEF Check, Conflict
<1>6. ConflictOfNamed(job.attempt, p.attempt).fails
        <=> None \notin {job.attempt, p.attempt} /\ job.attempt # p.attempt
  BY DEF Check, ConflictOfNamed
<1> QED
  BY <1>2, <1>4, <1>5, <1>6

-----------------------------------------------------------------------------
(* The records that were read belong together.                             *)

Places ==
    /\ runOf \in [Attempts -> Runs \cup {None}]
    /\ attemptOf \in [Jobs -> Attempts \cup {None}]
    /\ attemptState \in [Attempts -> {"absent", "prepared"} \cup Jobs]
    /\ jobRecords \subseteq Jobs
    /\ asked \in Jobs \cup {None}
    /\ pc \in Targets \cup {"idle", "done"}
    /\ pc = "idle" => asked = None
    /\ got = [target \in Targets |-> got[target]]

\* Only a prepared attempt has a state file, only one of those a job, and
\* only a job a record.
Submitted ==
    /\ \A a \in Attempts : attemptState[a] # "absent" => runOf[a] \in Runs
    /\ \A j \in Jobs : attemptOf[j] # None => runOf[attemptOf[j]] \in Runs
    /\ \A j \in jobRecords : attemptOf[j] # None

JobRead ==
    /\ attemptOf[asked] \in Attempts
    /\ runOf[attemptOf[asked]] \in Runs
    /\ got["job"].run = runOf[attemptOf[asked]]
    /\ got["job"].attempt \in {None, attemptOf[asked]}

SubmissionRead ==
    None \notin {got["job"].attempt, got["submission"].attempt} =>
        got["job"].attempt = got["submission"].attempt

\* The job record is read before the run directory is looked for, and the
\* submission before the attempt state.
ReadInOrder ==
    /\ verdict = "resolved" => pc = "done"
    /\ JobMode /\ pc \in {"directory", "submission", "attempt", "runtime"} => JobRead
    /\ JobMode /\ pc \in {"attempt", "runtime"} => SubmissionRead
    /\ JobMode /\ verdict = "resolved" => JobRead /\ SubmissionRead

ResolutionInv == Places /\ Submitted /\ ReadInOrder

LEMMA InitEstablishes == Init => ResolutionInv
<1> SUFFICES ASSUME Init PROVE ResolutionInv
  OBVIOUS
<1>1. Places
  BY DEF Init, Places, Nothing, Targets
<1>2. Submitted
  BY DEF Init, Submitted
<1>3. ReadInOrder
  BY DEF Init, ReadInOrder, JobMode
<1> QED
  BY <1>1, <1>2, <1>3 DEF ResolutionInv

(* BMD Compute only adds attempts and jobs: what was read stays true. *)
LEMMA ProducerKeeps ==
    ASSUME ResolutionInv, ProducerStep
    PROVE  ResolutionInv'
<1>1. /\ UNCHANGED inspection
      /\ \A a \in Attempts : runOf[a] # None => runOf'[a] = runOf[a]
      /\ \A j \in Jobs : attemptOf[j] # None => attemptOf'[j] = attemptOf[j]
  BY DEF ResolutionInv, Places, ProducerStep, Produce, Written, RecordAttempt, Prepare,
         Submit, WriteJobRecord, WriteAttemptJob, StartRunner, Remove
<1>2. Places' /\ Submitted'
  <2>1. ASSUME NEW a \in Attempts, NEW r \in Runs, Prepare(a, r)
        PROVE  Places' /\ Submitted'
    BY <2>1, NoneAssumption
    DEF Prepare, Produce, ResolutionInv, Places, Submitted, inspection
  <2>2. ASSUME NEW a \in Attempts, RecordAttempt(a)
        PROVE  Places' /\ Submitted'
    BY <2>2 DEF RecordAttempt, Produce, ResolutionInv, Places, Submitted, inspection
  <2>3. ASSUME NEW j \in Jobs, NEW a \in Attempts, Submit(j, a)
        PROVE  Places' /\ Submitted'
    BY <2>3 DEF Submit, Produce, ResolutionInv, Places, Submitted, inspection
  <2>4. ASSUME NEW j \in Jobs, WriteJobRecord(j)
        PROVE  Places' /\ Submitted'
    BY <2>4 DEF WriteJobRecord, Produce, ResolutionInv, Places, Submitted, inspection
  <2>5. ASSUME NEW j \in Jobs, WriteAttemptJob(j)
        PROVE  Places' /\ Submitted'
    BY <2>5 DEF WriteAttemptJob, Produce, ResolutionInv, Places, Submitted, inspection
  <2>6. ASSUME NEW j \in Jobs, StartRunner(j)
        PROVE  Places' /\ Submitted'
    BY <2>6 DEF StartRunner, Produce, ResolutionInv, Places, Submitted, inspection
  <2>7. ASSUME NEW r \in Runs, Remove(r)
        PROVE  Places' /\ Submitted'
    BY <2>7 DEF Remove, Produce, ResolutionInv, Places, Submitted, inspection
  <2>8. CASE Written
    BY <2>8 DEF Written, Produce, ResolutionInv, Places, Submitted, inspection
  <2> QED
    BY <2>1, <2>2, <2>3, <2>4, <2>5, <2>6, <2>7, <2>8 DEF ProducerStep
<1>3. JobMode /\ JobRead => JobRead'
  BY <1>1, NoneAssumption DEF JobMode, JobRead, ResolutionInv, Places, inspection
<1>4. SubmissionRead => SubmissionRead'
  BY <1>1 DEF SubmissionRead, inspection
<1>5. ReadInOrder'
  BY <1>1, <1>3, <1>4 DEF ResolutionInv, ReadInOrder, JobMode, inspection
<1> QED
  BY <1>2, <1>5 DEF ResolutionInv

-----------------------------------------------------------------------------
(* One look.                                                               *)

(* What the inspection is judged by never says by itself that a job is
   resolved, and it accepts a job record and a submission that agree.      *)
LEMMA JudgedBefore ==
    ASSUME NEW target \in Targets \ {"runtime"}, NEW look,
           look.is \in {"absent", "cut", "whole"}
    PROVE  Judge(target, look) # "resolved"
<1>1. CASE ~JobMode
  BY <1>1 DEF Judge, ParseFound
<1>2. CASE JobMode
  <2>1. Missing[target] # "resolved"
    BY DEF Missing, Targets
  <2>2. CASE look.is # "whole"
    BY <1>2, <2>1, <2>2 DEF Judge, CheckFound
  <2>3. CASE look.is = "whole"
    <3>1. target \in {"job", "directory", "submission", "attempt"}
      BY DEF Targets
    <3> QED
      BY <1>2, <2>3, <3>1, JobRefusals, SubmissionRefusals, AttemptRefusals
      DEF Judge, CheckFound, Refusals
  <2> QED
    BY <2>2, <2>3
<1> QED
  BY <1>1, <1>2

LEMMA AcceptedJob ==
    ASSUME ResolutionInv, JobMode, NEW look,
           look = Absent \/ look = Found("job"),
           Judge("job", look) = "none"
    PROVE  /\ attemptOf[asked] \in Attempts
           /\ runOf[attemptOf[asked]] \in Runs
           /\ look.payload.run = runOf[attemptOf[asked]]
           /\ look.payload.attempt \in {None, attemptOf[asked]}
<1>1. look.is = "whole"
  BY DEF Judge, CheckFound, Missing, Targets, Absent, Found, Present, Cut, Whole
<1>2. asked \in jobRecords /\ look.payload = JobPayload(asked)
  BY <1>1 DEF Found, Present, Absent, Cut, Whole
<1>3. attemptOf[asked] \in Attempts /\ runOf[attemptOf[asked]] \in Runs
  BY <1>2, NoneAssumption DEF ResolutionInv, Places, Submitted
<1> QED
  BY <1>2, <1>3 DEF JobPayload, Named

LEMMA AcceptedSubmission ==
    ASSUME JobMode, NEW look, look.is \in {"absent", "cut", "whole"},
           Judge("submission", look) = "none"
    PROVE  None \notin {got["job"].attempt, look.payload.attempt} =>
              got["job"].attempt = look.payload.attempt
<1>1. look.is = "whole"
  BY DEF Judge, CheckFound, Missing, Targets
<1>2. CheckSubmission(got["job"], look.payload) = "none"
  BY <1>1 DEF Judge, CheckFound
<1> QED
  BY <1>2, SubmissionAgrees

(* The one place where an inspection goes on.                              *)
LEMMA ReceiveKeeps ==
    ASSUME ResolutionInv, pc \in Targets,
           UNCHANGED <<producer, asked>>,
           NEW look, look.is \in {"absent", "cut", "whole"},
           pc = "job" => look = Absent \/ look = Found("job"),
           Receive(pc, look)
    PROVE  ResolutionInv'
<1>1. Places' /\ Submitted'
  BY DEF Receive, ShowRuntime, End, Proceed, After, ResolutionInv, Places, Submitted,
         producer, Targets
<1>2. /\ JobMode' = JobMode
      /\ \A target \in Targets \ {pc} : got'[target] = got[target]
  BY DEF Receive, ShowRuntime, ResolutionInv, Places, JobMode
<1>3. CASE pc = "runtime"
  <2>1. pc' = "done" /\ verdict' = "resolved"
    BY <1>3 DEF Receive, ShowRuntime, End
  <2>2. JobMode => JobRead' /\ SubmissionRead'
    BY <1>2, <1>3 DEF ResolutionInv, ReadInOrder, JobRead, SubmissionRead, producer, Targets
  <2> QED
    BY <1>1, <1>2, <2>1, <2>2 DEF ResolutionInv, ReadInOrder
<1>4. CASE pc # "runtime" /\ Judge(pc, look) # "none"
  <2>1. pc' = "done" /\ verdict' = Judge(pc, look)
    BY <1>4 DEF Receive, End
  <2>2. verdict' # "resolved"
    BY <1>4, <2>1, JudgedBefore
  <2> QED
    BY <1>1, <1>2, <2>1, <2>2 DEF ResolutionInv, ReadInOrder
<1>5. CASE pc # "runtime" /\ Judge(pc, look) = "none"
  <2>1. /\ got' = [got EXCEPT ![pc] = look.payload]
        /\ got'[pc] = look.payload
    BY <1>5 DEF Receive, ResolutionInv, Places
  <2>2. JobMode => JobRead'
    <3>1. CASE pc = "job"
      BY <1>5, <2>1, <3>1, AcceptedJob DEF JobRead, producer
    <3>2. CASE pc # "job"
      BY <1>2, <1>5, <3>2 DEF ResolutionInv, ReadInOrder, JobRead, producer, Targets
    <3> QED
      BY <3>1, <3>2
  <2>3. JobMode /\ pc = "submission" => SubmissionRead'
    BY <1>2, <1>5, <2>1, AcceptedSubmission DEF SubmissionRead, Targets
  <2>4. JobMode /\ pc = "attempt" => SubmissionRead'
    BY <1>2, <1>5 DEF ResolutionInv, ReadInOrder, SubmissionRead, Targets
  <2>5. /\ pc' \in {"attempt", "runtime"} \/ verdict' = "resolved" => pc \in {"submission", "attempt"}
        /\ verdict' = "resolved" => pc' = "done"
    BY <1>5 DEF Receive, Proceed, End, After, ResolutionInv, ReadInOrder, Targets
  <2> QED
    BY <1>1, <1>2, <2>2, <2>3, <2>4, <2>5 DEF ResolutionInv, ReadInOrder
<1> QED
  BY <1>3, <1>4, <1>5

LEMMA WhatIsFound ==
    ASSUME pc \in Targets
    PROVE  Found(pc).is \in {"absent", "cut", "whole"}
  BY DEF Found, Present, Absent, Cut, Whole, Targets

(* A look that ends without a record, or goes on to its next command.      *)
LEMMA EndKeeps ==
    ASSUME ResolutionInv, UNCHANGED <<producer, asked, got>>,
           \/ /\ pc' = pc
              /\ UNCHANGED verdict
           \/ pc' = "done" /\ verdict' # "resolved"
    PROVE  ResolutionInv'
<1>1. Places' /\ Submitted'
  BY DEF ResolutionInv, Places, Submitted, producer
<1>2. JobMode' = JobMode /\ JobRead' = JobRead /\ SubmissionRead' = SubmissionRead
  BY DEF JobMode, JobRead, SubmissionRead, producer
<1> QED
  BY <1>1, <1>2 DEF ResolutionInv, ReadInOrder

LEMMA FailKeeps ==
    ASSUME ResolutionInv, pc \in Targets, UNCHANGED <<producer, asked>>, Fail
    PROVE  ResolutionInv'
<1>1. CASE pc = "runtime"
  <2>1. Receive(pc, Absent)
    BY <1>1 DEF Fail, Receive
  <2> QED
    BY <1>1, <2>1, ReceiveKeeps DEF Absent
<1>2. CASE pc # "runtime"
  <2>1. pc' = "done" /\ verdict' # "resolved" /\ UNCHANGED got
    BY <1>2 DEF Fail, End
  <2> QED
    BY <2>1, EndKeeps
<1> QED
  BY <1>1, <1>2

LEMMA LookKeeps ==
    ASSUME ResolutionInv, Look
    PROVE  ResolutionInv'
<1>1. pc \in Targets
  BY DEF Look, LookPrimed, Test, Size, ReadContents, CommandFails, LoseCache,
         ResolutionInv
<1>2. CASE LookPrimed
  <2>1. CASE Receive(pc, Found(pc))
    BY <1>1, <1>2, <2>1, WhatIsFound, ReceiveKeeps DEF LookPrimed
  <2>2. CASE End("invalid") /\ UNCHANGED <<got, shown>>
    BY <1>2, <2>2, EndKeeps DEF LookPrimed, End
  <2> QED
    BY <1>2, <2>1, <2>2 DEF LookPrimed
<1>3. CASE Test
  <2>1. UNCHANGED <<producer, asked>>
    BY <1>3 DEF Test
  <2>2. \/ Receive(pc, Absent)
        \/ pc = "directory" /\ Receive(pc, Whole(None))
        \/ UNCHANGED <<pc, got, verdict, shown>>
    BY <1>3 DEF Test
  <2>3. CASE Receive(pc, Absent)
    BY <1>1, <2>1, <2>3, ReceiveKeeps DEF Absent
  <2>4. CASE pc = "directory" /\ Receive(pc, Whole(None))
    BY <1>1, <2>1, <2>4, ReceiveKeeps DEF Whole
  <2>5. CASE UNCHANGED <<pc, got, verdict, shown>>
    BY <2>1, <2>5, EndKeeps
  <2> QED
    BY <2>2, <2>3, <2>4, <2>5
<1>4. CASE Size
  <2>1. UNCHANGED <<producer, asked>>
    BY <1>4 DEF Size
  <2>2. CASE Fail
    BY <1>1, <2>1, <2>2, FailKeeps
  <2>3. CASE ~Fail
    BY <1>4, <2>1, <2>3, EndKeeps DEF Size, End
  <2> QED
    BY <2>2, <2>3
<1>5. CASE ReadContents
  <2>1. UNCHANGED <<producer, asked>>
    BY <1>5 DEF ReadContents
  <2>2. CASE Fail
    BY <1>1, <2>1, <2>2, FailKeeps
  <2>3. CASE Receive(pc, Found(pc))
    BY <1>1, <2>1, <2>3, WhatIsFound, ReceiveKeeps
  <2> QED
    BY <1>5, <2>2, <2>3 DEF ReadContents
<1>6. CASE CommandFails
  BY <1>1, <1>6, FailKeeps DEF CommandFails
<1>7. CASE LoseCache
  BY <1>7, EndKeeps DEF LoseCache
<1> QED
  BY <1>2, <1>3, <1>4, <1>5, <1>6, <1>7 DEF Look

LEMMA AskKeeps ==
    ASSUME ResolutionInv, Ask
    PROVE  ResolutionInv'
<1>1. verdict # "resolved"
  BY DEF Ask, AskJob, AskRun, ResolutionInv, ReadInOrder
<1>2. /\ UNCHANGED <<producer, got, verdict>>
      /\ asked' \in Jobs \cup {None}
      /\ \/ asked' # None /\ pc' = "job"
         \/ asked' = None /\ pc' = "submission"
  BY NoneAssumption DEF Ask, AskJob, AskRun, ResolutionInv, Places
<1>3. Places' /\ Submitted'
  BY <1>2 DEF ResolutionInv, Places, Submitted, producer, Targets
<1> QED
  BY <1>1, <1>2, <1>3 DEF ResolutionInv, ReadInOrder, JobMode

LEMMA StepKeeps == ResolutionInv /\ [Next]_vars => ResolutionInv'
<1> SUFFICES ASSUME ResolutionInv, [Next]_vars
             PROVE  ResolutionInv'
  OBVIOUS
<1>1. CASE ProducerStep
  BY <1>1, ProducerKeeps
<1>2. CASE Ask
  BY <1>2, AskKeeps
<1>3. CASE Look
  BY <1>3, LookKeeps
<1>4. CASE UNCHANGED vars
  BY <1>4, EndKeeps DEF vars, inspection
<1> QED
  BY <1>1, <1>2, <1>3, <1>4 DEF Next

THEOREM RecordsBelongTogether == Spec => []ResolutionInv
  BY InitEstablishes, StepKeeps, PTL DEF Spec

(* A job resolves to the run it was submitted in and to the submission of
   its own attempt, whatever is prepared meanwhile and whatever fails.     *)
THEOREM SubmissionIsOfTheJobHolds == Spec => []SubmissionIsOfTheJob
<1>1. ResolutionInv => SubmissionIsOfTheJob
  BY DEF ResolutionInv, ReadInOrder, JobRead, SubmissionRead, SubmissionIsOfTheJob
<1> QED
  BY <1>1, RecordsBelongTogether, PTL

-----------------------------------------------------------------------------
(* What a look comes to, said once for the invariants that follow: the     *)
(* record found or none is received, the look fails, a large submission is *)
(* refused, or nothing is known yet.  While calm lasts nothing is refused  *)
(* that is there.                                                          *)

Undecided == UNCHANGED <<pc, got, verdict, shown>> /\ step' \in {step, "size", "read"}

Refused == pc = "submission" /\ End("invalid") /\ UNCHANGED <<got, shown>>

TooLarge == Found(pc).is = "whole" /\ Found(pc).payload.large

LEMMA LookOutcomes ==
    ASSUME Look
    PROVE  /\ pc \in Targets
           /\ UNCHANGED <<producer, asked, flow>>
           /\ \/ Receive(pc, Absent)
              \/ Receive(pc, Found(pc))
              \/ Fail
              \/ Refused
              \/ Undecided
           /\ calm' => /\ calm
                       /\ \/ Found(pc).is = "absent"
                          \/ Receive(pc, Found(pc))
                          \/ pc = "submission" /\ TooLarge
                          \/ Undecided
<1> DEFINE Outcome ==
        \/ Receive(pc, Absent)
        \/ Receive(pc, Found(pc))
        \/ Fail
        \/ Refused
        \/ Undecided
    CalmOutcome ==
        \/ Found(pc).is = "absent"
        \/ Receive(pc, Found(pc))
        \/ pc = "submission" /\ TooLarge
        \/ Undecided
<1>1. pc \in Targets /\ UNCHANGED <<producer, asked, flow>>
  BY DEF Look, LookPrimed, Test, Size, ReadContents, CommandFails, LoseCache
<1>2. CASE LookPrimed
  <2>1. UNCHANGED calm
    BY <1>2 DEF LookPrimed
  <2>2. \/ Receive(pc, Found(pc))
        \/ Refused /\ TooLarge
    BY <1>2 DEF LookPrimed, Refused, TooLarge
  <2> QED
    BY <1>1, <2>1, <2>2 DEF Refused
<1>3. CASE Test
  <2>1. CASE Found(pc).is = "absent" /\ Receive(pc, Absent) /\ UNCHANGED <<faults, calm>>
    BY <1>1, <2>1
  <2>2. CASE Failing("test") /\ Receive(pc, Absent) /\ calm' = FALSE
    BY <1>1, <2>2
  <2>3. CASE /\ Found(pc).is # "absent"
             /\ IF pc = "directory" THEN Receive(pc, Whole(None))
                ELSE /\ step' = IF JobMode /\ pc # "runtime" THEN "size" ELSE "read"
                     /\ UNCHANGED <<pc, got, verdict, shown>>
             /\ UNCHANGED <<faults, calm>>
    <3>1. pc = "directory" => Found(pc) = Whole(None)
      BY <2>3 DEF Found, Absent
    <3>2. Receive(pc, Found(pc)) \/ Undecided
      BY <2>3, <3>1 DEF Undecided
    <3> QED
      BY <1>1, <2>3, <3>2
  <2> QED
    BY <1>3, <2>1, <2>2, <2>3 DEF Test
<1>4. CASE Size
  <2>1. UNCHANGED calm
    BY <1>4 DEF Size
  <2>2. CASE Found(pc).is = "absent" /\ Fail
    BY <1>1, <2>1, <2>2
  <2>3. CASE Refused /\ TooLarge
    BY <1>1, <2>1, <2>3 DEF Refused
  <2>4. CASE UNCHANGED <<pc, got, verdict, shown>> /\ step' = "read"
    BY <1>1, <2>1, <2>4 DEF Undecided
  <2> QED
    BY <1>4, <2>2, <2>3, <2>4 DEF Size, Refused, TooLarge, Undecided
<1>5. CASE ReadContents
  <2>1. UNCHANGED calm
    BY <1>5 DEF ReadContents
  <2>2. (Found(pc).is = "absent" /\ Fail) \/ Receive(pc, Found(pc))
    BY <1>5 DEF ReadContents
  <2> QED
    BY <1>1, <2>1, <2>2
<1>6. CASE CommandFails
  BY <1>1, <1>6 DEF CommandFails
<1>7. CASE LoseCache
  BY <1>1, <1>7 DEF LoseCache, Undecided
<1> QED
  BY <1>2, <1>3, <1>4, <1>5, <1>6, <1>7 DEF Look

-----------------------------------------------------------------------------
(* Types.                                                                  *)

\* Beside the types: the shape of what is shown, and that a state file that
\* was read names a job or none.
TypeInv ==
    /\ TypeOK
    /\ shown = [job |-> shown.job, treatments |-> shown.treatments,
                runtime |-> shown.runtime]
    /\ got["attempt"] # None => got["attempt"].job \in Jobs \cup {None}

(* Every judgement is a verdict. *)
LEMMA JudgedVerdict ==
    ASSUME NEW target \in Targets \ {"runtime"}, NEW look,
           look.is \in {"absent", "cut", "whole"}
    PROVE  Judge(target, look) \in Verdicts
<1> USE DEF Verdicts
<1>1. CASE ~JobMode
  BY <1>1 DEF Judge, ParseFound
<1>2. CASE JobMode
  <2>1. Missing[target] \in Verdicts
    BY DEF Missing, Targets
  <2>2. CASE look.is # "whole"
    BY <1>2, <2>1, <2>2 DEF Judge, CheckFound
  <2>3. CASE look.is = "whole"
    <3>1. target \in {"job", "directory", "submission", "attempt"}
      BY DEF Targets
    <3> QED
      BY <1>2, <2>3, <3>1, JobRefusals, SubmissionRefusals, AttemptRefusals
      DEF Judge, CheckFound, Refusals
  <2> QED
    BY <2>2, <2>3
<1> QED
  BY <1>1, <1>2

(* A runtime record is shown under one of the statuses, and where its
   contents are, the mark tells whether it may be of another execution.    *)
LEMMA RuntimeShown ==
    ASSUME NEW p, NEW attempt, NEW job
    PROVE  /\ ObserveRuntime(p, attempt, job).status \in RuntimeStatus
           /\ ObserveRuntime(p, attempt, job).status = "recorded" =>
                 ObserveRuntime(p, attempt, job).marked = Differs(p, attempt, job)
<1> DEFINE Unreadable == {"invalid", "unsupported_version"}
<1>1. ParseRuntime(p) \in Unreadable \cup {"none"}
  <2> DEFINE checks ==
           << Check(p.schema # "own" \/ p.version \notin {"one", "newer"}, "invalid"),
              Check(p.version = "newer", "unsupported_version"),
              Check(p.status \notin {"passed", "failed"}, "invalid"),
              Check(p.status = "passed" /\ p.problems, "invalid") >>
  <2>1. DOMAIN checks = 1 .. 4
    OBVIOUS
  <2>2. \A i \in 1 .. 4 : checks[i].outcome \in Unreadable
    BY DEF Check
  <2>3. ParseRuntime(p) = FirstFailure(checks)
    BY Zenon DEF ParseRuntime
  <2> HIDE DEF checks, Unreadable
  <2> QED
    BY <2>1, <2>2, <2>3, OutcomeOfAFailure
<1> QED
  BY <1>1 DEF ObserveRuntime, RuntimeStatus

LEMMA TypeInitial == Init => TypeInv
<1> SUFFICES ASSUME Init PROVE TypeInv
  OBVIOUS
<1>1. (CHOOSE f \in Forms : TRUE) \in Forms
  BY FormsAssumption
<1>2. form \in [Attempts -> Forms]
  BY <1>1 DEF Init
<1>3. faults \in 0 .. MaxFaults
  BY RootsAssumption DEF Init
<1>4. verdict \in Verdicts /\ shown.runtime.status \in RuntimeStatus
  BY DEF Init, Verdicts, RuntimeStatus, NothingShown
<1>5. got["attempt"] = None
  BY DEF Init, Nothing, Targets
<1> QED
  BY <1>2, <1>3, <1>4, <1>5 DEF Init, TypeInv, TypeOK, NothingShown

LEMMA TypeProducer ==
    ASSUME TypeInv, ProducerStep
    PROVE  TypeInv'
<1> USE DEF TypeInv, TypeOK, Produce, inspection
<1>1. ASSUME NEW a \in Attempts, NEW r \in Runs, Prepare(a, r)
      PROVE  TypeInv'
  <2>1. PICK f \in Forms : form' = [form EXCEPT ![a] = f]
    BY <1>1 DEF Prepare
  <2> QED
    BY <1>1, <2>1 DEF Prepare
<1>2. ASSUME NEW a \in Attempts, RecordAttempt(a)
      PROVE  TypeInv'
  BY <1>2 DEF RecordAttempt
<1>3. ASSUME NEW j \in Jobs, NEW a \in Attempts, Submit(j, a)
      PROVE  TypeInv'
  BY <1>3 DEF Submit
<1>4. ASSUME NEW j \in Jobs, WriteJobRecord(j)
      PROVE  TypeInv'
  BY <1>4 DEF WriteJobRecord
<1>5. ASSUME NEW j \in Jobs, WriteAttemptJob(j)
      PROVE  TypeInv'
  BY <1>5 DEF WriteAttemptJob
<1>6. ASSUME NEW j \in Jobs, StartRunner(j)
      PROVE  TypeInv'
  BY <1>6 DEF StartRunner
<1>7. ASSUME NEW r \in Runs, Remove(r)
      PROVE  TypeInv'
  BY <1>7 DEF Remove
<1>8. CASE Written
  BY <1>8 DEF Written
<1> QED
  BY <1>1, <1>2, <1>3, <1>4, <1>5, <1>6, <1>7, <1>8 DEF ProducerStep

LEMMA TypeAsk ==
    ASSUME TypeInv, Ask
    PROVE  TypeInv'
<1>1. /\ UNCHANGED <<producer, step, cached, faults, got, verdict, shown>>
      /\ pc' \in Targets
      /\ asked' \in Jobs \cup {None}
      /\ flow' \in Runs \cup {None}
  BY DEF Ask, AskJob, AskRun, TypeInv, TypeOK, Targets
<1>2. calm' \in BOOLEAN
  <2>1. \A j \in Jobs : Settled(j) \in BOOLEAN
    BY DEF Settled
  <2>2. calm' = calm \/ \E j \in Jobs : calm' = Settled(j)
    BY DEF Ask, AskJob, AskRun
  <2> QED
    BY <2>1, <2>2 DEF TypeInv, TypeOK
<1> QED
  BY <1>1, <1>2 DEF TypeInv, TypeOK, producer

(* What an inspection that receives a record has then. *)
LEMMA TypeReceive ==
    ASSUME TypeInv, ResolutionInv, pc \in Targets, UNCHANGED <<producer, asked, flow>>,
           NEW look \in {Absent, Found(pc)}, Receive(pc, look)
    PROVE  /\ pc' \in Targets \cup {"done"}
           /\ step' = "start"
           /\ verdict' \in Verdicts
           /\ shown'.job \in Jobs \cup {None}
           /\ shown'.runtime.status \in RuntimeStatus
           /\ shown' = [job |-> shown'.job, treatments |-> shown'.treatments,
                        runtime |-> shown'.runtime]
           /\ got'["attempt"] # None => got'["attempt"].job \in Jobs \cup {None}
<1> USE DEF TypeInv, TypeOK
<1>0. look.is \in {"absent", "cut", "whole"}
  BY WhatIsFound DEF Absent
<1>1. pc = "attempt" /\ look.payload # None => look.payload.job \in Jobs \cup {None}
  BY DEF Found, Absent, Present, Cut, Whole, AttemptPayload
<1>2. CASE pc = "runtime"
  <2>1. pc' = "done" /\ step' = "start" /\ verdict' = "resolved"
    BY <1>2 DEF Receive, ShowRuntime, End
  <2>2. PICK observed : /\ shown' = [shown EXCEPT !.runtime = observed]
                        /\ observed.status \in RuntimeStatus
    <3>1. shown' = [shown EXCEPT !.runtime =
              CASE look.is = "absent" -> [NothingShown.runtime EXCEPT !.status = "unavailable"]
                [] look.is = "cut" -> [NothingShown.runtime EXCEPT !.status = "invalid"]
                [] look.is = "whole" ->
                     ObserveRuntime(look.payload, got["submission"].attempt, shown.job)]
      BY <1>2 DEF Receive, ShowRuntime
    <3>0. /\ [NothingShown.runtime EXCEPT !.status = "unavailable"].status = "unavailable"
          /\ [NothingShown.runtime EXCEPT !.status = "invalid"].status = "invalid"
      BY DEF NothingShown
    <3>2. CASE look.is = "absent"
      BY <3>0, <3>1, <3>2 DEF RuntimeStatus
    <3>3. CASE look.is = "cut"
      BY <3>0, <3>1, <3>3 DEF RuntimeStatus
    <3>4. CASE look.is = "whole"
      BY <3>1, <3>4, RuntimeShown
    <3> QED
      BY <1>0, <3>2, <3>3, <3>4
  <2>3. got'["attempt"] = got["attempt"]
    BY <1>2 DEF Receive, ShowRuntime, ResolutionInv, Places, Targets
  <2> QED
    BY <2>1, <2>2, <2>3 DEF Verdicts
<1>3. CASE pc # "runtime" /\ Judge(pc, look) # "none"
  BY <1>0, <1>3, JudgedVerdict DEF Receive, End
<1>4. CASE pc # "runtime" /\ Judge(pc, look) = "none"
  <2>1. got' = [got EXCEPT ![pc] = look.payload]
    BY <1>4 DEF Receive
  <2>2. got'["attempt"] = IF pc = "attempt" THEN look.payload ELSE got["attempt"]
    BY <2>1 DEF ResolutionInv, Places, Targets
  <2>3. CASE After(pc, look) # "runtime"
    <3>1. pc' = After(pc, look) /\ step' = "start" /\ UNCHANGED <<verdict, shown>>
      BY <1>4, <2>3 DEF Receive
    <3>2. After(pc, look) \in Targets
      BY <1>4 DEF After, Targets
    <3> QED
      BY <1>1, <2>2, <3>1, <3>2
  <2>4. CASE After(pc, look) = "runtime"
    <3>1. Proceed([got EXCEPT ![pc] = look.payload])
      BY <1>4, <2>4 DEF Receive
    <3>2. Proceed(got')
      BY <2>1, <3>1
    <3>3. JobShown(got'["attempt"]) \in Jobs \cup {None}
      BY <1>1, <2>2 DEF JobShown
    <3>4. /\ pc' \in {"done", "runtime"} /\ step' = "start"
          /\ verdict' \in {"unanalyzed", "resolved", verdict}
      BY <3>2 DEF Proceed, End
    <3>5. shown' = [job |-> JobShown(got'["attempt"]),
                    treatments |-> TreatmentsStatus(got'["submission"]),
                    runtime |-> NothingShown.runtime]
      BY <3>2 DEF Proceed
    <3>6. NothingShown.runtime.status = "none"
      BY DEF NothingShown
    <3> QED
      BY <1>1, <2>2, <3>3, <3>4, <3>5, <3>6 DEF Targets, Verdicts, RuntimeStatus
  <2> QED
    BY <2>3, <2>4
<1> QED
  BY <1>2, <1>3, <1>4

LEMMA TypeLook ==
    ASSUME TypeInv, ResolutionInv, Look
    PROVE  TypeInv'
<1> USE DEF TypeInv, TypeOK
<1>1. pc \in Targets /\ UNCHANGED <<producer, asked, flow>>
  BY LookOutcomes
<1>2. cached' \in BOOLEAN /\ faults' \in 0 .. MaxFaults /\ calm' \in BOOLEAN
  <2>1. faults' = faults \/ (faults < MaxFaults /\ faults' = faults + 1)
    BY DEF Look, LookPrimed, Test, Size, ReadContents, CommandFails, LoseCache, Failing
  <2>2. cached' \in {cached, FALSE} /\ calm' \in {calm, FALSE}
    BY DEF Look, LookPrimed, Test, Size, ReadContents, CommandFails, LoseCache
  <2>3. faults' \in 0 .. MaxFaults
    BY <2>1, RootsAssumption
  <2> QED
    BY <2>2, <2>3
<1>3. step' \in {"start", "size", "read"}
  <2>1. CASE Receive(pc, Absent) \/ Receive(pc, Found(pc))
    BY <1>1, <2>1, TypeReceive
  <2>2. CASE Fail \/ Refused
    BY <2>2 DEF Fail, Refused, ShowRuntime, End
  <2>3. CASE Undecided
    BY <2>3 DEF Undecided
  <2> QED
    BY <2>1, <2>2, <2>3, LookOutcomes
<1>4. /\ pc' \in Targets \cup {"idle", "done"}
      /\ verdict' \in Verdicts
      /\ shown'.job \in Jobs \cup {None}
      /\ shown'.runtime.status \in RuntimeStatus
      /\ shown' = [job |-> shown'.job, treatments |-> shown'.treatments,
                   runtime |-> shown'.runtime]
      /\ got'["attempt"] # None => got'["attempt"].job \in Jobs \cup {None}
  <2>1. CASE Receive(pc, Absent) \/ Receive(pc, Found(pc))
    BY <1>1, <2>1, TypeReceive
  <2>2. CASE Fail
    <3>1. CASE pc = "runtime"
      <4>1. Receive(pc, Absent)
        BY <2>2, <3>1 DEF Fail, Receive
      <4> QED
        BY <2>1, <4>1
    <3>2. CASE pc # "runtime"
      BY <2>2, <3>2 DEF Fail, End, Verdicts
    <3> QED
      BY <3>1, <3>2
  <2>3. CASE Refused
    BY <2>3 DEF Refused, End, Verdicts
  <2>4. CASE Undecided
    BY <2>4 DEF Undecided
  <2> QED
    BY <2>1, <2>2, <2>3, <2>4, LookOutcomes
<1> QED
  BY <1>1, <1>2, <1>3, <1>4 DEF producer

LEMMA TypeStep == TypeInv /\ ResolutionInv /\ [Next]_vars => TypeInv'
<1> SUFFICES ASSUME TypeInv, ResolutionInv, [Next]_vars
             PROVE  TypeInv'
  OBVIOUS
<1>1. CASE UNCHANGED vars
  BY <1>1 DEF vars, producer, inspection, TypeInv, TypeOK
<1> QED
  BY <1>1, TypeProducer, TypeAsk, TypeLook DEF Next

(* The inspection and the producer's files keep their types, for every way
   the records are written and every verdict of the checks.                *)
THEOREM TypesKept == Spec => []TypeOK
<1>1. TypeInv => TypeOK
  BY DEF TypeInv
<1> QED
  BY <1>1, TypeInitial, TypeStep, RecordsBelongTogether, PTL DEF Spec

-----------------------------------------------------------------------------
(* The files of BMD Compute agree with one another, and an inspection      *)
(* leaves them alone.                                                      *)

FilesAgree ==
    /\ \A r \in Runs : submission[r] # None =>
          submission[r] \in Attempts /\ runOf[submission[r]] = r
    /\ \A r \in removed : submission[r] = None
    /\ \A a \in Attempts : attemptState[a] \in Jobs => attemptOf[attemptState[a]] = a
    /\ runtime = [r \in Runs |-> runtime[r]]
    /\ \A r \in Runs : runtime[r] # None => runtime[r].job \in Jobs

LEMMA FilesInitial == Init => FilesAgree
<1> SUFFICES ASSUME Init PROVE FilesAgree
  OBVIOUS
<1>1. "absent" \notin Jobs
  BY NoneAssumption
<1> QED
  BY <1>1 DEF Init, FilesAgree

LEMMA FilesStep == TypeInv /\ ResolutionInv /\ FilesAgree /\ [Next]_vars => FilesAgree'
<1> SUFFICES ASSUME TypeInv, ResolutionInv, FilesAgree, [Next]_vars
             PROVE  FilesAgree'
  OBVIOUS
<1> USE DEF FilesAgree
<1>0. /\ runOf \in [Attempts -> Runs \cup {None}]
      /\ attemptOf \in [Jobs -> Attempts \cup {None}]
      /\ submission \in [Runs -> Attempts \cup {None}]
      /\ attemptState \in [Attempts -> {"absent", "prepared"} \cup Jobs]
      /\ removed \subseteq Runs
  BY DEF TypeInv, TypeOK
<1>1. ASSUME NEW a \in Attempts, NEW r \in Runs, Prepare(a, r)
      PROVE  FilesAgree'
  BY <1>0, <1>1, NoneAssumption DEF Prepare
<1>2. ASSUME NEW a \in Attempts, RecordAttempt(a)
      PROVE  FilesAgree'
  BY <1>0, <1>2, NoneAssumption DEF RecordAttempt
<1>3. ASSUME NEW j \in Jobs, NEW a \in Attempts, Submit(j, a)
      PROVE  FilesAgree'
  BY <1>0, <1>3, NoneAssumption DEF Submit
<1>4. ASSUME NEW j \in Jobs, WriteJobRecord(j)
      PROVE  FilesAgree'
  BY <1>4 DEF WriteJobRecord
<1>5. ASSUME NEW j \in Jobs, WriteAttemptJob(j)
      PROVE  FilesAgree'
  BY <1>0, <1>5 DEF WriteAttemptJob
<1>6. ASSUME NEW j \in Jobs, StartRunner(j)
      PROVE  FilesAgree'
  <2>1. runtime' = runtime \/
          \E r \in Runs : \E record :
              record.job = j /\ runtime' = [runtime EXCEPT ![r] = record]
    BY <1>0, <1>6 DEF StartRunner, ResolutionInv, Submitted
  <2>2. /\ runtime' = [r \in Runs |-> runtime'[r]]
        /\ \A r \in Runs : runtime'[r] # None => runtime'[r].job \in Jobs
    BY <2>1
  <2> QED
    BY <1>6, <2>2 DEF StartRunner
<1>7. ASSUME NEW r \in Runs, Remove(r)
      PROVE  FilesAgree'
  BY <1>0, <1>7 DEF Remove
<1>8. CASE Written
  BY <1>8 DEF Written
<1>9. CASE Ask \/ UNCHANGED vars
  BY <1>9 DEF Ask, AskJob, AskRun, vars, producer
<1>10. CASE Look
  BY <1>10, LookOutcomes DEF producer
<1> QED
  BY <1>1, <1>2, <1>3, <1>4, <1>5, <1>6, <1>7, <1>8, <1>9, <1>10 DEF Next, ProducerStep

(* What is in a file is what its place says, for every order of writing. *)
THEOREM FilesAlwaysAgree == Spec => []FilesAgree
  BY FilesInitial, FilesStep, TypeInitial, TypeStep, RecordsBelongTogether, PTL DEF Spec

-----------------------------------------------------------------------------
(* A runtime record is shown last, and its mark compares it with what was  *)
(* read before.                                                            *)

Compared ==
    /\ pc = "done"
    /\ got["runtime"].job \in Jobs
    /\ shown.runtime.marked = Differs(got["runtime"], got["submission"].attempt, shown.job)

RuntimeInv ==
    /\ pc \in Targets /\ ~JobMode => flow \in Runs
    /\ shown.runtime.status = "recorded" => Compared

LEMMA RuntimeInitial == Init => RuntimeInv
  BY DEF Init, RuntimeInv, NothingShown, Targets

(* The run directory looked into is one of the runs. *)
LEMMA RunDirIsARun ==
    ASSUME ResolutionInv, RuntimeInv,
           pc \in {"directory", "submission", "attempt", "runtime"}
    PROVE  RunDir \in Runs
<1>1. CASE JobMode
  BY <1>1 DEF ResolutionInv, ReadInOrder, JobRead, RunDir
<1>2. CASE ~JobMode
  BY <1>2 DEF RuntimeInv, RunDir, Targets
<1> QED
  BY <1>1, <1>2

LEMMA RuntimeReceive ==
    ASSUME TypeInv, ResolutionInv, FilesAgree, RuntimeInv, pc \in Targets,
           UNCHANGED <<producer, asked, flow>>,
           NEW look \in {Absent, Found(pc)}, Receive(pc, look)
    PROVE  shown'.runtime.status = "recorded" => Compared'
<1>0. look.is \in {"absent", "cut", "whole"}
  BY WhatIsFound DEF Absent
<1>1. CASE pc = "runtime"
  <2>0. /\ [NothingShown.runtime EXCEPT !.status = "unavailable"].status = "unavailable"
        /\ [NothingShown.runtime EXCEPT !.status = "invalid"].status = "invalid"
    BY DEF NothingShown
  <2>1. shown' = [shown EXCEPT !.runtime =
            CASE look.is = "absent" -> [NothingShown.runtime EXCEPT !.status = "unavailable"]
              [] look.is = "cut" -> [NothingShown.runtime EXCEPT !.status = "invalid"]
              [] look.is = "whole" ->
                   ObserveRuntime(look.payload, got["submission"].attempt, shown.job)]
    BY <1>1 DEF Receive, ShowRuntime
  <2>2. pc' = "done" /\ got' = [got EXCEPT !["runtime"] = look.payload]
    BY <1>1 DEF Receive, ShowRuntime, End
  <2>3. got'["runtime"] = look.payload /\ got'["submission"] = got["submission"]
    BY <2>2 DEF ResolutionInv, Places, Targets
  <2>4. CASE look.is = "absent"
    BY <2>0, <2>1, <2>4 DEF TypeInv
  <2>5. CASE look.is = "cut"
    BY <2>0, <2>1, <2>5 DEF TypeInv
  <2>6. CASE look.is = "whole"
    <3>1. look.payload.job \in Jobs
      <4>1. RunDir \in Runs
        BY <1>1, RunDirIsARun
      <4>2. look = Found("runtime") /\ runtime[RunDir] # None
        BY <1>1, <2>6 DEF Found, Absent
      <4>3. look.payload = runtime[RunDir]
        BY <2>6, <4>2 DEF Found, Present, Cut, Whole
      <4> QED
        BY <4>1, <4>2, <4>3 DEF FilesAgree
    <3>2. /\ shown'.job = shown.job
          /\ shown'.runtime = ObserveRuntime(look.payload, got["submission"].attempt, shown.job)
      BY <2>1, <2>6 DEF TypeInv
    <3> QED
      BY <2>2, <2>3, <3>1, <3>2, RuntimeShown DEF Compared
  <2> QED
    BY <1>0, <2>4, <2>5, <2>6
<1>2. CASE pc # "runtime"
  <2>1. shown.runtime.status # "recorded"
    BY DEF RuntimeInv, Compared, Targets
  <2>2. shown' = shown \/ shown'.runtime = NothingShown.runtime
    BY <1>2 DEF Receive, Proceed
  <2> QED
    BY <2>1, <2>2 DEF NothingShown
<1> QED
  BY <1>1, <1>2

LEMMA RuntimeStep ==
    TypeInv /\ ResolutionInv /\ FilesAgree /\ RuntimeInv /\ [Next]_vars => RuntimeInv'
<1> SUFFICES ASSUME TypeInv, ResolutionInv, FilesAgree, RuntimeInv, [Next]_vars
             PROVE  RuntimeInv'
  OBVIOUS
<1>1. CASE ProducerStep \/ UNCHANGED vars
  <2>1. UNCHANGED inspection
    BY <1>1 DEF ProducerStep, Produce, Written, RecordAttempt, Prepare, Submit,
            WriteJobRecord, WriteAttemptJob, StartRunner, Remove, vars
  <2> QED
    BY <2>1 DEF RuntimeInv, Compared, JobMode, inspection
<1>2. CASE Ask
  BY <1>2, NoneAssumption DEF Ask, AskJob, AskRun, RuntimeInv, Compared, JobMode
<1>3. CASE Look
  <2>1. pc \in Targets /\ UNCHANGED <<producer, asked, flow>>
    BY <1>3, LookOutcomes
  <2>2. shown'.runtime.status = "recorded" => Compared'
    <3>1. CASE Receive(pc, Absent) \/ Receive(pc, Found(pc))
      BY <2>1, <3>1, RuntimeReceive
    <3>2. CASE Fail /\ pc = "runtime"
      <4>1. Receive(pc, Absent)
        BY <3>2 DEF Fail, Receive
      <4> QED
        BY <3>1, <4>1
    <3>3. CASE UNCHANGED shown
      BY <2>1, <3>3 DEF RuntimeInv, Compared, Targets
    <3> QED
      BY <1>3, <3>1, <3>2, <3>3, LookOutcomes DEF Fail, Refused, Undecided
  <2> QED
    BY <2>1, <2>2 DEF RuntimeInv, JobMode
<1> QED
  BY <1>1, <1>2, <1>3 DEF Next

(* A runtime record shown without a mark is of the job inspected and, where
   the records name it, of its attempt, though every later run in the
   directory overwrites it and it is the last record read.                 *)
THEOREM RuntimeOfAnotherIsMarkedHolds == Spec => []RuntimeOfAnotherIsMarked
<1>1. ResolutionInv /\ RuntimeInv => RuntimeOfAnotherIsMarked
  <2> SUFFICES ASSUME ResolutionInv, RuntimeInv, verdict = "resolved",
                      shown.runtime.status = "recorded", ~shown.runtime.marked
               PROVE  /\ shown.job # None => got["runtime"].job = shown.job
                      /\ /\ JobMode
                         /\ None \notin {got["job"].attempt, got["submission"].attempt,
                                         got["runtime"].attempt}
                         => got["runtime"].attempt = attemptOf[asked]
    BY DEF RuntimeOfAnotherIsMarked
  <2>1. got["runtime"].job \in Jobs
    BY DEF RuntimeInv, Compared
  <2>2. ~Differs(got["runtime"], got["submission"].attempt, shown.job)
    BY DEF RuntimeInv, Compared
  <2>3. shown.job # None => got["runtime"].job = shown.job
    BY <2>1, <2>2, NoneAssumption DEF Differs
  <2>4. JobMode => JobRead /\ SubmissionRead
    BY DEF ResolutionInv, ReadInOrder
  <2> QED
    BY <2>2, <2>3, <2>4 DEF Differs, JobRead, SubmissionRead
<1> QED
  BY <1>1, FilesAlwaysAgree, RuntimeInitial, RuntimeStep, TypeInitial, TypeStep,
     RecordsBelongTogether, PTL DEF Spec

-----------------------------------------------------------------------------
(* What makes the records of a job disagree.                               *)

(* Checks that come to something have a first one that fails. *)
LEMMA WhatFailed ==
    ASSUME NEW checks, NEW n \in 1 .. 8, DOMAIN checks = 1 .. n,
           FirstFailure(checks) # "none"
    PROVE  \E k \in 1 .. n : /\ checks[k].fails
                             /\ FirstFailure(checks) = checks[k].outcome
                             /\ \A m \in 1 .. n : m < k => ~checks[m].fails
<1>1. \E i \in 1 .. n : checks[i].fails
  BY DEF FirstFailure
<1> QED
  BY <1>1, TheFirstDecides

(* If none fails they come to "none". *)
LEMMA NothingFailed ==
    ASSUME NEW checks, NEW n \in 1 .. 8, DOMAIN checks = 1 .. n,
           \A i \in 1 .. n : ~checks[i].fails
    PROVE  FirstFailure(checks) = "none"
  BY DEF FirstFailure

(* What a record is refused as by itself: never as ambiguous. *)
RefusedAlone == {"invalid", "unsupported_record"}

LEMMA UnreadAlone ==
    ASSUME NEW p, Unread(p).fails
    PROVE  Unread(p).outcome \in RefusedAlone
<1>1. RecordContract(p) \in {"legacy", "v1", "unsupported_record", "invalid"}
  BY DEF RecordContract
<1>2. Unread(p).fails <=> RecordContract(p) \notin {"legacy", "v1"}
  BY DEF Unread, Check
<1>3. Unread(p).outcome = RecordContract(p)
  BY DEF Unread, Check
<1> QED
  BY <1>1, <1>2, <1>3 DEF RefusedAlone

LEMMA ParseJobAlone ==
    ASSUME NEW p
    PROVE  ParseJob(p) \in RefusedAlone \cup {"none"}
<1> DEFINE checks ==
         << Unread(p),
            Check(p.job = None \/ p.run = None, "invalid"),
            Check(RecordContract(p) = "v1" /\ p.attempt = None, "invalid"),
            Check(p.fields = "mistyped", "invalid") >>
<1>1. DOMAIN checks = 1 .. 4
  OBVIOUS
<1>2. \A i \in 1 .. 4 : checks[i].fails => checks[i].outcome \in RefusedAlone
  <2>1. checks[1] = Unread(p)
    OBVIOUS
  <2>2. \A i \in 2 .. 4 : checks[i].outcome \in RefusedAlone
    BY DEF Check, RefusedAlone
  <2> QED
    BY <2>1, <2>2, UnreadAlone
<1> HIDE DEF checks
<1>3. FirstFailure(checks) \in RefusedAlone \cup {"none"}
  BY <1>1, <1>2, OutcomeOfAFailure
<1> QED
  BY <1>3 DEF ParseJob, checks

LEMMA ParseSubmissionAlone ==
    ASSUME NEW p
    PROVE  ParseSubmission(p) \in RefusedAlone \cup {"none"}
<1> DEFINE v1 == RecordContract(p) = "v1"
           checks ==
             << Unread(p),
                Check(p.spec = "missing" /\ ~v1, "unsupported_record"),
                Check(p.spec # "stages", "invalid"),
                Check(~StageDirsAccepted(p.dirs, p.stages, v1), "invalid"),
                Check(v1 /\ None \in {p.attempt, p.run}, "invalid"),
                Check(v1 /\ p.states = {}, "invalid"),
                Check(Cardinality(p.states) > 1, "invalid"),
                Check(p.fields = "mistyped", "invalid") >>
<1>1. DOMAIN checks = 1 .. 8
  OBVIOUS
<1>2. \A i \in 1 .. 8 : checks[i].fails => checks[i].outcome \in RefusedAlone
  <2>1. checks[1] = Unread(p)
    OBVIOUS
  <2>2. \A i \in 2 .. 8 : checks[i].outcome \in RefusedAlone
    BY DEF Check, RefusedAlone
  <2> QED
    BY <2>1, <2>2, UnreadAlone
<1> HIDE DEF checks
<1>3. FirstFailure(checks) \in RefusedAlone \cup {"none"}
  BY <1>1, <1>2, OutcomeOfAFailure
<1> QED
  BY <1>3 DEF ParseSubmission, checks

Resubmitted ==
    LET a == attemptOf[asked]
    IN  \/ \E b \in Attempts \ {a} : runOf[b] = runOf[a]
        \/ \E j \in Jobs \ {asked} : attemptOf[j] = a

\* A state file is that of an attempt in the run of the job.
StateFileOf(b) ==
    /\ runOf[b] = got["job"].run
    /\ got["submission"].attempt \in {None, b}
    /\ got["submission"].states = {b}

LinkInv ==
    /\ JobMode /\ pc \in {"directory", "submission", "attempt"} =>
          got["job"].embeddedStates \subseteq {attemptOf[asked]}
    /\ JobMode /\ pc = "attempt" => \E b \in Attempts : StateFileOf(b)
    /\ verdict = "ambiguous" => pc = "done" /\ JobMode /\ Resubmitted

LEMMA LinkInitial == Init => LinkInv
  BY DEF Init, LinkInv, JobMode

LEMMA LinkProducer ==
    ASSUME TypeInv, ResolutionInv, FilesAgree, LinkInv, ProducerStep
    PROVE  LinkInv'
<1>1. /\ UNCHANGED inspection
      /\ pc # "done"
      /\ \A a \in Attempts : runOf[a] # None => runOf'[a] = runOf[a]
      /\ \A j \in Jobs : attemptOf[j] # None => attemptOf'[j] = attemptOf[j]
  BY DEF ResolutionInv, Places, ProducerStep, Produce, Written, RecordAttempt, Prepare,
         Submit, WriteJobRecord, WriteAttemptJob, StartRunner, Remove
<1>2. verdict' # "ambiguous"
  BY <1>1 DEF LinkInv, inspection
<1>3. JobMode' = JobMode /\ pc' = pc /\ got' = got /\ asked' = asked
  BY <1>1 DEF JobMode, inspection
<1>4. JobMode /\ pc \in {"directory", "submission", "attempt"} =>
         /\ attemptOf[asked] \in Attempts /\ asked \in Jobs
         /\ got["job"].run \in Runs
  BY DEF ResolutionInv, ReadInOrder, JobRead, Places, JobMode
<1>5. JobMode /\ pc \in {"directory", "submission", "attempt"} =>
         attemptOf'[asked] = attemptOf[asked]
  BY <1>1, <1>4, NoneAssumption
<1>6. JobMode /\ pc = "attempt" =>
         \A b \in Attempts : StateFileOf(b) => StateFileOf(b)'
  BY <1>1, <1>3, <1>4, NoneAssumption DEF StateFileOf
<1> QED
  BY <1>2, <1>3, <1>5, <1>6 DEF LinkInv

(* The job record is of the job asked for, and names its attempt only. *)
LEMMA JobAlone ==
    ASSUME ResolutionInv, JobMode, NEW look \in {Absent, Found("job")}
    PROVE  /\ Judge("job", look) # "ambiguous"
           /\ Judge("job", look) = "none" =>
                 look.payload.embeddedStates \subseteq {attemptOf[asked]}
<1>1. CASE look.is # "whole"
  BY <1>1 DEF Judge, CheckFound, Missing, Targets, Found, Present, Absent, Cut, Whole
<1>2. CASE look.is = "whole"
  <2>1. look.payload = JobPayload(asked)
    BY <1>2 DEF Found, Present, Absent, Cut, Whole
  <2> DEFINE p == JobPayload(asked)
  <2>2. /\ p.job = asked
        /\ p.embeddedRun \in {None, p.run}
        /\ p.embeddedStates \subseteq {attemptOf[asked]}
    BY DEF JobPayload, RunNamed, StatePaths
  <2>3. Judge("job", look) = CheckJob(p)
    BY <1>2, <2>1 DEF Judge, CheckFound
  <2> HIDE DEF p
  <2>4. ASSUME NEW checks, checks =
             << Conflict(p.job, asked),
                Check(p.run \notin Flows, "invalid"),
                Check(RecordContract(p) # "v1" /\ p.embeddedRun \notin {None, p.run},
                      "ambiguous") >>
        PROVE  FirstFailure(checks) \in RefusedAlone \cup {"none"}
    <3>1. DOMAIN checks = 1 .. 3
      BY <2>4
    <3>2. \A i \in 1 .. 3 : checks[i].fails => checks[i].outcome \in RefusedAlone
      <4>1. ~checks[1].fails /\ ~checks[3].fails
        BY <2>2, <2>4 DEF Check, Conflict
      <4>2. checks[2].outcome = "invalid"
        BY <2>4 DEF Check
      <4> QED
        BY <4>1, <4>2 DEF RefusedAlone
    <3> QED
      BY <3>1, <3>2, OutcomeOfAFailure
  <2>5. CheckJob(p) \in RefusedAlone \cup {"none"}
    BY <2>4, ParseJobAlone DEF CheckJob, Then
  <2> QED
    BY <2>1, <2>2, <2>3, <2>5 DEF p, RefusedAlone
<1> QED
  BY <1>1, <1>2

(* A submission of the run disagrees only if it is of another attempt. *)
LEMMA SubmissionAlone ==
    ASSUME NEW a \in Attempts, NEW b \in Attempts, NEW job,
           job.run = runOf[a], runOf[b] = runOf[a], runOf[a] \in Runs,
           job.attempt \in {None, a}, job.embeddedStates \subseteq {a},
           CheckSubmission(job, SubmissionPayload(b)) = "ambiguous"
    PROVE  b # a
<1> DEFINE p == SubmissionPayload(b)
           checks ==
             << Check(p.run = None, "invalid"),
                Conflict(p.run, job.run),
                ConflictOfNamed(job.attempt, p.attempt),
                Check(/\ RecordContract(job) # "v1"
                      /\ {} \notin {job.embeddedStates, p.states}
                      /\ job.embeddedStates # p.states, "ambiguous"),
                Check(p.states # {} /\ ~p.within, "invalid") >>
<1>1. /\ p.run \in {None, runOf[b]}
      /\ p.attempt \in {None, b}
      /\ p.states \subseteq {b}
  BY DEF SubmissionPayload, RunNamed, Named, StatePaths
<1>2. FirstFailure(checks) = "ambiguous"
  <2>1. ParseSubmission(p) # "ambiguous"
    BY ParseSubmissionAlone DEF RefusedAlone
  <2> QED
    BY <2>1 DEF CheckSubmission, Then
<1> HIDE DEF p
<1>3. DOMAIN checks = 1 .. 5
  OBVIOUS
<1>4. /\ checks[1].fails => checks[1].outcome = "invalid"
      /\ ~checks[1].fails => p.run # None
      /\ checks[2].fails => p.run # job.run
      /\ checks[3].fails => None \notin {job.attempt, p.attempt} /\ job.attempt # p.attempt
      /\ checks[4].fails => /\ {} \notin {job.embeddedStates, p.states}
                            /\ job.embeddedStates # p.states
      /\ checks[5].outcome = "invalid"
  BY DEF Check, Conflict, ConflictOfNamed
<1> HIDE DEF checks
<1>5. PICK k \in 1 .. 5 : /\ checks[k].fails
                          /\ checks[k].outcome = "ambiguous"
                          /\ \A m \in 1 .. 5 : m < k => ~checks[m].fails
  BY <1>2, <1>3, WhatFailed
<1>6. k \in {2, 3, 4}
  BY <1>4, <1>5
<1>7. CASE k = 2
  BY <1>1, <1>4, <1>5, <1>7
<1>8. CASE k = 3
  BY <1>1, <1>4, <1>5, <1>8
<1>9. CASE k = 4
  BY <1>1, <1>4, <1>5, <1>9
<1> QED
  BY <1>6, <1>7, <1>8, <1>9

(* And so does a state file of the run, or it is of another submission.    *)
LEMMA AttemptAlone ==
    ASSUME NEW a \in Attempts, NEW b \in Attempts, NEW job, NEW sub,
           FilesAgree, asked \in Jobs,
           job.run = runOf[a], runOf[b] = runOf[a],
           job.attempt \in {None, a}, sub.attempt \in {None, b},
           CheckAttempt(job, sub, AttemptPayload(b)) = "ambiguous"
    PROVE  b # a \/ \E j \in Jobs \ {asked} : attemptOf[j] = a
<1> SUFFICES ASSUME b = a
             PROVE  \E j \in Jobs \ {asked} : attemptOf[j] = a
  OBVIOUS
<1> DEFINE p == AttemptPayload(b)
           named == {job.attempt, sub.attempt, p.attempt} \ {None}
           checks ==
             << ConflictOfNamed(p.job, asked),
                ConflictOfNamed(p.run, job.run),
                Check(Cardinality({job.attempt, sub.attempt, p.attempt} \ {None}) > 1,
                      "ambiguous") >>
<1>1. /\ p.run \in {None, runOf[b]}
      /\ p.attempt \in {None, b}
      /\ p.job \in {None, attemptState[b]}
      /\ p.job # None => attemptState[b] \in Jobs
  BY DEF AttemptPayload, RunNamed, Named
<1>2. FirstFailure(checks) = "ambiguous"
  BY DEF CheckAttempt
<1> HIDE DEF p
<1>3. Cardinality(named) \in {0, 1}
  <2>1. named = {} \/ named = {a}
    BY <1>1
  <2>2. Cardinality({}) = 0 /\ Cardinality({a}) = 1
    BY FS_EmptySet, FS_Singleton
  <2> QED
    BY <2>1, <2>2
<1>4. DOMAIN checks = 1 .. 3
  OBVIOUS
<1>5. /\ checks[1].fails => p.job # None /\ p.job # asked
      /\ ~checks[2].fails
      /\ ~checks[3].fails
  <2>1. ~checks[3].fails
    <3>1. checks[3].fails = (Cardinality(named) > 1)
      BY Zenon DEF Check
    <3>2. ~(Cardinality(named) > 1)
      BY <1>3
    <3> HIDE DEF named, checks
    <3> QED
      BY <3>1, <3>2, Zenon
  <2> QED
    BY <1>1, <2>1 DEF Check, ConflictOfNamed
<1> HIDE DEF checks
<1>6. checks[1].fails
  BY <1>2, <1>4, <1>5, WhatFailed
<1> QED
  BY <1>1, <1>5, <1>6 DEF FilesAgree

(* What is found of a submission is that of an attempt in the run of the
   job, and what is found of a state file is that of the attempt named.    *)
LEMMA SubmissionFound ==
    ASSUME TypeInv, ResolutionInv, FilesAgree, JobMode, pc = "submission",
           NEW look \in {Absent, Found(pc)}, look.is = "whole"
    PROVE  \E b \in Attempts : /\ runOf[b] = got["job"].run
                              /\ submission[got["job"].run] = b
                              /\ look.payload = SubmissionPayload(b)
<1>1. RunDir = got["job"].run /\ RunDir \in Runs
  BY DEF RunDir, ResolutionInv, ReadInOrder, JobRead
<1>2. look = Found("submission") /\ submission[RunDir] # None
  BY DEF Found, Absent
<1>3. look.payload = SubmissionPayload(submission[RunDir])
  BY <1>2 DEF Found, Present, Cut, Whole
<1> QED
  BY <1>1, <1>2, <1>3 DEF FilesAgree

LEMMA StateFileFound ==
    ASSUME JobMode, pc = "attempt", NEW b, StateFileOf(b),
           NEW look \in {Absent, Found(pc)}, look.is = "whole"
    PROVE  look.payload = AttemptPayload(b)
<1>1. StateFile = b
  BY DEF StateFile, StateFileOf
<1> QED
  BY <1>1 DEF Found, Present, Absent, Cut, Whole

(* A look at the records of a job that makes them disagree. *)
LEMMA AmbiguousLook ==
    ASSUME TypeInv, ResolutionInv, FilesAgree, LinkInv, JobMode,
           pc \in Targets \ {"runtime"}, NEW look \in {Absent, Found(pc)},
           Judge(pc, look) = "ambiguous"
    PROVE  Resubmitted
<1> DEFINE a == attemptOf[asked]
           job == got["job"]
           sub == got["submission"]
<1>1. look.is \in {"absent", "cut", "whole"}
  BY WhatIsFound DEF Absent
<1>2. look.is = "whole"
  BY <1>1 DEF Judge, CheckFound, Missing, Targets
<1>3. pc # "job" /\ pc # "directory"
  BY <1>2, JobAlone DEF Judge, CheckFound
<1>4. pc \in {"submission", "attempt"}
  BY <1>3 DEF Targets
<1>5. /\ a \in Attempts /\ runOf[a] \in Runs /\ asked \in Jobs
      /\ job.run = runOf[a] /\ job.attempt \in {None, a}
      /\ job.embeddedStates \subseteq {a}
  BY <1>4 DEF ResolutionInv, ReadInOrder, JobRead, Places, JobMode, LinkInv
<1> HIDE DEF a, job, sub
<1>6. CASE pc = "submission"
  <2>1. PICK b \in Attempts : runOf[b] = job.run /\ look.payload = SubmissionPayload(b)
    BY <1>2, <1>6, SubmissionFound DEF job
  <2>2. CheckSubmission(job, SubmissionPayload(b)) = "ambiguous"
    BY <1>2, <1>6, <2>1 DEF Judge, CheckFound, job
  <2>3. b # a
    BY <1>5, <2>1, <2>2, SubmissionAlone
  <2> QED
    BY <1>5, <2>1, <2>3 DEF Resubmitted, a
<1>7. CASE pc = "attempt"
  <2>1. PICK b \in Attempts : StateFileOf(b)
    BY <1>7 DEF LinkInv
  <2>2. CheckAttempt(job, sub, AttemptPayload(b)) = "ambiguous"
    BY <1>2, <1>7, <2>1, StateFileFound DEF Judge, CheckFound, job, sub
  <2>3. runOf[b] = runOf[a] /\ sub.attempt \in {None, b}
    BY <1>5, <2>1 DEF StateFileOf, job, sub
  <2>4. b # a \/ \E j \in Jobs \ {asked} : attemptOf[j] = a
    BY <1>5, <2>2, <2>3, AttemptAlone
  <2> QED
    BY <2>3, <2>4 DEF Resubmitted, a
<1> QED
  BY <1>4, <1>6, <1>7

LEMMA LinkReceive ==
    ASSUME TypeInv, ResolutionInv, FilesAgree, LinkInv, pc \in Targets,
           UNCHANGED <<producer, asked, flow>>,
           NEW look \in {Absent, Found(pc)}, Receive(pc, look)
    PROVE  LinkInv'
<1>1. /\ JobMode' = JobMode /\ Resubmitted' = Resubmitted
      /\ attemptOf' = attemptOf /\ runOf' = runOf /\ asked' = asked
      /\ verdict # "ambiguous"
  BY DEF JobMode, Resubmitted, producer, LinkInv, Targets
<1>2. CASE pc = "runtime"
  BY <1>1, <1>2 DEF Receive, ShowRuntime, End, LinkInv
<1>3. CASE pc # "runtime" /\ Judge(pc, look) # "none"
  <2>1. pc' = "done" /\ verdict' = Judge(pc, look)
    BY <1>3 DEF Receive, End
  <2>2. Judge(pc, look) = "ambiguous" => JobMode /\ Resubmitted
    <3>1. ~JobMode => Judge(pc, look) # "ambiguous"
      BY DEF Judge, ParseFound
    <3> QED
      BY <1>3, <3>1, AmbiguousLook
  <2> QED
    BY <1>1, <2>1, <2>2 DEF LinkInv
<1>4. CASE pc # "runtime" /\ Judge(pc, look) = "none"
  <2>1. verdict' # "ambiguous"
    BY <1>1, <1>4 DEF Receive, Proceed, End
  <2>2. /\ got' = [got EXCEPT ![pc] = look.payload]
        /\ got'[pc] = look.payload
        /\ \A target \in Targets \ {pc} : got'[target] = got[target]
    BY <1>4 DEF Receive, ResolutionInv, Places
  <2>3. pc' \in {After(pc, look), "runtime", "done"}
    BY <1>4 DEF Receive, Proceed, End
  <2>4. CASE ~JobMode
    BY <1>1, <2>1, <2>4 DEF LinkInv
  <2>5. CASE JobMode /\ pc = "job"
    <3>1. pc' \in {"directory", "runtime", "done"}
      BY <2>3, <2>5 DEF After
    <3>2. got'["job"].embeddedStates \subseteq {attemptOf[asked]}
      BY <1>4, <2>2, <2>5, JobAlone
    <3> QED
      BY <1>1, <2>1, <3>1, <3>2 DEF LinkInv
  <2>6. CASE JobMode /\ pc = "directory"
    <3>1. pc' \in {"submission", "runtime", "done"}
      BY <2>3, <2>6 DEF After
    <3> QED
      BY <1>1, <2>1, <2>2, <2>6, <3>1 DEF LinkInv, Targets
  <2>7. CASE JobMode /\ pc = "submission"
    <3>1. look.is = "whole"
      <4>1. look.is \in {"absent", "cut", "whole"}
        BY WhatIsFound DEF Absent
      <4> QED
        BY <1>4, <2>7, <4>1 DEF Judge, CheckFound, Missing, Targets
    <3>2. PICK b \in Attempts : runOf[b] = got["job"].run
                              /\ look.payload = SubmissionPayload(b)
      BY <2>7, <3>1, SubmissionFound
    <3>3. look.payload.states # {} => StateFileOf(b)'
      <4>1. look.payload.attempt \in {None, b} /\ look.payload.states \in {{}, {b}}
        BY <3>2 DEF SubmissionPayload, Named, StatePaths
      <4> QED
        BY <1>1, <2>2, <2>7, <3>2, <4>1 DEF StateFileOf, Targets
    <3>4. pc' \in {"attempt", "runtime", "done"} /\ (pc' = "attempt" => look.payload.states # {})
      BY <1>4, <2>7 DEF Receive, Proceed, End, After
    <3> QED
      BY <1>1, <2>1, <2>2, <2>7, <3>3, <3>4 DEF LinkInv, Targets
  <2>8. CASE JobMode /\ pc = "attempt"
    <3>1. pc' \in {"runtime", "done"}
      BY <2>3, <2>8 DEF After
    <3> QED
      BY <1>1, <2>1, <3>1 DEF LinkInv
  <2> QED
    BY <1>4, <2>4, <2>5, <2>6, <2>7, <2>8 DEF Targets
<1> QED
  BY <1>2, <1>3, <1>4

LEMMA LinkStep ==
    TypeInv /\ ResolutionInv /\ FilesAgree /\ LinkInv /\ [Next]_vars => LinkInv'
<1> SUFFICES ASSUME TypeInv, ResolutionInv, FilesAgree, LinkInv, [Next]_vars
             PROVE  LinkInv'
  OBVIOUS
<1>1. CASE ProducerStep
  BY <1>1, LinkProducer
<1>2. CASE Ask
  <2>1. pc' \in {"job", "submission"} /\ (asked' = None \/ pc' = "job") /\ verdict' # "ambiguous"
    BY <1>2 DEF Ask, AskJob, AskRun, LinkInv, ResolutionInv, Places
  <2> QED
    BY <2>1 DEF LinkInv, JobMode
<1>3. CASE UNCHANGED vars
  BY <1>3 DEF vars, producer, inspection, LinkInv, JobMode, Resubmitted, StateFileOf
<1>4. CASE Look
  <2>1. pc \in Targets /\ UNCHANGED <<producer, asked, flow>>
    BY <1>4, LookOutcomes
  <2>2. verdict # "ambiguous"
    BY <2>1 DEF LinkInv, Targets
  <2>3. CASE Receive(pc, Absent) \/ Receive(pc, Found(pc))
    BY <2>1, <2>3, LinkReceive
  <2>4. CASE Fail /\ pc = "runtime"
    <3>1. Receive(pc, Absent)
      BY <2>4 DEF Fail, Receive
    <3> QED
      BY <2>3, <3>1
  <2>5. CASE (Fail /\ pc # "runtime") \/ Refused
    BY <2>5 DEF Fail, Refused, End, LinkInv
  <2>6. CASE Undecided
    BY <2>1, <2>2, <2>6 DEF Undecided, LinkInv, JobMode, StateFileOf, producer
  <2> QED
    BY <1>4, <2>3, <2>4, <2>5, <2>6, LookOutcomes
<1> QED
  BY <1>1, <1>2, <1>3, <1>4 DEF Next

(* The records of a job disagree only when its run directory was prepared
   for another attempt or its attempt was submitted again: no order in which
   BMD Compute writes them, and no failing command, does it.               *)
THEOREM AmbiguousMeansResubmittedHolds == Spec => []AmbiguousMeansResubmitted
<1>1. LinkInv => AmbiguousMeansResubmitted
  BY DEF LinkInv, Resubmitted, AmbiguousMeansResubmitted
<1> QED
  BY <1>1, LinkInitial, LinkStep, FilesAlwaysAgree, TypeInitial, TypeStep,
     RecordsBelongTogether, PTL DEF Spec

-----------------------------------------------------------------------------
(* Complete records are accepted, one after the other.                     *)

CalmInv ==
    /\ pc = "idle" => ~calm
    /\ pc \in {"idle", "job", "directory", "submission", "attempt"} => got["attempt"] = None
    /\ calm =>
         /\ JobMode
         /\ Settled(asked)
         /\ pc = "done" => verdict = "resolved"
         /\ pc \in {"directory", "submission", "attempt"} =>
               got["job"] = JobPayload(asked)
         /\ pc = "attempt" => got["submission"] = SubmissionPayload(attemptOf[asked])

LEMMA CalmInitial == Init => CalmInv
  BY DEF Init, CalmInv, Nothing, Targets

(* A settled job record, its submission and its state file are accepted. *)
LEMMA SettledJob ==
    ASSUME Settled(asked)
    PROVE  CheckJob(JobPayload(asked)) = "none"
<1> DEFINE p == JobPayload(asked)
           checks ==
             << Conflict(p.job, asked),
                Check(p.run \notin Flows, "invalid"),
                Check(RecordContract(p) # "v1" /\ p.embeddedRun \notin {None, p.run},
                      "ambiguous") >>
<1>1. /\ p.job = asked /\ p.run \in Flows
      /\ p.embeddedRun \in {None, p.run}
  BY DEF JobPayload, RunNamed, Settled
<1>2. ParseJob(p) = "none"
  BY DEF Settled
<1> HIDE DEF p
<1>3. DOMAIN checks = 1 .. 3
  OBVIOUS
<1>4. \A i \in 1 .. 3 : ~checks[i].fails
  <2>1. ~checks[1].fails /\ ~checks[2].fails /\ ~checks[3].fails
    BY <1>1 DEF Check, Conflict
  <2> HIDE DEF checks
  <2> QED
    BY <2>1
<1> HIDE DEF checks
<1>5. FirstFailure(checks) = "none"
  BY <1>3, <1>4, NothingFailed
<1> QED
  BY <1>2, <1>5 DEF CheckJob, Then, checks, p

LEMMA SettledSubmission ==
    ASSUME TypeInv, ResolutionInv, Settled(asked), attemptOf[asked] \in Attempts
    PROVE  CheckSubmission(JobPayload(asked), SubmissionPayload(attemptOf[asked])) = "none"
<1> DEFINE a == attemptOf[asked]
           job == JobPayload(asked)
           p == SubmissionPayload(a)
           checks ==
             << Check(p.run = None, "invalid"),
                Conflict(p.run, job.run),
                ConflictOfNamed(job.attempt, p.attempt),
                Check(/\ RecordContract(job) # "v1"
                      /\ {} \notin {job.embeddedStates, p.states}
                      /\ job.embeddedStates # p.states, "ambiguous"),
                Check(p.states # {} /\ ~p.within, "invalid") >>
<1>1. p.run = runOf[a] /\ job.run = runOf[a] /\ runOf[a] # None
  BY RootsAssumption, NoneAssumption DEF Settled, SubmissionPayload, JobPayload, RunNamed
<1>2. p.attempt = job.attempt
  BY DEF SubmissionPayload, JobPayload
<1>3. job.embeddedStates \in {{}, p.states}
  BY DEF SubmissionPayload, JobPayload
<1>4. p.states # {} => p.within
  <2>1. form[a] \in Form
    BY FormsAssumption DEF TypeInv, TypeOK
  <2>2. form[a].attemptState \in {"logs", "elsewhere", "none"}
    BY <2>1 DEF Form
  <2> QED
    BY <2>2 DEF Settled, SubmissionPayload, StatePaths
<1>5. ParseSubmission(p) = "none"
  BY DEF Settled
<1> HIDE DEF p, job
<1>6. DOMAIN checks = 1 .. 5
  OBVIOUS
<1>7. \A i \in 1 .. 5 : ~checks[i].fails
  <2>1. /\ ~checks[1].fails /\ ~checks[2].fails /\ ~checks[3].fails
        /\ ~checks[4].fails /\ ~checks[5].fails
    BY <1>1, <1>2, <1>3, <1>4 DEF Check, Conflict, ConflictOfNamed
  <2> HIDE DEF checks
  <2> QED
    BY <2>1
<1> HIDE DEF checks
<1>8. FirstFailure(checks) = "none"
  BY <1>6, <1>7, NothingFailed
<1> QED
  BY <1>5, <1>8 DEF CheckSubmission, Then, checks, p, job

LEMMA SettledAttempt ==
    ASSUME Settled(asked), attemptOf[asked] \in Attempts, asked \in Jobs
    PROVE  /\ CheckAttempt(JobPayload(asked), SubmissionPayload(attemptOf[asked]),
                           AttemptPayload(attemptOf[asked])) = "none"
           /\ AttemptPayload(attemptOf[asked]).job = asked
<1> DEFINE a == attemptOf[asked]
           job == JobPayload(asked)
           sub == SubmissionPayload(a)
           p == AttemptPayload(a)
           named == {job.attempt, sub.attempt, p.attempt} \ {None}
           checks ==
             << ConflictOfNamed(p.job, asked),
                ConflictOfNamed(p.run, job.run),
                Check(Cardinality({job.attempt, sub.attempt, p.attempt} \ {None}) > 1,
                      "ambiguous") >>
<1>1. p.job = asked
  BY DEF Settled, AttemptPayload
<1>2. p.run \in {None, job.run}
  BY DEF AttemptPayload, JobPayload, RunNamed
<1>3. job.attempt \in {None, a} /\ sub.attempt \in {None, a} /\ p.attempt \in {None, a}
  BY DEF AttemptPayload, JobPayload, SubmissionPayload, Named
<1> HIDE DEF p, job, sub
<1>4. Cardinality(named) \in {0, 1}
  <2>1. named = {} \/ named = {a}
    BY <1>3
  <2>2. Cardinality({}) = 0 /\ Cardinality({a}) = 1
    BY FS_EmptySet, FS_Singleton
  <2> QED
    BY <2>1, <2>2
<1>5. ~checks[3].fails
  <2>1. checks[3].fails = (Cardinality(named) > 1)
    BY Zenon DEF Check
  <2>2. ~(Cardinality(named) > 1)
    BY <1>4
  <2> HIDE DEF named, checks
  <2> QED
    BY <2>1, <2>2, Zenon
<1>6. DOMAIN checks = 1 .. 3
  OBVIOUS
<1>7. ~checks[1].fails /\ ~checks[2].fails
  BY <1>1, <1>2 DEF Check, ConflictOfNamed
<1> HIDE DEF checks
<1>8. \A i \in 1 .. 3 : ~checks[i].fails
  BY <1>5, <1>7
<1>9. FirstFailure(checks) = "none"
  BY <1>6, <1>8, NothingFailed
<1> QED
  BY <1>1, <1>9 DEF CheckAttempt, checks, p, job, sub

(* What a look at settled records finds. *)
LEMMA SettledFound ==
    ASSUME TypeInv, ResolutionInv, FilesAgree, LinkInv, CalmInv, calm,
           pc \in Targets \ {"runtime"}
    PROVE  /\ pc = "job" => Found(pc) = Whole(JobPayload(asked))
           /\ pc = "directory" => Found(pc) = Whole(None)
           /\ pc = "submission" => Found(pc) = Whole(SubmissionPayload(attemptOf[asked]))
           /\ pc = "attempt" => Found(pc) = Whole(AttemptPayload(attemptOf[asked]))
           /\ ~(pc = "submission" /\ TooLarge)
<1> DEFINE a == attemptOf[asked]
<1>1. JobMode /\ Settled(asked) /\ asked \in Jobs
  BY DEF CalmInv, JobMode, ResolutionInv, Places
<1>2. a \in Attempts /\ runOf[a] \in Runs
  BY <1>1, NoneAssumption DEF Settled, ResolutionInv, Places, Submitted
<1>3. \A x : Present(<<"job", asked>>, x) = Whole(x)
  BY <1>1 DEF Settled, Present
<1>4. \A x : Present(<<"submission", RunDir>>, x) = Whole(x)
  BY <1>1 DEF Settled, Present
<1>5. \A x : Present(<<"attempt", StateFile>>, x) = Whole(x)
  BY <1>1 DEF Settled, Present
<1>6. CASE pc = "job"
  BY <1>1, <1>3, <1>6 DEF Found, Settled
<1>7. pc \in {"directory", "submission", "attempt"} => RunDir = runOf[a]
  BY <1>1 DEF RunDir, ResolutionInv, ReadInOrder, JobRead
<1>8. submission[runOf[a]] = a /\ runOf[a] \notin removed
  BY <1>1, <1>2, NoneAssumption DEF Settled, FilesAgree
<1>9. CASE pc = "directory"
  BY <1>7, <1>8, <1>9 DEF Found
<1>10. CASE pc = "submission"
  <2>1. Found(pc) = Whole(SubmissionPayload(a))
    BY <1>2, <1>4, <1>7, <1>8, <1>10, NoneAssumption DEF Found
  <2>2. ~SubmissionPayload(a).large
    BY <1>1 DEF Settled, SubmissionPayload
  <2> QED
    BY <1>10, <2>1, <2>2 DEF TooLarge, Whole
<1>11. CASE pc = "attempt"
  <2>1. got["submission"].states = {a}
    <3>1. got["submission"].states \subseteq {a}
      BY <1>11 DEF CalmInv, SubmissionPayload, StatePaths
    <3>2. \E b \in Attempts : got["submission"].states = {b}
      BY <1>1, <1>11 DEF LinkInv, StateFileOf
    <3> QED
      BY <3>1, <3>2
  <2>2. StateFile = a
    BY <2>1 DEF StateFile
  <2>3. attemptState[a] # "absent"
    BY <1>1, NoneAssumption DEF Settled
  <2> QED
    BY <1>5, <1>11, <2>2, <2>3 DEF Found
<1> QED
  BY <1>6, <1>9, <1>10, <1>11 DEF Targets

LEMMA CalmReceive ==
    ASSUME TypeInv, ResolutionInv, FilesAgree, LinkInv, CalmInv, pc \in Targets,
           UNCHANGED <<producer, asked, flow>>,
           NEW look \in {Absent, Found(pc)}, Receive(pc, look),
           calm' => calm /\ (pc = "runtime" \/ look = Found(pc))
    PROVE  CalmInv'
<1> DEFINE a == attemptOf[asked]
<1>1. pc' \in Targets \cup {"done"}
  BY TypeReceive
<1>2. pc' \in {"idle", "job", "directory", "submission", "attempt"} => got'["attempt"] = None
  <2>1. CASE pc \in {"runtime", "attempt"}
    BY <2>1 DEF Receive, ShowRuntime, Proceed, After, End, Targets
  <2>2. CASE pc \in {"job", "directory", "submission"}
    <3>1. got' = got \/ got' = [got EXCEPT ![pc] = look.payload]
      BY <2>2 DEF Receive
    <3>2. got["attempt"] = None
      BY <2>2 DEF CalmInv
    <3> QED
      BY <2>2, <3>1, <3>2 DEF ResolutionInv, Places, Targets
  <2> QED
    BY <2>1, <2>2 DEF Targets
<1> SUFFICES ASSUME calm'
             PROVE  /\ JobMode' /\ Settled(asked)'
                    /\ pc' = "done" => verdict' = "resolved"
                    /\ pc' \in {"directory", "submission", "attempt"} =>
                          got'["job"] = JobPayload(asked)'
                    /\ pc' = "attempt" =>
                          got'["submission"] = SubmissionPayload(attemptOf[asked])'
  BY <1>1, <1>2 DEF CalmInv, Targets
<1>3. calm /\ JobMode /\ Settled(asked)
  BY DEF CalmInv
<1>4. /\ JobMode' /\ Settled(asked)'
      /\ JobPayload(asked)' = JobPayload(asked)
      /\ SubmissionPayload(attemptOf[asked])' = SubmissionPayload(a)
  BY <1>3 DEF JobMode, Settled, producer, JobPayload, SubmissionPayload, RunNamed, Named,
         StatePaths
<1>5. a \in Attempts /\ asked \in Jobs
  BY <1>3, NoneAssumption DEF Settled, ResolutionInv, Places, Submitted, JobMode
<1>6. CASE pc = "runtime"
  BY <1>4, <1>6 DEF Receive, ShowRuntime, End
<1>7. CASE pc = "job"
  <2>1. look = Whole(JobPayload(asked))
    BY <1>3, <1>7, SettledFound
  <2>2. Judge(pc, look) = "none"
    BY <1>3, <1>7, <2>1, SettledJob DEF Judge, CheckFound, Whole
  <2>3. pc' = "directory" /\ got' = [got EXCEPT !["job"] = JobPayload(asked)]
    BY <1>7, <2>1, <2>2 DEF Receive, After, Whole
  <2> QED
    BY <1>4, <2>3 DEF ResolutionInv, Places, Targets
<1>8. CASE pc = "directory"
  <2>1. look = Whole(None)
    BY <1>3, <1>8, SettledFound
  <2>2. Judge(pc, look) = "none"
    BY <1>3, <1>8, <2>1 DEF Judge, CheckFound, Whole
  <2>3. pc' = "submission" /\ got' = [got EXCEPT !["directory"] = None]
    BY <1>8, <2>1, <2>2 DEF Receive, After, Whole
  <2>4. got["job"] = JobPayload(asked)
    BY <1>3, <1>8 DEF CalmInv
  <2> QED
    BY <1>4, <2>3, <2>4 DEF ResolutionInv, Places, Targets
<1>9. CASE pc = "submission"
  <2>1. look = Whole(SubmissionPayload(a))
    BY <1>3, <1>9, SettledFound
  <2>2. got["job"] = JobPayload(asked) /\ got["attempt"] = None
    BY <1>3, <1>9 DEF CalmInv
  <2>3. Judge(pc, look) = "none"
    BY <1>3, <1>5, <1>9, <2>1, <2>2, SettledSubmission DEF Judge, CheckFound, Whole
  <2>4. /\ got' = [got EXCEPT !["submission"] = SubmissionPayload(a)]
        /\ got'["job"] = got["job"]
        /\ got'["submission"] = SubmissionPayload(a)
        /\ got'["attempt"] = None
    BY <1>9, <2>1, <2>2, <2>3 DEF Receive, Whole, ResolutionInv, Places, Targets
  <2>5. CASE After(pc, look) # "runtime"
    <3>1. pc' = "attempt"
      BY <1>9, <2>3, <2>5 DEF Receive, After
    <3> QED
      BY <1>4, <2>2, <2>4, <3>1
  <2>6. CASE After(pc, look) = "runtime"
    <3>1. Proceed(got')
      BY <1>9, <2>1, <2>3, <2>4, <2>6 DEF Receive, Whole
    <3>2. ~LateConflict(got'["attempt"])
      BY <2>4 DEF LateConflict, JobShown
    <3>3. pc' = "runtime" \/ (pc' = "done" /\ verdict' = "resolved")
      BY <3>1, <3>2 DEF Proceed, End
    <3> QED
      BY <1>4, <3>3
  <2> QED
    BY <2>5, <2>6
<1>10. CASE pc = "attempt"
  <2>1. look = Whole(AttemptPayload(a))
    BY <1>3, <1>10, SettledFound
  <2>2. got["job"] = JobPayload(asked) /\ got["submission"] = SubmissionPayload(a)
    BY <1>3, <1>10 DEF CalmInv
  <2>3. Judge(pc, look) = "none"
    BY <1>3, <1>5, <1>10, <2>1, <2>2, SettledAttempt DEF Judge, CheckFound, Whole
  <2>4. got' = [got EXCEPT !["attempt"] = AttemptPayload(a)]
    BY <1>10, <2>1, <2>3 DEF Receive, Whole
  <2>5. got'["attempt"] = AttemptPayload(a)
    BY <2>4 DEF ResolutionInv, Places, Targets
  <2>6. Proceed(got')
    BY <1>10, <2>1, <2>3, <2>4 DEF Receive, Whole, After
  <2>7. ~LateConflict(got'["attempt"])
    <3>1. AttemptPayload(a).job = asked
      BY <1>3, <1>5, SettledAttempt
    <3> QED
      BY <2>5, <3>1 DEF LateConflict, JobShown
  <2>8. pc' = "runtime" \/ (pc' = "done" /\ verdict' = "resolved")
    BY <2>6, <2>7 DEF Proceed, End
  <2> QED
    BY <1>4, <2>8
<1> QED
  BY <1>6, <1>7, <1>8, <1>9, <1>10 DEF Targets

LEMMA CalmStep ==
    /\ TypeInv /\ ResolutionInv /\ FilesAgree /\ LinkInv /\ CalmInv
    /\ [Next]_vars
    => CalmInv'
<1> SUFFICES ASSUME TypeInv, ResolutionInv, FilesAgree, LinkInv, CalmInv, [Next]_vars
             PROVE  CalmInv'
  OBVIOUS
<1>1. CASE ProducerStep
  <2>1. UNCHANGED inspection /\ ~calm'
    BY <1>1 DEF ProducerStep, Produce, Written, RecordAttempt, Prepare, Submit,
            WriteJobRecord, WriteAttemptJob, StartRunner, Remove
  <2> QED
    BY <2>1 DEF CalmInv, inspection
<1>2. CASE \E j \in Jobs : AskJob(j)
  <2>1. PICK j \in Jobs : AskJob(j)
    BY <1>2
  <2>2. pc' = "job" /\ asked' = j /\ calm' = Settled(j) /\ UNCHANGED <<producer, got>>
    BY <2>1 DEF AskJob
  <2>3. got["attempt"] = None
    BY <2>1 DEF AskJob, CalmInv
  <2>4. Settled(j) => Settled(asked)'
    BY <2>2 DEF Settled, producer, JobPayload, SubmissionPayload, RunNamed, Named, StatePaths
  <2>5. JobMode'
    BY <2>2, NoneAssumption DEF JobMode
  <2> QED
    BY <2>2, <2>3, <2>4, <2>5 DEF CalmInv
<1>3. CASE \E r \in Runs : AskRun(r)
  BY <1>3 DEF AskRun, CalmInv
<1>4. CASE UNCHANGED vars
  <2>1. UNCHANGED <<producer, pc, asked, got, verdict, calm>>
    BY <1>4 DEF vars, inspection
  <2>2. /\ JobMode' = JobMode /\ Settled(asked)' = Settled(asked)
        /\ JobPayload(asked)' = JobPayload(asked)
        /\ SubmissionPayload(attemptOf[asked])' = SubmissionPayload(attemptOf[asked])
    BY <2>1 DEF JobMode, Settled, producer, JobPayload, SubmissionPayload, RunNamed, Named,
            StatePaths
  <2> QED
    BY <2>1, <2>2 DEF CalmInv
<1>5. CASE Look
  <2>1. pc \in Targets /\ UNCHANGED <<producer, asked, flow>>
    BY <1>5, LookOutcomes
  <2>2. /\ JobMode' = JobMode /\ Settled(asked)' = Settled(asked)
        /\ JobPayload(asked)' = JobPayload(asked)
        /\ SubmissionPayload(attemptOf[asked])' = SubmissionPayload(attemptOf[asked])
    BY <2>1 DEF JobMode, Settled, producer, JobPayload, SubmissionPayload, RunNamed, Named,
            StatePaths
  <2>3. CASE Undecided
    <3>1. calm' => calm
      BY <1>5, LookOutcomes
    <3>2. UNCHANGED <<pc, got, verdict>>
      BY <2>3 DEF Undecided
    <3> QED
      BY <2>1, <2>2, <3>1, <3>2 DEF CalmInv
  <2>4. CASE calm' /\ ~Undecided /\ pc # "runtime"
    <3>1. calm /\ ~(pc = "submission" /\ TooLarge) /\ Found(pc).is = "whole"
      <4>1. calm
        BY <1>5, <2>4, LookOutcomes
      <4> QED
        BY <2>1, <2>4, <4>1, SettledFound DEF Targets, Whole
    <3>2. Receive(pc, Found(pc))
      BY <1>5, <2>4, <3>1, LookOutcomes
    <3> QED
      BY <2>1, <3>1, <3>2, CalmReceive
  <2>5. CASE calm' /\ pc = "runtime"
    <3>1. calm
      BY <1>5, <2>5, LookOutcomes
    <3>2. CASE Receive(pc, Absent) \/ Receive(pc, Found(pc))
      BY <2>1, <2>5, <3>1, <3>2, CalmReceive
    <3>3. CASE Fail
      <4>1. Receive(pc, Absent)
        BY <2>5, <3>3 DEF Fail, Receive
      <4> QED
        BY <3>2, <4>1
    <3> QED
      BY <1>5, <2>3, <2>5, <3>2, <3>3, LookOutcomes DEF Refused
  <2>6. CASE ~calm' /\ ~Undecided
    <3>1. CASE Receive(pc, Absent) \/ Receive(pc, Found(pc))
      BY <2>1, <2>6, <3>1, CalmReceive
    <3>2. CASE Fail /\ pc = "runtime"
      <4>1. Receive(pc, Absent)
        BY <3>2 DEF Fail, Receive
      <4> QED
        BY <3>1, <4>1
    <3>3. CASE (Fail /\ pc # "runtime") \/ Refused
      BY <2>6, <3>3 DEF Fail, Refused, End, CalmInv
    <3> QED
      BY <1>5, <2>6, <3>1, <3>2, <3>3, LookOutcomes
  <2> QED
    BY <2>3, <2>4, <2>5, <2>6
<1> QED
  BY <1>1, <1>2, <1>3, <1>4, <1>5 DEF Next, Ask

(* A job whose records were complete when it was asked for, and stayed so,
   resolves and is analyzed: no check refuses what BMD Compute writes.     *)
THEOREM SettledIsResolvedHolds == Spec => []SettledIsResolved
<1>1. CalmInv => SettledIsResolved
  BY DEF CalmInv, SettledIsResolved
<1> QED
  BY <1>1, CalmInitial, CalmStep, LinkInitial, LinkStep, FilesAlwaysAgree, TypeInitial,
     TypeStep, RecordsBelongTogether, PTL DEF Spec
=============================================================================
