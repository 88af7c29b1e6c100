----------------------- MODULE PathObservation_proofs -----------------------
(***************************************************************************)
(* Theorems about path mode, for every number of stages, VASP runs, ionic  *)
(* steps and unreadable files.                                             *)
(***************************************************************************)
EXTENDS PathObservation, WorkflowRun_proofs

AcqType == [Slots -> Acquired]
EarlyType == [Stages -> StageEarly]

-----------------------------------------------------------------------------
(* Types.                                                                  *)

\* Whatever the record and the state, path mode shows one of the statuses
\* the README lists.
LEMMA LifecycleStateType ==
  ASSUME NEW r, NEW stages, NEW marked, NEW inputs, NEW seen
  PROVE  LifecycleState(r, stages, marked, inputs, seen)
            \in {"RUNNING", "COMPLETED", "INCOMPLETE", "PRE_RUN", "UNKNOWN"}
  BY DEF LifecycleState

LEMMA PathStatusType ==
  ASSUME NEW r, NEW stages, NEW marked, NEW inputs, NEW seen
  PROVE  PathStatus(r, LifecycleState(r, stages, marked, inputs, seen)) \in Status
  BY LifecycleStateType DEF PathStatus, Status

\* A sound read, a slot not read and one not readable are all acquisitions.
LEMMA AcquiredType ==
  ASSUME NEW c \in Content
  PROVE  /\ Reading(c) \in Acquired
         /\ Nothing \in Acquired
         /\ [how |-> "unreadable", content |-> Absent] \in Acquired
  BY ContentType DEF Reading, Acquired, Nothing

\* What is seen of a stage before sacct is asked has the shape of a look.
LEMMA EarlyLookType ==
  ASSUME WorldTypeOK, NEW s \in Stages
  PROVE  EarlyLook(s) \in StageEarly /\ Unseen \in StageEarly
<1>1. "incar" \in Files /\ files[s] \in [Files -> Content]
  BY DEF WorldTypeOK, Files
<1>2. files[s]["incar"].present \in BOOLEAN
  BY <1>1 DEF Content
<1>3. HasOutputs(s) \in BOOLEAN
  BY DEF HasOutputs
<1>4. Mark(s) \in {"true", "false"}
  BY DEF Mark
<1> QED
  BY <1>2, <1>3, <1>4 DEF EarlyLook, Unseen, StageEarly

\* Every variable of the analysis keeps its type.
THEOREM PathTypeCorrect == Spec => []TypeOK
<1>n. [slot \in Slots |-> Nothing] \in AcqType
  BY ContentType, AcquiredType DEF AcqType
<1>u. [s \in Stages |-> Unseen] \in EarlyType
  BY DEF EarlyType, Unseen, StageEarly
<1>r. NoRecord \in Record
  BY DEF Record
<1>1. Init => TypeOK
  <2> SUFFICES ASSUME Init PROVE TypeOK
    OBVIOUS
  <2>1. WorldTypeOK
    BY WorldTypeInit DEF Init
  <2>2. executed \in BOOLEAN /\ normal \in BOOLEAN /\ settled \in BOOLEAN
    BY Zenon DEF Init
  <2> QED
    BY <1>n, <1>u, <1>r, <2>1, <2>2 DEF Init, TypeOK, AcqType, EarlyType, Status
<1>2. TypeOK /\ [Next]_vars => TypeOK'
  <2> SUFFICES ASSUME TypeOK, [Next]_vars
               PROVE  TypeOK'
    OBVIOUS
  <2>w. WorldTypeOK /\ acq \in AcqType /\ early \in EarlyType
    BY DEF TypeOK, AcqType, EarlyType
  <2>s. ASSUME UNCHANGED env PROVE WorldTypeOK'
    BY <2>w, <2>s DEF env, WorldTypeOK
  <2>b. executed \in BOOLEAN /\ normal \in BOOLEAN /\ settled \in BOOLEAN
    BY DEF TypeOK
  <2>1. CASE World
    <3>1. WorldTypeOK'
      BY <2>1, <2>w, WorldTypeStep DEF World
    <3>2. executed' \in BOOLEAN /\ normal' \in BOOLEAN /\ settled' \in BOOLEAN
      BY <2>1, <2>b, Zenon DEF World, analysis
    <3> QED
      BY <2>1, <3>1, <3>2 DEF World, analysis, TypeOK
  <2>0. CASE FindCurrentStage
    <3>1. /\ pc' = "stages" /\ target' \in Stages
          /\ UNCHANGED <<env, early, executed, record, normal, acq, status>>
      BY <2>0 DEF FindCurrentStage
    <3>2. settled' \in BOOLEAN
      <4>1. settled' = JobOver
        BY <2>0 DEF FindCurrentStage
      <4>2. JobOver \in BOOLEAN
        BY DEF JobOver
      <4> QED
        BY <4>1, <4>2, Zenon
    <3> QED
      BY <2>s, <2>b, <3>1, <3>2 DEF TypeOK
  <2>2. CASE LookAtTarget
    <3>1. executed' \in BOOLEAN
      BY <2>2, Zenon DEF LookAtTarget
    <3>2. /\ pc = "target" /\ pc' = "lookup"
          /\ UNCHANGED <<env, target, early, record, normal, acq, status, settled>>
      BY <2>2, Zenon DEF LookAtTarget
    <3> QED
      BY <2>s, <2>b, <3>1, <3>2 DEF TypeOK
  <2>3. CASE LookupScheduler
    <3>1. record' \in Record
      BY <2>3, <1>r DEF LookupScheduler, TypeOK, WorldTypeOK
    <3>2. /\ pc = "lookup" /\ pc' = "marker"
          /\ UNCHANGED <<env, target, early, executed, normal, acq, status, settled>>
      BY <2>3 DEF LookupScheduler
    <3> QED
      BY <2>s, <3>1, <3>2 DEF TypeOK
  <2>4. CASE DetectNormalCompletion
    <3>1. normal' \in BOOLEAN
      BY <2>4, Zenon DEF DetectNormalCompletion
    <3>2. /\ pc' = "read" /\ target' = 0
          /\ UNCHANGED <<env, early, executed, record, acq, status, settled>>
      BY <2>4 DEF DetectNormalCompletion
    <3> QED
      BY <2>s, <3>1, <3>2 DEF TypeOK
  <2>5. ASSUME NEW s \in Stages, LookAt(s) PROVE TypeOK'
    <3>1. early' \in EarlyType
      BY <2>5, <2>w, EarlyLookType DEF LookAt, EarlyType
    <3>2. /\ pc = "stages" /\ pc' \in {"stages", "target"}
          /\ UNCHANGED <<env, target, executed, record, normal, acq, status, settled>>
      BY <2>5 DEF LookAt
    <3> QED
      BY <2>s, <2>b, <3>1, <3>2 DEF TypeOK, EarlyType
  <2>6. ASSUME NEW slot \in Slots, ReadLocal(slot) PROVE TypeOK'
    <3>1. OnDisk(slot) \in Content
      <4>1. slot[1] \in Stages /\ slot[2] \in Files
        BY DEF Slots
      <4> QED
        BY <2>w, <4>1 DEF OnDisk, WorldTypeOK
    <3>2. acq' \in AcqType
      BY <2>6, <2>w, <3>1, AcquiredType DEF ReadLocal, AcqType
    <3>3. settled' \in BOOLEAN
      BY <2>6, <2>b, Zenon DEF ReadLocal
    <3>4. UNCHANGED <<env, pc, target, early, executed, record, normal, status>>
      BY <2>6 DEF ReadLocal
    <3> QED
      BY <2>s, <2>b, <3>2, <3>3, <3>4 DEF TypeOK, AcqType
  <2>7. CASE Classify
    <3>1. status' \in Status
      BY <2>7, PathStatusType DEF Classify, PathAnswer
    <3>2. /\ pc = "read" /\ pc' = "done" /\ acq' \in AcqType
          /\ UNCHANGED <<env, target, early, executed, record, normal, settled>>
      BY <2>7, <1>n DEF Classify
    <3> QED
      BY <2>s, <2>b, <3>1, <3>2 DEF TypeOK, AcqType
  <2>8. CASE AskAgain
    <3>1. executed' \in BOOLEAN /\ normal' \in BOOLEAN /\ settled' \in BOOLEAN
      BY <2>8, Zenon DEF AskAgain
    <3> QED
      BY <2>8, <2>s, <1>u, <1>r, <3>1 DEF AskAgain, TypeOK, EarlyType, Status
  <2>9. CASE UNCHANGED vars
    BY <2>9, <2>s, <2>b DEF vars, env, TypeOK
  <2> QED
    BY <2>0, <2>1, <2>2, <2>3, <2>4, <2>5, <2>6, <2>7, <2>8, <2>9 DEF Next, Analyse
<1> QED
  BY <1>1, <1>2, PTL DEF Spec
-----------------------------------------------------------------------------
(* COMPLETED is supported, FAILED is final.                                *)

\* A record of a job that is over.
Terminal(r) == r.state \in {"COMPLETED", "FAILED"}

\* A terminal record is the job's for good; the trajectories read after it
\* are final, however old the early looks are.
RecordIsFinal == Terminal(record) => job = record

ReadsAreFinal ==
    Terminal(record) =>
        \A slot \in Slots : acq[slot].how = "read" => acq[slot].content = OnDisk(slot)

\* Nothing is read before the lookup, no record and no status kept beyond
\* the next analysis.
Order ==
    /\ pc \in {"discover", "stages", "target", "lookup"} => record = NoRecord
    /\ pc # "read" => acq = [slot \in Slots |-> Nothing]
    /\ pc # "done" => status = "UNKNOWN"

PathInv ==
    /\ Deserted
    /\ RecordIsFinal
    /\ ReadsAreFinal
    /\ Order
    /\ CompletedIsSupported
    /\ FailedIsFinal

\* Steps of the analysis leave the job and the files as they are.
LEMMA SameWorld ==
  ASSUME UNCHANGED env
  PROVE  /\ Deserted => Deserted'
         /\ SupportedCompletion => SupportedCompletion'
         /\ JobOver => JobOver'
         /\ \A slot \in Slots : OnDisk(slot)' = OnDisk(slot)
         /\ \A s \in Stages : EarlyLook(s)' = EarlyLook(s)
<1>1. job' = job /\ vasp' = vasp /\ files' = files
  BY DEF env
<1> QED
  BY <1>1 DEF Deserted, JobOver, SupportedCompletion, ForElectronic, ForIonic,
     OutcarForce, OnDisk, EarlyLook, HasOutputs, Mark

LEMMA FileSlots == \A s \in Stages : \A f \in Files : <<s, f>> \in Slots
  BY DEF Slots

\* Everything the local trajectory of a stage takes as evidence for
\* convergence is in its final files.
LEMMA TrajectoryIsFinal ==
  ASSUME Terminal(record), ReadsAreFinal, NEW s \in Stages
  PROVE  LET t == LocalTrajectory(acq, s) IN
         /\ t.flagE = "true" => files[s]["vasprun"].flagE = "true"
         /\ t.flagI = "true" => files[s]["vasprun"].flagI = "true"
         /\ t.cycle = "reached" => files[s]["oszicar"].cycle = "reached"
         /\ t.force = "reached" => t.source = "outcar" /\ OutcarForce(s, "reached")
<1>1. \A f \in Files : Got(acq, s, f) => acq[<<s, f>>].content = files[s][f]
  BY FileSlots DEF Got, ReadsAreFinal, OnDisk, Files
<1>2. "oszicar" \in Files /\ "vasprun" \in Files /\ "outcar" \in Files
  BY DEF Files
<1>3. \A flag : VasprunFlag(acq, s, "vasprun", flag) = "true" => files[s]["vasprun"][flag] = "true"
  BY <1>1, <1>2 DEF VasprunFlag, Parsed
<1>4. CycleMeasure(acq, s) = "reached" => files[s]["oszicar"].cycle = "reached"
  BY <1>1, <1>2 DEF CycleMeasure
<1>5. ASSUME ForceMeasure(acq, s, LocalForceSource(acq, s)) = "reached"
      PROVE  LocalForceSource(acq, s) = "outcar" /\ OutcarForce(s, "reached")
  <2>1. Aligned(acq, s) /\ LocalForceSource(acq, s) = "outcar"
    BY <1>5 DEF ForceMeasure, LocalForceSource
  <2>2. Got(acq, s, "outcar") /\ Got(acq, s, "oszicar")
    BY <2>1 DEF Aligned, OszicarSteps
  <2>3. files[s]["outcar"].steps = files[s]["oszicar"].steps
    BY <1>1, <1>2, <2>1, <2>2 DEF Aligned, OszicarSteps
  <2> QED
    BY <1>1, <1>2, <1>5, <2>1, <2>2, <2>3 DEF ForceMeasure, OutcarForce
<1> QED
  BY <1>3, <1>4, <1>5 DEF LocalTrajectory

\* A stage that counts as complete is so by its final files.
LEMMA CompleteStageIsSupported ==
  ASSUME Terminal(record), ReadsAreFinal, NEW s \in Stages, NEW looks,
         Complete(PathStages(looks, acq)[s])
  PROVE  ForElectronic(s) /\ (s \in Relax => ForIonic(s))
<1> DEFINE t == LocalTrajectory(acq, s)
<1>1. /\ looks[s].started
      /\ StageConvergence(t, s \in Relax, s \in Cell) = "converged"
  BY DEF Complete, PathStages
<1>4. /\ ElectronicOutcome(t) = "converged"
      /\ s \in Relax => IonicOutcome(t, s \in Cell) = "converged"
  BY <1>1, StageNeeds, Zenon
<1>5. t.flagE = "true" \/ t.cycle = "reached"
  BY <1>4, ElectronicNeeds
<1>6. s \in Relax => \/ t.flagI = "true"
                     \/ t.force = "reached" /\ ~(s \in Cell /\ t.source = "outcar")
  BY <1>4, IonicNeeds, Zenon
<1>7. /\ t.flagE = "true" => files[s]["vasprun"].flagE = "true"
      /\ t.flagI = "true" => files[s]["vasprun"].flagI = "true"
      /\ t.cycle = "reached" => files[s]["oszicar"].cycle = "reached"
      /\ t.force = "reached" => t.source = "outcar" /\ OutcarForce(s, "reached")
  BY TrajectoryIsFinal
<1> HIDE DEF t
<1>8. ForElectronic(s)
  BY <1>5, <1>7 DEF ForElectronic
<1>9. s \in Relax => ForIonic(s)
  BY <1>6, <1>7 DEF ForIonic
<1> QED
  BY <1>8, <1>9

\* Which records and states are shown as COMPLETED and as FAILED.
LEMMA PathStatusNeeds ==
  ASSUME NEW r \in Record, NEW stages, NEW marked, NEW inputs, NEW seen,
         NEW st, st = PathStatus(r, LifecycleState(r, stages, marked, inputs, seen))
  PROVE  /\ st = "COMPLETED" =>
               /\ r # NoRecord => Terminal(r)
               /\ DOMAIN stages # {} /\ \A s \in DOMAIN stages : Complete(stages[s])
         /\ st = "FAILED" => Terminal(r)
<1> DEFINE state == LifecycleState(r, stages, marked, inputs, seen)
<1>1. r = NoRecord \/ Terminal(r) \/ r.state \in ActiveStates
  BY DEF Record, SchedulerState, Terminal, ActiveStates
<1>2. r.state \in ActiveStates => state = "RUNNING"
  BY DEF LifecycleState
<1>3. ASSUME st = "COMPLETED"
      PROVE  state = "COMPLETED" /\ ~(r.state \in ActiveStates)
  <2>1. state = "COMPLETED"
    BY <1>3 DEF PathStatus
  <2> QED
    BY <1>2, <2>1
<1>4. ASSUME state = "COMPLETED"
      PROVE  WorkflowStatus(stages, SchedulerSuccess(r)) = "COMPLETED"
  BY <1>4 DEF LifecycleState
<1>5. SchedulerSuccess(r) \in BOOLEAN
  BY DEF SchedulerSuccess
<1>6. ASSUME st = "FAILED" PROVE Terminal(r)
  <2>1. state = "INCOMPLETE" /\ FailureEvidence(r)
    <3>1. state # "FAILED" /\ st = PathStatus(r, state)
      BY LifecycleStateType
    <3> HIDE DEF state
    <3> QED
      BY <1>6, <3>1 DEF PathStatus
  <2>2. r # NoRecord
    BY <2>1 DEF FailureEvidence, NoRecord
  <2> QED
    BY <1>1, <1>2, <2>1, <2>2
<1> HIDE DEF state
<1>7. st = "COMPLETED" => DOMAIN stages # {} /\ \A s \in DOMAIN stages : Complete(stages[s])
  BY <1>3, <1>4, <1>5, WorkflowNeeds
<1> QED
  BY <1>1, <1>3, <1>6, <1>7

\* The order of the analysis keeps all of it.
LEMMA PathInvHolds == Spec => []PathInv
<1>1. Init => PathInv
  BY DesertedInit DEF Init, PathInv, RecordIsFinal, ReadsAreFinal, Order,
     CompletedIsSupported, FailedIsFinal, Terminal, NoRecord
<1>2. TypeOK /\ PathInv /\ [Next]_vars => PathInv'
  <2> SUFFICES ASSUME TypeOK, PathInv, [Next]_vars
               PROVE  PathInv'
    OBVIOUS
  <2>i. /\ Deserted /\ RecordIsFinal /\ ReadsAreFinal /\ Order
        /\ CompletedIsSupported /\ FailedIsFinal
    BY DEF PathInv
  <2>t. acq \in AcqType /\ WorldTypeOK /\ record \in Record
    BY DEF TypeOK, AcqType
  \* What a step that touches neither the world, the reads nor the answer keeps.
  <2>k. ASSUME UNCHANGED <<env, record, acq, status>>, Order' PROVE PathInv'
    BY <2>i, <2>k, SameWorld DEF PathInv, RecordIsFinal, ReadsAreFinal,
       CompletedIsSupported, FailedIsFinal, Terminal, env
  <2>1. CASE World
    <3>1. WorldNext /\ UNCHANGED analysis
      BY <2>1 DEF World
    <3>2. ~JobOver
      BY <2>i, <3>1, OverIsFinal
    <3>3. ~Terminal(record) /\ status # "FAILED" /\ (status = "COMPLETED" => record = NoRecord)
      BY <2>i, <3>2 DEF RecordIsFinal, CompletedIsSupported, FailedIsFinal, Terminal, JobOver
    <3>4. Deserted'
      BY <2>i, <2>t, <3>1, DesertedStep
    <3> QED
      BY <2>i, <3>1, <3>3, <3>4 DEF analysis, PathInv, RecordIsFinal,
         ReadsAreFinal, Order, CompletedIsSupported, FailedIsFinal, Terminal
  <2>0. CASE FindCurrentStage
    BY <2>0, <2>i, <2>k DEF FindCurrentStage, Order
  <2>2. CASE LookAtTarget
    <3>1. /\ pc = "target" /\ pc' = "lookup"
          /\ UNCHANGED <<env, target, early, record, normal, acq, status, settled>>
      BY <2>2, Zenon DEF LookAtTarget
    <3> QED
      BY <2>i, <2>k, <3>1 DEF Order
  <2>3. CASE LookupScheduler
    <3>1. /\ pc = "lookup" /\ pc' = "marker"
          /\ record' \in {job, NoRecord}
          /\ UNCHANGED <<env, target, early, executed, normal, acq, status, settled>>
      BY <2>3 DEF LookupScheduler
    <3>2. acq = [slot \in Slots |-> Nothing] /\ status = "UNKNOWN"
      BY <2>i, <3>1 DEF Order
    <3> QED
      BY <2>i, <3>1, <3>2, SameWorld DEF PathInv, RecordIsFinal, ReadsAreFinal,
         Order, CompletedIsSupported, FailedIsFinal, Terminal, NoRecord, Nothing, env
  <2>4. CASE DetectNormalCompletion
    BY <2>4, <2>i, <2>k DEF DetectNormalCompletion, Order
  <2>5. ASSUME NEW s \in Stages, LookAt(s) PROVE PathInv'
    BY <2>5, <2>i, <2>k DEF LookAt, Order
  <2>6. ASSUME NEW slot \in Slots, ReadLocal(slot) PROVE PathInv'
    <3>1. pc = "read" /\ UNCHANGED <<env, pc, target, early, executed, record, normal, status>>
      BY <2>6 DEF ReadLocal
    <3>2. PICK c \in {Reading(OnDisk(slot)), [how |-> "unreadable", content |-> Absent]} :
             acq' = [acq EXCEPT ![slot] = c]
      BY <2>6 DEF ReadLocal
    <3>3. c.how = "read" => c.content = OnDisk(slot)
      BY <3>2 DEF Reading
    <3>4. ReadsAreFinal'
      <4> SUFFICES ASSUME Terminal(record), NEW x \in Slots, acq'[x].how = "read"
                   PROVE  acq'[x].content = OnDisk(x)'
        BY <3>1 DEF ReadsAreFinal
      <4>1. CASE x = slot
        BY <2>t, <3>1, <3>2, <3>3, <4>1, SameWorld DEF AcqType
      <4>2. CASE x # slot
        BY <2>i, <2>t, <3>1, <3>2, <4>2, SameWorld DEF AcqType, ReadsAreFinal
      <4> QED
        BY <4>1, <4>2
    <3> QED
      BY <2>i, <3>1, <3>4, SameWorld DEF PathInv, RecordIsFinal, Order,
         CompletedIsSupported, FailedIsFinal, Terminal, env
  <2>7. CASE Classify
    <3>1. /\ pc' = "done" /\ acq' = [x \in Slots |-> Nothing]
          /\ UNCHANGED <<env, record>>
      BY <2>7 DEF Classify
    <3> DEFINE stages == PathStages(early, acq)
    <3>2. /\ status' = "COMPLETED" =>
                /\ record # NoRecord => Terminal(record)
                /\ DOMAIN stages # {} /\ \A s \in DOMAIN stages : Complete(stages[s])
          /\ status' = "FAILED" => Terminal(record)
      BY <2>7, <2>t, PathStatusNeeds DEF Classify, PathAnswer
    <3>3. DOMAIN stages = Stages
      BY DEF PathStages
    <3>4. ASSUME status' = "COMPLETED", record # NoRecord
          PROVE  JobOver /\ SupportedCompletion
      <4>1. Terminal(record)
        BY <3>2, <3>4
      <4>2. JobOver
        BY <2>i, <4>1 DEF RecordIsFinal, Terminal, JobOver
      <4>3. ASSUME NEW s \in Stages
            PROVE  ForElectronic(s) /\ (s \in Relax => ForIonic(s))
        <5>1. Complete(PathStages(early, acq)[s])
          BY <3>2, <3>3, <3>4
        <5> QED
          BY <2>i, <4>1, <5>1, CompleteStageIsSupported
      <4> QED
        BY <4>2, <4>3 DEF SupportedCompletion
    <3>5. status' = "FAILED" => JobOver
      BY <2>i, <3>2 DEF RecordIsFinal, Terminal, JobOver
    <3> HIDE DEF stages
    <3> QED
      BY <2>i, <3>1, <3>4, <3>5, SameWorld DEF PathInv, RecordIsFinal, ReadsAreFinal,
         Order, CompletedIsSupported, FailedIsFinal, Terminal, Nothing, env
  <2>8. CASE AskAgain
    <3>1. /\ pc' = "discover" /\ record' = NoRecord
          /\ status' = "UNKNOWN" /\ UNCHANGED <<env, acq>> /\ pc = "done"
      BY <2>8 DEF AskAgain
    <3> QED
      BY <2>i, <3>1, SameWorld DEF PathInv, RecordIsFinal, ReadsAreFinal,
         Order, CompletedIsSupported, FailedIsFinal, Terminal, NoRecord, env
  <2>9. CASE UNCHANGED vars
    BY <2>9, <2>i, <2>k DEF vars, env, Order
  <2> QED
    BY <2>0, <2>1, <2>2, <2>3, <2>4, <2>5, <2>6, <2>7, <2>8, <2>9 DEF Next, Analyse
<1> QED
  BY <1>1, <1>2, PathTypeCorrect, PTL DEF Spec

\* An analysis that got a record shows COMPLETED only of a job that is over
\* and whose final files support it in every stage.
THEOREM PathCompletedSupported == Spec => []CompletedIsSupported
<1>1. PathInv => CompletedIsSupported
  BY DEF PathInv
<1> QED
  BY <1>1, PathInvHolds, PTL

\* FAILED is only shown of a job that will not run again.
THEOREM PathFailedFinal == Spec => []FailedIsFinal
<1>1. PathInv => FailedIsFinal
  BY DEF PathInv
<1> QED
  BY <1>1, PathInvHolds, PTL
-----------------------------------------------------------------------------
(* The same status, once the job was over before the analysis began.       *)

\* The stages are looked at in their order, none before the analysis began.
LooksInOrder ==
    /\ \A s, t \in Stages : t < s /\ early[s].seen => early[t].seen
    /\ pc = "discover" => early = [s \in Stages |-> Unseen]
    /\ pc \notin {"discover", "stages"} => \A s \in Stages : early[s].seen

\* Of a job that was over, every look, the record and every read are final.
LooksAreFinal ==
    settled => JobOver /\ \A s \in Stages : early[s].seen => early[s] = EarlyLook(s)

RecordIsThatOfTheJob == settled /\ record # NoRecord => record = job

ReadsAreSound ==
    settled => \A slot \in Slots :
                  acq[slot].how # "unread" => acq[slot] = Reading(OnDisk(slot))

\* A stage that was seen to have started is a sign of execution.
StartedIsExecuted ==
    pc \in {"lookup", "marker", "read", "done"} =>
        \A s \in Stages : early[s].started => executed

SettledInv ==
    /\ LooksInOrder
    /\ LooksAreFinal
    /\ RecordIsThatOfTheJob
    /\ ReadsAreSound
    /\ StartedIsExecuted
    /\ SameStatusOnceSettled

\* The trajectory of a stage depends on the reads of its four files only.
LEMMA SameTrajectory ==
  ASSUME NEW s \in Stages, NEW a, NEW b,
         \A f \in Files : a[<<s, f>>] = b[<<s, f>>]
  PROVE  LocalTrajectory(a, s) = LocalTrajectory(b, s)
<1>1. /\ a[<<s, "incar">>] = b[<<s, "incar">>]
      /\ a[<<s, "oszicar">>] = b[<<s, "oszicar">>]
      /\ a[<<s, "vasprun">>] = b[<<s, "vasprun">>]
      /\ a[<<s, "outcar">>] = b[<<s, "outcar">>]
  BY DEF Files
<1>2. \A flag : VasprunFlag(a, s, "vasprun", flag) = VasprunFlag(b, s, "vasprun", flag)
  BY <1>1 DEF VasprunFlag, Parsed, Got
<1>3. CycleMeasure(a, s) = CycleMeasure(b, s)
  BY <1>1 DEF CycleMeasure, HasCriteria, Parsed, Got
<1>4. LocalForceSource(a, s) = LocalForceSource(b, s)
  BY <1>1 DEF LocalForceSource, Aligned, OszicarSteps, Got
<1>5. LocalForceSource(a, s) \in {"outcar", "none"}
  BY DEF LocalForceSource
<1>6. ForceMeasure(a, s, LocalForceSource(a, s)) = ForceMeasure(b, s, LocalForceSource(b, s))
  BY <1>1, <1>4, <1>5 DEF ForceMeasure, HasCriteria, Parsed, Got
<1> QED
  BY <1>2, <1>3, <1>4, <1>6 DEF LocalTrajectory

\* Where every started stage was read, reading the others changes nothing.
LEMMA SamePathStages ==
  ASSUME NEW looks, NEW a, NEW b,
         \A s \in Stages : looks[s].started =>
             \A f \in Files : a[<<s, f>>] = b[<<s, f>>]
  PROVE  PathStages(looks, a) = PathStages(looks, b)
<1>1. ASSUME NEW s \in Stages
      PROVE  (IF looks[s].started THEN LocalTrajectory(a, s) ELSE NoEvidence)
             = (IF looks[s].started THEN LocalTrajectory(b, s) ELSE NoEvidence)
  BY <1>1, SameTrajectory
<1> QED
  BY <1>1 DEF PathStages

\* Unless COMPLETED comes with a nonzero exit, the marker of the current
\* stage decides nothing about a job that is over.
LEMMA MarkerDecidesNothing ==
  ASSUME NEW r \in Record, Terminal(r),
         r # [state |-> "COMPLETED", exit |-> "nonzero"],
         NEW looks, NEW a, NEW isNormal, NEW seen
  PROVE  PathAnswer(r, looks, a, isNormal, seen) = PathAnswer(r, looks, a, FALSE, seen)
<1>1. r.state = "FAILED" \/ r.exit # "nonzero"
  BY DEF Record, Terminal, NoRecord
<1> DEFINE inputs == \E s \in Stages : looks[s].inputs
           stages == PathStages(looks, a)
<1>2. LifecycleState(r, stages, isNormal, inputs, seen)
      = LifecycleState(r, stages, FALSE, inputs, seen)
  <2> HIDE DEF inputs, stages
  <2> QED
    BY <1>1 DEF LifecycleState
<1> QED
  BY <1>2 DEF PathAnswer

\* The strengthening is an invariant: a settled analysis sees one world.
LEMMA SettledInvHolds == Spec => []SettledInv
<1>1. Init => SettledInv
  BY DEF Init, SettledInv, LooksInOrder, LooksAreFinal, RecordIsThatOfTheJob,
     ReadsAreSound, StartedIsExecuted, SameStatusOnceSettled, Unseen
<1>2. TypeOK /\ PathInv /\ SettledInv /\ [Next]_vars => SettledInv'
  <2> SUFFICES ASSUME TypeOK, PathInv, SettledInv, [Next]_vars
               PROVE  SettledInv'
    OBVIOUS
  <2>i. /\ LooksInOrder /\ LooksAreFinal /\ RecordIsThatOfTheJob
        /\ ReadsAreSound /\ StartedIsExecuted /\ SameStatusOnceSettled
    BY DEF SettledInv
  <2>j. Deserted /\ Order
    BY DEF PathInv
  <2>t. /\ acq \in AcqType /\ early \in EarlyType /\ WorldTypeOK
        /\ record \in Record
    BY DEF TypeOK, AcqType, EarlyType
  <2>1. CASE World
    <3>1. WorldNext /\ UNCHANGED analysis
      BY <2>1 DEF World
    <3>2. ~JobOver
      BY <2>j, <3>1, OverIsFinal
    <3>3. settled = FALSE \/ ~settled
      BY <2>i, <3>2 DEF LooksAreFinal
    <3> QED
      BY <2>i, <3>1, <3>2, <3>3 DEF analysis, SettledInv, LooksInOrder,
         LooksAreFinal, RecordIsThatOfTheJob, ReadsAreSound,
         StartedIsExecuted, SameStatusOnceSettled
  <2>0. CASE FindCurrentStage
    <3>1. /\ pc = "discover" /\ pc' = "stages" /\ settled' = JobOver
          /\ UNCHANGED <<env, early, executed, record, normal, acq, status>>
      BY <2>0 DEF FindCurrentStage
    <3>2. /\ \A s \in Stages : ~early[s].seen
          /\ record = NoRecord /\ acq = [slot \in Slots |-> Nothing]
      BY <2>i, <2>j, <3>1 DEF LooksInOrder, Order, Unseen
    <3> QED
      BY <3>1, <3>2, SameWorld DEF SettledInv, LooksInOrder,
         LooksAreFinal, RecordIsThatOfTheJob, ReadsAreSound,
         StartedIsExecuted, SameStatusOnceSettled, Nothing
  <2>2. CASE LookAtTarget
    <3>1. /\ pc = "target" /\ pc' = "lookup"
          /\ UNCHANGED <<env, target, early, record, normal, acq, status, settled>>
      BY <2>2, Zenon DEF LookAtTarget
    <3>2. ASSUME NEW s \in Stages, early[s].started PROVE executed'
      BY <2>2, <3>2 DEF LookAtTarget
    <3> QED
      BY <2>i, <3>1, <3>2, SameWorld DEF SettledInv, LooksInOrder,
         LooksAreFinal, RecordIsThatOfTheJob, ReadsAreSound,
         StartedIsExecuted, SameStatusOnceSettled, Reading, env
  <2>3. CASE LookupScheduler
    <3>1. /\ pc = "lookup" /\ pc' = "marker" /\ record' \in {job, NoRecord}
          /\ UNCHANGED <<env, target, early, executed, normal, acq, status, settled>>
      BY <2>3 DEF LookupScheduler
    <3> QED
      BY <2>i, <3>1, SameWorld DEF SettledInv, LooksInOrder,
         LooksAreFinal, RecordIsThatOfTheJob, ReadsAreSound,
         StartedIsExecuted, SameStatusOnceSettled, Reading, env
  <2>4. CASE DetectNormalCompletion
    <3>1. /\ pc = "marker" /\ pc' = "read"
          /\ UNCHANGED <<env, early, executed, record, acq, status, settled>>
      BY <2>4 DEF DetectNormalCompletion
    <3> QED
      BY <2>i, <3>1, SameWorld DEF SettledInv, LooksInOrder,
         LooksAreFinal, RecordIsThatOfTheJob, ReadsAreSound,
         StartedIsExecuted, SameStatusOnceSettled, Reading, env
  <2>5. ASSUME NEW s \in Stages, LookAt(s) PROVE SettledInv'
    <3>1. /\ pc = "stages" /\ ~early[s].seen
          /\ \A t \in Stages : t < s => early[t].seen
          /\ early' = [early EXCEPT ![s] = EarlyLook(s)]
          /\ pc' = IF s = N THEN "target" ELSE "stages"
          /\ UNCHANGED <<env, target, executed, record, normal, acq, status, settled>>
      BY <2>5 DEF LookAt
    <3>2. \A t \in Stages : early'[t] = IF t = s THEN EarlyLook(s) ELSE early[t]
      BY <2>t, <3>1 DEF EarlyType
    <3>3. EarlyLook(s).seen
      BY DEF EarlyLook
    <3>4. LooksInOrder'
      <4>1. ASSUME NEW x \in Stages, NEW t \in Stages, t < x, early'[x].seen
            PROVE  early'[t].seen
        BY <2>i, <3>1, <3>2, <3>3, <4>1 DEF LooksInOrder
      <4>2. ASSUME pc' \notin {"discover", "stages"}, NEW x \in Stages PROVE early'[x].seen
        <5>1. s = N /\ N \in Int
          BY <3>1, <4>2, StagesAssumption
        <5>2. x = s \/ x < s
          BY <5>1 DEF Stages
        <5> QED
          BY <3>1, <3>2, <3>3, <5>2
      <4>3. pc' # "discover"
        BY <3>1
      <4> QED
        BY <4>1, <4>2, <4>3 DEF LooksInOrder
    <3>5. LooksAreFinal'
      BY <2>i, <3>1, <3>2, SameWorld DEF LooksAreFinal
    <3>6. record = NoRecord /\ acq = [slot \in Slots |-> Nothing]
      BY <2>j, <3>1 DEF Order
    <3> QED
      BY <3>1, <3>4, <3>5, <3>6 DEF SettledInv, RecordIsThatOfTheJob,
         ReadsAreSound, StartedIsExecuted, SameStatusOnceSettled, Nothing
  <2>6. ASSUME NEW slot \in Slots, ReadLocal(slot) PROVE SettledInv'
    <3>1. /\ pc = "read" /\ UNCHANGED <<env, pc, target, early, executed, record, normal, status>>
          /\ settled' => settled
      BY <2>6 DEF ReadLocal
    <3>2. settled' => acq' = [acq EXCEPT ![slot] = Reading(OnDisk(slot))]
      BY <2>6 DEF ReadLocal
    <3>3. ReadsAreSound'
      BY <2>i, <2>t, <3>1, <3>2, SameWorld DEF ReadsAreSound, AcqType, Reading
    <3> QED
      BY <2>i, <3>1, <3>3, SameWorld DEF SettledInv, LooksInOrder,
         LooksAreFinal, RecordIsThatOfTheJob, StartedIsExecuted,
         SameStatusOnceSettled, env
  <2>7. CASE Classify
    <3>1. /\ pc = "read" /\ pc' = "done" /\ acq' = [x \in Slots |-> Nothing]
          /\ \A slot \in Wanted : acq[slot].how # "unread"
          /\ status' = PathAnswer(record, early, acq, normal, executed)
          /\ UNCHANGED <<env, target, early, executed, record, normal, settled>>
      BY <2>7 DEF Classify
    <3> DEFINE Looks == [s \in Stages |-> EarlyLook(s)]
               Reads == [slot \in Slots |-> Reading(OnDisk(slot))]
    <3>2. ASSUME settled, record # NoRecord,
                 record # [state |-> "COMPLETED", exit |-> "nonzero"]
          PROVE  status' = PathAnswer(job, Looks, Reads, FALSE, executed)
      <4>1. record = job /\ Terminal(record)
        BY <2>i, <3>2 DEF RecordIsThatOfTheJob, LooksAreFinal, JobOver, Terminal
      <4>2. early = Looks
        <5>1. \A s \in Stages : early[s] = EarlyLook(s)
          BY <2>i, <3>1, <3>2 DEF LooksInOrder, LooksAreFinal
        <5>2. early = [s \in Stages |-> early[s]]
          BY <2>t DEF EarlyType
        <5> QED
          BY <5>1, <5>2
      <4>3. ASSUME NEW s \in Stages, early[s].started, NEW f \in Files
            PROVE  acq[<<s, f>>] = Reads[<<s, f>>]
        <5>1. <<s, f>> \in Slots /\ executed
          BY <2>i, <3>1, <4>3, FileSlots DEF StartedIsExecuted
        <5>2. <<s, f>> \in Wanted
          BY <4>3, <5>1 DEF Wanted
        <5> QED
          BY <2>i, <3>1, <3>2, <5>1, <5>2 DEF ReadsAreSound
      <4> HIDE DEF Looks, Reads
      <4>4. PathStages(early, acq) = PathStages(early, Reads)
        BY <4>3, SamePathStages
      <4>5. status' = PathAnswer(record, early, Reads, normal, executed)
        BY <3>1, <4>4 DEF PathAnswer
      <4>6. PathAnswer(record, early, Reads, normal, executed)
            = PathAnswer(record, early, Reads, FALSE, executed)
        <5>1. record \in Record /\ Terminal(record)
          BY <2>t, <4>1
        <5>2. record # [state |-> "COMPLETED", exit |-> "nonzero"]
          BY <3>2
        <5> QED
          BY <5>1, <5>2, MarkerDecidesNothing
      <4> QED
        BY <4>1, <4>2, <4>5, <4>6
    <3>3. SameStatusOnceSettled'
      <4>1. Looks' = Looks /\ Reads' = Reads /\ job' = job
        BY <3>1, SameWorld DEF Reading, env
      <4>2. PathAnswer(job, Looks, Reads, FALSE, executed)'
            = PathAnswer(job, Looks, Reads, FALSE, executed)
        <5> HIDE DEF Looks, Reads
        <5> QED
          BY <3>1, <4>1 DEF PathAnswer, PathStages, LocalTrajectory,
             LocalForceSource
      <4> QED
        BY <3>1, <3>2, <4>2 DEF SameStatusOnceSettled
    <3> QED
      BY <2>i, <3>1, <3>3, SameWorld DEF SettledInv, LooksInOrder,
         LooksAreFinal, RecordIsThatOfTheJob, ReadsAreSound,
         StartedIsExecuted, Nothing, env
  <2>8. CASE AskAgain
    <3>1. /\ pc' = "discover" /\ early' = [s \in Stages |-> Unseen]
          /\ settled' = FALSE
      BY <2>8 DEF AskAgain
    <3> QED
      BY <3>1 DEF SettledInv, LooksInOrder, LooksAreFinal, RecordIsThatOfTheJob,
         ReadsAreSound, StartedIsExecuted, SameStatusOnceSettled, Unseen
  <2>9. CASE UNCHANGED vars
    BY <2>9, <2>i, SameWorld DEF vars, env, SettledInv, LooksInOrder,
       LooksAreFinal, RecordIsThatOfTheJob, ReadsAreSound, StartedIsExecuted,
       SameStatusOnceSettled, Reading
  <2> QED
    BY <2>0, <2>1, <2>2, <2>3, <2>4, <2>5, <2>6, <2>7, <2>8, <2>9 DEF Next, Analyse
<1> QED
  BY <1>1, <1>2, PathTypeCorrect, PathInvHolds, PTL DEF Spec

\* Of a job that was over before the analysis began, and whose files are
\* readable, the status shown is that of the final files, from whichever
\* directory it was asked.
THEOREM PathSameStatus == Spec => []SameStatusOnceSettled
<1>1. SettledInv => SameStatusOnceSettled
  BY DEF SettledInv
<1> QED
  BY <1>1, SettledInvHolds, PTL
=============================================================================
