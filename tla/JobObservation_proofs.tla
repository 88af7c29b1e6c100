----------------------- MODULE JobObservation_proofs -----------------------
(***************************************************************************)
(* Theorems about job mode, for every number of stages, VASP runs, ionic   *)
(* steps and faults.                                                       *)
(***************************************************************************)
EXTENDS JobObservation, WorkflowRun_proofs

AcqType == [Slots -> Acquired]

-----------------------------------------------------------------------------
(* Types.                                                                  *)

\* The file a slot stands for: vasprun.xml is read twice for the last stage.
LEMMA SlotFile ==
  ASSUME NEW slot \in Slots
  PROVE  /\ slot[1] \in Stages
         /\ (IF slot[2] = "scientific" THEN "vasprun" ELSE slot[2]) \in Files
  BY StagesAssumption DEF Slots, Stages, Files

\* What is on disk at a slot has the shape of file contents.
LEMMA OnDiskType ==
  ASSUME WorldTypeOK, NEW slot \in Slots
  PROVE  OnDisk(slot) \in Content
  BY SlotFile DEF WorldTypeOK, OnDisk

\* A sound read, a file that is only listed or not there, and one that
\* could not be read are all acquisitions.
LEMMA AcquiredType ==
  ASSUME NEW c \in Content
  PROVE  /\ Reading(c) \in Acquired
         /\ Nothing \in Acquired
         /\ \A how \in {"listed", "missing", "unreadable"} :
               [how |-> how, content |-> Absent] \in Acquired
  BY ContentType DEF Reading, Acquired, Nothing

\* A fault only adds to the faults, and is never forgotten by its step.
LEMMA FaultType ==
  ASSUME NEW fault, NEW slot \in Slots \cup {NoSlot}, Fault(fault, slot),
         faulted \subseteq FaultKinds \X (Slots \cup {NoSlot})
  PROVE  faulted' \subseteq FaultKinds \X (Slots \cup {NoSlot}) /\ faulted' # {}
<1>1. fault \in FaultKinds /\ faulted' = faulted \cup {<<fault, slot>>}
  BY FaultsAssumption DEF Fault
<1>2. <<fault, slot>> \in FaultKinds \X (Slots \cup {NoSlot})
  BY <1>1
<1> QED
  BY <1>1, <1>2

\* The absence of an accounting record is an answer of sacct, too.
LEMMA NoRecordType == NoRecord \in Record
  BY DEF Record

\* Every variable of the observer keeps its type; the types of the job, of
\* VASP and of the files are those of WorkflowRun.
THEOREM TypeCorrect == Spec => []TypeOK
<1>1. Init => TypeOK
  <2> SUFFICES ASSUME Init PROVE TypeOK
    OBVIOUS
  <2>1. WorldTypeOK
    BY WorldTypeInit DEF Init
  <2>2. acq \in AcqType
    BY ContentType, AcquiredType DEF Init, AcqType
  <2>3. analysed \in BOOLEAN
    BY Zenon DEF Init
  <2> QED
    BY <2>1, <2>2, <2>3, NoRecordType DEF Init, TypeOK, AcqType, Status
<1>2. TypeOK /\ [Next]_vars => TypeOK'
  <2> SUFFICES ASSUME TypeOK, [Next]_vars
               PROVE  TypeOK'
    OBVIOUS
  <2>w. WorldTypeOK /\ acq \in AcqType
    BY DEF TypeOK, AcqType
  <2>s. ASSUME UNCHANGED env PROVE WorldTypeOK'
    BY <2>w, <2>s DEF env, WorldTypeOK
  <2>n. [slot \in Slots |-> Nothing] \in AcqType
    BY ContentType, AcquiredType DEF AcqType
  <2>1. CASE World
    <3>1. WorldTypeOK'
      BY <2>1, <2>w, WorldTypeStep DEF World
    <3> QED
      BY <2>1, <3>1 DEF World, observer, TypeOK
  <2>2. CASE ReadScheduler
    <3>1. record' \in Record /\ faulted' \subseteq FaultKinds \X (Slots \cup {NoSlot})
      <4>1. CASE record' = job /\ UNCHANGED faulted
        BY <4>1 DEF TypeOK, WorldTypeOK
      <4>2. CASE record' = NoRecord /\ Fault("sacct", NoSlot)
        BY <4>2, NoRecordType, FaultType DEF TypeOK
      <4> QED
        BY <2>2, <4>1, <4>2 DEF ReadScheduler
    <3>2. pc' = "resolve" /\ UNCHANGED <<env, acq, analysed, status>>
      BY <2>2 DEF ReadScheduler
    <3> QED
      BY <2>s, <3>1, <3>2 DEF TypeOK
  <2>3. CASE Resolve
    <3>1. analysed' \in BOOLEAN
      BY <2>3, Zenon DEF Resolve
    <3>2. pc' \in {"prime", "report"} /\ UNCHANGED <<env, record, acq, faulted, status>>
      BY <2>3 DEF Resolve
    <3> QED
      BY <2>s, <3>1, <3>2 DEF TypeOK
  <2>4. CASE Prime
    <3>1. acq' \in AcqType /\ faulted' \subseteq FaultKinds \X (Slots \cup {NoSlot})
      <4>1. ASSUME NEW deferred, acq' = Primed(deferred), UNCHANGED faulted
            PROVE  acq' \in AcqType /\ faulted' \subseteq FaultKinds \X (Slots \cup {NoSlot})
        <5>1. ASSUME NEW slot \in Slots
              PROVE  PrimedSlot(deferred, slot) \in Acquired
          BY <2>w, OnDiskType, AcquiredType DEF PrimedSlot
        <5> QED
          BY <4>1, <5>1 DEF Primed, AcqType, TypeOK
      <4>2. CASE Fault("batch", NoSlot) /\ UNCHANGED acq
        BY <4>2, <2>w, FaultType DEF TypeOK
      <4> QED
        BY <2>4, <4>1, <4>2 DEF Prime
    <3>2. pc' = "acquire" /\ UNCHANGED <<env, record, analysed, status>>
      BY <2>4 DEF Prime
    <3> QED
      BY <2>s, <3>1, <3>2 DEF TypeOK, AcqType
  <2>5. ASSUME NEW slot \in Slots, Acquire(slot) PROVE TypeOK'
    <3>1. OnDisk(slot) \in Content /\ acq[slot] \in Acquired
      BY <2>w, OnDiskType DEF AcqType
    <3>2. Transfer(slot) \in Acquired
      <4>1. <<N, "scientific">> \in Slots
        BY DEF Slots
      <4> QED
        BY <2>w, <3>1, <4>1, AcquiredType DEF Transfer, AcqType
    <3>3. acq' \in AcqType /\ faulted' \subseteq FaultKinds \X (Slots \cup {NoSlot})
      <4>1. CASE acq' = [acq EXCEPT ![slot] = Transfer(slot)] /\ UNCHANGED faulted
        BY <2>w, <3>2, <4>1 DEF AcqType, TypeOK
      <4>2. CASE /\ Fault("test", slot)
                 /\ acq' = [acq EXCEPT ![slot] = [how |-> "missing", content |-> Absent]]
        BY <2>w, <3>1, <4>2, AcquiredType, FaultType DEF AcqType, TypeOK
      <4>3. CASE /\ Fault("read", slot)
                 /\ acq' = [acq EXCEPT ![slot] = [how |-> "unreadable", content |-> Absent]]
        BY <2>w, <3>1, <4>3, AcquiredType, FaultType DEF AcqType, TypeOK
      <4> QED
        BY <2>5, <4>1, <4>2, <4>3 DEF Acquire
    <3>4. UNCHANGED <<env, pc, record, analysed, status>>
      BY <2>5 DEF Acquire
    <3> QED
      BY <2>s, <3>3, <3>4 DEF TypeOK, AcqType
  <2>6. CASE Abandon
    <3>1. analysed' \in BOOLEAN
      BY <2>6, Zenon DEF Abandon
    <3>2. faulted' \subseteq FaultKinds \X (Slots \cup {NoSlot})
      BY <2>6, FaultType DEF Abandon, TypeOK
    <3>3. pc' = "report" /\ acq' \in AcqType /\ UNCHANGED <<env, record, status>>
      BY <2>6, <2>n DEF Abandon
    <3> QED
      BY <2>s, <3>1, <3>2, <3>3 DEF TypeOK, AcqType
  <2>7. CASE EndAcquisition
    BY <2>7, <2>s DEF EndAcquisition, TypeOK
  <2>8. CASE Report
    <3>1. status' \in Status
      BY <2>8, JobStatusType DEF Report
    <3>2. pc' = "done" /\ acq' \in AcqType /\ UNCHANGED <<env, record, analysed, faulted>>
      BY <2>8, <2>n DEF Report
    <3> QED
      BY <2>s, <3>1, <3>2 DEF TypeOK, AcqType
  <2>9. CASE Again
    <3>1. analysed' \in BOOLEAN
      BY <2>9, Zenon DEF Again
    <3>2. record' \in Record /\ status' \in Status /\ faulted' = {}
      BY <2>9, NoRecordType DEF Again, Status
    <3>3. pc' = "scheduler" /\ UNCHANGED <<env, acq>>
      BY <2>9 DEF Again
    <3> QED
      BY <2>s, <3>1, <3>2, <3>3 DEF TypeOK
  <2>10. CASE UNCHANGED vars
    BY <2>10, <2>s DEF vars, env, TypeOK
  <2> QED
    BY <2>1, <2>2, <2>3, <2>4, <2>5, <2>6, <2>7, <2>8, <2>9, <2>10
    DEF Next, Inspect
<1> QED
  BY <1>1, <1>2, PTL DEF Spec

-----------------------------------------------------------------------------
(* COMPLETED is supported.                                                 *)

\* A record of a job that is over.
Terminal(r) == r.state \in {"COMPLETED", "FAILED"}

\* Why the order of the reads works: once a terminal record was acquired,
\* it is the job's for good, and whatever is read after it is final.
RecordIsFinal == Terminal(record) => job = record

ReadsAreFinal ==
    Terminal(record) =>
        \A slot \in Slots : acq[slot].how = "read" => acq[slot].content = OnDisk(slot)

Emptied ==
    pc \in {"scheduler", "resolve", "prime", "done"} =>
        acq = [slot \in Slots |-> Nothing]

JobInv ==
    /\ Deserted
    /\ RecordIsFinal
    /\ ReadsAreFinal
    /\ Emptied
    /\ CompletedIsSupported

\* Steps of the observer leave the job and the files as they are.
LEMMA SameWorld ==
  ASSUME UNCHANGED env
  PROVE  /\ Deserted => Deserted'
         /\ SupportedCompletion => SupportedCompletion'
         /\ SchedulerSuccess(job) => SchedulerSuccess(job)'
         /\ \A slot \in Slots : OnDisk(slot)' = OnDisk(slot)
<1>1. job' = job /\ vasp' = vasp /\ files' = files
  BY DEF env
<1> QED
  BY <1>1 DEF Deserted, JobOver, SupportedCompletion, ForElectronic, ForIonic,
     OutcarForce, SchedulerSuccess, OnDisk

\* The four files of a stage are among what an inspection reads.
LEMMA FileSlots ==
  /\ \A s \in Stages : \A f \in Files : <<s, f>> \in Slots
  /\ <<N, "scientific">> \in Slots
  BY DEF Slots

\* Everything the trajectory of a stage takes as evidence for convergence
\* is in its final files.
LEMMA TrajectoryIsFinal ==
  ASSUME Terminal(record), ReadsAreFinal, NEW s \in Stages
  PROVE  LET t == Trajectory(acq, s) IN
         /\ t.flagE = "true" => files[s]["vasprun"].flagE = "true"
         /\ t.flagI = "true" => files[s]["vasprun"].flagI = "true"
         /\ t.cycle = "reached" => files[s]["oszicar"].cycle = "reached"
         /\ t.force = "reached" =>
               \/ files[s]["vasprun"].force = "reached"
               \/ t.source = "outcar" /\ OutcarForce(s, "reached")
<1>1. \A f \in Files : Got(acq, s, f) => acq[<<s, f>>].content = files[s][f]
  BY FileSlots DEF Got, ReadsAreFinal, OnDisk, Files
<1>2. "oszicar" \in Files /\ "vasprun" \in Files /\ "outcar" \in Files
  BY DEF Files
<1>3. \A flag : VasprunFlag(acq, s, "vasprun", flag) = "true" => files[s]["vasprun"][flag] = "true"
  BY <1>1, <1>2 DEF VasprunFlag, Parsed
<1>4. CycleMeasure(acq, s) = "reached" => files[s]["oszicar"].cycle = "reached"
  BY <1>1, <1>2 DEF CycleMeasure
<1>5. ASSUME ForceMeasure(acq, s, ForceSource(acq, s)) = "reached"
      PROVE  \/ files[s]["vasprun"].force = "reached"
             \/ ForceSource(acq, s) = "outcar" /\ OutcarForce(s, "reached")
  <2>1. CASE FromVasprun(acq, s)
    <3>1. ForceSource(acq, s) = "vasprun"
      BY <2>1 DEF ForceSource
    <3>2. Got(acq, s, "vasprun")
      BY <2>1 DEF FromVasprun, VasprunSteps, Parsed
    <3> QED
      BY <1>1, <1>2, <1>5, <3>1, <3>2 DEF ForceMeasure
  <2>2. CASE ~FromVasprun(acq, s) /\ Aligned(acq, s)
    <3>1. ForceSource(acq, s) = "outcar"
      BY <2>2 DEF ForceSource
    <3>2. Got(acq, s, "outcar") /\ Got(acq, s, "oszicar")
      BY <2>2 DEF Aligned, OszicarSteps
    <3>3. files[s]["outcar"].steps = files[s]["oszicar"].steps
      BY <1>1, <1>2, <2>2, <3>2 DEF Aligned, OszicarSteps
    <3> QED
      BY <1>1, <1>2, <1>5, <3>1, <3>2, <3>3 DEF ForceMeasure, OutcarForce
  <2>3. CASE ~FromVasprun(acq, s) /\ ~Aligned(acq, s)
    BY <1>5, <2>3 DEF ForceMeasure, ForceSource
  <2> QED
    BY <2>1, <2>2, <2>3
<1> QED
  BY <1>3, <1>4, <1>5 DEF Trajectory

\* The flag that fills a gap is the one in the last stage's final vasprun.
LEMMA FallbackIsFinal ==
  ASSUME Terminal(record), ReadsAreFinal, NEW s \in Stages, Fallback(acq, s) = "true"
  PROVE  files[s]["vasprun"].flagE = "true"
<1>1. s = N /\ Parsed(acq, N, "scientific")
  BY DEF Fallback, VasprunFlag
<1>2. acq[<<N, "scientific">>].content = files[N]["vasprun"]
  BY <1>1, FileSlots DEF Parsed, Got, ReadsAreFinal, OnDisk
<1> QED
  BY <1>1, <1>2 DEF Fallback, VasprunFlag

\* A stage that counts as complete is so by its final files.
LEMMA CompleteStageIsSupported ==
  ASSUME Terminal(record), ReadsAreFinal, NEW s \in Stages,
         Complete(JobStages(acq)[s])
  PROVE  ForElectronic(s) /\ (s \in Relax => ForIonic(s))
<1> DEFINE e == StageEvidence(acq, s)
           t == Trajectory(acq, s)
<1>1. Observed(acq, s) /\ StageConvergence(e, s \in Relax, s \in Cell) = "converged"
  BY DEF Complete, JobStages
<1>2. e = WithFallback(t, Fallback(acq, s))
  BY <1>1 DEF StageEvidence
<1>3. /\ e.flagI = t.flagI /\ e.cycle = t.cycle
      /\ e.force = t.force /\ e.source = t.source
      /\ e.flagE = t.flagE \/ e.flagE = Fallback(acq, s)
  BY <1>2 DEF WithFallback, Trajectory
<1>4. /\ ElectronicOutcome(e) = "converged"
      /\ s \in Relax => IonicOutcome(e, s \in Cell) = "converged"
  BY <1>1, StageNeeds, Zenon
<1>5. e.flagE = "true" \/ e.cycle = "reached"
  BY <1>4, ElectronicNeeds
<1>6. s \in Relax => \/ e.flagI = "true"
                     \/ e.force = "reached" /\ ~(s \in Cell /\ e.source = "outcar")
  BY <1>4, IonicNeeds, Zenon
<1>7. /\ t.flagE = "true" => files[s]["vasprun"].flagE = "true"
      /\ t.flagI = "true" => files[s]["vasprun"].flagI = "true"
      /\ t.cycle = "reached" => files[s]["oszicar"].cycle = "reached"
      /\ t.force = "reached" =>
            \/ files[s]["vasprun"].force = "reached"
            \/ t.source = "outcar" /\ OutcarForce(s, "reached")
  BY TrajectoryIsFinal
<1> HIDE DEF e, t
<1>8. ForElectronic(s)
  BY <1>3, <1>5, <1>7, FallbackIsFinal DEF ForElectronic
<1>9. s \in Relax => ForIonic(s)
  BY <1>3, <1>6, <1>7 DEF ForIonic
<1> QED
  BY <1>8, <1>9

\* The strengthening is an invariant: with a clean record the world stands
\* still, so what was read stays what is on disk.
LEMMA JobInvHolds == Spec => []JobInv
<1>1. Init => JobInv
  BY DesertedInit DEF Init, JobInv, RecordIsFinal, ReadsAreFinal, Emptied,
     CompletedIsSupported, Terminal, NoRecord
<1>2. TypeOK /\ JobInv /\ [Next]_vars => JobInv'
  <2> SUFFICES ASSUME TypeOK, JobInv, [Next]_vars
               PROVE  JobInv'
    OBVIOUS
  <2>i. /\ Deserted /\ RecordIsFinal /\ ReadsAreFinal
        /\ Emptied /\ CompletedIsSupported
    BY DEF JobInv
  <2>t. acq \in AcqType /\ WorldTypeOK
    BY DEF TypeOK, AcqType
  <2>1. CASE World
    <3>1. WorldNext /\ UNCHANGED observer
      BY <2>1 DEF World
    <3>2. ~JobOver
      BY <2>i, <3>1, OverIsFinal
    <3>3. ~Terminal(record) /\ status # "COMPLETED"
      BY <2>i, <3>2 DEF RecordIsFinal, CompletedIsSupported, Terminal, JobOver,
         SchedulerSuccess
    <3>4. Deserted'
      BY <2>i, <2>t, <3>1, DesertedStep
    <3> QED
      BY <2>i, <3>1, <3>3, <3>4 DEF observer, JobInv, RecordIsFinal,
         ReadsAreFinal, Emptied, CompletedIsSupported, Terminal
  <2>2. CASE ReadScheduler
    <3>1. /\ pc = "scheduler" /\ pc' = "resolve"
          /\ record' \in {job, NoRecord}
          /\ UNCHANGED <<env, acq, status>>
      BY <2>2 DEF ReadScheduler
    <3>2. acq' = [slot \in Slots |-> Nothing]
      BY <2>i, <3>1 DEF Emptied
    <3> QED
      BY <2>i, <3>1, <3>2, SameWorld DEF JobInv, RecordIsFinal, ReadsAreFinal,
         Emptied, CompletedIsSupported, Terminal, NoRecord, Nothing, env
  <2>3. CASE Resolve
    BY <2>3, <2>i, SameWorld DEF Resolve, JobInv, RecordIsFinal, ReadsAreFinal,
       Emptied, CompletedIsSupported, Terminal, env
  <2>4. CASE Prime
    <3>1. ASSUME NEW slot \in Slots, acq'[slot].how = "read"
          PROVE  acq'[slot].content = OnDisk(slot)
      <4>1. acq = [x \in Slots |-> Nothing]
        BY <2>4, <2>i DEF Prime, Emptied
      <4>2. acq' # acq
        BY <3>1, <4>1 DEF Nothing
      <4>3. PICK deferred : acq' = Primed(deferred)
        BY <2>4, <4>2 DEF Prime
      <4>4. acq'[slot] = PrimedSlot(deferred, slot)
        BY <4>3 DEF Primed
      <4> QED
        BY <3>1, <4>4 DEF PrimedSlot, Reading
    <3>2. pc' = "acquire" /\ UNCHANGED <<env, record, status>>
      BY <2>4 DEF Prime
    <3> QED
      BY <2>i, <3>1, <3>2, SameWorld DEF JobInv, RecordIsFinal, ReadsAreFinal,
         Emptied, CompletedIsSupported, Terminal, env
  <2>5. ASSUME NEW slot \in Slots, Acquire(slot) PROVE JobInv'
    <3>1. pc = "acquire" /\ UNCHANGED <<env, pc, record, status>>
      BY <2>5 DEF Acquire
    <3>2. PICK c \in {Transfer(slot), [how |-> "missing", content |-> Absent],
                      [how |-> "unreadable", content |-> Absent]} :
             acq' = [acq EXCEPT ![slot] = c]
      BY <2>5 DEF Acquire
    <3>3. ASSUME Terminal(record), c.how = "read" PROVE c.content = OnDisk(slot)
      <4>1. c = Transfer(slot)
        BY <3>2, <3>3
      <4>2. CASE Remembered(slot)
        BY <2>i, <3>3, <4>1, <4>2, FileSlots DEF Transfer, Remembered,
           ReadsAreFinal, OnDisk
      <4>3. CASE ~Remembered(slot)
        BY <3>3, <4>1, <4>3 DEF Transfer, Reading
      <4> QED
        BY <4>2, <4>3
    <3>4. ReadsAreFinal'
      <4> SUFFICES ASSUME Terminal(record), NEW x \in Slots, acq'[x].how = "read"
                   PROVE  acq'[x].content = OnDisk(x)'
        BY <3>1 DEF ReadsAreFinal
      <4>1. CASE x = slot
        BY <2>t, <3>1, <3>2, <3>3, <4>1, SameWorld DEF AcqType
      <4>2. CASE x # slot
        BY <2>i, <2>t, <3>1, <3>2, <4>2, SameWorld DEF AcqType, ReadsAreFinal
      <4> QED
        BY <4>1, <4>2
    <3> QED
      BY <2>i, <3>1, <3>4, SameWorld DEF JobInv, RecordIsFinal, Emptied,
         CompletedIsSupported, Terminal, env
  <2>6. CASE Abandon
    <3>1. pc' = "report" /\ acq' = [x \in Slots |-> Nothing] /\ UNCHANGED <<env, record, status>>
      BY <2>6 DEF Abandon
    <3> QED
      BY <2>i, <3>1, SameWorld DEF JobInv, RecordIsFinal, ReadsAreFinal,
         Emptied, CompletedIsSupported, Terminal, Nothing, env
  <2>7. CASE EndAcquisition
    BY <2>7, <2>i, SameWorld DEF EndAcquisition, JobInv, RecordIsFinal,
       ReadsAreFinal, Emptied, CompletedIsSupported, Terminal, env
  <2>8. CASE Report
    <3>1. /\ pc' = "done" /\ acq' = [x \in Slots |-> Nothing]
          /\ UNCHANGED <<env, record>>
      BY <2>8 DEF Report
    <3>2. ASSUME status' = "COMPLETED"
          PROVE  SchedulerSuccess(job) /\ SupportedCompletion
      <4> DEFINE stages == IF analysed THEN JobStages(acq) ELSE NoStages
      <4>1. JobStatus(record, stages) = "COMPLETED"
        BY <2>8, <3>2 DEF Report
      <4>2. /\ SchedulerSuccess(record) /\ DOMAIN stages # {}
            /\ \A s \in DOMAIN stages : Complete(stages[s])
        BY <4>1, JobStatusNeeds
      <4>3. stages = JobStages(acq) /\ DOMAIN stages = Stages
        BY <4>2 DEF NoStages, JobStages
      <4>4. Terminal(record) /\ job = record
        BY <2>i, <4>2 DEF SchedulerSuccess, Terminal, RecordIsFinal
      <4>5. SupportedCompletion
        BY <2>i, <4>2, <4>3, <4>4, CompleteStageIsSupported DEF SupportedCompletion
      <4> QED
        BY <4>2, <4>4, <4>5
    <3> QED
      BY <2>i, <3>1, <3>2, SameWorld DEF JobInv, RecordIsFinal, ReadsAreFinal,
         Emptied, CompletedIsSupported, Terminal, Nothing, env
  <2>9. CASE Again
    <3>1. /\ pc = "done" /\ pc' = "scheduler" /\ record' = NoRecord
          /\ status' = "UNKNOWN" /\ UNCHANGED <<env, acq>>
      BY <2>9 DEF Again
    <3> QED
      BY <2>i, <3>1, SameWorld DEF JobInv, RecordIsFinal, ReadsAreFinal,
         Emptied, CompletedIsSupported, Terminal, NoRecord, env
  <2>10. CASE UNCHANGED vars
    BY <2>10, <2>i, SameWorld DEF vars, env, JobInv, RecordIsFinal,
       ReadsAreFinal, Emptied, CompletedIsSupported, Terminal
  <2> QED
    BY <2>1, <2>2, <2>3, <2>4, <2>5, <2>6, <2>7, <2>8, <2>9, <2>10
    DEF Next, Inspect
<1> QED
  BY <1>1, <1>2, TypeCorrect, PTL DEF Spec

\* Job mode shows COMPLETED only of a job that ended with exit code 0:0 and
\* whose final files have positive evidence in every scope of every stage,
\* whatever happens to the job and to the reads meanwhile.
THEOREM CompletedSupported == Spec => []CompletedIsSupported
<1>1. JobInv => CompletedIsSupported
  BY DEF JobInv
<1> QED
  BY <1>1, JobInvHolds, PTL

-----------------------------------------------------------------------------
(* An undisturbed inspection shows what the final files say.               *)

\* Without a fault, what was read of the files is all there is to read.
ReadsAreSound ==
    pc \in {"acquire", "report"} /\ Terminal(record) /\ faulted = {} /\ analysed =>
        \A slot \in Slots :
            acq[slot].how \notin {"unread", "listed"} => acq[slot] = Reading(OnDisk(slot))

AllIsRead ==
    pc = "report" /\ analysed =>
        \A slot \in Slots : acq[slot].how \notin {"unread", "listed"}

FinalInv ==
    /\ ReadsAreSound
    /\ AllIsRead
    /\ StatusOfTheFinalFiles

\* When every slot was read soundly, the reads are the files of one instant.
LEMMA ReadsTogether ==
  ASSUME acq \in AcqType, \A slot \in Slots : acq[slot] = Reading(OnDisk(slot))
  PROVE  acq = FullReading
<1>1. FullReading = [slot \in Slots |-> Reading(OnDisk(slot))]
  BY DEF FullReading
<1>2. acq = [slot \in Slots |-> acq[slot]]
  BY DEF AcqType
<1> QED
  BY <1>1, <1>2

\* The files read at one instant are the same across a step of the observer.
LEMMA SameReading ==
  ASSUME UNCHANGED env
  PROVE  FullReading' = FullReading
  BY DEF env, FullReading, Reading, OnDisk

\* Without a fault, every slot read after a clean record was read soundly.
LEMMA FinalInvHolds == Spec => []FinalInv
<1>1. Init => FinalInv
  BY DEF Init, FinalInv, ReadsAreSound, AllIsRead, StatusOfTheFinalFiles
<1>2. TypeOK /\ JobInv /\ FinalInv /\ [Next]_vars => FinalInv'
  <2> SUFFICES ASSUME TypeOK, JobInv, FinalInv, [Next]_vars
               PROVE  FinalInv'
    OBVIOUS
  <2>i. ReadsAreSound /\ AllIsRead /\ StatusOfTheFinalFiles
    BY DEF FinalInv
  <2>j. Deserted /\ RecordIsFinal /\ Emptied
    BY DEF JobInv
  <2>t. acq \in AcqType /\ faulted \subseteq FaultKinds \X (Slots \cup {NoSlot})
    BY DEF TypeOK, AcqType
  <2>1. CASE World
    <3>1. WorldNext /\ UNCHANGED observer
      BY <2>1 DEF World
    <3>2. ~Terminal(record)
      BY <2>j, <3>1, OverIsFinal DEF RecordIsFinal, Terminal, JobOver
    <3> QED
      BY <2>i, <3>1, <3>2 DEF observer, FinalInv, ReadsAreSound, AllIsRead,
         StatusOfTheFinalFiles, Terminal, SchedulerSuccess
  <2>2. CASE ReadScheduler
    BY <2>2 DEF ReadScheduler, FinalInv, ReadsAreSound, AllIsRead,
       StatusOfTheFinalFiles
  <2>3. CASE Resolve
    <3>1. pc' = "prime" \/ (pc' = "report" /\ ~analysed')
      BY <2>3, Zenon DEF Resolve
    <3> QED
      BY <3>1 DEF FinalInv, ReadsAreSound, AllIsRead, StatusOfTheFinalFiles
  <2>4. CASE Prime
    <3>1. pc' = "acquire" /\ UNCHANGED <<env, record>>
      BY <2>4 DEF Prime
    <3>2. ASSUME faulted' = {}, NEW slot \in Slots,
                 acq'[slot].how \notin {"unread", "listed"}
          PROVE  acq'[slot] = Reading(OnDisk(slot))
      <4>1. PICK deferred : acq' = Primed(deferred)
        BY <2>4, <2>t, <3>2, FaultType DEF Prime
      <4>2. acq'[slot] = PrimedSlot(deferred, slot)
        BY <4>1 DEF Primed
      <4> QED
        BY <3>2, <4>2 DEF PrimedSlot
    <3>3. \A slot \in Slots : Reading(OnDisk(slot))' = Reading(OnDisk(slot))
      BY <3>1, SameWorld DEF Reading
    <3> QED
      BY <3>1, <3>2, <3>3 DEF FinalInv, ReadsAreSound, AllIsRead,
         StatusOfTheFinalFiles
  <2>5. ASSUME NEW slot \in Slots, Acquire(slot) PROVE FinalInv'
    <3>1. pc = "acquire" /\ UNCHANGED <<env, pc, record, analysed, status>>
      BY <2>5 DEF Acquire
    <3>2. \A x \in Slots : Reading(OnDisk(x))' = Reading(OnDisk(x))
      BY <3>1, SameWorld DEF Reading
    <3>3. ReadsAreSound'
      <4> SUFFICES ASSUME Terminal(record), faulted' = {}, analysed, NEW x \in Slots,
                          acq'[x].how \notin {"unread", "listed"}
                   PROVE  acq'[x] = Reading(OnDisk(x))
        BY <3>1, <3>2 DEF ReadsAreSound
      <4>1. acq' = [acq EXCEPT ![slot] = Transfer(slot)] /\ faulted = {}
        BY <2>5, <2>t, FaultType DEF Acquire
      <4>2. \A y \in Slots :
               acq[y].how \notin {"unread", "listed"} => acq[y] = Reading(OnDisk(y))
        BY <2>i, <3>1, <4>1 DEF ReadsAreSound
      <4>3. Transfer(slot) = Reading(OnDisk(slot))
        <5>1. CASE Remembered(slot)
          <6>1. acq[<<N, "scientific">>] = Reading(OnDisk(<<N, "scientific">>))
            BY <4>2, <5>1, FileSlots DEF Remembered
          <6> QED
            BY <5>1, <6>1 DEF Transfer, Remembered, OnDisk
        <5>2. CASE ~Remembered(slot)
          BY <5>2 DEF Transfer
        <5> QED
          BY <5>1, <5>2
      <4> QED
        BY <2>t, <4>1, <4>2, <4>3 DEF AcqType
    <3> QED
      BY <3>1, <3>3 DEF FinalInv, AllIsRead, StatusOfTheFinalFiles
  <2>6. CASE Abandon
    <3>1. pc' = "report" /\ ~analysed'
      BY <2>6, Zenon DEF Abandon
    <3> QED
      BY <3>1 DEF FinalInv, ReadsAreSound, AllIsRead, StatusOfTheFinalFiles
  <2>7. CASE EndAcquisition
    <3>1. /\ pc = "acquire" /\ pc' = "report"
          /\ UNCHANGED <<env, record, acq, analysed, faulted>>
          /\ \A slot \in Slots : acq[slot].how \notin {"unread", "listed"}
      BY <2>7 DEF EndAcquisition
    <3>2. \A x \in Slots : Reading(OnDisk(x))' = Reading(OnDisk(x))
      BY <3>1, SameWorld DEF Reading
    <3> QED
      BY <2>i, <3>1, <3>2 DEF FinalInv, ReadsAreSound, AllIsRead,
         StatusOfTheFinalFiles
  <2>8. CASE Report
    <3>1. /\ pc = "report" /\ pc' = "done"
          /\ UNCHANGED <<env, record, analysed, faulted>>
      BY <2>8 DEF Report
    <3>2. ASSUME faulted = {}, analysed, SchedulerSuccess(record)
          PROVE  status' = JobStatus(job, JobStages(FullReading))
      <4>1. Terminal(record) /\ job = record
        BY <2>j, <3>2 DEF SchedulerSuccess, Terminal, RecordIsFinal
      <4>2. \A slot \in Slots : acq[slot] = Reading(OnDisk(slot))
        BY <2>i, <3>1, <3>2, <4>1 DEF ReadsAreSound, AllIsRead
      <4>3. acq = FullReading
        BY <2>t, <4>2, ReadsTogether
      <4> QED
        BY <2>8, <3>2, <4>1, <4>3, Zenon DEF Report
    <3> QED
      BY <3>1, <3>2, SameReading DEF FinalInv, ReadsAreSound, AllIsRead,
         StatusOfTheFinalFiles, env, SchedulerSuccess
  <2>9. CASE Again
    BY <2>9 DEF Again, FinalInv, ReadsAreSound, AllIsRead, StatusOfTheFinalFiles
  <2>10. CASE UNCHANGED vars
    <3>1. /\ UNCHANGED <<pc, record, acq, analysed, faulted, status>>
          /\ UNCHANGED env /\ job' = job
      BY <2>10 DEF vars, env
    <3>2. \A x \in Slots : Reading(OnDisk(x))' = Reading(OnDisk(x))
      BY <3>1, SameWorld DEF Reading
    <3> QED
      BY <2>i, <3>1, <3>2, SameReading DEF FinalInv, ReadsAreSound, AllIsRead,
         StatusOfTheFinalFiles
  <2> QED
    BY <2>1, <2>2, <2>3, <2>4, <2>5, <2>6, <2>7, <2>8, <2>9, <2>10
    DEF Next, Inspect
<1> QED
  BY <1>1, <1>2, TypeCorrect, JobInvHolds, PTL DEF Spec

\* An inspection that met no fault and found a clean exit shows the status
\* of the job's final files, whatever the job did between its reads.
THEOREM StatusIsOfTheFinalFiles == Spec => []StatusOfTheFinalFiles
<1>1. FinalInv => StatusOfTheFinalFiles
  BY DEF FinalInv
<1> QED
  BY <1>1, FinalInvHolds, PTL

-----------------------------------------------------------------------------
(* INCOMPLETE is supported, unless a presence test was lost.               *)

NoTestLost == \A slot \in Slots : <<"test", slot>> \notin faulted

\* Why a file that counts as missing is missing: only a lost test says so
\* of a file that is there.
MissingIsAbsent ==
    Terminal(record) /\ NoTestLost =>
        \A slot \in Slots : acq[slot].how = "missing" => ~OnDisk(slot).present

GapInv == MissingIsAbsent /\ IncompleteIsSupported

\* Whatever a trajectory takes against convergence is in the final files.
LEMMA CounterIsFinal ==
  ASSUME Terminal(record), ReadsAreFinal, NEW s \in Stages
  PROVE  LET t == Trajectory(acq, s) IN
         /\ t.flagE = "false" => files[s]["vasprun"].flagE = "false"
         /\ t.flagI = "false" => files[s]["vasprun"].flagI = "false"
         /\ t.cycle = "above" => files[s]["oszicar"].cycle = "above"
         /\ t.force = "above" =>
               files[s]["vasprun"].force = "above" \/ OutcarForce(s, "above")
<1>1. \A f \in Files : Got(acq, s, f) => acq[<<s, f>>].content = files[s][f]
  BY FileSlots DEF Got, ReadsAreFinal, OnDisk, Files
<1>2. "oszicar" \in Files /\ "vasprun" \in Files /\ "outcar" \in Files
  BY DEF Files
<1>3. \A flag : VasprunFlag(acq, s, "vasprun", flag) = "false" => files[s]["vasprun"][flag] = "false"
  BY <1>1, <1>2 DEF VasprunFlag, Parsed
<1>4. CycleMeasure(acq, s) = "above" => files[s]["oszicar"].cycle = "above"
  BY <1>1, <1>2 DEF CycleMeasure
<1>5. ASSUME ForceMeasure(acq, s, ForceSource(acq, s)) = "above"
      PROVE  files[s]["vasprun"].force = "above" \/ OutcarForce(s, "above")
  <2>1. CASE FromVasprun(acq, s)
    <3>1. ForceSource(acq, s) = "vasprun" /\ Got(acq, s, "vasprun")
      BY <2>1 DEF ForceSource, FromVasprun, VasprunSteps, Parsed
    <3> QED
      BY <1>1, <1>2, <1>5, <3>1 DEF ForceMeasure
  <2>2. CASE ~FromVasprun(acq, s) /\ Aligned(acq, s)
    <3>1. ForceSource(acq, s) = "outcar"
      BY <2>2 DEF ForceSource
    <3>2. Got(acq, s, "outcar") /\ Got(acq, s, "oszicar")
      BY <2>2 DEF Aligned, OszicarSteps
    <3>3. files[s]["outcar"].steps = files[s]["oszicar"].steps
      BY <1>1, <1>2, <2>2, <3>2 DEF Aligned, OszicarSteps
    <3> QED
      BY <1>1, <1>2, <1>5, <3>1, <3>2, <3>3 DEF ForceMeasure, OutcarForce
  <2>3. CASE ~FromVasprun(acq, s) /\ ~Aligned(acq, s)
    BY <1>5, <2>3 DEF ForceMeasure, ForceSource
  <2> QED
    BY <2>1, <2>2, <2>3
<1> QED
  BY <1>3, <1>4, <1>5 DEF Trajectory

\* So is the flag that fills a gap.
LEMMA CounterFallbackIsFinal ==
  ASSUME Terminal(record), ReadsAreFinal, NEW s \in Stages, Fallback(acq, s) = "false"
  PROVE  files[s]["vasprun"].flagE = "false"
<1>1. s = N /\ Parsed(acq, N, "scientific")
  BY DEF Fallback, VasprunFlag
<1>2. acq[<<N, "scientific">>].content = files[N]["vasprun"]
  BY <1>1, FileSlots DEF Parsed, Got, ReadsAreFinal, OnDisk
<1> QED
  BY <1>1, <1>2 DEF Fallback, VasprunFlag

\* A stage that counts as not converged has evidence against it on disk.
LEMMA UnconvergedStageIsSupported ==
  ASSUME Terminal(record), ReadsAreFinal, NEW s \in Stages,
         JobStages(acq)[s].convergence = "not_converged"
  PROVE  Against(s)
<1> DEFINE e == StageEvidence(acq, s)
           t == Trajectory(acq, s)
<1>1. StageConvergence(e, s \in Relax, s \in Cell) = "not_converged"
  BY DEF JobStages
<1>2. \/ ElectronicOutcome(e) = "counter"
      \/ s \in Relax /\ IonicOutcome(e, s \in Cell) = "counter"
  BY <1>1, UnconvergedNeeds, Zenon
<1>3. \/ e.flagE = "false" \/ e.cycle = "above"
      \/ s \in Relax /\ (e.flagI = "false" \/ e.force = "above")
  BY <1>2, ElectronicCounterNeeds, IonicCounterNeeds, Zenon
<1>4. Observed(acq, s)
  BY <1>3 DEF StageEvidence, NoEvidence
<1>5. e = WithFallback(t, Fallback(acq, s))
  BY <1>4 DEF StageEvidence
<1>6. /\ e.flagI = t.flagI /\ e.cycle = t.cycle /\ e.force = t.force
      /\ e.flagE = t.flagE \/ e.flagE = Fallback(acq, s)
  BY <1>5 DEF WithFallback, Trajectory
<1>7. /\ t.flagE = "false" => files[s]["vasprun"].flagE = "false"
      /\ t.flagI = "false" => files[s]["vasprun"].flagI = "false"
      /\ t.cycle = "above" => files[s]["oszicar"].cycle = "above"
      /\ t.force = "above" =>
            files[s]["vasprun"].force = "above" \/ OutcarForce(s, "above")
  BY CounterIsFinal
<1> HIDE DEF e, t
<1> QED
  BY <1>3, <1>6, <1>7, CounterFallbackIsFinal DEF Against

\* A stage that counts as not started left no output.
LEMMA UnstartedStageIsSupported ==
  ASSUME Terminal(record), NoTestLost, MissingIsAbsent, acq \in AcqType,
         \A slot \in Slots : acq[slot].how \notin {"unread", "listed"},
         NEW s \in Stages, ~Observed(acq, s)
  PROVE  Against(s)
<1>1. ASSUME NEW f \in {"oszicar", "vasprun", "outcar"} PROVE ~files[s][f].present
  <2>1. <<s, f>> \in Slots
    BY FileSlots DEF Files
  <2>2. acq[<<s, f>>].how = "missing"
    BY <2>1 DEF Observed, AcqType, Acquired
  <2> QED
    BY <2>1, <2>2 DEF MissingIsAbsent, OnDisk
<1> QED
  BY <1>1 DEF Against

\* What job mode calls INCOMPLETE has a gap in its final files.
LEMMA IncompleteHasAGap ==
  ASSUME TypeOK, JobInv, FinalInv, GapInv, NoTestLost, pc = "report",
         JobStatus(record, IF analysed THEN JobStages(acq) ELSE NoStages) = "INCOMPLETE"
  PROVE  SchedulerSuccess(job) /\ SupportedGap
<1> DEFINE stages == IF analysed THEN JobStages(acq) ELSE NoStages
<1>1. /\ SchedulerSuccess(record) /\ DOMAIN stages # {}
      /\ \E s \in DOMAIN stages : \/ ~stages[s].started \/ stages[s].marker = "false"
                                  \/ stages[s].marker = "true"
                                  \/ stages[s].convergence = "not_converged"
  BY IncompleteNeeds
<1>2. stages = JobStages(acq) /\ analysed /\ DOMAIN stages = Stages
  BY <1>1, Zenon DEF NoStages, JobStages
<1>3. PICK s \in Stages : \/ ~Observed(acq, s)
                          \/ JobStages(acq)[s].convergence = "not_converged"
  BY <1>1, <1>2 DEF JobStages
<1>4. Terminal(record) /\ job = record
  BY <1>1 DEF SchedulerSuccess, Terminal, JobInv, RecordIsFinal
<1>5. \A slot \in Slots : acq[slot].how \notin {"unread", "listed"}
  BY <1>2 DEF FinalInv, AllIsRead
<1>6. Against(s)
  BY <1>3, <1>4, <1>5, UnstartedStageIsSupported, UnconvergedStageIsSupported
  DEF JobInv, GapInv, TypeOK, AcqType
<1> QED
  BY <1>1, <1>4, <1>6 DEF SupportedGap

\* Steps of the observer leave the gap as it is.
LEMMA SameGap ==
  ASSUME UNCHANGED env
  PROVE  SupportedGap' = SupportedGap /\ SchedulerSuccess(job)' = SchedulerSuccess(job)
  BY DEF env, SupportedGap, Against, OutcarForce, SchedulerSuccess

\* The strengthening is an invariant: only a lost test makes a file missing
\* that is there.
LEMMA GapInvHolds == Spec => []GapInv
<1>1. Init => GapInv
  BY DEF Init, GapInv, MissingIsAbsent, IncompleteIsSupported, Terminal, NoRecord
<1>2. TypeOK /\ JobInv /\ FinalInv /\ GapInv /\ [Next]_vars => GapInv'
  <2> SUFFICES ASSUME TypeOK, JobInv, FinalInv, GapInv, [Next]_vars
               PROVE  GapInv'
    OBVIOUS
  <2>i. MissingIsAbsent /\ IncompleteIsSupported
    BY DEF GapInv
  <2>j. Deserted /\ RecordIsFinal /\ Emptied
    BY DEF JobInv
  <2>t. acq \in AcqType
    BY DEF TypeOK, AcqType
  <2>1. CASE World
    <3>1. WorldNext /\ UNCHANGED observer
      BY <2>1 DEF World
    <3>2. ~JobOver
      BY <2>j, <3>1, OverIsFinal
    <3>3. ~Terminal(record) /\ ~SchedulerSuccess(job)
      BY <2>j, <3>2 DEF RecordIsFinal, Terminal, JobOver, SchedulerSuccess
    <3> QED
      BY <2>i, <3>1, <3>3 DEF observer, GapInv, MissingIsAbsent,
         IncompleteIsSupported, Terminal, NoTestLost
  <2>2. CASE ReadScheduler
    <3>1. pc = "scheduler" /\ faulted \subseteq faulted' /\ UNCHANGED <<env, acq, status>>
      BY <2>2 DEF ReadScheduler, Fault
    <3>2. \A slot \in Slots : acq'[slot].how # "missing"
      BY <2>j, <3>1 DEF Emptied, Nothing
    <3> QED
      BY <2>i, <3>1, <3>2, SameGap DEF GapInv, MissingIsAbsent, IncompleteIsSupported
  <2>3. CASE Resolve
    <3>1. UNCHANGED <<env, record, acq, faulted, status>>
      BY <2>3 DEF Resolve
    <3> QED
      BY <2>i, <3>1, SameGap, SameWorld DEF GapInv, MissingIsAbsent,
         IncompleteIsSupported, NoTestLost, Terminal
  <2>4. CASE Prime
    <3>1. pc = "prime" /\ faulted \subseteq faulted' /\ UNCHANGED <<env, record, status>>
      BY <2>4 DEF Prime, Fault
    <3>2. ASSUME NEW slot \in Slots, acq'[slot].how = "missing"
          PROVE  ~OnDisk(slot).present
      <4>1. acq' # acq
        BY <2>j, <3>1, <3>2 DEF Emptied, Nothing
      <4>2. PICK deferred : acq' = Primed(deferred)
        BY <2>4, <4>1 DEF Prime
      <4>3. acq'[slot] = PrimedSlot(deferred, slot)
        BY <4>2 DEF Primed
      <4> QED
        BY <3>2, <4>3 DEF PrimedSlot, Reading
    <3> QED
      BY <2>i, <3>1, <3>2, SameGap, SameWorld DEF GapInv, MissingIsAbsent,
         IncompleteIsSupported
  <2>5. ASSUME NEW slot \in Slots, Acquire(slot) PROVE GapInv'
    <3>1. faulted \subseteq faulted' /\ UNCHANGED <<env, pc, record, analysed, status>>
      BY <2>5 DEF Acquire, Fault
    <3>2. NoTestLost' => NoTestLost
      BY <3>1 DEF NoTestLost
    <3>3. PICK c \in {Transfer(slot), [how |-> "missing", content |-> Absent],
                      [how |-> "unreadable", content |-> Absent]} :
             /\ acq' = [acq EXCEPT ![slot] = c]
             /\ c = Transfer(slot) \/ c.how = "unreadable" \/ Fault("test", slot)
      BY <2>5 DEF Acquire
    <3>4. ASSUME NoTestLost', c.how = "missing" PROVE ~OnDisk(slot).present
      <4>1. ~Fault("test", slot)
        BY <3>4 DEF NoTestLost, Fault
      <4>2. c = Transfer(slot)
        BY <3>3, <3>4, <4>1
      <4>3. ~Remembered(slot)
        BY <3>4, <4>2 DEF Transfer, Remembered
      <4> QED
        BY <3>4, <4>2, <4>3 DEF Transfer, Reading
    <3>5. MissingIsAbsent'
      <4> SUFFICES ASSUME Terminal(record), NoTestLost', NEW x \in Slots,
                          acq'[x].how = "missing"
                   PROVE  ~OnDisk(x)'.present
        BY <3>1 DEF MissingIsAbsent
      <4>1. CASE x = slot
        BY <2>t, <3>1, <3>3, <3>4, <4>1, SameWorld DEF AcqType
      <4>2. CASE x # slot
        BY <2>i, <2>t, <3>1, <3>2, <3>3, <4>2, SameWorld DEF AcqType, MissingIsAbsent
      <4> QED
        BY <4>1, <4>2
    <3> QED
      BY <2>i, <3>1, <3>2, <3>5, SameGap DEF GapInv, IncompleteIsSupported, NoTestLost
  <2>6. CASE Abandon
    <3>1. /\ acq' = [x \in Slots |-> Nothing] /\ faulted \subseteq faulted'
          /\ UNCHANGED <<env, record, status>>
      BY <2>6 DEF Abandon, Fault
    <3> QED
      BY <2>i, <3>1, SameGap DEF GapInv, MissingIsAbsent, IncompleteIsSupported, Nothing
  <2>7. CASE EndAcquisition
    <3>1. UNCHANGED <<env, record, acq, faulted, status>>
      BY <2>7 DEF EndAcquisition
    <3> QED
      BY <2>i, <3>1, SameGap, SameWorld DEF GapInv, MissingIsAbsent,
         IncompleteIsSupported, NoTestLost, Terminal
  <2>8. CASE Report
    <3>1. /\ pc = "report" /\ acq' = [x \in Slots |-> Nothing]
          /\ UNCHANGED <<env, record, faulted>>
      BY <2>8 DEF Report
    <3>2. ASSUME status' = "INCOMPLETE", NoTestLost
          PROVE  SchedulerSuccess(job) /\ SupportedGap
      BY <2>8, <3>1, <3>2, IncompleteHasAGap, Zenon DEF Report
    <3> QED
      BY <3>1, <3>2, SameGap DEF GapInv, MissingIsAbsent, IncompleteIsSupported,
         NoTestLost, Nothing
  <2>9. CASE Again
    <3>1. pc = "done" /\ status' = "UNKNOWN" /\ UNCHANGED <<env, acq>>
      BY <2>9 DEF Again
    <3>2. \A slot \in Slots : acq'[slot].how # "missing"
      BY <2>j, <3>1 DEF Emptied, Nothing
    <3> QED
      BY <3>1, <3>2 DEF GapInv, MissingIsAbsent, IncompleteIsSupported
  <2>10. CASE UNCHANGED vars
    <3>1. UNCHANGED <<env, record, acq, faulted, status>>
      BY <2>10 DEF vars, env
    <3> QED
      BY <2>i, <3>1, SameGap, SameWorld DEF GapInv, MissingIsAbsent,
         IncompleteIsSupported, NoTestLost, Terminal
  <2> QED
    BY <2>1, <2>2, <2>3, <2>4, <2>5, <2>6, <2>7, <2>8, <2>9, <2>10
    DEF Next, Inspect
<1> QED
  BY <1>1, <1>2, TypeCorrect, JobInvHolds, FinalInvHolds, PTL DEF Spec

\* Job mode shows INCOMPLETE only of a job that ended with exit code 0:0
\* and whose final files have a gap, unless a presence test was lost.
THEOREM IncompleteSupported == Spec => []IncompleteIsSupported
<1>1. GapInv => IncompleteIsSupported
  BY DEF GapInv
<1> QED
  BY <1>1, GapInvHolds, PTL
-----------------------------------------------------------------------------
(* Job mode implements StatusPromise.                                      *)

\* The refinement mapping, part by part.
MappedGrounds ==
    {g \in {"complete", "gap"} :
        /\ SchedulerSuccess(job)
        /\ g = "complete" => SupportedCompletion
        /\ g = "gap" => SupportedGap}

MappedAnswer ==
    CASE pc # "done" -> "none"
      [] pc = "done" /\ status = "COMPLETED" -> status
      [] pc = "done" /\ status = "INCOMPLETE"
           /\ \A slot \in Slots : <<"test", slot>> \notin faulted -> status
      [] OTHER -> "OTHER"

\* A step of the observer changes neither what is settled nor the grounds.
LEMMA SameGrounds ==
  ASSUME UNCHANGED env
  PROVE  SchedulerSuccess(job)' = SchedulerSuccess(job) /\ MappedGrounds' = MappedGrounds
<1>1. job' = job /\ files' = files
  BY DEF env
<1>2. SupportedCompletion' = SupportedCompletion /\ SupportedGap' = SupportedGap
  BY <1>1, SameGap DEF SupportedCompletion, ForElectronic, ForIonic, OutcarForce
<1>3. SchedulerSuccess(job)' = SchedulerSuccess(job)
  BY <1>1 DEF SchedulerSuccess
<1> QED
  BY <1>2, <1>3 DEF MappedGrounds

\* While the inspection is under way there is no answer.
LEMMA NoAnswerYet == pc # "done" => MappedAnswer = "none"
  BY DEF MappedAnswer

\* Job mode implements the safety part of StatusPromise: its steps are
\* those of the promise or change nothing of it.  (That every question is
\* answered is left to TLC.)
THEOREM PromiseImplemented == Spec => Promise!Init /\ [][Promise!Next]_(Promise!promise)
<1> USE DEF Promise!promise
<1>1. Init => Promise!Init
  <2> SUFFICES ASSUME Init PROVE Promise!Init
    OBVIOUS
  <2>1. job.state = "PENDING" /\ pc = "scheduler"
    BY DEF Init, WorldInit
  <2> QED
    BY <2>1 DEF Promise!Init, SchedulerSuccess
<1>2. TypeOK /\ JobInv /\ JobInv' /\ GapInv' /\ [Next]_vars
      => [Promise!Next]_(Promise!promise)
  <2> SUFFICES ASSUME TypeOK, JobInv, JobInv', GapInv', [Next]_vars
               PROVE  [Promise!Next]_(Promise!promise)
    OBVIOUS
  <2> DEFINE same == /\ SchedulerSuccess(job)' = SchedulerSuccess(job)
                     /\ MappedGrounds' = MappedGrounds
                     /\ MappedAnswer' = MappedAnswer
  <2>s. same => [Promise!Next]_(Promise!promise)
    BY DEF MappedGrounds, MappedAnswer
  <2>1. CASE World
    <3>1. WorldNext /\ UNCHANGED observer
      BY <2>1 DEF World
    <3>2. ~SchedulerSuccess(job)
      BY <3>1, OverIsFinal DEF JobInv, SchedulerSuccess, JobOver
    <3>3. MappedAnswer' = MappedAnswer
      BY <3>1 DEF observer, MappedAnswer
    <3>4. CASE SchedulerSuccess(job)'
      <4>1. MappedGrounds' \in SUBSET {"complete", "gap"}
        BY DEF MappedGrounds
      <4>2. Promise!Settle
        BY <3>2, <3>3, <3>4, <4>1
        DEF Promise!Settle, Promise!Grounds, MappedGrounds, MappedAnswer
      <4> QED
        BY <4>2 DEF Promise!Next
    <3>5. CASE ~SchedulerSuccess(job)'
      <4>1. SchedulerSuccess(job)' = SchedulerSuccess(job)
        BY <3>2, <3>5 DEF SchedulerSuccess
      <4>2. MappedGrounds = {} /\ MappedGrounds' = {}
        BY <3>2, <3>5 DEF MappedGrounds
      <4> QED
        BY <2>s, <3>3, <4>1, <4>2
    <3> QED
      BY <3>4, <3>5
  <2>2. CASE pc # "done" /\ pc' # "done" /\ UNCHANGED env
    BY <2>2, <2>s, SameGrounds DEF MappedAnswer
  <2>3. CASE Report
    <3>1. pc = "report" /\ pc' = "done" /\ UNCHANGED env
      BY <2>3 DEF Report
    <3>2. CompletedIsSupported' /\ IncompleteIsSupported'
      BY DEF JobInv, GapInv
    <3>3. /\ MappedAnswer = "none"
          /\ SchedulerSuccess(job)' = SchedulerSuccess(job)
          /\ MappedGrounds' = MappedGrounds
      BY <3>1, SameGrounds, NoAnswerYet
    <3>4. /\ MappedAnswer' \in {"OTHER", "COMPLETED", "INCOMPLETE"}
          /\ MappedAnswer' = "COMPLETED" => SchedulerSuccess(job)' /\ "complete" \in MappedGrounds'
          /\ MappedAnswer' = "INCOMPLETE" => SchedulerSuccess(job)' /\ "gap" \in MappedGrounds'
      <4>1. CASE status' = "COMPLETED"
        <5>1. MappedAnswer' = "COMPLETED"
          BY <3>1, <4>1 DEF MappedAnswer
        <5>2. SchedulerSuccess(job)' /\ "complete" \in MappedGrounds'
          BY <3>2, <4>1 DEF CompletedIsSupported, MappedGrounds
        <5> QED
          BY <5>1, <5>2
      <4>2. CASE status' = "INCOMPLETE" /\ \A slot \in Slots : <<"test", slot>> \notin faulted'
        <5>1. MappedAnswer' = "INCOMPLETE"
          BY <3>1, <4>2 DEF MappedAnswer
        <5>2. SchedulerSuccess(job)' /\ "gap" \in MappedGrounds'
          BY <3>2, <4>2 DEF IncompleteIsSupported, MappedGrounds
        <5> QED
          BY <5>1, <5>2
      <4>3. CASE /\ status' # "COMPLETED"
                 /\ ~(/\ status' = "INCOMPLETE"
                      /\ \A slot \in Slots : <<"test", slot>> \notin faulted')
        <5>1. MappedAnswer' = "OTHER"
          BY <3>1, <4>3 DEF MappedAnswer
        <5> QED
          BY <5>1
      <4> QED
        BY <4>1, <4>2, <4>3
    <3>5. Promise!Answer
      BY <3>3, <3>4 DEF Promise!Answer, Promise!Warranted, MappedAnswer, MappedGrounds
    <3> QED
      BY <3>5 DEF Promise!Next
  <2>4. CASE Again
    <3>1. pc = "done" /\ pc' = "scheduler" /\ UNCHANGED env
      BY <2>4 DEF Again
    <3>2. MappedAnswer' = "none" /\ SchedulerSuccess(job)' = SchedulerSuccess(job)
          /\ MappedGrounds' = MappedGrounds
      BY <3>1, SameGrounds DEF MappedAnswer
    <3>3. MappedAnswer # "none"
      BY <3>1 DEF MappedAnswer
    <3>4. Promise!Ask
      BY <3>2, <3>3 DEF Promise!Ask, MappedAnswer, MappedGrounds
    <3> QED
      BY <3>4 DEF Promise!Next
  <2>5. CASE UNCHANGED vars
    <3>1. UNCHANGED <<env, pc, status, faulted>>
      BY <2>5 DEF vars, env
    <3> QED
      BY <2>s, <3>1, SameGrounds DEF MappedAnswer
  <2>6. CASE ReadScheduler \/ Resolve \/ Prime \/ Abandon \/ EndAcquisition
    BY <2>2, <2>6 DEF ReadScheduler, Resolve, Prime, Abandon, EndAcquisition
  <2>7. ASSUME NEW slot \in Slots, Acquire(slot)
        PROVE  [Promise!Next]_(Promise!promise)
    BY <2>2, <2>7 DEF Acquire
  <2> QED
    BY <2>1, <2>3, <2>4, <2>5, <2>6, <2>7 DEF Next, Inspect
<1> QED
  BY <1>1, <1>2, TypeCorrect, JobInvHolds, GapInvHolds, PTL DEF Spec
=============================================================================
