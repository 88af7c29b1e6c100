-------------------------- MODULE Diagnosis_proofs --------------------------
(***************************************************************************)
(* What the explanations of the end of a job rest on: for any number of    *)
(* steps, of corrections and of lines that are kept, and whatever reads    *)
(* fail.  First the operators, then what is so of the job and what was     *)
(* read of it, then the theorems.                                          *)
(***************************************************************************)
EXTENDS Diagnosis, FiniteSetTheorems, WellFoundedInduction, TLAPS

\* What sacct says of a row.
StepState == {"RUNNING", "COMPLETED", "FAILED", "OUT_OF_MEMORY", "CANCELLED"}
JobState == {"RUNNING", "COMPLETED", "FAILED", "OUT_OF_MEMORY", "TIMEOUT", "CANCELLED"}

Row == [step : Nat \cup {NoStep}, state : StepState \cup JobState,
        rss : Nat, tasks : Nat, cpus : Nat, nodes : Nat]

-----------------------------------------------------------------------------
(* The operators.                                                          *)

\* A set of numbers has a least one.
LEMMA Least ==
  ASSUME NEW T, T \subseteq Nat, T # {}
  PROVE  \E x \in T : \A y \in T : x <= y
<1>1. PICK x \in T : \A y \in T : ~(<<y, x>> \in OpToRel(<, Nat))
  BY WFMin, NatLessThanWellFounded, Zenon
<1>2. \A y \in T : ~(y < x)
  BY <1>1, Zenon DEF OpToRel
<1> QED
  BY <1>2

\* Of numbers, as many as there are rows, one is the largest.
LEMMA Greatest ==
  ASSUME NEW n \in Nat, NEW f \in [1 .. n -> Nat], NEW M \in SUBSET (1 .. n), M # {}
  PROVE  \E m \in M : \A j \in M : f[m] >= f[j]
<1> DEFINE Upto(k) == {i \in M : i <= k}
           Tops(k) == {m \in Upto(k) : \A j \in Upto(k) : f[m] >= f[j]}
           Bad == {k \in Nat : Upto(k) # {} /\ Tops(k) = {}}
<1>1. \A i \in M : i \in Nat /\ i >= 1 /\ i <= n /\ f[i] \in Nat
  OBVIOUS
<1>2. ASSUME NEW k \in Bad, \A l \in Bad : k <= l PROVE FALSE
  <2>1. k \in Nat /\ k # 0
    BY <1>1
  <2>2. k - 1 \in Nat /\ k - 1 \notin Bad
    <3> HIDE DEF Bad
    <3> QED
      BY <1>2, <2>1
  <2>3. \A i \in Upto(k) : i \in Upto(k - 1) \/ i = k
    BY <1>1, <2>1
  <2>4. \A i \in Upto(k - 1) : i \in Upto(k)
    BY <1>1, <2>1
  <2>5. PICK i \in Upto(k) : TRUE
    BY <2>1
  <2>6. CASE Upto(k - 1) = {}
    <3>1. k \in Upto(k) /\ \A j \in Upto(k) : j = k
      BY <2>3, <2>5, <2>6
    <3>2. k \in Tops(k)
      BY <1>1, <3>1
    <3> QED
      BY <3>2
  <2>7. CASE Upto(k - 1) # {}
    <3>1. PICK m \in Tops(k - 1) : TRUE
      BY <2>2, <2>7
    <3>2. m \in Upto(k - 1) /\ m \in Upto(k) /\ \A j \in Upto(k - 1) : f[m] >= f[j]
      BY <2>4, <3>1
    <3> HIDE DEF Upto
    <3>n. \A j \in Upto(k) : f[j] \in Nat
      BY <1>1 DEF Upto
    <3>3. CASE k \in Upto(k) /\ f[k] > f[m]
      <4>0. f[k] \in Nat /\ f[m] \in Nat
        BY <3>n, <3>2, <3>3
      <4>1. \A j \in Upto(k) : f[k] >= f[j]
        BY <2>3, <3>n, <3>2, <3>3, <4>0
      <4>2. k \in Tops(k)
        BY <3>3, <4>1
      <4> QED
        BY <4>2
    <3>4. CASE k \notin Upto(k) \/ f[m] >= f[k]
      <4>1. m \in Tops(k)
        BY <2>3, <3>n, <3>2, <3>4
      <4> QED
        BY <4>1
    <3>5. k \in Upto(k) => f[k] \in Nat /\ f[m] \in Nat
      BY <3>n, <3>2
    <3> QED
      BY <3>3, <3>4, <3>5
  <2> QED
    BY <2>6, <2>7
<1>3. Bad = {}
  <2>1. Bad \subseteq Nat
    OBVIOUS
  <2> HIDE DEF Bad
  <2> QED
    BY <1>2, <2>1, Least
<1>4. Upto(n) = M
  BY <1>1
<1> QED
  BY <1>3, <1>4

\* The fields of a row.
LEMMA RowFields ==
  ASSUME NEW rows \in Seq(Row)
  PROVE  /\ Len(rows) \in Nat /\ DOMAIN rows = 1 .. Len(rows)
         /\ \A i \in 1 .. Len(rows) : rows[i] \in Row /\ rows[i].rss \in Nat
<1>1. \A i \in 1 .. Len(rows) : rows[i] \in Row
  OBVIOUS
<1>2. \A row \in Row : row.rss \in Nat
  BY DEF Row
<1> QED
  BY <1>1, <1>2

\* The row with the largest RSS is a row.
LEMMA LargestRowIsARow ==
  ASSUME NEW record, record.rows \in Seq(Row), LargestRow(record) # 0
  PROVE  LargestRow(record) \in DOMAIN record.rows
<1> DEFINE rows == record.rows
           measured == {i \in DOMAIN rows : rows[i].rss > 0}
           largest == {i \in measured : \A j \in measured : rows[i].rss >= rows[j].rss}
<1>1. measured # {} /\ LargestRow(record) = CHOOSE i \in largest : \A j \in largest : i <= j
  BY DEF LargestRow
<1>2. largest # {}
  <2> DEFINE f == [i \in 1 .. Len(rows) |-> rows[i].rss]
  <2>1. f \in [1 .. Len(rows) -> Nat] /\ Len(rows) \in Nat /\ DOMAIN rows = 1 .. Len(rows)
    BY RowFields
  <2>2. PICK m \in measured : \A j \in measured : f[m] >= f[j]
    BY <1>1, <2>1, Greatest
  <2> QED
    BY <2>1, <2>2
<1>3. largest \subseteq Nat
  BY RowFields
<1>4. \E i \in largest : \A j \in largest : i <= j
  BY <1>2, <1>3, Least
<1> QED
  BY <1>1, <1>4

\* A step is looked up by its id in a text: what is found is the step or an
\* earlier one whose number its own begins with.
LEMMA StepOfTheSource ==
  ASSUME NEW record, record.rows \in Seq(Row), NEW i \in 2 .. Len(record.rows)
  PROVE  /\ MemorySourceRow(record, i) \in 2 .. i
         /\ BeginsWith(record.rows[i].step, record.rows[MemorySourceRow(record, i)].step)
<1> DEFINE Begins(j) == BeginsWith(record.rows[i].step, record.rows[j].step)
           First(j) == Begins(j) /\ \A k \in 2 .. (j - 1) : ~Begins(k)
           Found == {j \in 2 .. i : Begins(j)}
<1>1. Begins(i)
  BY DEF BeginsWith
<1>2. PICK j \in Found : \A k \in Found : j <= k
  <2>1. Found # {} /\ Found \subseteq Nat
    BY <1>1
  <2> QED
    BY <2>1, Least
<1>3. j \in 2 .. Len(record.rows) /\ First(j)
  BY <1>2
<1>4. MemorySourceRow(record, i) = CHOOSE l \in 2 .. Len(record.rows) : First(l)
  BY DEF MemorySourceRow
<1>5. MemorySourceRow(record, i) \in 2 .. Len(record.rows) /\ First(MemorySourceRow(record, i))
  BY <1>3, <1>4
<1>6. MemorySourceRow(record, i) <= i
  BY <1>1, <1>5
<1> QED
  BY <1>5, <1>6

\* One attempt of Custodian is what ParseCustodian makes of it.
LEMMA FlattenOne ==
  ASSUME NEW s
  PROVE  FlattenSeq(<<s>>) = s
<1> DEFINE Flat(f) == f = [i \in 1 .. Len(<<s>>) |-> IF i = 1 THEN <<s>>[i] ELSE f[i - 1] \o <<s>>[i]]
<1>1. FlattenSeq(<<s>>) = (CHOOSE f : Flat(f))[Len(<<s>>)]
  BY DEF FlattenSeq
<1>2. Len(<<s>>) = 1 /\ <<s>>[1] = s
  OBVIOUS
<1>3. Flat([i \in 1 .. 1 |-> s])
  BY <1>2
<1>4. Flat(CHOOSE f : Flat(f))
  BY <1>3
<1>5. (CHOOSE f : Flat(f))[1] = s
  BY <1>2, <1>4
<1> QED
  BY <1>1, <1>2, <1>5

\* The lines that are kept are lines of the log that have one of the words.
LEMMA KeptAreLines ==
  ASSUME NEW lines \in Seq(LineKind), NEW words
  PROVE  \A line \in CandidateLines(lines, words) :
            line \in words /\ line \in LineKind /\ \E i \in DOMAIN lines : lines[i] = line
<1> SUFFICES ASSUME NEW line \in CandidateLines(lines, words)
             PROVE  line \in words /\ line \in LineKind /\ \E i \in DOMAIN lines : lines[i] = line
  OBVIOUS
<1>1. PICK i \in DOMAIN lines : lines[i] \in words /\ line = lines[i]
  BY DEF CandidateLines
<1>2. lines[i] \in LineKind
  OBVIOUS
<1> QED
  BY <1>1, <1>2

\* The messages of a log are lines of it.
LEMMA MessagesAreLines ==
  ASSUME NEW lines \in Seq(LineKind)
  PROVE  \A line \in DiagnosticMessages(lines) \cup RuntimeMessages(lines)
                      \cup CandidateLines(lines, OomWords) :
            line \in LineKind /\ \E i \in DOMAIN lines : lines[i] = line
  BY KeptAreLines DEF DiagnosticMessages, RuntimeMessages

\* A log of no more lines than are kept is kept as a whole.
LEMMA ShortLogIsKept ==
  ASSUME NEW lines \in Seq(LineKind), Len(lines) <= Limit, NEW i \in DOMAIN lines
  PROVE  lines[i] \in DiagnosticMessages(lines)
<1> DEFINE Earlier == {lines[j] : j \in 1 .. (i - 1)}
           Line == [j \in 1 .. (i - 1) |-> lines[j]]
<1>1. i \in Nat /\ i >= 1 /\ i <= Len(lines) /\ i - 1 \in Nat
  OBVIOUS
<1>2. IsFiniteSet(1 .. (i - 1)) /\ Cardinality(1 .. (i - 1)) = i - 1
  <2>1. \A n \in Nat : IsFiniteSet(1 .. n) /\ Cardinality(1 .. n) = n
    BY FS_Interval
  <2> QED
    BY <1>1, <2>1
<1>3. Line \in Surjection(1 .. (i - 1), Earlier)
  <2>1. Line \in [1 .. (i - 1) -> Earlier]
    OBVIOUS
  <2>2. \A line \in Earlier : \E j \in 1 .. (i - 1) : Line[j] = line
    OBVIOUS
  <2> QED
    BY <2>1, <2>2 DEF Surjection
<1>4. IsFiniteSet(Earlier) /\ Cardinality(Earlier) <= i - 1
  <2> HIDE DEF Line, Earlier
  <2> QED
    BY <1>2, <1>3, FS_Surjection
<1>5. IsFiniteSet(Earlier \cap DiagnosticWords) /\ Cardinality(Earlier \cap DiagnosticWords) <= Cardinality(Earlier)
  <2> HIDE DEF Earlier
  <2> QED
    BY <1>4, FS_Intersection
<1>6. Cardinality(Earlier) \in Nat /\ Cardinality(Earlier \cap DiagnosticWords) \in Nat
  BY <1>4, <1>5, FS_CardinalityType
<1>7. Cardinality(Earlier \cap DiagnosticWords) < Limit
  <2> HIDE DEF Earlier
  <2> QED
    BY <1>1, <1>4, <1>5, <1>6, LimitAssumption
<1>8. lines[i] \in DiagnosticWords
  BY DEF DiagnosticWords
<1> QED
  BY <1>7, <1>8 DEF DiagnosticMessages, CandidateLines

\* The first line about memory is kept: SLURM writes of nothing else that is.
LEMMA OomIsKept ==
  ASSUME NEW lines \in Seq(LineKind), \E i \in DOMAIN lines : lines[i] = "oom",
         \A i \in DOMAIN lines : lines[i] # "alloc"
  PROVE  "oom" \in CandidateLines(lines, OomWords)
<1> DEFINE Places == {i \in DOMAIN lines : lines[i] = "oom"}
<1>1. PICK i \in Places : \A j \in Places : i <= j
  <2>1. Places # {} /\ Places \subseteq Nat
    OBVIOUS
  <2> QED
    BY <2>1, Least
<1>2. {lines[j] : j \in 1 .. (i - 1)} \cap OomWords = {}
  BY <1>1 DEF OomWords
<1>3. Cardinality({lines[j] : j \in 1 .. (i - 1)} \cap OomWords) < Limit
  <2>1. Cardinality({lines[j] : j \in 1 .. (i - 1)} \cap OomWords) = 0
    BY <1>2, FS_EmptySet, Zenon
  <2> QED
    BY <2>1, LimitAssumption
<1> QED
  BY <1>1, <1>3 DEF CandidateLines, OomWords

-----------------------------------------------------------------------------
(* Types, and the account of the corrections: Custodian keeps the files of *)
(* a correction before it records it, and gives up at the limit.           *)

StepType == [step : Nat, state : StepState, rss : Nat, tasks : Nat, cpus : Nat, nodes : Nat]

CustodianType == [present : BOOLEAN, corrections : Seq(Corrections),
                  flags : SUBSET {"max_errors", "nonzero_return_code"}]

HistoryType == [terminated : [Monitors -> Nat], oom : BOOLEAN, nonzero : BOOLEAN, budget : BOOLEAN,
                warnings : Nat]

GotType == [record : [rows : Seq(Row)], messages : SUBSET LineKind, inspected : BOOLEAN,
            custodian : CustodianType, archives : 0 .. MaxErrors, calm : BOOLEAN,
            oomInRecord : BOOLEAN, oomInLog : BOOLEAN, slurmRead : BOOLEAN]

WorldType ==
    /\ job \in JobState
    /\ steps \in Seq(StepType) /\ Len(steps) <= Len(StepIds)
    /\ stageLog \in Seq(LineKind) /\ slurmLog \in Seq(LineKind)
    /\ custodian \in CustodianType
    /\ pending \in {"none", "nonzero"} \cup Handlers
    /\ history \in HistoryType

BudgetInv ==
    /\ Len(custodian.corrections) <= MaxErrors
    /\ JobOver \/ Len(custodian.corrections) < MaxErrors
    /\ archives \in {Len(custodian.corrections), Len(custodian.corrections) + 1}
    /\ archives # Len(custodian.corrections) => Correcting
    /\ pending # "none" => ~JobOver /\ LastState # "RUNNING"

\* The running step ends: the last row changes, and no other.
LEMMA StepEnds ==
  ASSUME WorldType, Running, NEW state \in StepState, EndStep(state)
  PROVE  /\ steps # <<>> /\ steps' # <<>>
         /\ steps' \in Seq(StepType) /\ Len(steps') = Len(steps)
         /\ LastState' = state /\ steps'[Len(steps)].state = state
         /\ \A i \in 1 .. Len(steps) : i # Len(steps) => steps'[i] = steps[i]
         /\ steps[Len(steps)].state = "RUNNING"
<1>1. steps # <<>> /\ steps[Len(steps)].state = "RUNNING"
  BY DEF Running, LastState, Last
<1>2. steps \in Seq(StepType) /\ Len(steps) \in Nat /\ Len(steps) \in DOMAIN steps
  BY <1>1 DEF WorldType
<1> DEFINE n == Len(steps)
           row == StepRow(steps[n].step, state, Figures[n])
<1>3. n \in DOMAIN StepIds
  BY <1>2, DiagnosisAssumption DEF WorldType
<1>4. row \in StepType /\ row.state = state
  <2>1. Figures[n] \in [rss : Nat, tasks : Nat, cpus : Nat, nodes : Nat]
    BY <1>3, FiguresAssumption
  <2>0. steps[n] \in StepType
    BY <1>2
  <2>2. steps[n].step \in Nat
    BY <2>0 DEF StepType
  <2>3. /\ Figures[n].rss \in Nat /\ Figures[n].tasks \in Nat
        /\ Figures[n].cpus \in Nat /\ Figures[n].nodes \in Nat
    BY <2>1
  <2> QED
    BY <2>2, <2>3 DEF StepRow, StepType
<1>5. steps' = [steps EXCEPT ![n] = row]
  BY DEF EndStep
<1> HIDE DEF row
<1>6. steps' \in Seq(StepType) /\ Len(steps') = n /\ steps'[n] = row
  BY <1>2, <1>4, <1>5
<1>7. steps' # <<>>
  BY <1>1, <1>2, <1>6
<1>8. LastState' = state
  BY <1>4, <1>6, <1>7 DEF LastState, Last
<1>9. \A i \in 1 .. n : i # n => steps'[i] = steps[i]
  BY <1>2, <1>5
<1> QED
  BY <1>1, <1>4, <1>6, <1>7, <1>8, <1>9

\* What a step of the job needs of it.
LEMMA WhileItRuns ==
  ASSUME WorldType, BudgetInv
  PROVE  /\ Running => pending = "none" /\ ~JobOver /\ LastState = "RUNNING"
         /\ Idle => pending = "none" /\ ~JobOver
         /\ pending = "none" => archives = Len(custodian.corrections)
         /\ Len(custodian.corrections) \in Nat /\ archives \in 0 .. MaxErrors
<1>1. Len(custodian.corrections) \in Nat
  BY DEF WorldType, CustodianType
<1>3. Correcting => pending # "none"
  BY HandlersAssumption DEF Correcting, Handlers
<1>4. archives # Len(custodian.corrections) => ~JobOver
  BY <1>3 DEF BudgetInv
<1>2. archives \in 0 .. MaxErrors
  BY <1>1, <1>4, DiagnosisAssumption DEF BudgetInv
<1> QED
  BY <1>1, <1>2, <1>3 DEF Running, Idle, BudgetInv, WorldType

\* The log of the job and that of VASP grow by lines.
LEMMA LogsGrow ==
  ASSUME WorldType
  PROVE  /\ \A line \in LineKind : Append(stageLog, line) \in Seq(LineKind)
         /\ \A line \in LineKind : Append(slurmLog, line) \in Seq(LineKind)
  BY DEF WorldType

\* Every step of the job keeps the types and the account.
LEMMA WorldTypes == WorldType /\ BudgetInv /\ WorldNext => WorldType' /\ BudgetInv'
<1> SUFFICES ASSUME WorldType, BudgetInv, WorldNext PROVE WorldType' /\ BudgetInv'
  OBVIOUS
<1>0. /\ Running => pending = "none" /\ ~JobOver /\ LastState = "RUNNING"
      /\ Idle => pending = "none" /\ ~JobOver
      /\ pending = "none" => archives = Len(custodian.corrections)
      /\ Len(custodian.corrections) \in Nat
  BY WhileItRuns
<1>h. /\ history.terminated \in [Monitors -> Nat] /\ history.oom \in BOOLEAN /\ history.nonzero \in BOOLEAN
      /\ history.budget \in BOOLEAN /\ history.warnings \in Nat
  BY DEF WorldType, HistoryType
<1>c. /\ custodian.present \in BOOLEAN /\ custodian.corrections \in Seq(Corrections)
      /\ custodian.flags \in SUBSET {"max_errors", "nonzero_return_code"}
  BY DEF WorldType, CustodianType
<1>k. "none" \notin Handlers /\ "nonzero" \notin Handlers
  BY HandlersAssumption DEF Handlers
<1>l. {"zbrent", "brmix", "frozen_error", "vasp_error", "alloc", "oom", "sigterm"} = LineKind
  BY DEF LineKind
<1>1. CASE StartStep
  <2> DEFINE row == StepRow(StepIds[Len(steps) + 1], "RUNNING", NoFigures)
  <2>1. Len(steps) \in Nat /\ Len(steps) + 1 \in DOMAIN StepIds
    BY <1>1, DiagnosisAssumption DEF StartStep, WorldType
  <2>2. StepIds[Len(steps) + 1] \in Nat
    BY <2>1, DiagnosisAssumption
  <2>3. row \in StepType
    BY <2>2 DEF StepRow, NoFigures, StepType, StepState
  <2>4. steps' = Append(steps, row)
    BY <1>1 DEF StartStep
  <2> HIDE DEF row
  <2>5. steps' \in Seq(StepType) /\ Len(steps') = Len(steps) + 1
    BY <2>3, <2>4 DEF WorldType
  <2>6. Len(steps') <= Len(StepIds)
    BY <1>1, <2>1, <2>5, DiagnosisAssumption DEF StartStep
  <2>7. stageLog' \in Seq(LineKind)
    BY <1>1 DEF StartStep
  <2>8. WorldType'
    BY <1>1, <2>5, <2>6, <2>7 DEF StartStep, WorldType
  <2> QED
    BY <1>0, <1>1, <2>8 DEF StartStep, BudgetInv, JobOver
<1>2. CASE VaspWarns
  <2>1. stageLog' \in Seq(LineKind)
    BY <1>2, LogsGrow, <1>l DEF VaspWarns
  <2>2. history' \in HistoryType
    <3> DEFINE more == history.warnings + 1
    <3>1. more \in Nat /\ history' = [history EXCEPT !.warnings = more]
      BY <1>2, <1>h DEF VaspWarns
    <3> HIDE DEF more
    <3> QED
      BY <3>1, <1>h DEF HistoryType, WorldType
  <2> QED
    BY <1>2, <2>1, <2>2 DEF VaspWarns, WorldType, BudgetInv, JobOver, LastState, Correcting
<1>3. CASE TerminateVasp
  <2>1. PICK handler \in Handlers \cap Monitors :
          /\ pending' = handler
          /\ slurmLog' = Append(slurmLog, Announcement(handler))
          /\ history' = [history EXCEPT !.terminated[handler] = @ + 1]
    BY <1>3 DEF TerminateVasp
  <2>2. slurmLog' \in Seq(LineKind) /\ stageLog' \in Seq(LineKind)
    BY <1>3, <2>1, LogsGrow, <1>l DEF TerminateVasp, Announcement
  <2>3. history' \in HistoryType
    <3> DEFINE more == [history.terminated EXCEPT ![handler] = @ + 1]
    <3>1. more \in [Monitors -> Nat] /\ history' = [history EXCEPT !.terminated = more]
      BY <2>1, <1>h
    <3> HIDE DEF more
    <3> QED
      BY <3>1, <1>h DEF HistoryType, WorldType
  <2>4. Running /\ EndStep("FAILED") /\ "FAILED" \in StepState
    BY <1>3 DEF TerminateVasp, StepState
  <2>5. steps' \in Seq(StepType) /\ Len(steps') = Len(steps) /\ LastState' = "FAILED"
    BY <2>4, StepEnds
  <2>6. WorldType'
    BY <1>3, <2>1, <2>2, <2>3, <2>5 DEF TerminateVasp, WorldType
  <2>7. ~JobOver'
    BY <1>0, <1>3, <2>4 DEF TerminateVasp, JobOver
  <2> QED
    BY <1>0, <1>3, <2>1, <2>4, <2>5, <2>6, <2>7 DEF TerminateVasp, BudgetInv
<1>12. CASE EndWithError
  <2>1. PICK handler \in Handlers \ Monitors :
          pending' = handler /\ slurmLog' = Append(slurmLog, Announcement(handler))
    BY <1>12 DEF EndWithError
  <2>2. slurmLog' \in Seq(LineKind)
    BY <2>1, LogsGrow, <1>l DEF Announcement
  <2>4. Running /\ EndStep("FAILED") /\ "FAILED" \in StepState
    BY <1>12 DEF EndWithError, StepState
  <2>5. steps' \in Seq(StepType) /\ Len(steps') = Len(steps) /\ LastState' = "FAILED"
    BY <2>4, StepEnds
  <2>6. WorldType'
    BY <1>12, <2>1, <2>2, <2>5 DEF EndWithError, WorldType
  <2>7. ~JobOver'
    BY <1>0, <1>12, <2>4 DEF EndWithError, JobOver
  <2> QED
    BY <1>0, <1>12, <2>1, <2>4, <2>5, <2>6, <2>7 DEF EndWithError, BudgetInv
<1>4. CASE ArchiveFiles
  <2>1. WorldType'
    BY <1>4 DEF ArchiveFiles, WorldType
  <2> QED
    BY <1>0, <1>4, <2>1 DEF ArchiveFiles, BudgetInv, JobOver, LastState, Correcting
<1>5. CASE RecordCorrection
  <2> DEFINE spent == Len(custodian.corrections) + 1 = MaxErrors
  <2>1. PICK correction \in Corrections :
          /\ custodian' = [present |-> TRUE, corrections |-> Append(custodian.corrections, correction),
                           flags |-> IF spent THEN {"max_errors"} ELSE {}]
          /\ history' = [history EXCEPT !.budget = spent] /\ job' = IF spent THEN "FAILED" ELSE job
    BY <1>5 DEF RecordCorrection
  <2>2. history' = [history EXCEPT !.budget = spent] /\ job' = IF spent THEN "FAILED" ELSE job
    BY <2>1
  <2>3. pending' = "none"
    BY <1>5 DEF RecordCorrection
  <2>4. Append(custodian.corrections, correction) \in Seq(Corrections)
        /\ Len(Append(custodian.corrections, correction)) = Len(custodian.corrections) + 1
    BY <1>c
  <2>5. custodian' \in CustodianType
    BY <2>1, <2>4 DEF CustodianType
  <2>6. history' \in HistoryType
    BY <2>2, <1>h DEF HistoryType, WorldType
  <2>7. job' \in JobState
    BY <2>2 DEF WorldType, JobState
  <2>8. WorldType'
    BY <1>5, <2>3, <2>5, <2>6, <2>7 DEF RecordCorrection, WorldType
  <2>9. Len(custodian'.corrections) = Len(custodian.corrections) + 1
    BY <2>1, <2>4
  <2>10. JobOver' \/ Len(custodian'.corrections) < MaxErrors
    BY <1>0, <2>2, <2>9, <1>5, DiagnosisAssumption DEF BudgetInv, JobOver, ActiveState, RecordCorrection
  <2>11. Len(custodian'.corrections) <= MaxErrors
    BY <1>0, <2>9, <1>5, DiagnosisAssumption DEF BudgetInv, RecordCorrection
  <2>12. archives' = Len(custodian'.corrections)
    BY <1>0, <2>9, <1>5 DEF BudgetInv, RecordCorrection
  <2> QED
    BY <2>3, <2>8, <2>10, <2>11, <2>12 DEF BudgetInv
<1>6. CASE CrashVasp
  <2>1. PICK lines \in {<<>>, <<"alloc">>} : stageLog' = stageLog \o lines
    BY <1>6 DEF CrashVasp
  <2>2. lines \in Seq(LineKind)
    <3>1. "alloc" \in LineKind
      BY <1>l
    <3>2. <<>> \in Seq(LineKind) /\ <<"alloc">> \in Seq(LineKind)
      BY <3>1
    <3> QED
      BY <2>1, <3>2
  <2>3. stageLog' \in Seq(LineKind)
    BY <2>1, <2>2 DEF WorldType
  <2>4. history' \in HistoryType
    BY <1>6, <1>h DEF CrashVasp, HistoryType, WorldType
  <2>5. Running /\ EndStep("FAILED") /\ "FAILED" \in StepState
    BY <1>6 DEF CrashVasp, StepState
  <2>6. steps' \in Seq(StepType) /\ Len(steps') = Len(steps) /\ LastState' = "FAILED"
    BY <2>5, StepEnds
  <2>7. WorldType'
    BY <1>6, <2>3, <2>4, <2>6 DEF CrashVasp, WorldType
  <2>8. ~JobOver'
    BY <1>0, <1>6, <2>5 DEF CrashVasp, JobOver
  <2> QED
    BY <1>0, <1>6, <2>5, <2>6, <2>7, <2>8 DEF CrashVasp, BudgetInv
<1>7. CASE KillForMemory
  <2>3. slurmLog' \in Seq(LineKind)
    BY <1>7, LogsGrow, <1>l DEF KillForMemory
  <2>4. history' \in HistoryType
    BY <1>7, <1>h DEF KillForMemory, HistoryType, WorldType
  <2>5. Running /\ EndStep("OUT_OF_MEMORY") /\ "OUT_OF_MEMORY" \in StepState
    BY <1>7 DEF KillForMemory, StepState
  <2>6. steps' \in Seq(StepType) /\ Len(steps') = Len(steps) /\ LastState' = "OUT_OF_MEMORY"
    BY <2>5, StepEnds
  <2>7. WorldType'
    BY <1>7, <2>3, <2>4, <2>6 DEF KillForMemory, WorldType
  <2>8. ~JobOver'
    BY <1>0, <1>7, <2>5 DEF KillForMemory, JobOver
  <2> QED
    BY <1>0, <1>7, <2>5, <2>6, <2>7, <2>8 DEF KillForMemory, BudgetInv
<1>8. CASE RecordNonzero
  <2>1. custodian' = [custodian EXCEPT !.present = TRUE, !.flags = @ \cup {"nonzero_return_code"}]
    BY <1>8 DEF RecordNonzero
  <2>2. custodian' \in CustodianType /\ custodian'.corrections = custodian.corrections
    BY <1>c, <2>1 DEF CustodianType, WorldType
  <2>3. job' \in JobState /\ JobOver'
    BY <1>8 DEF RecordNonzero, JobState, JobOver, ActiveState
  <2>4. WorldType'
    BY <1>8, <2>2, <2>3 DEF RecordNonzero, WorldType
  <2>5. archives' = Len(custodian.corrections) /\ pending' = "none"
    BY <1>0, <1>k, <1>8 DEF RecordNonzero, BudgetInv, Correcting
  <2> QED
    BY <2>2, <2>3, <2>4, <2>5 DEF BudgetInv
<1>9. CASE KillJob
  <2>1. stageLog' \in Seq(LineKind)
    BY <1>9, LogsGrow, <1>l DEF KillJob
  <2>2. job' \in JobState /\ JobOver'
    BY <1>9 DEF KillJob, JobState, JobOver, ActiveState
  <2>3. Running /\ EndStep("CANCELLED") /\ "CANCELLED" \in StepState
    BY <1>9 DEF KillJob, StepState
  <2>4. steps' \in Seq(StepType) /\ Len(steps') = Len(steps)
    BY <2>3, StepEnds
  <2>5. WorldType'
    BY <1>9, <2>1, <2>2, <2>4 DEF KillJob, WorldType
  <2> QED
    BY <1>0, <1>9, <2>2, <2>3, <2>5 DEF KillJob, BudgetInv
<1>10. CASE EndVasp
  <2>1. Running /\ EndStep("COMPLETED") /\ "COMPLETED" \in StepState
    BY <1>10 DEF EndVasp, StepState
  <2>2. steps' \in Seq(StepType) /\ Len(steps') = Len(steps)
    BY <2>1, StepEnds
  <2>3. WorldType'
    BY <1>10, <2>2 DEF EndVasp, WorldType
  <2> QED
    BY <1>0, <1>10, <2>1, <2>3 DEF EndVasp, BudgetInv, JobOver
<1>11. CASE EndJob
  <2>1. WorldType'
    BY <1>11 DEF EndJob, WorldType, JobState
  <2> QED
    BY <1>0, <1>11, <2>1 DEF EndJob, BudgetInv, JobOver, ActiveState
<1> QED
  BY <1>1, <1>2, <1>3, <1>4, <1>5, <1>6, <1>7, <1>8, <1>9, <1>10, <1>11, <1>12 DEF WorldNext

-----------------------------------------------------------------------------
(* The reads.                                                              *)

ReadNext ==
    \/ ReadSacct \/ ReadCustodian \/ ReadStageLogs \/ ReadArchives
    \/ ReadSlurmLog \/ ReadSlurmLogAgain

ReaderType == got \in GotType /\ mode \in Mode /\ faults \in 0 .. MaxFaults

\* What sacct answers: the row of the job and those of its steps.
LEMMA SacctRows ==
  ASSUME WorldType
  PROVE  LET rows == ParseSacct(<<JobRow>>, steps).rows
         IN  /\ ParseSacct(<<JobRow>>, steps) = [rows |-> rows]
             /\ rows \in Seq(Row) /\ Len(rows) = Len(steps) + 1
             /\ rows[1].state = job
             /\ \A i \in 1 .. Len(steps) : rows[i + 1] = steps[i]
<1>1. JobRow \in Row /\ JobRow.state = job
  BY DEF WorldType, JobRow, StepRow, NoFigures, Row
<1>2. steps \in Seq(Row) /\ Len(steps) \in Nat
  <2>1. StepType \subseteq Row
    BY DEF StepType, Row
  <2> QED
    BY <2>1 DEF WorldType
<1> DEFINE parent == JobRow
<1>3. ParseSacct(<<parent>>, steps) = [rows |-> <<parent>> \o steps]
  <2>1. <<parent>> \o steps # <<>> /\ <<parent>> # <<>> /\ Last(<<parent>>) = parent
    BY <1>2 DEF Last
  <2> QED
    BY <2>1 DEF ParseSacct
<1> HIDE DEF parent
<1>4. /\ <<parent>> \o steps \in Seq(Row) /\ Len(<<parent>> \o steps) = Len(steps) + 1
      /\ (<<parent>> \o steps)[1] = parent
      /\ \A i \in 1 .. Len(steps) : (<<parent>> \o steps)[i + 1] = steps[i]
  <2>1. parent \in Row
    BY <1>1 DEF parent
  <2> QED
    BY <1>2, <2>1
<1>5. ParseSacct(<<JobRow>>, steps).rows = <<parent>> \o steps
  BY <1>3 DEF parent
<1>6. (<<parent>> \o steps)[1].state = job
  BY <1>1, <1>4 DEF parent
<1> HIDE DEF ParseSacct
<1>7. ParseSacct(<<JobRow>>, steps) = [rows |-> ParseSacct(<<JobRow>>, steps).rows]
  BY <1>3, <1>5 DEF parent
<1> QED
  BY <1>4, <1>5, <1>6, <1>7

\* custodian.json says what Custodian recorded.
LEMMA CustodianRead ==
  ASSUME WorldType
  PROVE  /\ ParseCustodian(<<custodian>>) \in CustodianType
         /\ ParseCustodian(<<custodian>>).corrections = custodian.corrections
         /\ ParseCustodian(<<custodian>>).flags = custodian.flags
<1> DEFINE attempts == <<custodian>>
           each == [i \in DOMAIN attempts |-> attempts[i].corrections]
<1>1. DOMAIN attempts = {1} /\ attempts[1] = custodian
  OBVIOUS
<1>2. each = <<custodian.corrections>>
  BY <1>1
<1>3. FlattenSeq(each) = custodian.corrections
  BY <1>2, FlattenOne
<1>4. UNION {attempts[i].flags : i \in DOMAIN attempts} = custodian.flags
  BY <1>1
<1>5. ParseCustodian(attempts)
        = [present |-> TRUE, corrections |-> custodian.corrections, flags |-> custodian.flags]
  BY <1>3, <1>4 DEF ParseCustodian
<1>6. custodian.corrections \in Seq(Corrections)
      /\ custodian.flags \in SUBSET {"max_errors", "nonzero_return_code"}
  BY DEF WorldType, CustodianType
<1>7. ParseCustodian(attempts) \in CustodianType
  <2> DEFINE cs == custodian.corrections
             fs == custodian.flags
  <2>1. cs \in Seq(Corrections) /\ fs \in SUBSET {"max_errors", "nonzero_return_code"}
    BY <1>6
  <2>2. ParseCustodian(attempts) = [present |-> TRUE, corrections |-> cs, flags |-> fs]
    BY <1>5
  <2> HIDE DEF cs, fs, attempts
  <2>3. [present |-> TRUE, corrections |-> cs, flags |-> fs] \in CustodianType
    BY <2>1 DEF CustodianType
  <2> QED
    BY <2>2, <2>3
<1> QED
  BY <1>5, <1>7

\* Nothing has been read.
LEMMA NothingReadType == NothingRead \in GotType
<1>1. NoSacct \in [rows : Seq(Row)] /\ NoCustodian \in CustodianType
  BY DEF NoSacct, NoCustodian, CustodianType
<1>2. 0 \in 0 .. MaxErrors
  BY DiagnosisAssumption
<1> QED
  BY <1>1, <1>2 DEF NothingRead, GotType

\* What is learned keeps the types.
LEMMA LearnType ==
  ASSUME ReaderType, NEW new \in GotType, Learn(new), mode' = mode
  PROVE  ReaderType'
<1>1. faults' \in 0 .. MaxFaults
  BY DiagnosisAssumption DEF ReaderType, Learn
<1> QED
  BY <1>1 DEF ReaderType, Learn

\* Every read keeps the types.
LEMMA ReadTypes == WorldType /\ BudgetInv /\ ReaderType /\ ReadNext => ReaderType'
<1> SUFFICES ASSUME WorldType, BudgetInv, ReaderType, ReadNext PROVE ReaderType'
  OBVIOUS
<1>0. /\ got.record \in [rows : Seq(Row)] /\ got.messages \in SUBSET LineKind
      /\ got.custodian \in CustodianType /\ got.archives \in 0 .. MaxErrors
      /\ got.inspected \in BOOLEAN /\ got.calm \in BOOLEAN /\ got.slurmRead \in BOOLEAN
      /\ got.oomInRecord \in BOOLEAN /\ got.oomInLog \in BOOLEAN
  BY DEF ReaderType, GotType
<1>g. got \in GotType
  BY DEF ReaderType
<1>l. stageLog \in Seq(LineKind) /\ slurmLog \in Seq(LineKind)
      /\ history.oom \in BOOLEAN /\ custodian.present \in BOOLEAN
  BY DEF WorldType, HistoryType, CustodianType
<1>m. ASSUME NEW lines \in Seq(LineKind)
      PROVE  /\ DiagnosticMessages(lines) \in SUBSET LineKind
             /\ RuntimeMessages(lines) \in SUBSET LineKind
             /\ CandidateLines(lines, OomWords) \in SUBSET LineKind
  BY MessagesAreLines
<1>1. CASE ReadSacct
  <2> DEFINE record == ParseSacct(<<JobRow>>, steps)
             new == [got EXCEPT !.record = record, !.calm = JobOver, !.oomInRecord = history.oom]
  <2>1. record \in [rows : Seq(Row)] /\ JobOver \in BOOLEAN
    BY SacctRows DEF JobOver
  <2> HIDE DEF record
  <2>2. new \in GotType
    BY <1>g, <1>l, <2>1 DEF GotType
  <2> QED
    BY <1>1, <2>2, LearnType DEF ReadSacct, Reading, record
<1>2. CASE ReadCustodian
  <2> DEFINE read == IF custodian.present THEN ParseCustodian(<<custodian>>) ELSE NoCustodian
             seen == got.inspected \/ (mode = "path" /\ custodian.present)
             new == [got EXCEPT !.custodian = read, !.inspected = seen]
  <2>1. read \in CustodianType /\ seen \in BOOLEAN
    BY CustodianRead DEF NoCustodian, CustodianType
  <2>2. Learn(new) /\ mode' = mode
    BY <1>2 DEF ReadCustodian, Reading
  <2> HIDE DEF read, seen
  <2>3. new \in GotType
    BY <1>g, <2>1 DEF GotType
  <2> QED
    BY <2>2, <2>3, LearnType
<1>3. CASE ReadStageLogs
  <2> DEFINE said == got.messages \cup DiagnosticMessages(stageLog)
             seen == got.inspected \/ steps # <<>>
             new == [got EXCEPT !.messages = said, !.inspected = seen]
  <2>1. said \in SUBSET LineKind /\ seen \in BOOLEAN
    BY <1>0, <1>l, <1>m
  <2>2. Learn(new) /\ mode' = mode
    BY <1>3 DEF ReadStageLogs, Reading
  <2> HIDE DEF said, seen
  <2>3. new \in GotType
    BY <1>g, <2>1 DEF GotType
  <2> QED
    BY <2>2, <2>3, LearnType
<1>4. CASE ReadArchives
  <2>1. archives \in 0 .. MaxErrors
    BY WhileItRuns
  <2>2. [got EXCEPT !.archives = archives] \in GotType
    BY <1>g, <2>1 DEF GotType
  <2> QED
    BY <1>4, <2>2, LearnType DEF ReadArchives, Reading
<1>5. CASE ReadSlurmLog
  <2> DEFINE said == got.messages \cup IF mode = "path" THEN DiagnosticMessages(slurmLog)
                                                        ELSE RuntimeMessages(slurmLog)
             new == [got EXCEPT !.messages = said, !.inspected = TRUE, !.slurmRead = TRUE,
                                !.oomInLog = history.oom]
  <2>1. said \in SUBSET LineKind
    BY <1>0, <1>l, <1>m
  <2>2. Learn(new) /\ mode' = mode
    BY <1>5 DEF ReadSlurmLog, Reading
  <2> HIDE DEF said
  <2>3. new \in GotType
    BY <1>g, <1>l, <2>1 DEF GotType
  <2> QED
    BY <2>2, <2>3, LearnType
<1>6. CASE ReadSlurmLogAgain
  <2> DEFINE said == got.messages \cup CandidateLines(slurmLog, OomWords)
             new == [got EXCEPT !.messages = said, !.inspected = TRUE, !.oomInLog = history.oom]
  <2>1. said \in SUBSET LineKind
    BY <1>0, <1>l, <1>m
  <2>2. mode' = mode /\ (Learn(new) \/ UNCHANGED <<got, faults>>)
    BY <1>6 DEF ReadSlurmLogAgain, Reading
  <2> HIDE DEF said
  <2>3. new \in GotType
    BY <1>g, <1>l, <2>1 DEF GotType
  <2> QED
    BY <2>2, <2>3, LearnType DEF ReaderType
<1> QED
  BY <1>1, <1>2, <1>3, <1>4, <1>5, <1>6 DEF ReadNext

-----------------------------------------------------------------------------
(* What is so of the job, whatever is read of it.                          *)

Has(log, line) == \E i \in DOMAIN log : log[i] = line

OomStep == \E i \in DOMAIN steps : steps[i].state = "OUT_OF_MEMORY"

\* A step is killed for memory exactly when SLURM writes so in its log, and
\* what says so of the job, or of a nonzero exit, has a cause.
OutcomeInv ==
    /\ OomStep <=> history.oom
    /\ Has(slurmLog, "oom") <=> history.oom
    /\ ~Has(stageLog, "oom")
    /\ ~Has(slurmLog, "alloc") /\ ~Has(slurmLog, "sigterm")
    /\ job = "OUT_OF_MEMORY" => history.oom
    /\ pending = "nonzero" => history.nonzero
    /\ "nonzero_return_code" \in custodian.flags => history.nonzero

\* Every termination is recorded by its handler, or is being corrected.
Of(handler, corrections) == {i \in DOMAIN corrections : corrections[i].handler = handler}

TerminatedInv ==
    \A handler \in Monitors :
        Cardinality(Of(handler, custodian.corrections)) + (IF pending = handler THEN 1 ELSE 0)
            = history.terminated[handler]

\* While Custodian corrects an error it terminated VASP for, and when it has
\* given up on one, the log of VASP has the signal; and the signal has one of
\* three causes.
SignalInv ==
    /\ pending \in Monitors => Has(stageLog, "sigterm")
    /\ Has(stageLog, "sigterm") => LastState \in {"FAILED", "CANCELLED"} /\ pending # "nonzero"
    /\ JobOver /\ Has(stageLog, "sigterm") => history.budget \/ job \in {"TIMEOUT", "CANCELLED"}
    /\ history.budget => /\ job = "FAILED"
                         /\ custodian.present /\ custodian.flags = {"max_errors"}
                         /\ Last(custodian.corrections).handler \in Monitors => Has(stageLog, "sigterm")

\* A log has a line when it had it, or when that line is written.
LEMMA HasAppended ==
  ASSUME NEW log \in Seq(LineKind), NEW new \in LineKind, NEW line
  PROVE  Has(Append(log, new), line) <=> Has(log, line) \/ new = line
<1>1. Append(log, new) \in Seq(LineKind) /\ Len(Append(log, new)) = Len(log) + 1
  OBVIOUS
<1>2. DOMAIN Append(log, new) = 1 .. (Len(log) + 1) /\ DOMAIN log = 1 .. Len(log) /\ Len(log) \in Nat
  BY <1>1
<1>3. /\ Append(log, new)[Len(log) + 1] = new
      /\ \A i \in 1 .. Len(log) : Append(log, new)[i] = log[i]
  OBVIOUS
<1>4. \A i \in 1 .. (Len(log) + 1) : i = Len(log) + 1 \/ i \in 1 .. Len(log)
  BY <1>2
<1>5. Len(log) + 1 \in 1 .. (Len(log) + 1) /\ \A i \in 1 .. Len(log) : i \in 1 .. (Len(log) + 1)
  BY <1>2
<1> QED
  BY <1>2, <1>3, <1>4, <1>5 DEF Has

\* Of the steps, one more is out of memory when the running one ends so.
LEMMA OomStepEnds ==
  ASSUME WorldType, Running, NEW state \in StepState, EndStep(state)
  PROVE  OomStep' <=> OomStep \/ state = "OUT_OF_MEMORY"
<1>1. /\ steps # <<>> /\ steps' \in Seq(StepType) /\ Len(steps') = Len(steps)
      /\ steps'[Len(steps)].state = state /\ steps[Len(steps)].state = "RUNNING"
      /\ \A i \in 1 .. Len(steps) : i # Len(steps) => steps'[i] = steps[i]
  BY StepEnds
<1>2. /\ DOMAIN steps = 1 .. Len(steps) /\ DOMAIN steps' = 1 .. Len(steps)
      /\ Len(steps) \in 1 .. Len(steps)
  BY <1>1 DEF WorldType
<1>3. ASSUME OomStep' PROVE OomStep \/ state = "OUT_OF_MEMORY"
  <2>1. PICK i \in 1 .. Len(steps) : steps'[i].state = "OUT_OF_MEMORY"
    BY <1>2, <1>3 DEF OomStep
  <2> QED
    BY <1>1, <1>2, <2>1 DEF OomStep
<1>4. ASSUME OomStep PROVE OomStep'
  <2>1. PICK i \in 1 .. Len(steps) : steps[i].state = "OUT_OF_MEMORY"
    BY <1>2, <1>4 DEF OomStep
  <2>2. steps'[i].state = "OUT_OF_MEMORY"
    BY <1>1, <2>1
  <2> QED
    BY <1>2, <2>1, <2>2 DEF OomStep
<1>5. ASSUME state = "OUT_OF_MEMORY" PROVE OomStep'
  BY <1>1, <1>2, <1>5 DEF OomStep
<1> QED
  BY <1>3, <1>4, <1>5

\* A step that starts is not out of memory.
LEMMA OomStepStarts ==
  ASSUME WorldType, StartStep
  PROVE  OomStep' <=> OomStep
<1> DEFINE row == StepRow(StepIds[Len(steps) + 1], "RUNNING", NoFigures)
<1>1. row.state = "RUNNING" /\ steps' = Append(steps, row)
  BY DEF StepRow, StartStep
<1> HIDE DEF row
<1>2. /\ DOMAIN steps = 1 .. Len(steps) /\ DOMAIN steps' = 1 .. (Len(steps) + 1)
      /\ Len(steps) \in Nat
      /\ steps'[Len(steps) + 1] = row
      /\ \A i \in 1 .. Len(steps) : steps'[i] = steps[i]
  BY <1>1 DEF WorldType
<1>3. \A i \in 1 .. (Len(steps) + 1) : i = Len(steps) + 1 \/ i \in 1 .. Len(steps)
  BY <1>2
<1>4. \A i \in 1 .. Len(steps) : i \in 1 .. (Len(steps) + 1)
  BY <1>2
<1> QED
  BY <1>1, <1>2, <1>3, <1>4 DEF OomStep

\* The recorded corrections of a handler are counted.
LEMMA CorrectionAppended ==
  ASSUME NEW corrections \in Seq(Corrections), NEW correction \in Corrections, NEW handler
  PROVE  /\ Cardinality(Of(handler, corrections)) \in Nat
         /\ Cardinality(Of(handler, Append(corrections, correction)))
              = Cardinality(Of(handler, corrections)) + (IF correction.handler = handler THEN 1 ELSE 0)
<1> DEFINE n == Len(corrections)
           more == Append(corrections, correction)
<1>1. /\ n \in Nat /\ DOMAIN corrections = 1 .. n /\ DOMAIN more = 1 .. (n + 1)
      /\ more[n + 1] = correction /\ \A i \in 1 .. n : more[i] = corrections[i]
  OBVIOUS
<1>2. IsFiniteSet(Of(handler, corrections))
  <2>1. IsFiniteSet(1 .. n)
    BY <1>1, FS_Interval
  <2>2. Of(handler, corrections) \subseteq 1 .. n
    BY <1>1 DEF Of
  <2> QED
    BY <2>1, <2>2, FS_Subset
<1>3. Cardinality(Of(handler, corrections)) \in Nat
  BY <1>2, FS_CardinalityType
<1>4. n + 1 \notin Of(handler, corrections)
  BY <1>1 DEF Of
<1>5. Of(handler, more) = IF correction.handler = handler
                          THEN Of(handler, corrections) \cup {n + 1} ELSE Of(handler, corrections)
  <2> HIDE DEF more, n
  <2>1. \A i \in 1 .. (n + 1) : i = n + 1 \/ i \in 1 .. n
    BY <1>1
  <2>2. n + 1 \in 1 .. (n + 1) /\ \A i \in 1 .. n : i \in 1 .. (n + 1) /\ i # n + 1
    BY <1>1
  <2> QED
    BY <1>1, <2>1, <2>2 DEF Of
<1>6. Cardinality(Of(handler, corrections) \cup {n + 1}) = Cardinality(Of(handler, corrections)) + 1
  BY <1>2, <1>4, FS_AddElement
<1> HIDE DEF n, more
<1>7. Cardinality(Of(handler, more))
        = Cardinality(Of(handler, corrections)) + (IF correction.handler = handler THEN 1 ELSE 0)
  BY <1>3, <1>5, <1>6
<1> QED
  BY <1>3, <1>7 DEF more

\* Two records of a correction are of two terminations.
LEMMA TwoRecords ==
  ASSUME NEW corrections \in Seq(Corrections), NEW handler,
         NEW i \in Of(handler, corrections), NEW j \in Of(handler, corrections), i # j
  PROVE  Cardinality(Of(handler, corrections)) \in Nat /\ Cardinality(Of(handler, corrections)) > 1
<1>1. IsFiniteSet(Of(handler, corrections))
  <2>1. IsFiniteSet(1 .. Len(corrections)) /\ Of(handler, corrections) \subseteq 1 .. Len(corrections)
    BY FS_Interval DEF Of
  <2> QED
    BY <2>1, FS_Subset
<1> DEFINE all == Of(handler, corrections)
           others == all \ {i}
<1>2. IsFiniteSet(others) /\ Cardinality(others) = Cardinality(all) - 1
  <2>1. IsFiniteSet(all) /\ i \in all
    BY <1>1
  <2> HIDE DEF all
  <2> QED
    BY <2>1, FS_RemoveElement
<1>3. others # {}
  OBVIOUS
<1> HIDE DEF others
<1>4. Cardinality(others) \in Nat /\ Cardinality(others) # 0
  BY <1>2, <1>3, FS_CardinalityType, FS_EmptySet
<1>5. Cardinality(all) \in Nat
  BY <1>1, FS_CardinalityType
<1> QED
  BY <1>2, <1>4, <1>5

\* Once the job is over nothing more happens to it.
LEMMA NothingMoreHappens == WorldNext => ~JobOver
  BY DEF WorldNext, StartStep, VaspWarns, TerminateVasp, EndWithError, ArchiveFiles, RecordCorrection, CrashVasp,
         KillForMemory, RecordNonzero, KillJob, EndVasp, EndJob, Running, Idle

WorldInv == WorldType /\ BudgetInv /\ OutcomeInv /\ TerminatedInv /\ SignalInv

\* Every step of the job keeps that.
LEMMA WorldSteps == WorldInv /\ WorldNext => WorldInv'
<1> SUFFICES ASSUME WorldType, BudgetInv, OutcomeInv, TerminatedInv, SignalInv, WorldNext
             PROVE  OutcomeInv' /\ TerminatedInv' /\ SignalInv'
  BY WorldTypes DEF WorldInv
<1>0. /\ Running => pending = "none"
      /\ Idle => pending = "none"
      /\ stageLog \in Seq(LineKind) /\ slurmLog \in Seq(LineKind)
      /\ custodian.corrections \in Seq(Corrections)
  BY WhileItRuns DEF WorldType, CustodianType
<1>m. \A handler : Cardinality(Of(handler, custodian.corrections)) \in Nat
  <2>1. \A handler : Of(handler, custodian.corrections) \subseteq 1 .. Len(custodian.corrections)
    BY <1>0 DEF Of
  <2>2. IsFiniteSet(1 .. Len(custodian.corrections))
    BY <1>0, FS_Interval
  <2> QED
    BY <2>1, <2>2, FS_Subset, FS_CardinalityType
<1>k. /\ "none" \notin Handlers \cup Monitors /\ "nonzero" \notin Handlers \cup Monitors
  BY HandlersAssumption DEF Handlers
<1>h. history \in HistoryType /\ history.terminated \in [Monitors -> Nat]
  BY DEF WorldType, HistoryType
<1>j. ~JobOver /\ job = "RUNNING"
  BY NothingMoreHappens DEF JobOver, ActiveState
<1>b. history.budget = FALSE
  BY <1>h, <1>j DEF SignalInv, HistoryType
<1>r. Running \/ Idle => pending = "none"
  BY <1>0
<1>q. Running => ~Has(stageLog, "sigterm")
  BY DEF Running, SignalInv
<1>l. /\ "zbrent" \in LineKind /\ "brmix" \in LineKind /\ "frozen_error" \in LineKind
      /\ "vasp_error" \in LineKind /\ "oom" \in LineKind /\ "sigterm" \in LineKind
      /\ "alloc" \in LineKind
  BY DEF LineKind
<1>s. "FAILED" \in StepState /\ "OUT_OF_MEMORY" \in StepState /\ "CANCELLED" \in StepState
      /\ "COMPLETED" \in StepState
  BY DEF StepState
<1>1. CASE StartStep
  <2>1. OomStep' <=> OomStep
    BY <1>1, OomStepStarts
  <2>2. ~Has(stageLog', "oom") /\ ~Has(stageLog', "sigterm")
    BY <1>1 DEF StartStep, Has
  <2>3. pending = "none" /\ UNCHANGED <<job, slurmLog, custodian, archives, pending, history>>
    BY <1>0, <1>1 DEF StartStep
  <2>4. OutcomeInv'
    BY <2>1, <2>2, <2>3 DEF OutcomeInv, Has
  <2>5. TerminatedInv'
    BY <2>3 DEF TerminatedInv
  <2>6. SignalInv'
    BY <1>b, <1>k, <2>2, <2>3 DEF SignalInv
  <2> QED
    BY <2>4, <2>5, <2>6
<1>2. CASE VaspWarns
  <2>1. PICK line \in {"zbrent", "brmix"} : stageLog' = Append(stageLog, line)
    BY <1>2 DEF VaspWarns
  <2>2. ~Has(stageLog', "oom") /\ ~Has(stageLog', "sigterm")
    <3>1. ~Has(stageLog, "sigterm")
      BY <1>2, <1>q DEF VaspWarns
    <3> QED
      BY <1>0, <1>l, <2>1, <3>1, HasAppended DEF OutcomeInv
  <2>3. /\ pending = "none" /\ UNCHANGED <<job, steps, slurmLog, custodian, archives, pending>>
        /\ history'.terminated = history.terminated /\ history'.oom = history.oom
        /\ history'.nonzero = history.nonzero /\ history'.budget = history.budget
    BY <1>0, <1>2, <1>h DEF VaspWarns, HistoryType
  <2>4. OutcomeInv'
    BY <2>2, <2>3 DEF OutcomeInv, Has, OomStep
  <2>5. TerminatedInv'
    BY <2>3 DEF TerminatedInv
  <2>6. SignalInv'
    BY <1>b, <1>k, <2>2, <2>3 DEF SignalInv
  <2> QED
    BY <2>4, <2>5, <2>6
<1>3. CASE TerminateVasp
  <2>1. PICK handler \in Handlers \cap Monitors :
          /\ pending' = handler
          /\ slurmLog' = Append(slurmLog, Announcement(handler))
          /\ history' = [history EXCEPT !.terminated[handler] = @ + 1]
    BY <1>3 DEF TerminateVasp
  <2>2. PICK line \in {"frozen_error", "vasp_error"} : slurmLog' = Append(slurmLog, line)
    BY <2>1 DEF Announcement
  <2>3. (Has(slurmLog', "oom") <=> Has(slurmLog, "oom")) /\ ~Has(slurmLog', "alloc")
        /\ ~Has(slurmLog', "sigterm")
    BY <1>0, <1>l, <2>2, HasAppended DEF OutcomeInv
  <2>4. ~Has(stageLog', "oom") /\ Has(stageLog', "sigterm")
    BY <1>0, <1>3, <1>l, HasAppended DEF OutcomeInv, TerminateVasp
  <2>5. OomStep' <=> OomStep
    BY <1>3, <1>s, OomStepEnds DEF TerminateVasp
  <2>6. /\ history'.terminated = [history.terminated EXCEPT ![handler] = @ + 1]
        /\ history'.oom = history.oom
        /\ history'.nonzero = history.nonzero /\ history'.budget = history.budget
    BY <2>1, <1>h DEF HistoryType
  <2>7. UNCHANGED <<job, custodian>> /\ pending = "none" /\ LastState' = "FAILED"
    BY <1>0, <1>3, <1>s, StepEnds DEF TerminateVasp
  <2>8. OutcomeInv'
    BY <1>k, <2>1, <2>3, <2>4, <2>5, <2>6, <2>7 DEF OutcomeInv
  <2>9. TerminatedInv'
    <3> SUFFICES ASSUME NEW h \in Monitors
                 PROVE  Cardinality(Of(h, custodian.corrections)) + (IF handler = h THEN 1 ELSE 0)
                            = history'.terminated[h]
      BY <2>1, <2>7 DEF TerminatedInv
    <3>1. Cardinality(Of(h, custodian.corrections)) + 0 = history.terminated[h]
      BY <1>k, <2>7 DEF TerminatedInv
    <3>2. history'.terminated[h] = IF h = handler THEN history.terminated[h] + 1 ELSE history.terminated[h]
      BY <1>h, <2>6
    <3> QED
      BY <1>m, <3>1, <3>2
  <2>10. SignalInv'
    BY <1>b, <1>j, <1>k, <2>1, <2>4, <2>6, <2>7 DEF SignalInv, JobOver, ActiveState
  <2> QED
    BY <2>8, <2>9, <2>10
<1>12. CASE EndWithError
  <2>1. PICK handler \in Handlers \ Monitors :
          pending' = handler /\ slurmLog' = Append(slurmLog, Announcement(handler))
    BY <1>12 DEF EndWithError
  <2>2. PICK line \in {"frozen_error", "vasp_error"} : slurmLog' = Append(slurmLog, line)
    BY <2>1 DEF Announcement
  <2>3. (Has(slurmLog', "oom") <=> Has(slurmLog, "oom")) /\ ~Has(slurmLog', "alloc")
        /\ ~Has(slurmLog', "sigterm")
    BY <1>0, <1>l, <2>2, HasAppended DEF OutcomeInv
  <2>5. OomStep' <=> OomStep
    BY <1>12, <1>s, OomStepEnds DEF EndWithError
  <2>7. UNCHANGED <<job, stageLog, custodian, history>> /\ pending = "none" /\ ~Has(stageLog, "sigterm")
    BY <1>0, <1>12, <1>q DEF EndWithError
  <2>8. OutcomeInv'
    BY <1>k, <2>1, <2>3, <2>5, <2>7 DEF OutcomeInv, Has
  <2>9. TerminatedInv'
    BY <1>k, <2>1, <2>7 DEF TerminatedInv
  <2>10. SignalInv'
    BY <1>b, <2>1, <2>7 DEF SignalInv, Has
  <2> QED
    BY <2>8, <2>9, <2>10
<1>4. CASE ArchiveFiles
  <2>1. UNCHANGED <<job, steps, stageLog, slurmLog, custodian, pending, history>>
    BY <1>4 DEF ArchiveFiles
  <2> QED
    BY <2>1 DEF OutcomeInv, TerminatedInv, SignalInv, Has, OomStep, JobOver, LastState
<1>5. CASE RecordCorrection
  <2> DEFINE spent == Len(custodian.corrections) + 1 = MaxErrors
  <2>1. PICK correction \in Corrections :
          /\ correction.handler = pending
          /\ custodian' = [present |-> TRUE, corrections |-> Append(custodian.corrections, correction),
                           flags |-> IF spent THEN {"max_errors"} ELSE {}]
          /\ history' = [history EXCEPT !.budget = spent]
          /\ job' = IF spent THEN "FAILED" ELSE job
    BY <1>5 DEF RecordCorrection
  <2>2. /\ pending \in Handlers /\ pending' = "none"
        /\ UNCHANGED <<steps, stageLog, slurmLog, archives>>
    BY <1>5 DEF RecordCorrection, Correcting
  <2> HIDE DEF spent
  <2>3. /\ history'.terminated = history.terminated /\ history'.oom = history.oom
        /\ history'.nonzero = history.nonzero /\ history'.budget = spent
    BY <2>1, <1>h DEF HistoryType
  <2>4. /\ custodian'.corrections = Append(custodian.corrections, correction)
        /\ custodian'.present
        /\ custodian'.flags = IF spent THEN {"max_errors"} ELSE {}
    BY <2>1
  <2>5. OutcomeInv'
    BY <2>1, <2>2, <2>3, <2>4 DEF OutcomeInv, Has, OomStep
  <2>6. \A handler : Cardinality(Of(handler, custodian'.corrections))
          = Cardinality(Of(handler, custodian.corrections)) + (IF correction.handler = handler THEN 1 ELSE 0)
    BY <1>0, <2>4, CorrectionAppended
  <2>7. TerminatedInv'
    <3> SUFFICES ASSUME NEW h \in Monitors
                 PROVE  Cardinality(Of(h, custodian'.corrections)) + (IF pending' = h THEN 1 ELSE 0)
                            = history'.terminated[h]
      BY DEF TerminatedInv
    <3>1. Cardinality(Of(h, custodian.corrections)) + (IF pending = h THEN 1 ELSE 0)
            = history.terminated[h]
      BY DEF TerminatedInv
    <3>2. Cardinality(Of(h, custodian'.corrections))
            = Cardinality(Of(h, custodian.corrections)) + (IF pending = h THEN 1 ELSE 0)
      BY <2>1, <2>6
    <3>3. pending' # h
      BY <1>k, <2>2
    <3> QED
      BY <1>m, <1>h, <2>3, <3>1, <3>2, <3>3
  <2>8. Last(custodian'.corrections) = correction
    BY <1>0, <2>4 DEF Last
  <2>9. SignalInv'
    <3>1. job' # "RUNNING" => spent
      BY <1>j, <2>1
    <3> QED
      BY <1>k, <2>1, <2>2, <2>3, <2>4, <2>8, <3>1 DEF SignalInv, Has, LastState, JobOver, ActiveState
  <2> QED
    BY <2>5, <2>7, <2>9
<1>6. CASE CrashVasp
  <2>1. \/ stageLog' = stageLog
        \/ stageLog' = Append(stageLog, "alloc")
    <3>1. PICK lines \in {<<>>, <<"alloc">>} : stageLog' = stageLog \o lines
      BY <1>6 DEF CrashVasp
    <3>2. \A log \in Seq(LineKind) : log \o <<>> = log /\ log \o <<"alloc">> = Append(log, "alloc")
      OBVIOUS
    <3> QED
      BY <1>0, <3>1, <3>2
  <2>2. ~Has(stageLog', "oom") /\ ~Has(stageLog', "sigterm")
    <3>0. ~Has(stageLog, "sigterm")
      BY <1>6, <1>q DEF CrashVasp
    <3>1. /\ ~Has(stageLog, "oom") /\ ~Has(Append(stageLog, "alloc"), "oom")
          /\ ~Has(Append(stageLog, "alloc"), "sigterm")
      BY <1>0, <1>l, <3>0, HasAppended DEF OutcomeInv
    <3> QED
      BY <2>1, <3>0, <3>1
  <2>3. OomStep' <=> OomStep
    BY <1>6, <1>s, OomStepEnds DEF CrashVasp
  <2>4. /\ history'.terminated = history.terminated /\ history'.oom = history.oom
        /\ history'.nonzero = TRUE /\ history'.budget = history.budget
    BY <1>6, <1>h DEF CrashVasp, HistoryType
  <2>5. UNCHANGED <<job, slurmLog, custodian>> /\ pending = "none" /\ pending' = "nonzero"
    BY <1>0, <1>6 DEF CrashVasp
  <2>6. OutcomeInv'
    BY <2>2, <2>3, <2>4, <2>5 DEF OutcomeInv, Has
  <2>7. TerminatedInv'
    BY <1>k, <2>4, <2>5 DEF TerminatedInv
  <2>8. SignalInv'
    BY <1>b, <1>k, <2>2, <2>4, <2>5 DEF SignalInv
  <2> QED
    BY <2>6, <2>7, <2>8
<1>7. CASE KillForMemory
  <2>1. Has(slurmLog', "oom") /\ ~Has(slurmLog', "alloc") /\ ~Has(slurmLog', "sigterm")
    BY <1>0, <1>7, <1>l, HasAppended DEF OutcomeInv, KillForMemory
  <2>2. OomStep'
    BY <1>7, <1>s, OomStepEnds DEF KillForMemory
  <2>3. /\ history'.terminated = history.terminated /\ history'.oom = TRUE
        /\ history'.nonzero = TRUE /\ history'.budget = history.budget
    BY <1>7, <1>h DEF KillForMemory, HistoryType
  <2>4. UNCHANGED <<job, stageLog, custodian>> /\ pending = "none" /\ pending' = "nonzero"
        /\ ~Has(stageLog, "sigterm")
    BY <1>0, <1>7, <1>q DEF KillForMemory
  <2>5. OutcomeInv'
    BY <2>1, <2>2, <2>3, <2>4 DEF OutcomeInv, Has
  <2>6. TerminatedInv'
    BY <1>k, <2>3, <2>4 DEF TerminatedInv
  <2>7. SignalInv'
    BY <1>b, <1>k, <2>3, <2>4 DEF SignalInv, Has
  <2> QED
    BY <2>5, <2>6, <2>7
<1>8. CASE RecordNonzero
  <2>1. custodian' = [custodian EXCEPT !.present = TRUE, !.flags = @ \cup {"nonzero_return_code"}]
        /\ pending = "nonzero" /\ pending' = "none"
        /\ UNCHANGED <<steps, stageLog, slurmLog, archives, history>>
    BY <1>8 DEF RecordNonzero
  <2>2. custodian'.corrections = custodian.corrections /\ history.nonzero
    BY <2>1 DEF WorldType, CustodianType, OutcomeInv
  <2>3. job' = "OUT_OF_MEMORY" => history.oom
    BY <1>8 DEF RecordNonzero
  <2>4. OutcomeInv'
    BY <2>1, <2>2, <2>3 DEF OutcomeInv, Has, OomStep
  <2>5. TerminatedInv'
    BY <1>k, <2>1, <2>2 DEF TerminatedInv
  <2>6. SignalInv'
    BY <1>b, <1>k, <2>1 DEF SignalInv, Has
  <2> QED
    BY <2>4, <2>5, <2>6
<1>9. CASE KillJob
  <2>1. ~Has(stageLog', "oom")
    BY <1>0, <1>9, <1>l, HasAppended DEF OutcomeInv, KillJob
  <2>2. OomStep' <=> OomStep
    BY <1>9, <1>s, OomStepEnds DEF KillJob
  <2>3. UNCHANGED <<slurmLog, custodian, pending, history>> /\ pending = "none"
        /\ job' \in {"TIMEOUT", "CANCELLED"}
    BY <1>0, <1>9 DEF KillJob
  <2>4. OutcomeInv'
    BY <2>1, <2>2, <2>3 DEF OutcomeInv, Has
  <2>5. TerminatedInv'
    BY <2>3 DEF TerminatedInv
  <2>6. LastState' = "CANCELLED"
    BY <1>9, <1>s, StepEnds DEF KillJob
  <2>7. SignalInv'
    BY <1>b, <1>k, <2>3, <2>6 DEF SignalInv
  <2> QED
    BY <2>4, <2>5, <2>7
<1>10. CASE EndVasp
  <2>1. OomStep' <=> OomStep
    BY <1>10, <1>s, OomStepEnds DEF EndVasp
  <2>2. UNCHANGED <<job, stageLog, slurmLog, custodian, pending, history>>
    BY <1>10 DEF EndVasp
  <2>3. ~Has(stageLog, "sigterm") /\ pending = "none"
    BY <1>0, <1>10, <1>q DEF EndVasp
  <2>4. OutcomeInv' /\ TerminatedInv'
    BY <2>1, <2>2 DEF OutcomeInv, TerminatedInv, Has
  <2>5. SignalInv'
    BY <1>b, <1>k, <2>2, <2>3 DEF SignalInv, Has
  <2> QED
    BY <2>4, <2>5
<1>11. CASE EndJob
  <2>1. UNCHANGED <<steps, stageLog, slurmLog, custodian, pending, history>> /\ job' = "COMPLETED"
    BY <1>11 DEF EndJob
  <2>2. ~Has(stageLog, "sigterm") /\ pending = "none"
    BY <1>0, <1>11 DEF EndJob, SignalInv
  <2>3. OutcomeInv' /\ TerminatedInv'
    BY <2>1 DEF OutcomeInv, TerminatedInv, Has, OomStep
  <2>4. SignalInv'
    BY <1>b, <1>k, <2>1, <2>2 DEF SignalInv, Has
  <2> QED
    BY <2>3, <2>4
<1> QED
  BY <1>1, <1>2, <1>3, <1>4, <1>5, <1>6, <1>7, <1>8, <1>9, <1>10, <1>11, <1>12 DEF WorldNext

\* One record of corrections goes on where another ends.
StartsWith(corrections, start) ==
    \A i \in DOMAIN start : i \in DOMAIN corrections /\ corrections[i] = start[i]

\* What has happened to it has happened.
LEMMA HistoryStays ==
  WorldInv /\ WorldNext => /\ StartsWith(custodian'.corrections, custodian.corrections)
                           /\ history.oom => history'.oom
                           /\ history.nonzero => history'.nonzero
<1> SUFFICES ASSUME WorldType, WorldNext
             PROVE  /\ StartsWith(custodian'.corrections, custodian.corrections)
                    /\ history.oom => history'.oom
                    /\ history.nonzero => history'.nonzero
  BY DEF WorldInv
<1>h. history \in HistoryType /\ custodian \in CustodianType
  BY DEF WorldType
<1>0. StartsWith(custodian.corrections, custodian.corrections)
  BY DEF StartsWith
<1>3. CASE TerminateVasp
  <2>1. PICK handler \in Handlers \cap Monitors :
          history' = [history EXCEPT !.terminated[handler] = @ + 1]
    BY <1>3 DEF TerminateVasp
  <2> QED
    BY <1>0, <1>h, <1>3, <2>1 DEF HistoryType, TerminateVasp
<1>4. CASE VaspWarns
  <2>1. custodian' = custodian
    BY <1>4 DEF VaspWarns
  <2> QED
    BY <1>0, <1>4, <1>h, <2>1 DEF VaspWarns, HistoryType
<1>5. CASE RecordCorrection
  <2>1. PICK spent \in BOOLEAN, correction \in Corrections :
          /\ history' = [history EXCEPT !.budget = spent]
          /\ custodian'.corrections = Append(custodian.corrections, correction)
    <3> DEFINE all == Len(custodian.corrections) + 1 = MaxErrors
    <3>1. PICK correction \in Corrections :
            /\ custodian' = [present |-> TRUE, corrections |-> Append(custodian.corrections, correction),
                             flags |-> IF all THEN {"max_errors"} ELSE {}]
            /\ history' = [history EXCEPT !.budget = all]
      BY <1>5 DEF RecordCorrection
    <3> HIDE DEF all
    <3>2. custodian'.corrections = Append(custodian.corrections, correction)
      BY <3>1
    <3>3. all \in BOOLEAN
      BY DEF all
    <3> QED
      BY <3>1, <3>2, <3>3
  <2>2. StartsWith(Append(custodian.corrections, correction), custodian.corrections)
    BY <1>h DEF StartsWith, CustodianType
  <2> QED
    BY <1>h, <2>1, <2>2 DEF HistoryType
<1>6. CASE CrashVasp \/ KillForMemory
  <2>0. custodian' = custodian
    BY <1>6 DEF CrashVasp, KillForMemory
  <2>1. \/ history' = [history EXCEPT !.nonzero = TRUE]
        \/ history' = [history EXCEPT !.oom = TRUE, !.nonzero = TRUE]
    BY <1>6 DEF CrashVasp, KillForMemory
  <2>2. CASE history' = [history EXCEPT !.nonzero = TRUE]
    BY <1>0, <1>h, <2>0, <2>2 DEF HistoryType
  <2>3. CASE history' = [history EXCEPT !.oom = TRUE, !.nonzero = TRUE]
    BY <1>0, <1>h, <2>0, <2>3 DEF HistoryType
  <2> QED
    BY <2>1, <2>2, <2>3
<1>7. CASE StartStep \/ EndWithError \/ ArchiveFiles \/ RecordNonzero \/ KillJob \/ EndVasp \/ EndJob
  <2>1. history' = history
    BY <1>7 DEF StartStep, EndWithError, ArchiveFiles, RecordNonzero, KillJob, EndVasp, EndJob
  <2>2. custodian'.corrections = custodian.corrections
    <3>1. CASE RecordNonzero
      BY <1>h, <3>1 DEF RecordNonzero, CustodianType
    <3>2. CASE ~RecordNonzero
      BY <1>7, <3>2 DEF StartStep, EndWithError, ArchiveFiles, KillJob, EndVasp, EndJob
    <3> QED
      BY <3>1, <3>2
  <2> QED
    BY <1>0, <2>1, <2>2
<1> QED
  BY <1>3, <1>4, <1>5, <1>6, <1>7 DEF WorldNext

-----------------------------------------------------------------------------
(* What is so of what was read.                                            *)

\* What was read is of the job: nothing in it has no cause, and memory that
\* was exhausted when sacct answered, or when the log of SLURM was read in job
\* mode, is in it.
GotInv ==
    /\ \A i \in DOMAIN got.record.rows : got.record.rows[i].state = "OUT_OF_MEMORY" => history.oom
    /\ "oom" \in got.messages => history.oom
    /\ got.oomInRecord => \E i \in DOMAIN got.record.rows : got.record.rows[i].state = "OUT_OF_MEMORY"
    /\ mode # "path" /\ got.oomInLog => "oom" \in got.messages
    /\ Known(got.record) /\ got.record.rows[1].state = "TIMEOUT" => job = "TIMEOUT"
    /\ Len(got.record.rows) <= Len(StepIds) + 1
    /\ StartsWith(custodian.corrections, got.custodian.corrections)
    /\ "nonzero_return_code" \in got.custodian.flags => history.nonzero

\* The reads to come; sacct is the first.
Read == {"sacct", "custodian", "stage", "archives", "slurm", "again"}
Left(name) == Has(todo, name)

TodoInv ==
    /\ todo \in Seq(Read)
    /\ Left("sacct") => todo = Reads[mode] /\ got.messages = {}

\* When the job was over at the first read, what was read is how the job was
\* left, and all of it when no read fails.
CalmInv ==
    /\ got.calm => /\ JobOver
                   /\ Known(got.record) /\ got.record.rows[1].state = job
                   /\ "sigterm" \in got.messages => Has(stageLog, "sigterm")
    /\ faults = 0 /\ got.calm =>
         /\ ~Left("custodian") /\ custodian.present
              => /\ got.custodian.corrections = custodian.corrections
                 /\ got.custodian.flags = custodian.flags
         /\ ~Left("stage") => DiagnosticMessages(stageLog) \subseteq got.messages

\* A read is struck from those to come, and no other.
LEMMA ReadIsStruck ==
  ASSUME todo \in Seq(Read), NEW name, Reading(name)
  PROVE  /\ todo' \in Seq(Read) /\ Left(name) /\ mode' = mode
         /\ \A other : Left(other)' => Left(other)
         /\ \A other : other # name /\ Left(other) => Left(other)'
<1>1. todo # <<>> /\ todo[1] = name /\ todo' = Tail(todo) /\ mode' = mode
  BY DEF Reading
<1>2. /\ Len(todo) \in Nat /\ Len(todo) # 0 /\ DOMAIN todo = 1 .. Len(todo)
      /\ todo' \in Seq(Read) /\ DOMAIN todo' = 1 .. (Len(todo) - 1)
      /\ \A i \in 1 .. (Len(todo) - 1) : todo'[i] = todo[i + 1]
  BY <1>1
<1>3. \A i \in 1 .. (Len(todo) - 1) : i + 1 \in 1 .. Len(todo)
  BY <1>2
<1>4. \A i \in 1 .. Len(todo) : i = 1 \/ (i - 1 \in 1 .. (Len(todo) - 1) /\ (i - 1) + 1 = i)
  BY <1>2
<1>5. 1 \in 1 .. Len(todo)
  BY <1>2
<1>6. ASSUME NEW other, Left(other)' PROVE Left(other)
  <2>1. PICK i \in 1 .. (Len(todo) - 1) : todo'[i] = other
    BY <1>2, <1>6 DEF Left, Has
  <2> QED
    BY <1>2, <1>3, <2>1 DEF Left, Has
<1>7. ASSUME NEW other, other # name, Left(other) PROVE Left(other)'
  <2>1. PICK i \in 1 .. Len(todo) : todo[i] = other
    BY <1>2, <1>7 DEF Left, Has
  <2>2. i - 1 \in 1 .. (Len(todo) - 1) /\ todo'[i - 1] = todo[(i - 1) + 1]
    BY <1>1, <1>2, <1>4, <1>7, <2>1
  <2>3. todo'[i - 1] = other
    BY <1>4, <2>1, <2>2
  <2> QED
    BY <1>2, <2>2, <2>3 DEF Left, Has
<1> QED
  BY <1>1, <1>2, <1>5, <1>6, <1>7 DEF Left, Has

\* The reads after sacct.
LEMMA AfterSacct ==
  ASSUME NEW rest, rest \in {<<"custodian", "stage", "archives", "slurm", "again">>,
                             <<"custodian", "slurm", "stage", "archives", "again">>,
                             <<"stage", "slurm", "custodian", "archives">>}
  PROVE  ~Has(rest, "sacct") /\ Has(rest, "custodian") /\ Has(rest, "stage")
<1>1. ASSUME NEW a, NEW b, NEW c, NEW d, NEW e, rest = <<a, b, c, d, e>>
      PROVE  /\ DOMAIN rest = {1, 2, 3, 4, 5}
             /\ rest[1] = a /\ rest[2] = b /\ rest[3] = c /\ rest[4] = d /\ rest[5] = e
  BY <1>1
<1>2. ASSUME NEW a, NEW b, NEW c, NEW d, rest = <<a, b, c, d>>
      PROVE  /\ DOMAIN rest = {1, 2, 3, 4}
             /\ rest[1] = a /\ rest[2] = b /\ rest[3] = c /\ rest[4] = d
  BY <1>2
<1>3. CASE rest = <<"custodian", "stage", "archives", "slurm", "again">>
  BY <1>1, <1>3 DEF Has
<1>4. CASE rest = <<"custodian", "slurm", "stage", "archives", "again">>
  BY <1>1, <1>4 DEF Has
<1>5. CASE rest = <<"stage", "slurm", "custodian", "archives">>
  BY <1>2, <1>5 DEF Has
<1> QED
  BY <1>3, <1>4, <1>5

\* Every mode reads sacct first and once, and these later.
LEMMA SacctIsFirst ==
  ASSUME NEW m \in Mode, NEW rest, rest = Tail(Reads[m])
  PROVE  ~Has(rest, "sacct") /\ Has(rest, "custodian") /\ Has(rest, "stage")
<1>1. rest \in {<<"custodian", "stage", "archives", "slurm", "again">>,
               <<"custodian", "slurm", "stage", "archives", "again">>,
               <<"stage", "slurm", "custodian", "archives">>}
  <2>1. CASE m = "batch"
    BY <2>1 DEF Reads
  <2>2. CASE m = "live"
    BY <2>2 DEF Reads
  <2>3. CASE m = "path"
    BY <2>3 DEF Reads
  <2> QED
    BY <2>1, <2>2, <2>3 DEF Mode
<1> QED
  BY <1>1, AfterSacct

\* A read keeps the account of the reads to come.
LEMMA ReadsToCome ==
  ASSUME mode \in Mode, TodoInv, NEW name, Reading(name)
  PROVE  TodoInv'
<1>1. /\ todo' \in Seq(Read) /\ mode' = mode /\ Left(name)
      /\ \A other : Left(other)' => Left(other)
  BY ReadIsStruck DEF TodoInv
<1>2. ASSUME Left("sacct")' PROVE FALSE
  <2>1. todo = Reads[mode] /\ todo' = Tail(todo)
    BY <1>1, <1>2 DEF TodoInv, Reading
  <2> QED
    BY <1>2, <2>1, SacctIsFirst DEF Left
<1> QED
  BY <1>1, <1>2 DEF TodoInv

ReaderInv == ReaderType /\ TodoInv /\ GotInv /\ CalmInv

Inv == WorldInv /\ ReaderInv

\* What happens to the job does not make what was read untrue of it.
LEMMA ReadBefore ==
  Inv /\ WorldNext /\ UNCHANGED <<mode, todo, got, faults>> => ReaderInv'
<1> SUFFICES ASSUME WorldInv, ReaderInv, WorldNext, UNCHANGED <<mode, todo, got, faults>>
             PROVE  ReaderInv'
  BY DEF Inv
<1>1. ~JobOver
  BY NothingMoreHappens
<1>2. /\ StartsWith(custodian'.corrections, custodian.corrections)
      /\ history.oom => history'.oom
      /\ history.nonzero => history'.nonzero
  BY HistoryStays
<1>3. ReaderType' /\ TodoInv'
  BY DEF ReaderInv, ReaderType, TodoInv, Left
<1>5. got.calm = FALSE
  BY <1>1 DEF ReaderInv, CalmInv, ReaderType, GotType
<1>6. job # "TIMEOUT"
  BY <1>1 DEF JobOver, ActiveState
<1>7. GotInv'
  <2>1. StartsWith(custodian'.corrections, got'.custodian.corrections)
    BY <1>2 DEF ReaderInv, GotInv, StartsWith
  <2> QED
    BY <1>2, <1>6, <2>1 DEF ReaderInv, GotInv
<1>8. CalmInv'
  BY <1>5 DEF CalmInv
<1> QED
  BY <1>3, <1>7, <1>8 DEF ReaderInv

\* What custodian.json held when it was read.
LEMMA CustodianBefore ==
  /\ StartsWith(custodian.corrections, custodian.corrections)
  /\ StartsWith(custodian.corrections, NoCustodian.corrections)
  /\ NoCustodian.flags = {}
  BY DEF StartsWith, NoCustodian

\* No log but that of VASP tells of the signal.
LEMMA SignalOnlyFromVasp ==
  ASSUME WorldInv
  PROVE  /\ "sigterm" \notin DiagnosticMessages(slurmLog) \cup RuntimeMessages(slurmLog)
                                \cup CandidateLines(slurmLog, OomWords)
         /\ "sigterm" \in DiagnosticMessages(stageLog) => Has(stageLog, "sigterm")
  BY MessagesAreLines DEF Has, WorldInv, WorldType, OutcomeInv

\* No log but that of SLURM tells of memory that SLURM saw exhausted.
LEMMA OomOnlyFromSlurm ==
  ASSUME WorldInv
  PROVE  /\ "oom" \notin DiagnosticMessages(stageLog)
         /\ "oom" \in DiagnosticMessages(slurmLog) \cup RuntimeMessages(slurmLog)
                          \cup CandidateLines(slurmLog, OomWords) => history.oom
         /\ history.oom => "oom" \in RuntimeMessages(slurmLog) \cap CandidateLines(slurmLog, OomWords)
<1>0. /\ stageLog \in Seq(LineKind) /\ slurmLog \in Seq(LineKind)
      /\ Has(slurmLog, "oom") <=> history.oom
      /\ ~Has(stageLog, "oom") /\ ~Has(slurmLog, "alloc")
  BY DEF WorldInv, WorldType, OutcomeInv
<1>1. ASSUME NEW log \in Seq(LineKind),
             "oom" \in DiagnosticMessages(log) \cup RuntimeMessages(log) \cup CandidateLines(log, OomWords)
      PROVE  Has(log, "oom")
  BY <1>1, MessagesAreLines DEF Has
<1>2. ASSUME history.oom PROVE "oom" \in CandidateLines(slurmLog, OomWords)
  BY <1>0, <1>2, OomIsKept DEF Has
<1> QED
  BY <1>0, <1>1, <1>2 DEF RuntimeMessages

\* What a read changes of what was read.
LEMMA LearnedSacct ==
  ASSUME Inv, got' = [got EXCEPT !.record = ParseSacct(<<JobRow>>, steps),
                                 !.calm = JobOver, !.oomInRecord = history.oom]
  PROVE  /\ got'.record = ParseSacct(<<JobRow>>, steps)
         /\ got'.calm = JobOver /\ got'.oomInRecord = history.oom
         /\ got'.messages = got.messages /\ got'.oomInLog = got.oomInLog
         /\ got'.custodian = got.custodian
         /\ Known(got'.record) /\ got'.record.rows[1].state = job
         /\ Len(got'.record.rows) <= Len(StepIds) + 1
         /\ (\E i \in DOMAIN got'.record.rows : got'.record.rows[i].state = "OUT_OF_MEMORY")
              <=> history.oom
<1> DEFINE record == ParseSacct(<<JobRow>>, steps)
           rows == record.rows
<1>1. /\ got'.record = record /\ got'.calm = JobOver /\ got'.oomInRecord = history.oom
      /\ got'.messages = got.messages /\ got'.oomInLog = got.oomInLog
      /\ got'.custodian = got.custodian
  <2>1. got \in GotType
    BY DEF Inv, ReaderInv, ReaderType
  <2> HIDE DEF record
  <2> QED
    BY <2>1 DEF GotType, record
<1>2. /\ rows \in Seq(Row) /\ Len(rows) = Len(steps) + 1 /\ rows[1].state = job
      /\ \A i \in 1 .. Len(steps) : rows[i + 1] = steps[i]
  BY SacctRows DEF Inv, WorldInv
<1>3. /\ Len(steps) \in Nat /\ DOMAIN steps = 1 .. Len(steps)
      /\ OomStep <=> history.oom
      /\ job = "OUT_OF_MEMORY" => history.oom
  BY DEF Inv, WorldInv, WorldType, OutcomeInv
<1> HIDE DEF record
<1>4. DOMAIN rows = 1 .. (Len(steps) + 1) /\ rows # <<>>
  BY <1>2, <1>3
<1>5. ASSUME NEW i \in DOMAIN rows, rows[i].state = "OUT_OF_MEMORY" PROVE history.oom
  <2>1. CASE i = 1
    BY <1>2, <1>3, <1>5, <2>1
  <2>2. CASE i # 1
    <3>1. i - 1 \in 1 .. Len(steps) /\ (i - 1) + 1 = i
      BY <1>3, <1>4, <2>2
    <3>2. rows[i] = steps[i - 1]
      BY <1>2, <3>1
    <3> QED
      BY <1>3, <1>5, <3>1, <3>2 DEF OomStep
  <2> QED
    BY <2>1, <2>2
<1>6. ASSUME history.oom PROVE \E i \in DOMAIN rows : rows[i].state = "OUT_OF_MEMORY"
  <2>1. PICK i \in 1 .. Len(steps) : steps[i].state = "OUT_OF_MEMORY"
    BY <1>3, <1>6 DEF OomStep
  <2>2. i + 1 \in DOMAIN rows /\ rows[i + 1].state = "OUT_OF_MEMORY"
    BY <1>2, <1>3, <1>4, <2>1
  <2> QED
    BY <2>2
<1>7. Known(got'.record) /\ got'.record.rows[1].state = job
  BY <1>1, <1>2, <1>4 DEF Known
<1>8. Len(rows) <= Len(StepIds) + 1
  BY <1>2, <1>3, DiagnosisAssumption DEF Inv, WorldInv, WorldType
<1> QED
  BY <1>1, <1>5, <1>6, <1>7, <1>8 DEF record

LEMMA LearnedCustodian ==
  ASSUME Inv, got' = [got EXCEPT !.custodian = IF custodian.present THEN ParseCustodian(<<custodian>>)
                                                                   ELSE NoCustodian,
                                 !.inspected = @ \/ (mode = "path" /\ custodian.present)]
  PROVE  /\ custodian.present => /\ got'.custodian.corrections = custodian.corrections
                                 /\ got'.custodian.flags = custodian.flags
         /\ ~custodian.present => got'.custodian = NoCustodian
         /\ got'.record = got.record /\ got'.calm = got.calm
         /\ got'.oomInRecord = got.oomInRecord /\ got'.messages = got.messages
         /\ got'.oomInLog = got.oomInLog
<1> DEFINE read == IF custodian.present THEN ParseCustodian(<<custodian>>) ELSE NoCustodian
           seen == got.inspected \/ (mode = "path" /\ custodian.present)
<1>1. got' = [got EXCEPT !.custodian = read, !.inspected = seen] /\ got \in GotType
  BY DEF Inv, ReaderInv, ReaderType
<1> HIDE DEF read, seen
<1>2. /\ got'.custodian = read
      /\ got'.record = got.record /\ got'.calm = got.calm
      /\ got'.oomInRecord = got.oomInRecord /\ got'.messages = got.messages
      /\ got'.oomInLog = got.oomInLog
  BY <1>1 DEF GotType
<1>3. custodian.present => read.corrections = custodian.corrections /\ read.flags = custodian.flags
  BY CustodianRead DEF read, Inv, WorldInv
<1> QED
  BY <1>2, <1>3 DEF read

\* Every read keeps what was read true of the job.
LEMMA WhatIsRead == Inv /\ ReadNext => GotInv' /\ CalmInv'
<1> SUFFICES ASSUME Inv, ReadNext PROVE GotInv' /\ CalmInv'
  OBVIOUS
<1>i. ReaderInv /\ WorldInv /\ got \in GotType /\ mode \in Mode /\ todo \in Seq(Read)
      /\ faults \in Nat
  BY DiagnosisAssumption DEF Inv, ReaderInv, ReaderType, TodoInv
<1>u. UNCHANGED world /\ mode' = mode
  BY DEF ReadNext, ReadSacct, ReadCustodian, ReadStageLogs, ReadArchives, ReadSlurmLog,
         ReadSlurmLogAgain, Reading
<1>h. JobOver' = JobOver /\ history' = history /\ job' = job /\ custodian' = custodian
      /\ stageLog' = stageLog
  BY <1>u DEF world, JobOver
<1>f. ASSUME got' = got, faults' = faults + 1 PROVE GotInv' /\ CalmInv'
  BY <1>i, <1>u, <1>h, <1>f DEF ReaderInv, GotInv, CalmInv
<1>n. ASSUME NEW name, Reading(name)
      PROVE  /\ Left(name)
             /\ \A other : other # name /\ Left(other) => Left(other)'
  BY <1>i, <1>n, ReadIsStruck
<1>1. CASE ReadSacct
  <2>1. Reading("sacct") /\ Learn([got EXCEPT !.record = ParseSacct(<<JobRow>>, steps),
                                              !.calm = JobOver, !.oomInRecord = history.oom])
    BY <1>1 DEF ReadSacct
  <2>2. todo = Reads[mode] /\ todo' = Tail(todo)
    BY <1>i, <1>n, <2>1 DEF ReaderInv, TodoInv, Reading
  <2>3. Left("custodian")' /\ Left("stage")'
    BY <1>i, <2>2, SacctIsFirst DEF Left
  <2>4. CASE got' = [got EXCEPT !.record = ParseSacct(<<JobRow>>, steps),
                                !.calm = JobOver, !.oomInRecord = history.oom]
    <3>1. /\ got'.calm = JobOver /\ got'.oomInRecord = history.oom
          /\ got'.messages = got.messages /\ got'.oomInLog = got.oomInLog
          /\ got'.custodian = got.custodian
          /\ Known(got'.record) /\ got'.record.rows[1].state = job
          /\ Len(got'.record.rows) <= Len(StepIds) + 1
          /\ (\E i \in DOMAIN got'.record.rows : got'.record.rows[i].state = "OUT_OF_MEMORY")
               <=> history.oom
      BY <2>4, LearnedSacct
    <3>2. GotInv'
      BY <1>i, <1>u, <1>h, <3>1 DEF ReaderInv, GotInv
    <3>4. got'.messages = {}
      BY <1>i, <1>n, <2>1, <3>1 DEF ReaderInv, TodoInv
    <3>3. CalmInv'
      BY <1>h, <2>3, <3>1, <3>4 DEF CalmInv
    <3> QED
      BY <3>2, <3>3
  <2> QED
    BY <1>f, <2>1, <2>4 DEF Learn
<1>2. CASE ReadCustodian
  <2> DEFINE new == [got EXCEPT !.custodian = IF custodian.present THEN ParseCustodian(<<custodian>>)
                                                                   ELSE NoCustodian,
                                !.inspected = @ \/ (mode = "path" /\ custodian.present)]
  <2>1. Reading("custodian") /\ Learn(new)
    BY <1>2 DEF ReadCustodian
  <2>2. Left("stage") => Left("stage")'
    BY <1>n, <2>1
  <2>4. CASE got' = new /\ faults' = faults
    <3>1. /\ custodian.present => /\ got'.custodian.corrections = custodian.corrections
                                  /\ got'.custodian.flags = custodian.flags
          /\ ~custodian.present => got'.custodian = NoCustodian
          /\ got'.record = got.record /\ got'.calm = got.calm
          /\ got'.oomInRecord = got.oomInRecord /\ got'.messages = got.messages
          /\ got'.oomInLog = got.oomInLog
      BY <2>4, LearnedCustodian
    <3>2. StartsWith(custodian.corrections, got'.custodian.corrections)
          /\ ("nonzero_return_code" \in got'.custodian.flags => history.nonzero)
      <4>1. CASE custodian.present
        BY <1>i, <3>1, <4>1, CustodianBefore DEF WorldInv, OutcomeInv
      <4>2. CASE ~custodian.present
        BY <1>i, <3>1, <4>2, CustodianBefore
      <4> QED
        BY <4>1, <4>2
    <3>3. GotInv'
      BY <1>i, <1>u, <1>h, <3>1, <3>2 DEF ReaderInv, GotInv
    <3>4. CalmInv'
      BY <1>i, <1>h, <2>2, <2>4, <3>1 DEF ReaderInv, CalmInv
    <3> QED
      BY <3>3, <3>4
  <2> HIDE DEF new
  <2> QED
    BY <1>f, <2>1, <2>4 DEF Learn
<1>3. ASSUME NEW name, name \in {"stage", "slurm", "again"}, Reading(name),
             NEW said \in SUBSET LineKind,
             got'.messages = got.messages \cup said,
             name = "stage" => said = DiagnosticMessages(stageLog),
             "sigterm" \in said => Has(stageLog, "sigterm"),
             "oom" \in said => history.oom,
             \/ got'.oomInLog = got.oomInLog
             \/ got'.oomInLog = history.oom /\ (mode # "path" /\ history.oom => "oom" \in said),
             got'.record = got.record, got'.calm = got.calm,
             got'.oomInRecord = got.oomInRecord, got'.custodian = got.custodian,
             faults' = faults
      PROVE  GotInv' /\ CalmInv'
  <2>1. Left("custodian") => Left("custodian")'
    BY <1>n, <1>3
  <2>2. Left("stage")' \/ ~Left("stage") \/ said = DiagnosticMessages(stageLog)
    BY <1>n, <1>3
  <2>3. GotInv'
    BY <1>i, <1>u, <1>h, <1>3 DEF ReaderInv, GotInv
  <2>4. CalmInv'
    BY <1>i, <1>h, <1>3, <2>1, <2>2 DEF ReaderInv, CalmInv
  <2> QED
    BY <2>3, <2>4
<1>l. /\ stageLog \in Seq(LineKind) /\ slurmLog \in Seq(LineKind)
      /\ DiagnosticMessages(stageLog) \in SUBSET LineKind
      /\ DiagnosticMessages(slurmLog) \in SUBSET LineKind
      /\ RuntimeMessages(slurmLog) \in SUBSET LineKind
      /\ CandidateLines(slurmLog, OomWords) \in SUBSET LineKind
  <2>1. stageLog \in Seq(LineKind) /\ slurmLog \in Seq(LineKind)
    BY <1>i DEF WorldInv, WorldType
  <2> QED
    BY <2>1, MessagesAreLines
<1>o. /\ "oom" \notin DiagnosticMessages(stageLog)
      /\ "oom" \in DiagnosticMessages(slurmLog) => history.oom
      /\ "oom" \in RuntimeMessages(slurmLog) <=> history.oom
      /\ "oom" \in CandidateLines(slurmLog, OomWords) <=> history.oom
  BY <1>i, OomOnlyFromSlurm
<1>g. /\ "sigterm" \notin DiagnosticMessages(slurmLog) \cup RuntimeMessages(slurmLog)
                             \cup CandidateLines(slurmLog, OomWords)
      /\ "sigterm" \in DiagnosticMessages(stageLog) => Has(stageLog, "sigterm")
  BY <1>i, SignalOnlyFromVasp
<1>4. CASE ReadStageLogs
  <2> DEFINE said == DiagnosticMessages(stageLog)
             more == got.messages \cup said
             seen == got.inspected \/ steps # <<>>
             new == [got EXCEPT !.messages = more, !.inspected = seen]
  <2>1. Reading("stage") /\ Learn(new)
    BY <1>4 DEF ReadStageLogs
  <2>2. CASE got' = new /\ faults' = faults
    <3> HIDE DEF more, seen
    <3>1. /\ got'.messages = more /\ got'.oomInLog = got.oomInLog
          /\ got'.record = got.record /\ got'.calm = got.calm
          /\ got'.oomInRecord = got.oomInRecord /\ got'.custodian = got.custodian
      BY <1>i, <2>2 DEF GotType
    <3>2. said \in SUBSET LineKind /\ got'.messages = got.messages \cup said /\ "oom" \notin said
          /\ ("sigterm" \in said => Has(stageLog, "sigterm"))
      BY <1>g, <1>l, <1>o, <3>1 DEF more
    <3> QED
      BY <1>3, <2>1, <2>2, <3>1, <3>2
  <2> HIDE DEF new
  <2> QED
    BY <1>f, <2>1, <2>2 DEF Learn
<1>5. CASE ReadArchives
  <2> DEFINE new == [got EXCEPT !.archives = archives]
  <2>1. Reading("archives") /\ Learn(new)
    BY <1>5 DEF ReadArchives
  <2>2. CASE got' = new /\ faults' = faults
    <3>1. /\ got'.messages = got.messages /\ got'.oomInLog = got.oomInLog
          /\ got'.record = got.record /\ got'.calm = got.calm
          /\ got'.oomInRecord = got.oomInRecord /\ got'.custodian = got.custodian
      BY <1>i, <2>2 DEF GotType
    <3>2. (Left("custodian") => Left("custodian")') /\ (Left("stage") => Left("stage")')
      BY <1>n, <2>1
    <3> QED
      BY <1>i, <1>u, <1>h, <2>2, <3>1, <3>2 DEF ReaderInv, GotInv, CalmInv
  <2> HIDE DEF new
  <2> QED
    BY <1>f, <2>1, <2>2 DEF Learn
<1>6. CASE ReadSlurmLog
  <2> DEFINE said == IF mode = "path" THEN DiagnosticMessages(slurmLog) ELSE RuntimeMessages(slurmLog)
             more == got.messages \cup said
             new == [got EXCEPT !.messages = more, !.inspected = TRUE, !.slurmRead = TRUE,
                                !.oomInLog = history.oom]
  <2>1. Reading("slurm") /\ Learn(new)
    BY <1>6 DEF ReadSlurmLog
  <2>2. CASE got' = new /\ faults' = faults
    <3>0. said \in SUBSET LineKind /\ ("oom" \in said => history.oom)
          /\ (mode # "path" /\ history.oom => "oom" \in said) /\ "sigterm" \notin said
      BY <1>g, <1>l, <1>o
    <3> HIDE DEF more, said
    <3>1. /\ got'.messages = more /\ got'.oomInLog = history.oom
          /\ got'.record = got.record /\ got'.calm = got.calm
          /\ got'.oomInRecord = got.oomInRecord /\ got'.custodian = got.custodian
      BY <1>i, <2>2 DEF GotType
    <3>2. got'.messages = got.messages \cup said
      BY <3>1 DEF more
    <3> QED
      BY <1>3, <2>1, <2>2, <3>0, <3>1, <3>2
  <2> HIDE DEF new
  <2> QED
    BY <1>f, <2>1, <2>2 DEF Learn
<1>7. CASE ReadSlurmLogAgain
  <2> DEFINE said == CandidateLines(slurmLog, OomWords)
             more == got.messages \cup said
             new == [got EXCEPT !.messages = more, !.inspected = TRUE, !.oomInLog = history.oom]
  <2>1. Reading("again") /\ (Learn(new) \/ UNCHANGED <<got, faults>>)
    BY <1>7 DEF ReadSlurmLogAgain
  <2>2. CASE got' = new /\ faults' = faults
    <3>0. said \in SUBSET LineKind /\ ("oom" \in said <=> history.oom) /\ "sigterm" \notin said
      BY <1>g, <1>l, <1>o
    <3> HIDE DEF more, said
    <3>1. /\ got'.messages = more /\ got'.oomInLog = history.oom
          /\ got'.record = got.record /\ got'.calm = got.calm
          /\ got'.oomInRecord = got.oomInRecord /\ got'.custodian = got.custodian
      BY <1>i, <2>2 DEF GotType
    <3>2. got'.messages = got.messages \cup said
      BY <3>1 DEF more
    <3> QED
      BY <1>3, <2>1, <2>2, <3>0, <3>1, <3>2
  <2>3. CASE UNCHANGED <<got, faults>>
    <3>1. (Left("custodian") => Left("custodian")') /\ (Left("stage") => Left("stage")')
      BY <1>n, <2>1
    <3> QED
      BY <1>i, <1>u, <1>h, <2>3, <3>1 DEF ReaderInv, GotInv, CalmInv
  <2> HIDE DEF new
  <2> QED
    BY <1>f, <2>1, <2>2, <2>3 DEF Learn
<1> QED
  BY <1>1, <1>2, <1>4, <1>5, <1>6, <1>7 DEF ReadNext

-----------------------------------------------------------------------------
(* The theorems.                                                           *)

LEMMA InitInv == Init => Inv
<1> SUFFICES ASSUME Init PROVE Inv
  OBVIOUS
<1>1. WorldType
  <2>1. NoCustodian \in CustodianType /\ <<>> \in Seq(StepType) /\ <<>> \in Seq(LineKind)
    BY DEF NoCustodian, CustodianType
  <2>2. history \in HistoryType
    BY DEF Init, HistoryType
  <2>3. Len(<<>>) <= Len(StepIds)
    BY DiagnosisAssumption
  <2> QED
    BY <2>1, <2>2, <2>3 DEF Init, WorldType, JobState
<1>2. BudgetInv
  BY DiagnosisAssumption DEF Init, BudgetInv, NoCustodian, JobOver, ActiveState
<1>3. OutcomeInv /\ SignalInv
  BY HandlersAssumption DEF Init, OutcomeInv, SignalInv, OomStep, Has, NoCustodian
<1>4. TerminatedInv
  <2>1. \A handler : Of(handler, custodian.corrections) = {}
    BY DEF Init, NoCustodian, Of
  <2>2. \A handler \in Monitors : history.terminated[handler] = 0 /\ pending # handler
    BY HandlersAssumption DEF Init
  <2> QED
    BY <2>1, <2>2, FS_EmptySet DEF TerminatedInv
<1>5. ReaderType
  BY NothingReadType, DiagnosisAssumption DEF Init, ReaderType
<1>6. TodoInv
  <2>1. todo = Reads[mode] /\ mode \in Mode
    BY DEF Init
  <2>2. ASSUME NEW m \in Mode PROVE Reads[m] \in Seq(Read)
    <3>1. "sacct" \in Read /\ "custodian" \in Read /\ "stage" \in Read
          /\ "archives" \in Read /\ "slurm" \in Read /\ "again" \in Read
      BY DEF Read
    <3>2. CASE m = "batch"
      BY <3>1, <3>2 DEF Reads
    <3>3. CASE m = "live"
      BY <3>1, <3>3 DEF Reads
    <3>4. CASE m = "path"
      BY <3>1, <3>4 DEF Reads
    <3> QED
      BY <3>2, <3>3, <3>4 DEF Mode
  <2> QED
    BY <2>1, <2>2 DEF Init, NothingRead, TodoInv
<1>7. GotInv
  BY CustodianBefore, DiagnosisAssumption DEF Init, GotInv, NothingRead, NoCustodian, NoSacct, Known
<1>8. CalmInv
  BY DEF Init, CalmInv, NothingRead
<1> QED
  BY <1>1, <1>2, <1>3, <1>4, <1>5, <1>6, <1>7, <1>8 DEF Inv, WorldInv, ReaderInv

LEMMA StepInv == Inv /\ [Next]_vars => Inv'
<1> SUFFICES ASSUME Inv, [Next]_vars PROVE Inv'
  OBVIOUS
<1>1. CASE WorldNext /\ UNCHANGED <<mode, todo, got, faults>>
  BY <1>1, WorldSteps, ReadBefore DEF Inv
<1>2. CASE ReadNext
  <2>1. UNCHANGED world
    BY <1>2 DEF ReadNext, ReadSacct, ReadCustodian, ReadStageLogs, ReadArchives, ReadSlurmLog,
           ReadSlurmLogAgain, Reading
  <2>2. WorldInv'
    BY <2>1 DEF Inv, WorldInv, WorldType, BudgetInv, OutcomeInv, TerminatedInv, SignalInv,
           world, JobOver, LastState, OomStep, Correcting
  <2>3. ReaderType'
    BY <1>2, ReadTypes DEF Inv, WorldInv, ReaderInv
  <2>4. PICK name \in Read : Reading(name)
    BY <1>2 DEF ReadNext, ReadSacct, ReadCustodian, ReadStageLogs, ReadArchives, ReadSlurmLog,
           ReadSlurmLogAgain, Read
  <2>5. TodoInv'
    BY <2>4, ReadsToCome DEF Inv, ReaderInv, ReaderType
  <2>6. GotInv' /\ CalmInv'
    BY <1>2, WhatIsRead
  <2> QED
    BY <2>2, <2>3, <2>5, <2>6 DEF Inv, ReaderInv
<1>3. CASE UNCHANGED vars
  BY <1>3 DEF vars, world, Inv, WorldInv, WorldType, BudgetInv, OutcomeInv, TerminatedInv, SignalInv,
     JobOver, LastState, OomStep, Correcting, ReaderInv, ReaderType, TodoInv, GotInv, CalmInv, Left
<1> QED
  BY <1>1, <1>2, <1>3 DEF Next, ReadNext

\* What the job left and what was read of it stay in the relation that the
\* explanations rest on.
THEOREM EvidenceIsOfTheJob == Spec => []Inv
  BY InitInv, StepInv, PTL DEF Spec

\* The verdict on memory is one of four.
LEMMA OomCases ==
  ASSUME NEW record, NEW memory, NEW messages, NEW inspected
  PROVE  OomAssessment(record, memory, messages, inspected)
            \in {"ESTABLISHED", "POSSIBLE", "NO_EVIDENCE", "INSUFFICIENT"}
<1> DEFINE explicit == ExplicitOom(record, messages)
           possible == "alloc" \in messages \/ MemoryPressure(record, memory)
           known == Known(record) /\ (LargestRow(record) # 0 \/ inspected)
<1>1. OomAssessment(record, memory, messages, inspected)
        = CASE explicit -> "ESTABLISHED"
            [] ~explicit /\ possible -> "POSSIBLE"
            [] OTHER -> IF known THEN "NO_EVIDENCE" ELSE "INSUFFICIENT"
  BY DEF OomAssessment
<1> HIDE DEF explicit, possible, known
<1> QED
  BY <1>1

\* The types, with Custodian held to the corrections it is allowed: it never
\* records more, nor keeps more archives.
THEOREM TypesKept == Spec => []TypeOK
<1>1. Inv => TypeOK
  <2> SUFFICES ASSUME Inv PROVE TypeOK
    OBVIOUS
  <2>1. archives \in 0 .. MaxErrors
    BY WhileItRuns DEF Inv, WorldInv
  <2>2. /\ got.messages \in SUBSET LineKind /\ got.archives \in 0 .. MaxErrors
        /\ got.custodian.corrections \in Seq(Corrections) /\ got.record.rows \in Seq(Row)
    BY DEF Inv, ReaderInv, ReaderType, GotType, CustodianType
  <2>3. custodian.flags \in SUBSET {"max_errors", "nonzero_return_code"}
        /\ custodian.corrections \in Seq(Corrections)
    BY DEF Inv, WorldInv, WorldType, CustodianType
  <2>4. Len(got.record.rows) <= Len(StepIds) + 1
    BY DEF Inv, ReaderInv, GotInv
  <2>5. LargestRow(got.record) \in 0 .. Len(got.record.rows)
    <3>1. DOMAIN got.record.rows = 1 .. Len(got.record.rows) /\ Len(got.record.rows) \in Nat
      BY <2>2
    <3> QED
      BY <2>2, <3>1, LargestRowIsARow
  <2>6. \A memory \in Memories : Oom(memory) \in OomStatus
    BY OomCases DEF Oom, OomStatus
  <2> QED
    BY <2>1, <2>2, <2>3, <2>4, <2>5, <2>6
       DEF TypeOK, Inv, WorldInv, WorldType, BudgetInv, ReaderInv, ReaderType, JobState
<1> QED
  BY <1>1, EvidenceIsOfTheJob, PTL

\* bmd-check calls exhausted memory established only of a job of which SLURM
\* killed a step for it, and does so whenever sacct answered, or job mode read
\* the log of SLURM, after that (oom.py, assess_oom_evidence).
THEOREM OomVerdictIsSoundHolds == Spec => []OomVerdictIsSound
<1>1. Inv => OomVerdictIsSound
  <2> SUFFICES ASSUME Inv, NEW memory \in Memories
               PROVE  /\ Oom(memory) = "ESTABLISHED" => history.oom
                      /\ got.oomInRecord \/ (mode # "path" /\ got.oomInLog)
                           => Oom(memory) = "ESTABLISHED"
    BY DEF OomVerdictIsSound
  <2> DEFINE explicit == ExplicitOom(got.record, got.messages)
  <2>1. explicit => history.oom
    BY DEF ExplicitOom, Inv, ReaderInv, GotInv
  <2>2. got.oomInRecord \/ (mode # "path" /\ got.oomInLog) => explicit
    BY DEF ExplicitOom, Inv, ReaderInv, GotInv
  <2>3. Oom(memory) = "ESTABLISHED" <=> explicit
    <3> HIDE DEF explicit
    <3> DEFINE possible == "alloc" \in got.messages \/ MemoryPressure(got.record, memory)
               known == Known(got.record) /\ (LargestRow(got.record) # 0 \/ got.inspected)
    <3>1. Oom(memory) = CASE explicit -> "ESTABLISHED"
                          [] ~explicit /\ possible -> "POSSIBLE"
                          [] OTHER -> IF known THEN "NO_EVIDENCE" ELSE "INSUFFICIENT"
      BY DEF Oom, OomAssessment, explicit
    <3> HIDE DEF possible, known
    <3> QED
      BY <3>1
  <2> QED
    BY <2>1, <2>2, <2>3
<1> QED
  BY <1>1, EvidenceIsOfTheJob, PTL

\* The RSS of a task is held against memory that its own step can use, unless
\* the text of its source names an earlier step first (oom.py,
\* _compatible_memory_utilization).
THEOREM MemoryOfItsStepHolds == Spec => []MemoryOfItsStep
<1>1. Inv => MemoryOfItsStep
  <2> SUFFICES ASSUME Inv, NEW memory \in Memories, UtilizationKnown(got.record, memory)
               PROVE  LET rows == got.record.rows
                          i == LargestRow(got.record)
                      IN  \/ Comparable(rows[i], memory.scope)
                          \/ \E j \in 2 .. (i - 1) : BeginsWith(rows[i].step, rows[j].step)
    BY DEF MemoryOfItsStep
  <2> DEFINE rows == got.record.rows
             i == LargestRow(got.record)
             j == MemorySourceRow(got.record, i)
  <2>1. rows \in Seq(Row)
    BY DEF Inv, ReaderInv, ReaderType, GotType
  <2>2. i # 0 /\ Comparable(rows[j], memory.scope)
    BY DEF UtilizationKnown
  <2>3. i \in DOMAIN rows /\ DOMAIN rows = 1 .. Len(rows) /\ Len(rows) \in Nat
    BY <2>1, <2>2, LargestRowIsARow, RowFields
  <2>4. CASE i = 1
    BY <2>2, <2>4 DEF MemorySourceRow
  <2>5. CASE i # 1
    <3>1. i \in 2 .. Len(rows)
      BY <2>3, <2>5
    <3>2. j \in 2 .. i /\ BeginsWith(rows[i].step, rows[j].step)
      BY <2>1, <3>1, StepOfTheSource
    <3> HIDE DEF i, j, rows
    <3>3. j = i \/ j \in 2 .. (i - 1)
      BY <3>1, <3>2
    <3>4. Comparable(rows[i], memory.scope) \/ \E k \in 2 .. (i - 1) : BeginsWith(rows[i].step, rows[k].step)
      BY <2>2, <3>2, <3>3
    <3> QED
      BY <3>4 DEF rows, i
  <2> QED
    BY <2>4, <2>5
<1> QED
  BY <1>1, EvidenceIsOfTheJob, PTL

\* The cause of termination is one of the four that apply, with its reason.
LEMMA TerminationCases ==
  ASSUME NEW record, NEW evidence, NEW messages, NEW count
  PROVE  LET cause == TerminationAssessment(record, evidence, messages, count)
             triggered == CustodianTriggered(evidence, messages, count)
             state == IF Known(record) THEN record.rows[1].state ELSE "none"
         IN  /\ cause = "custodian_triggered_process_termination"
                  => triggered /\ state \notin {"TIMEOUT", "OUT_OF_MEMORY"}
             /\ cause = "slurm_timeout" => state = "TIMEOUT"
             /\ cause = "slurm_out_of_memory" => state = "OUT_OF_MEMORY"
             /\ cause = "vasp_nonzero_exit_observed" => "nonzero_return_code" \in evidence.flags
             /\ state \notin {"TIMEOUT", "OUT_OF_MEMORY"} /\ triggered
                  => cause = "custodian_triggered_process_termination"
<1> DEFINE state == IF Known(record) THEN record.rows[1].state ELSE "none"
           triggered == CustodianTriggered(evidence, messages, count)
<1>1. TerminationAssessment(record, evidence, messages, count)
        = CASE state = "OUT_OF_MEMORY" -> "slurm_out_of_memory"
            [] state = "TIMEOUT" -> "slurm_timeout"
            [] OTHER -> IF triggered
                        THEN "custodian_triggered_process_termination"
                        ELSE IF "nonzero_return_code" \in evidence.flags
                        THEN "vasp_nonzero_exit_observed"
                        ELSE "unknown"
  BY DEF TerminationAssessment
<1> HIDE DEF state, triggered
<1>2. TerminationAssessment(record, evidence, messages, count)
        = IF state = "OUT_OF_MEMORY" THEN "slurm_out_of_memory"
          ELSE IF state = "TIMEOUT" THEN "slurm_timeout"
          ELSE IF triggered THEN "custodian_triggered_process_termination"
          ELSE IF "nonzero_return_code" \in evidence.flags THEN "vasp_nonzero_exit_observed"
          ELSE "unknown"
  BY <1>1
<1> QED
  BY <1>2 DEF state, triggered

\* What custodian.json repeats of a handler it shows to terminate VASP is two
\* records of one correction, of a handler that does.
LEMMA RepeatedIsTwice ==
  ASSUME NEW evidence, evidence.corrections \in Seq(Corrections), RepeatedTerminating(evidence)
  PROVE  \E handler \in Monitors : SameTwice(evidence.corrections, {handler})
<1> DEFINE corrections == evidence.corrections
<1>1. PICK correction \in RepeatedInterventions(corrections) : Terminates(correction, corrections)
  BY DEF RepeatedTerminating
<1>2. PICK i \in DOMAIN corrections :
        /\ correction = corrections[i]
        /\ \E j \in DOMAIN corrections \ {i} : corrections[j] = corrections[i]
  BY <1>1 DEF RepeatedInterventions
<1>3. \A k \in DOMAIN corrections : corrections[k] \in Corrections
  OBVIOUS
<1>4. correction.handler \in Monitors
  <2>1. CASE correction.handler = "frozen"
    BY <2>1, HandlersAssumption
  <2>2. CASE \E k \in DOMAIN corrections :
               corrections[k].handler = correction.handler /\ corrections[k].terminating
    BY <1>3, <2>2, HandlersAssumption
  <2> QED
    BY <1>1, <2>1, <2>2 DEF Terminates
<1>5. SameTwice(corrections, {correction.handler})
  BY <1>2 DEF SameTwice
<1> QED
  BY <1>4, <1>5

\* Two records of one correction come of two terminations by its handler.
LEMMA TwiceIsTerminated ==
  ASSUME WorldInv, NEW handler \in Monitors, SameTwice(custodian.corrections, {handler})
  PROVE  history.terminated[handler] > 1
<1>1. custodian.corrections \in Seq(Corrections) /\ history.terminated[handler] \in Nat
  BY DEF WorldInv, WorldType, CustodianType, HistoryType
<1>2. PICK i \in Of(handler, custodian.corrections), j \in Of(handler, custodian.corrections) : i # j
  BY DEF SameTwice, Of
<1>3. /\ Cardinality(Of(handler, custodian.corrections)) \in Nat
      /\ Cardinality(Of(handler, custodian.corrections)) > 1
  BY <1>1, <1>2, TwoRecords
<1>4. Cardinality(Of(handler, custodian.corrections)) + (IF pending = handler THEN 1 ELSE 0)
        = history.terminated[handler]
  BY DEF WorldInv, TerminatedInv
<1> QED
  BY <1>1, <1>3, <1>4

\* What is said of the end of the job did happen to it (custodian.py,
\* assess_termination_evidence).
THEOREM TerminationIsSupportedHolds == Spec => []TerminationIsSupported
<1>1. Inv => TerminationIsSupported
  <2> SUFFICES ASSUME Inv
               PROVE  /\ Termination = "custodian_triggered_process_termination"
                         => /\ \E handler \in Monitors : /\ SameTwice(custodian.corrections, {handler})
                                                         /\ history.terminated[handler] > 1
                            /\ got.calm => history.budget \/ job = "CANCELLED"
                      /\ Termination = "slurm_timeout" => job = "TIMEOUT"
                      /\ Termination = "slurm_out_of_memory" => history.oom
                      /\ Termination = "vasp_nonzero_exit_observed" => history.nonzero
    BY DEF TerminationIsSupported
  <2>1. GotInv /\ CalmInv /\ WorldInv /\ got \in GotType
    BY DEF Inv, ReaderInv, ReaderType
  <2>2. /\ Termination = "custodian_triggered_process_termination"
             => CustodianTriggered(got.custodian, got.messages, got.archives)
        /\ Termination = "custodian_triggered_process_termination" /\ Known(got.record)
             => got.record.rows[1].state \notin {"TIMEOUT", "OUT_OF_MEMORY"}
        /\ Termination = "slurm_timeout" => Known(got.record) /\ got.record.rows[1].state = "TIMEOUT"
        /\ Termination = "slurm_out_of_memory"
             => Known(got.record) /\ got.record.rows[1].state = "OUT_OF_MEMORY"
        /\ Termination = "vasp_nonzero_exit_observed" => "nonzero_return_code" \in got.custodian.flags
    BY TerminationCases DEF Termination
  <2>3. ASSUME Termination = "custodian_triggered_process_termination"
        PROVE  \E handler \in Monitors : /\ SameTwice(custodian.corrections, {handler})
                                         /\ history.terminated[handler] > 1
    <3>1. RepeatedTerminating(got.custodian) /\ got.custodian.corrections \in Seq(Corrections)
      BY <2>1, <2>2, <2>3 DEF CustodianTriggered, GotType, CustodianType
    <3>2. PICK handler \in Monitors : SameTwice(got.custodian.corrections, {handler})
      BY <3>1, RepeatedIsTwice
    <3>3. SameTwice(custodian.corrections, {handler})
      BY <2>1, <3>2 DEF SameTwice, GotInv, StartsWith
    <3> QED
      BY <2>1, <3>3, TwiceIsTerminated
  <2>4. Known(got.record) => 1 \in DOMAIN got.record.rows
    <3>1. got.record.rows \in Seq(Row)
      BY <2>1 DEF GotType
    <3> QED
      BY <3>1 DEF Known
  <2>5. ASSUME Termination = "custodian_triggered_process_termination", got.calm
        PROVE  history.budget \/ job = "CANCELLED"
    <3>1. "sigterm" \in got.messages
      BY <2>2, <2>5 DEF CustodianTriggered
    <3>2. JobOver /\ Has(stageLog, "sigterm") /\ job # "TIMEOUT"
      BY <2>1, <2>2, <2>5, <3>1 DEF CalmInv
    <3> QED
      BY <2>1, <3>2 DEF WorldInv, SignalInv
  <2> QED
    BY <2>1, <2>2, <2>3, <2>4, <2>5 DEF GotInv
<1> QED
  BY <1>1, EvidenceIsOfTheJob, PTL

\* A job Custodian gave up on, having terminated VASP and corrected it in one
\* way twice, is explained so, when all of it was read after it was over
\* (custodian.py, assess_termination_evidence).
THEOREM CustodianIsRecognisedHolds == Spec => []CustodianIsRecognised
<1>1. Inv => CustodianIsRecognised
  <2> SUFFICES ASSUME Inv, Done, faults = 0, got.calm, history.budget,
                      SameTwice(custodian.corrections, ShownToTerminate),
                      Last(custodian.corrections).handler \in Monitors,
                      Len(stageLog) <= Limit
               PROVE  Termination = "custodian_triggered_process_termination"
    BY DEF CustodianIsRecognised
  <2>1. ~Left("custodian") /\ ~Left("stage")
    BY DEF Done, Left, Has
  <2>2. /\ job = "FAILED" /\ custodian.present /\ custodian.flags = {"max_errors"}
        /\ Has(stageLog, "sigterm") /\ stageLog \in Seq(LineKind)
    BY DEF Inv, WorldInv, SignalInv, WorldType
  <2>3. /\ Known(got.record) /\ got.record.rows[1].state = "FAILED"
        /\ got.custodian.corrections = custodian.corrections
        /\ got.custodian.flags = {"max_errors"}
        /\ DiagnosticMessages(stageLog) \subseteq got.messages
    BY <2>1, <2>2 DEF Inv, ReaderInv, CalmInv
  <2>4. "sigterm" \in got.messages
    BY <2>2, <2>3, ShortLogIsKept DEF Has
  <2>5. RepeatedTerminating(got.custodian)
    <3> DEFINE corrections == custodian.corrections
    <3>1. PICK i \in DOMAIN corrections, j \in DOMAIN corrections :
            i # j /\ corrections[i] = corrections[j] /\ corrections[i].handler \in ShownToTerminate
      BY DEF SameTwice
    <3>2. corrections[i] \in RepeatedInterventions(corrections)
      BY <3>1 DEF RepeatedInterventions
    <3>3. Terminates(corrections[i], corrections)
      <4>1. ASSUME corrections[i].handler # "frozen"
            PROVE  \E k \in DOMAIN corrections :
                      corrections[k].handler = corrections[i].handler /\ corrections[k].terminating
        <5>1. PICK c \in ToSet(corrections) : c.terminating /\ c.handler = corrections[i].handler
          BY <3>1, <4>1 DEF ShownToTerminate
        <5>2. PICK k \in DOMAIN corrections : c = corrections[k]
          BY <5>1 DEF ToSet
        <5> QED
          BY <5>1, <5>2
      <4> QED
        BY <4>1 DEF Terminates
    <3> QED
      BY <2>3, <3>2, <3>3 DEF RepeatedTerminating
  <2>6. CustodianTriggered(got.custodian, got.messages, got.archives)
    BY <2>3, <2>4, <2>5 DEF CustodianTriggered, BudgetFlags
  <2> QED
    BY <2>3, <2>6, TerminationCases DEF Termination
<1> QED
  BY <1>1, EvidenceIsOfTheJob, PTL
=============================================================================
