---------------------------- MODULE Explanations ----------------------------
(***************************************************************************)
(* How bmd-check explains the end of a job: whether memory ran out, and    *)
(* what terminated VASP.  The inputs are the rows of sacct, the lines of   *)
(* bounded logs, custodian.json and the number of error archives.          *)
(*                                                                         *)
(* A line of a log is the kind of message it holds.  Sizes of memory are   *)
(* plain numbers, 0 where sacct left the field blank.                      *)
(***************************************************************************)
EXTENDS Integers, Sequences, FiniteSets, SequencesExt

CONSTANT Limit  \* the lines kept of one log

ASSUME LimitAssumption == Limit \in Nat \ {0}

-----------------------------------------------------------------------------
(* Logs.                                                                   *)

LineKind == {"zbrent", "brmix", "frozen_error", "vasp_error", "alloc", "oom", "sigterm"}

\* Mutant: no signals among the words.
DiagnosticWordsOfErrors == LineKind \ {"sigterm"}

\* The vocabularies: of any failure, of memory, of termination.
DiagnosticWords == LineKind
OomWords == {"alloc", "oom"}
TerminationWords == {"sigterm"}

\* The first Limit different lines that have one of the words: a line is
\* among them when fewer than Limit others came before it.
CandidateLines(lines, words) ==
    LET kept == {i \in DOMAIN lines :
                    /\ lines[i] \in words
                    /\ Cardinality({lines[j] : j \in 1..(i - 1)} \cap words) < Limit}
    IN  {lines[i] : i \in kept}

\* What memory and termination are judged by, in a log that is searched for
\* failures of any kind first.
DiagnosticMessages(lines) == CandidateLines(lines, DiagnosticWords)

\* Mutant: every log is searched for failures of any kind first.
RuntimeMessagesOfAnyFailure(lines) == DiagnosticMessages(lines)

\* A log that submission.json declares, read whole by job mode, is searched
\* for each vocabulary by itself.
RuntimeMessages(lines) ==
    CandidateLines(lines, OomWords) \cup CandidateLines(lines, TerminationWords)

-----------------------------------------------------------------------------
(* sacct.  A row is of the job (step NoStep) or of a step.                 *)

NoStep == -1
NoSacct == [rows |-> <<>>]

\* The last row of the job, or failing that its first step, and the steps.
ParseSacct(parents, steps) ==
    IF parents \o steps = <<>>
    THEN NoSacct
    ELSE [rows |-> <<IF parents # <<>> THEN Last(parents) ELSE Head(steps)>> \o steps]

Known(record) == record.rows # <<>>

\* The first row with the largest of the RSS that are known, 0 for none.
LargestRow(record) ==
    LET rows == record.rows
        measured == {i \in DOMAIN rows : rows[i].rss > 0}
        largest == {i \in measured : \A j \in measured : rows[i].rss >= rows[j].rss}
    IN  IF measured = {} THEN 0 ELSE CHOOSE i \in largest : \A j \in largest : i <= j

\* The text of a step number begins with that of another: 10 with 1.
BeginsWith(number, start) ==
    \/ number = start
    \/ start > 0 /\ \E tens \in {10, 100, 1000} : number \div tens = start

\* Mutant: the first step is taken for every step.
FirstStepRow(record, i) == IF i = 1 THEN 1 ELSE 2

\* The row the largest RSS is said to be of: the row of the job when it is
\* its own, else the first step whose id is found in the text of the source.
MemorySourceRow(record, i) ==
    IF i = 1
    THEN 1
    ELSE CHOOSE j \in 2..Len(record.rows) :
            /\ BeginsWith(record.rows[i].step, record.rows[j].step)
            /\ \A k \in 2..(j - 1) :
                  ~BeginsWith(record.rows[i].step, record.rows[k].step)

\* Whether the RSS of a task can be held against memory of this scope.
Comparable(row, scope) ==
    CASE scope = "job_total" -> row.tasks = 1
      [] scope = "per_cpu" -> row.tasks > 0 /\ row.tasks = row.cpus
      [] scope = "per_node" -> row.tasks = 1 /\ row.nodes = 1
      [] OTHER -> FALSE

\* memory is what was allocated, or requested: its scope and its size.
UtilizationKnown(record, memory) ==
    /\ Known(record)
    /\ LargestRow(record) # 0
    /\ memory.size > 0
    /\ Comparable(record.rows[MemorySourceRow(record, LargestRow(record))], memory.scope)

MemoryPressure(record, memory) ==
    /\ UtilizationKnown(record, memory)
    /\ 100 * record.rows[LargestRow(record)].rss >= 90 * memory.size

-----------------------------------------------------------------------------
(* Memory.  messages are those of every log, inspected tells whether there *)
(* was one.                                                                *)

\* Mutant: only the row of the job is looked at.
ExplicitOfTheJob(record, messages) ==
    \/ Known(record) /\ record.rows[1].state = "OUT_OF_MEMORY"
    \/ "oom" \in messages

ExplicitOom(record, messages) ==
    \/ \E i \in DOMAIN record.rows : record.rows[i].state = "OUT_OF_MEMORY"
    \/ "oom" \in messages

OomAssessment(record, memory, messages, inspected) ==
    CASE ExplicitOom(record, messages) -> "ESTABLISHED"
      [] ~ExplicitOom(record, messages)
         /\ ("alloc" \in messages \/ MemoryPressure(record, memory)) -> "POSSIBLE"
      [] OTHER -> IF Known(record) /\ (LargestRow(record) # 0 \/ inspected)
                  THEN "NO_EVIDENCE"
                  ELSE "INSUFFICIENT"

-----------------------------------------------------------------------------
(* Termination.                                                            *)

NoCustodian == [present |-> FALSE, corrections |-> <<>>, flags |-> {}]

\* custodian.json is a sequence of attempts, one for each job of Custodian,
\* with the corrections and the terminal flags of each.  A correction is a
\* record of its handler, of what the configuration of the handler says of
\* is_terminating, and of the errors and actions (remedy).
ParseCustodian(attempts) ==
    [present |-> TRUE,
     corrections |-> FlattenSeq([i \in DOMAIN attempts |-> attempts[i].corrections]),
     flags |-> UNION {attempts[i].flags : i \in DOMAIN attempts}]

BudgetFlags == {"max_errors"}

\* Those that were made more than once, in one attempt or in several: with
\* the same handler, configuration, errors and actions.
RepeatedInterventions(corrections) ==
    {corrections[i] : i \in {j \in DOMAIN corrections :
        \E k \in DOMAIN corrections \ {j} : corrections[k] = corrections[j]}}

\* Mutant: only the handler of frozen jobs is known to terminate VASP.
TerminatesIfFrozen(correction, corrections) == correction.handler = "frozen"

\* Whether the handler of a correction is known to terminate VASP.
Terminates(correction, corrections) ==
    \/ correction.handler = "frozen"
    \/ \E i \in DOMAIN corrections :
          corrections[i].handler = correction.handler /\ corrections[i].terminating

\* Mutant: a repeated correction of any handler will do.
RepeatedAny(custodian) == RepeatedInterventions(custodian.corrections) # {}

RepeatedTerminating(custodian) ==
    \E correction \in RepeatedInterventions(custodian.corrections) :
        Terminates(correction, custodian.corrections)

CustodianTriggered(custodian, messages, archives) ==
    /\ "sigterm" \in messages
    /\ RepeatedTerminating(custodian)
    /\ custodian.flags \cap BudgetFlags # {} \/ archives > 1

TerminationAssessment(record, custodian, messages, archives) ==
    LET state == IF Known(record) THEN record.rows[1].state ELSE "none"
    IN  CASE state = "OUT_OF_MEMORY" -> "slurm_out_of_memory"
          [] state = "TIMEOUT" -> "slurm_timeout"
          [] OTHER -> IF CustodianTriggered(custodian, messages, archives)
                      THEN "custodian_triggered_process_termination"
                      ELSE IF "nonzero_return_code" \in custodian.flags
                      THEN "vasp_nonzero_exit_observed"
                      ELSE "unknown"
=============================================================================
