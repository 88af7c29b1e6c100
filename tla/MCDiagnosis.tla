---------------------------- MODULE MCDiagnosis ----------------------------
(* A small instance of Diagnosis for TLC.                                  *)
EXTENDS Diagnosis

\* Frozen VASP is corrected in two ways, one handler is known to terminate it
\* by its configuration only, and one looks at VASP once it has ended.
MCCorrections == {[handler |-> "frozen", terminating |-> FALSE, remedy |-> "symprec"],
                  [handler |-> "frozen", terminating |-> FALSE, remedy |-> "algo"],
                  [handler |-> "drift", terminating |-> TRUE, remedy |-> "prec"],
                  [handler |-> "check", terminating |-> FALSE, remedy |-> "nelm"]}

MCMonitors == {"frozen", "drift"}

\* The third step has a number that begins with that of the second.
MCStepIds == <<0, 1, 10>>

\* Each can be held against memory of one scope only, and has more RSS than
\* the one before.
MCFigures == <<[rss |-> 8, tasks |-> 1, cpus |-> 4, nodes |-> 1],
               [rss |-> 9, tasks |-> 4, cpus |-> 4, nodes |-> 1],
               [rss |-> 10, tasks |-> 1, cpus |-> 4, nodes |-> 1]>>

MCMemories == {[scope |-> "job_total", size |-> 10], [scope |-> "per_cpu", size |-> 10]}
=============================================================================
