--------------------------- MODULE MCJobResolution ---------------------------
(* Two attempts in one run directory, written in ways BMD Compute has used. *)
EXTENDS JobResolution, TLC

CONSTANTS j1, j2, a1, a2, r1, r2

TwoJobs == {j1, j2}
TwoAttempts == {a1, a2}
OneRun == {r1}

Interchangeable == Permutations(TwoJobs) \cup Permutations(TwoAttempts)

Stage(prefix, index) == [prefix |-> prefix, index |-> index]

V1 == [schema |-> "own", version |-> "one", spec |-> "stages", stages |-> 2,
       dirs |-> {Stage("stage", 1), Stage("stage", 2)}, fields |-> "sound",
       named |-> "attempt", attemptState |-> "logs", large |-> FALSE,
       provenance |-> "one", treatments |-> "object", declared |-> TRUE]

\* Written before the contracts existed; the second does not name attempts.
Legacy == [V1 EXCEPT !.schema = "none", !.version = "none",
                     !.provenance = "unversioned"]

LegacyUnnamed == [Legacy EXCEPT !.named = "run", !.stages = 1, !.dirs = None,
                                !.declared = FALSE]

\* Two directories of the first of two stages.
StageTwice == [V1 EXCEPT !.dirs = {Stage("stage", 1), Stage("relax", 1)}]

FormsUsed == {V1, Legacy, LegacyUnnamed, StageTwice}

Reporting == {[schema |-> "own", version |-> "one", status |-> "passed",
               problems |-> FALSE]}
=============================================================================
