------------------------------ MODULE Evidence ------------------------------
(***************************************************************************)
(* How file contents become evidence, in both modes: what a read of one    *)
(* file yields, and what StageTrajectoryObservation makes of the reads of  *)
(* a stage.  a is a function from slots, pairs of a stage and a file, to   *)
(* what was acquired.                                                      *)
(***************************************************************************)
EXTENDS WorkflowRun

\* "listed": the batch says the file is there but brought no contents.
Acquired == [how : {"unread", "listed", "missing", "unreadable", "read"},
             content : Content]

Nothing == [how |-> "unread", content |-> Absent]

\* A sound read of what is on disk.
Reading(content) ==
    [how |-> IF content.present THEN "read" ELSE "missing", content |-> content]

-----------------------------------------------------------------------------

Got(a, s, f) == a[<<s, f>>].how = "read"

\* A vasprun.xml that is still open does not parse.
Parsed(a, s, f) == Got(a, s, f) /\ a[<<s, f>>].content.closed

\* EDIFF, EDIFFG and ISIF come from INCAR or from vasprun.xml.
HasCriteria(a, s) == Got(a, s, "incar") \/ Parsed(a, s, "vasprun")

OszicarSteps(a, s) ==
    IF Got(a, s, "oszicar") THEN a[<<s, "oszicar">>].content.steps ELSE 0

VasprunSteps(a, s) ==
    IF Parsed(a, s, "vasprun") THEN a[<<s, "vasprun">>].content.steps ELSE 0

\* Mutant: the number of force blocks is not compared.
AlignedAnyway(a, s) == Got(a, s, "outcar") /\ a[<<s, "outcar">>].content.steps > 0

Aligned(a, s) ==
    /\ Got(a, s, "outcar")
    /\ OszicarSteps(a, s) > 0
    /\ a[<<s, "outcar">>].content.steps = OszicarSteps(a, s)

ForceMeasure(a, s, source) ==
    IF HasCriteria(a, s) /\ source # "none"
    THEN a[<<s, source>>].content.force
    ELSE "none"

CycleMeasure(a, s) ==
    IF HasCriteria(a, s) /\ Got(a, s, "oszicar")
    THEN a[<<s, "oszicar">>].content.cycle
    ELSE "none"

VasprunFlag(a, s, f, flag) ==
    IF Parsed(a, s, f) THEN a[<<s, f>>].content[flag] ELSE "none"

-----------------------------------------------------------------------------
(* What the files themselves, read at one instant, support.                *)

\* Forces of OUTCAR count only beside as many steps in OSZICAR.
OutcarForce(s, force) ==
    /\ files[s]["outcar"].force = force
    /\ files[s]["outcar"].steps = files[s]["oszicar"].steps

\* Evidence on disk for, and against, the completion of a stage.
ForElectronic(s) ==
    \/ files[s]["vasprun"].flagE = "true"
    \/ files[s]["oszicar"].cycle = "reached"

ForIonic(s) ==
    \/ files[s]["vasprun"].flagI = "true"
    \/ files[s]["vasprun"].force = "reached"
    \/ s \notin Cell /\ OutcarForce(s, "reached")

Against(s) ==
    \/ \A f \in {"oszicar", "vasprun", "outcar"} : ~files[s][f].present
    \/ files[s]["vasprun"].flagE = "false"
    \/ files[s]["oszicar"].cycle = "above"
    \/ s \in Relax /\ \/ files[s]["vasprun"].flagI = "false"
                      \/ files[s]["vasprun"].force = "above"
                      \/ OutcarForce(s, "above")

SupportedCompletion ==
    \A s \in Stages : ForElectronic(s) /\ (s \in Relax => ForIonic(s))

SupportedGap == \E s \in Stages : Against(s)
=============================================================================
