-------------------------- MODULE AcquisitionCache --------------------------
(***************************************************************************)
(* RemoteAcquisitionCache and retrieve_remote_file beside files that grow, *)
(* are rewritten, appear and vanish.  prime sends the requests that the    *)
(* cache cannot answer in batches; one batch is a shell script that takes  *)
(* its items one after the other, and asks the size of a file before it    *)
(* reads that many bytes of it.                                            *)
(*                                                                         *)
(* Contents are the generation of a file and how many bytes of it; within  *)
(* a generation a file only grows.  Only requests of kind "file" are       *)
(* modelled; directories and archives have no contents.  Presence tests,   *)
(* sizes and tails change nothing and appear only as readers of a record.  *)
(***************************************************************************)
EXTENDS Integers, FiniteSets, FiniteSetsExt

CONSTANTS
    Paths,      \* authorized paths
    Limits,     \* the read limits requested; 0 asks for metadata only
    Total,      \* _MAX_BATCH_TOTAL_BYTES
    MaxBatch,   \* _MAX_ACQUISITION_REQUESTS
    MaxSize,    \* size of a file (bound)
    MaxGen      \* generations of a file (bound)

ASSUME SizesAssumption ==
    /\ Limits \subseteq Nat
    /\ Total \in Nat
    /\ MaxBatch \in Nat \ {0}
    /\ MaxSize \in Nat
    /\ MaxGen \in Nat

ASSUME PathsAssumption == IsFiniteSet(Paths)

VARIABLES
    disk,       \* per path, the file
    phase,      \* where prime is
    wanted,     \* per path, the read limit requested
    pending,    \* paths still to be described
    batch,      \* the items of the running batch still to be described
    statted,    \* the item whose size was asked, with that size
    used,       \* bytes the running batch has spent
    output,     \* what the running batch has described so far
    records,    \* _records
    disabled,   \* _disabled
    given,      \* history: per path, the contents retrieve_remote_file gave
    since,      \* history: the files at the start of the invocation
    absent      \* history: the paths that were seen absent since then

cache == <<records, disabled>>
priming == <<phase, wanted, pending, batch, statted, used, output>>
history == <<since, absent>>
vars == <<disk, priming, cache, given, history>>

File    == [present : BOOLEAN, gen : Nat, size : Nat]
Content == [gen : Nat, length : Nat]

\* size and contents are None (empty) or one value.
Entry == [known : BOOLEAN, present : BOOLEAN, size : SUBSET Nat,
          contents : SUBSET Content]

Unknown == [known |-> FALSE, present |-> FALSE, size |-> {}, contents |-> {}]
Missing == [Unknown EXCEPT !.known = TRUE]

\* Present, deferred, or not readable: the size alone, if that.
Listed(size) == [known |-> TRUE, present |-> TRUE, size |-> size, contents |-> {}]

Read(c) == [Listed({c.length}) EXCEPT !.contents = {c}]

Nothing == [p \in Paths |-> Unknown]
NoLimit == [p \in Paths |-> 0]

\* The paths without a file now.
Gone == {p \in Paths : ~disk[p].present}

Init ==
    /\ disk \in [Paths -> {[present |-> FALSE, gen |-> 0, size |-> 0],
                           [present |-> TRUE, gen |-> 0, size |-> 0]}]
    /\ phase = "idle"
    /\ wanted = NoLimit
    /\ pending = {} /\ batch = {} /\ statted = {} /\ used = 0
    /\ output = Nothing
    /\ records = Nothing
    /\ disabled = FALSE
    /\ given = [p \in Paths |-> {}]
    /\ since = disk
    /\ absent = Gone

-----------------------------------------------------------------------------
(* The files.                                                              *)

Become(p, file) ==
    /\ disk' = [disk EXCEPT ![p] = file]
    /\ absent' = absent \cup Gone'
    /\ UNCHANGED <<priming, cache, given, since>>

Append(p) ==
    /\ disk[p].present
    /\ \E size \in disk[p].size + 1 .. MaxSize : Become(p, [disk[p] EXCEPT !.size = size])

\* The file is created, or truncated and written anew.
Rewrite(p) ==
    /\ disk[p].gen < MaxGen
    /\ Become(p, [present |-> TRUE, gen |-> disk[p].gen + 1, size |-> 0])

Remove(p) ==
    /\ disk[p].present
    /\ Become(p, [disk[p] EXCEPT !.present = FALSE, !.size = 0])

-----------------------------------------------------------------------------
(* prime.                                                                  *)

\* Mutant: what was read already is read again.
NeededAgain(p, limit) ==
    \/ ~records[p].known
    \/ limit > 0 /\ records[p].present

\* A path without a record, or present contents that are wanted only now.
Needed(p, limit) ==
    \/ ~records[p].known
    \/ limit > 0 /\ records[p].present /\ records[p].contents = {}

\* Several requests for one path are merged into the one with the highest
\* limit: limit is what is left of them.
Prime ==
    /\ phase = "idle"
    /\ ~disabled
    /\ \E asked \in SUBSET Paths, limit \in [Paths -> Limits] :
          /\ pending' = {p \in asked : Needed(p, limit[p])}
          /\ wanted' = [p \in Paths |-> IF p \in pending' THEN limit[p] ELSE 0]
    /\ pending' # {}
    /\ phase' = "priming"
    /\ UNCHANGED <<disk, batch, statted, used, output, cache, given, history>>

\* The list is cut every MaxBatch requests; directories and archives in it
\* leave a batch with fewer files.
StartBatch ==
    /\ phase = "priming"
    /\ pending # {}
    /\ \E items \in SUBSET pending :
          /\ Cardinality(items) \in 1 .. MaxBatch
          /\ batch' = items
          /\ pending' = pending \ items
    /\ phase' = "batch"
    /\ used' = 0
    /\ output' = Nothing
    /\ UNCHANGED <<disk, wanted, statted, cache, given, history>>

Answer(p, entry) ==
    /\ output' = [output EXCEPT ![p] = entry]
    /\ batch' = batch \ {p}

DescribeMissing(p) ==
    /\ phase = "batch" /\ p \in batch /\ statted = {}
    /\ ~disk[p].present
    /\ Answer(p, Missing)
    /\ UNCHANGED <<disk, phase, wanted, pending, statted, used, cache, given, history>>

WithinLimits(p) ==
    /\ wanted[p] > 0
    /\ disk[p].size <= wanted[p]
    /\ used + disk[p].size <= Total

\* Metadata only, or deferred; stat itself may fail.
DescribeListed(p) ==
    /\ phase = "batch" /\ p \in batch /\ statted = {}
    /\ disk[p].present
    /\ \/ ~WithinLimits(p) /\ Answer(p, Listed({disk[p].size}))
       \/ Answer(p, Listed({}))
    /\ UNCHANGED <<disk, phase, wanted, pending, statted, used, cache, given, history>>

DescribeSize(p) ==
    /\ phase = "batch" /\ p \in batch /\ statted = {}
    /\ disk[p].present
    /\ WithinLimits(p)
    /\ statted' = {<<p, disk[p].size>>}
    /\ UNCHANGED <<disk, phase, wanted, pending, batch, used, output, cache, given, history>>

\* Mutant: the whole file is read, whatever its size was.
TakeWhole(p, size) == Read([gen |-> disk[p].gen, length |-> disk[p].size])

\* Mutant: a read that came out shorter than the size is kept.
TakeShort(p, size) ==
    [Listed({size}) EXCEPT
        !.contents = {[gen |-> disk[p].gen, length |-> Min({size, disk[p].size})]}]

\* head -c: when fewer bytes are left than were promised, the lengths
\* differ and the contents are dropped.
Take(p, size) ==
    IF disk[p].size >= size
    THEN Read([gen |-> disk[p].gen, length |-> size])
    ELSE Listed({size})

\* Mutant: the bytes are taken off what was used.
ReadItemBackwards ==
    /\ phase = "batch"
    /\ \E item \in statted :
          /\ Answer(item[1], Take(item[1], item[2]))
          /\ used' = used - item[2]
    /\ statted' = {}
    /\ UNCHANGED <<disk, phase, wanted, pending, cache, given, history>>

ReadItem ==
    /\ phase = "batch"
    /\ \E item \in statted :
          /\ Answer(item[1], Take(item[1], item[2]))
          /\ used' = used + item[2]
    /\ statted' = {}
    /\ UNCHANGED <<disk, phase, wanted, pending, cache, given, history>>

\* Every item is described, and only then is anything stored.
EndBatch ==
    /\ phase = "batch"
    /\ batch = {}
    /\ records' = [p \in Paths |-> IF output[p].known THEN output[p] ELSE records[p]]
    /\ phase' = IF pending = {} THEN "idle" ELSE "priming"
    /\ wanted' = IF pending = {} THEN NoLimit ELSE wanted
    /\ output' = Nothing
    /\ used' = 0
    /\ UNCHANGED <<disk, pending, batch, statted, disabled, given, history>>

\* Mutant: what a failed batch did not describe is taken to be missing.
LoseBatchAsMissing ==
    /\ phase = "batch"
    /\ records' = [p \in Paths |-> IF p \in batch THEN Missing ELSE records[p]]
    /\ disabled' = TRUE
    /\ phase' = "idle"
    /\ pending' = {} /\ batch' = {} /\ statted' = {} /\ used' = 0
    /\ wanted' = NoLimit
    /\ output' = Nothing
    /\ UNCHANGED <<disk, given, history>>

\* Timeout, lost connection, or output that does not parse: nothing of this
\* batch is stored, and no batch follows.
LoseBatch ==
    /\ phase = "batch"
    /\ disabled' = TRUE
    /\ phase' = "idle"
    /\ pending' = {} /\ batch' = {} /\ statted' = {} /\ used' = 0
    /\ wanted' = NoLimit
    /\ output' = Nothing
    /\ UNCHANGED <<disk, records, given, history>>

-----------------------------------------------------------------------------
(* Readers.                                                                *)

Give(p, contents) == given' = [given EXCEPT ![p] = @ \cup contents]

RetrieveCached(p) ==
    /\ phase = "idle"
    /\ records[p].contents # {}
    /\ Give(p, records[p].contents)
    /\ UNCHANGED <<disk, priming, cache, history>>

\* A record that says missing raises; a failed transfer changes nothing.
\* What is transferred is remembered.
RetrieveRemote(p) ==
    /\ phase = "idle"
    /\ records[p].contents = {}
    /\ records[p].known => records[p].present
    /\ disk[p].present
    /\ LET c == [gen |-> disk[p].gen, length |-> disk[p].size]
       IN  Give(p, {c}) /\ records' = [records EXCEPT ![p] = Read(c)]
    /\ UNCHANGED <<disk, priming, disabled, history>>

\* Mutant: the cache outlives the invocation.
KeepCache ==
    /\ phase = "idle"
    /\ UNCHANGED <<cache, disk, priming>>
    /\ given' = [p \in Paths |-> {}]
    /\ since' = disk
    /\ absent' = Gone

\* Another invocation of bmd-check has a cache of its own.
Invoke ==
    /\ phase = "idle"
    /\ records' = Nothing
    /\ disabled' = FALSE
    /\ given' = [p \in Paths |-> {}]
    /\ since' = disk
    /\ absent' = Gone
    /\ UNCHANGED <<disk, priming>>

-----------------------------------------------------------------------------

Disk == \E p \in Paths : Append(p) \/ Rewrite(p) \/ Remove(p)

Batch ==
    \/ StartBatch \/ ReadItem \/ EndBatch \/ LoseBatch
    \/ \E p \in Paths : DescribeMissing(p) \/ DescribeListed(p) \/ DescribeSize(p)

Retrieve == \E p \in Paths : RetrieveCached(p) \/ RetrieveRemote(p)

Next == Disk \/ Prime \/ Batch \/ Retrieve \/ Invoke

Spec == Init /\ [][Next]_vars

-----------------------------------------------------------------------------
(* Properties.                                                             *)

\* The cache, the running batch and the history keep their shapes: sizes
\* and byte counts stay natural numbers (_RemoteAcquisitionRecord).
TypeOK ==
    /\ disk \in [Paths -> File]
    /\ phase \in {"idle", "priming", "batch"}
    /\ wanted \in [Paths -> Nat]
    /\ pending \subseteq Paths
    /\ batch \subseteq Paths
    /\ statted \subseteq Paths \X Nat
    /\ used \in Nat
    /\ output \in [Paths -> Entry]
    /\ records \in [Paths -> Entry]
    /\ disabled \in BOOLEAN
    /\ given \in [Paths -> SUBSET Content]
    /\ since \in [Paths -> File]
    /\ absent \subseteq Paths

\* However a file changes, and however often it is asked for by batches and
\* by single reads, an invocation is given the same contents of it every
\* time (_pending_requests, remember_file).
OneVersion ==
    \A p \in Paths : \A c, d \in given[p] : c = d

\* c is no older than file, and no newer.
NoOlder(c, file) ==
    \/ c.gen > file.gen
    \/ c.gen = file.gen /\ (file.present => c.length >= file.size)

NoNewer(c, file) ==
    \/ c.gen < file.gen
    \/ c.gen = file.gen /\ (file.present => c.length <= file.size)

\* What the cache holds of a file was in the file during this invocation:
\* neither older than its start nor newer than the file is now.
ContentsWereThere ==
    \A p \in Paths : \A c \in records[p].contents :
        NoOlder(c, since[p]) /\ NoNewer(c, disk[p])

\* A file that the cache calls missing was absent during this invocation:
\* no failure of a batch is ever taken for absence.
AbsenceWasSeen ==
    \A p \in Paths : records[p].known /\ ~records[p].present => p \in absent

\* The size and the presence on record are those of the contents on record,
\* although they were taken at different times (_parse_acquisition_output).
RecordsAgree ==
    \A p \in Paths : \A c \in records[p].contents :
        records[p].present /\ records[p].size = {c.length}

\* The bytes of p that the running batch has brought, each by its place, and
\* those of all files.
BytesOf(p) == {p} \X UNION {1 .. c.length : c \in output[p].contents}

Brought == UNION {BytesOf(p) : p \in Paths}

\* No batch brings more than its limits, although files grow between the
\* question for their size and the read.
BatchWithinLimits ==
    /\ Cardinality(Brought) <= Total
    /\ \A p \in Paths : Cardinality(BytesOf(p)) <= wanted[p]
=============================================================================
