------------------------ MODULE RemoteAccess_proofs -------------------------
(***************************************************************************)
(* Theorems about the acquisition cache and about the SSH session that     *)
(* its requests go through, each for every instance and by itself.         *)
(*                                                                         *)
(* The cache keeps its types; what it calls missing was absent; and an     *)
(* invocation is given one version of a file.  For the last two the parts  *)
(* of prime matter: a path on its way through a batch has no contents on   *)
(* record, so that what the batch brings replaces nothing anyone was       *)
(* given, and what the batch has found missing was seen missing.           *)
(***************************************************************************)
EXTENDS AcquisitionCache, SshSession, FiniteSetTheorems, TLAPS

\* The shape of an entry: the constructors of the module make entries.
LEMMA EntryType ==
    /\ Unknown \in Entry
    /\ Missing \in Entry
    /\ \A size \in SUBSET Nat : Listed(size) \in Entry
    /\ \A c \in Content : Read(c) \in Entry
<1>1. Unknown \in Entry
  BY DEF Unknown, Entry
<1>2. Missing \in Entry
  BY <1>1 DEF Missing, Unknown, Entry
<1>3. \A size \in SUBSET Nat : Listed(size) \in Entry
  BY DEF Listed, Entry
<1>4. ASSUME NEW c \in Content PROVE Read(c) \in Entry
  <2>1. c.length \in Nat
    BY DEF Content
  <2>2. {c.length} \in SUBSET Nat /\ {c} \in SUBSET Content
    BY <2>1
  <2> QED
    BY <1>3, <2>2 DEF Read, Listed, Entry
<1> QED
  BY <1>1, <1>2, <1>3, <1>4

\* What a read brings is an entry: at most the bytes that were announced.
LEMMA TakeType ==
  ASSUME NEW p \in Paths, NEW size \in Nat, disk \in [Paths -> File]
  PROVE  Take(p, size) \in Entry
<1>1. disk[p].gen \in Nat /\ disk[p].size \in Nat
  BY DEF File
<1>2. [gen |-> disk[p].gen, length |-> size] \in Content
  BY <1>1 DEF Content
<1>3. CASE disk[p].size >= size
  BY <1>2, <1>3, EntryType DEF Take
<1>4. CASE ~(disk[p].size >= size)
  <2>1. {size} \in SUBSET Nat
    OBVIOUS
  <2> QED
    BY <1>4, <2>1, EntryType DEF Take
<1> QED
  BY <1>3, <1>4

-----------------------------------------------------------------------------
(* Types.                                                                  *)

\* The cache starts with no entry.
LEMMA TypeInit == Init => TypeOK
<1> SUFFICES ASSUME Init PROVE TypeOK
  OBVIOUS
<1>1. disk \in [Paths -> File]
  <2>1. {[present |-> FALSE, gen |-> 0, size |-> 0],
         [present |-> TRUE, gen |-> 0, size |-> 0]} \subseteq File
    BY DEF File
  <2> QED
    BY <2>1 DEF Init
<1>2. Nothing \in [Paths -> Entry]
  BY EntryType DEF Nothing
<1>3. Gone \subseteq Paths /\ NoLimit \in [Paths -> Nat]
  BY DEF Gone, NoLimit
<1> QED
  BY <1>1, <1>2, <1>3 DEF Init, TypeOK

\* A file is written, created or removed.
LEMMA TypeDisk == TypeOK /\ Disk => TypeOK'
<1> SUFFICES ASSUME TypeOK, NEW p \in Paths, Append(p) \/ Rewrite(p) \/ Remove(p)
             PROVE  TypeOK'
  BY DEF Disk
<1>0. disk \in [Paths -> File] /\ disk[p] \in File
  BY DEF TypeOK
<1>1. ASSUME NEW file \in File, Become(p, file) PROVE TypeOK'
  <2>1. disk' \in [Paths -> File]
    BY <1>0, <1>1 DEF Become
  <2>2. absent' \subseteq Paths
    BY <1>1 DEF Become, Gone, TypeOK
  <2> QED
    BY <1>1, <2>1, <2>2 DEF Become, TypeOK, priming, cache
<1>2. CASE Append(p)
  <2>1. PICK size \in disk[p].size + 1 .. MaxSize :
          Become(p, [disk[p] EXCEPT !.size = size])
    BY <1>2 DEF Append
  <2>2. size \in Nat
    BY <1>0, SizesAssumption DEF File
  <2>3. [disk[p] EXCEPT !.size = size] \in File
    BY <1>0, <2>2 DEF File
  <2> QED
    BY <2>1, <2>3, <1>1
<1>3. CASE Rewrite(p)
  <2>1. [present |-> TRUE, gen |-> disk[p].gen + 1, size |-> 0] \in File
    BY <1>0 DEF File
  <2> QED
    BY <1>3, <2>1, <1>1 DEF Rewrite
<1>4. CASE Remove(p)
  <2>1. [disk[p] EXCEPT !.present = FALSE, !.size = 0] \in File
    BY <1>0 DEF File
  <2> QED
    BY <1>4, <2>1, <1>1 DEF Remove
<1> QED
  BY <1>2, <1>3, <1>4

\* A batch starts, describes, is stored or is lost.
LEMMA TypeBatch == TypeOK /\ (Prime \/ Batch) => TypeOK'
<1> SUFFICES ASSUME TypeOK, Prime \/ Batch PROVE TypeOK'
  OBVIOUS
<1> USE DEF TypeOK
<1>n. Nothing \in [Paths -> Entry] /\ NoLimit \in [Paths -> Nat]
  BY EntryType DEF Nothing, NoLimit
<1>a. ASSUME NEW p \in Paths, NEW entry \in Entry, Answer(p, entry)
      PROVE  output' \in [Paths -> Entry] /\ batch' \subseteq Paths
  BY <1>a DEF Answer
<1>1. CASE Prime
  <2>1. PICK asked \in SUBSET Paths, limit \in [Paths -> Limits] :
          /\ pending' = {p \in asked : Needed(p, limit[p])}
          /\ wanted' = [p \in Paths |-> IF p \in pending' THEN limit[p] ELSE 0]
    BY <1>1 DEF Prime
  <2>2. pending' \subseteq Paths
    BY <2>1
  <2>3. wanted' \in [Paths -> Nat]
    BY <2>1, SizesAssumption
  <2> QED
    BY <1>1, <2>2, <2>3 DEF Prime, cache, history
<1>2. CASE StartBatch
  <2>1. batch' \subseteq Paths /\ pending' \subseteq Paths
    BY <1>2 DEF StartBatch
  <2> QED
    BY <1>2, <1>n, <2>1 DEF StartBatch, cache, history
<1>3. ASSUME NEW p \in Paths, DescribeMissing(p) PROVE TypeOK'
  <2>1. output' \in [Paths -> Entry] /\ batch' \subseteq Paths
    BY <1>3, <1>a, EntryType DEF DescribeMissing
  <2> QED
    BY <1>3, <2>1 DEF DescribeMissing, cache, history
<1>4. ASSUME NEW p \in Paths, DescribeListed(p) PROVE TypeOK'
  <2>1. disk[p].size \in Nat
    BY DEF File
  <2>2. {disk[p].size} \in SUBSET Nat /\ {} \in SUBSET Nat
    BY <2>1
  <2>3. output' \in [Paths -> Entry] /\ batch' \subseteq Paths
    BY <1>4, <1>a, <2>2, EntryType DEF DescribeListed
  <2> QED
    BY <1>4, <2>3 DEF DescribeListed, cache, history
<1>5. ASSUME NEW p \in Paths, DescribeSize(p) PROVE TypeOK'
  <2>1. disk[p].size \in Nat
    BY DEF File
  <2>2. statted' \subseteq Paths \X Nat
    BY <1>5, <2>1 DEF DescribeSize
  <2> QED
    BY <1>5, <2>2 DEF DescribeSize, cache, history
<1>6. CASE ReadItem
  <2>1. PICK item \in statted :
          /\ Answer(item[1], Take(item[1], item[2]))
          /\ used' = used + item[2]
    BY <1>6 DEF ReadItem
  <2>2. item[1] \in Paths /\ item[2] \in Nat
    OBVIOUS
  <2>3. output' \in [Paths -> Entry] /\ batch' \subseteq Paths
    BY <2>1, <2>2, <1>a, TakeType
  <2>4. used' \in Nat
    BY <2>1, <2>2
  <2> QED
    BY <1>6, <2>3, <2>4 DEF ReadItem, cache, history
<1>7. CASE EndBatch
  <2>1. records' \in [Paths -> Entry]
    BY <1>7 DEF EndBatch
  <2>2. wanted' \in [Paths -> Nat] /\ phase' \in {"idle", "priming", "batch"}
    BY <1>7, <1>n DEF EndBatch
  <2> QED
    BY <1>7, <1>n, <2>1, <2>2 DEF EndBatch, history
<1>8. CASE LoseBatch
  BY <1>8, <1>n DEF LoseBatch, history
<1> QED
  BY <1>1, <1>2, <1>3, <1>4, <1>5, <1>6, <1>7, <1>8 DEF Batch

\* A file is read, from the cache or over SSH, or a new invocation starts.
LEMMA TypeRetrieve == TypeOK /\ (Retrieve \/ Invoke) => TypeOK'
<1> SUFFICES ASSUME TypeOK, Retrieve \/ Invoke PROVE TypeOK'
  OBVIOUS
<1> USE DEF TypeOK
<1>1. ASSUME NEW p \in Paths, NEW cs \in SUBSET Content, Give(p, cs)
      PROVE  given' \in [Paths -> SUBSET Content]
  BY <1>1 DEF Give
<1>2. ASSUME NEW p \in Paths, RetrieveCached(p) PROVE TypeOK'
  <2>1. records[p].contents \in SUBSET Content
    BY DEF Entry
  <2> QED
    BY <1>1, <1>2, <2>1 DEF RetrieveCached, priming, cache, history
<1>3. ASSUME NEW p \in Paths, RetrieveRemote(p) PROVE TypeOK'
  <2> DEFINE c == [gen |-> disk[p].gen, length |-> disk[p].size]
  <2>1. c \in Content
    BY DEF File, Content
  <2>2. Give(p, {c}) /\ records' = [records EXCEPT ![p] = Read(c)]
    BY <1>3 DEF RetrieveRemote
  <2>3. given' \in [Paths -> SUBSET Content]
    BY <1>1, <2>1, <2>2
  <2>4. Read(c) \in Entry
    BY <2>1, EntryType
  <2>5. records' \in [Paths -> Entry]
    BY <2>2, <2>4
  <2> QED
    BY <1>3, <2>3, <2>5 DEF RetrieveRemote, priming, history
<1>4. CASE Invoke
  <2>1. Nothing \in [Paths -> Entry] /\ Gone \subseteq Paths
    BY EntryType DEF Nothing, Gone
  <2> QED
    BY <1>4, <2>1 DEF Invoke, priming
<1> QED
  BY <1>2, <1>3, <1>4 DEF Retrieve

\* Every step keeps the types.
LEMMA TypeStep == TypeOK /\ [Next]_vars => TypeOK'
<1> SUFFICES ASSUME TypeOK, [Next]_vars PROVE TypeOK'
  OBVIOUS
<1>1. CASE UNCHANGED vars
  BY <1>1 DEF TypeOK, vars, priming, cache, history
<1> QED
  BY <1>1, TypeDisk, TypeBatch, TypeRetrieve DEF Next

\* The cache, the running batch and the history keep their shapes, for any
\* paths, limits and sizes.
THEOREM CacheTypes == Spec => []TypeOK
  BY TypeInit, TypeStep, PTL DEF Spec

-----------------------------------------------------------------------------
(* What is on record, and what is on its way there.                        *)

\* An entry for p that has contents has one, of the size it states; one
\* that says missing is about a path that was seen absent.
Sound(entry, p) ==
    /\ \A c \in entry.contents :
          /\ entry.known /\ entry.present
          /\ entry.size = {c.length}
          /\ entry.contents = {c}
    /\ entry.known /\ ~entry.present => p \in absent

EntriesSound == \A p \in Paths : Sound(records[p], p) /\ Sound(output[p], p)

\* The paths in prime's hands have no contents on record, and no path is in
\* its hands twice.
Underway ==
    /\ phase # "batch" => batch = {} /\ output = Nothing
    /\ phase = "idle" => pending = {}
    /\ statted \subseteq batch \X Nat
    /\ pending \cap batch = {}
    /\ \A p \in pending \cup batch : records[p].contents = {}
    /\ \A p \in pending : ~output[p].known
    /\ \A p \in Paths : output[p].known => records[p].contents = {}

GivenOnRecord == \A p \in Paths : given[p] \subseteq records[p].contents

\* A path without a file now was seen absent.
Seen == Gone \subseteq absent

CacheInv == TypeOK /\ Seen /\ EntriesSound /\ Underway /\ GivenOnRecord

\* The entries that the script and the readers make are sound.
LEMMA SoundEntries ==
  ASSUME NEW p \in Paths
  PROVE  /\ Sound(Unknown, p)
         /\ \A size \in SUBSET Nat : Sound(Listed(size), p)
         /\ \A c \in Content : Sound(Read(c), p)
         /\ p \in absent => Sound(Missing, p)
<1>1. Sound(Unknown, p)
  BY DEF Sound, Unknown
<1>2. \A size \in SUBSET Nat : Sound(Listed(size), p)
  BY DEF Sound, Listed
<1>3. \A c \in Content : Sound(Read(c), p)
  BY DEF Sound, Read, Listed
<1>4. p \in absent => Sound(Missing, p)
  BY DEF Sound, Missing, Unknown
<1> QED
  BY <1>1, <1>2, <1>3, <1>4

\* What prime asks for has no contents on record (_pending_requests).
LEMMA NeededHasNone ==
  ASSUME NEW p \in Paths, NEW limit, Sound(records[p], p), Needed(p, limit)
  PROVE  records[p].contents = {}
  BY DEF Sound, Needed

\* What a read brings is sound, however the file has changed.
LEMMA TakeSound ==
  ASSUME TypeOK, NEW p \in Paths, NEW size \in Nat
  PROVE  Sound(Take(p, size), p)
<1>1. disk[p].gen \in Nat
  BY DEF TypeOK, File
<1>2. [gen |-> disk[p].gen, length |-> size] \in Content
  BY <1>1 DEF Content
<1>3. {size} \in SUBSET Nat
  OBVIOUS
<1> QED
  BY <1>2, <1>3, SoundEntries DEF Take

\* Every step keeps account of the files that are gone.
LEMMA SeenStep == Seen /\ Next => Seen'
<1> SUFFICES ASSUME Seen, Next PROVE Seen'
  OBVIOUS
<1>1. CASE Disk
  BY <1>1 DEF Disk, Append, Rewrite, Remove, Become, Seen
<1>2. CASE Prime \/ Batch \/ Retrieve
  <2>1. UNCHANGED <<disk, absent>>
    BY <1>2 DEF Prime, Batch, Retrieve, StartBatch, ReadItem, EndBatch, LoseBatch,
       DescribeMissing, DescribeListed, DescribeSize, RetrieveCached, RetrieveRemote,
       history
  <2> QED
    BY <2>1 DEF Seen, Gone
<1>3. CASE Invoke
  BY <1>3 DEF Invoke, Seen, Gone
<1> QED
  BY <1>1, <1>2, <1>3 DEF Next

\* Nothing is on record at the start, and nothing was given.
LEMMA CacheInit == Init => CacheInv
<1> SUFFICES ASSUME Init PROVE CacheInv
  OBVIOUS
<1>1. EntriesSound
  BY SoundEntries DEF Init, EntriesSound, Nothing
<1>2. Underway
  BY DEF Init, Underway, Nothing, Unknown
<1>3. GivenOnRecord
  BY DEF Init, GivenOnRecord
<1> QED
  BY <1>1, <1>2, <1>3, TypeInit DEF CacheInv, Init, Seen

\* A file may change at any time: a path that was seen absent stays so.
LEMMA CacheDisk == CacheInv /\ Disk => CacheInv'
<1> SUFFICES ASSUME CacheInv, Disk PROVE CacheInv'
  OBVIOUS
<1>1. absent \subseteq absent' /\ UNCHANGED <<priming, cache, given>>
  BY DEF Disk, Append, Rewrite, Remove, Become
<1>2. EntriesSound'
  BY <1>1 DEF CacheInv, EntriesSound, Sound, priming, cache
<1>3. Underway' /\ GivenOnRecord'
  BY <1>1 DEF CacheInv, Underway, GivenOnRecord, priming, cache
<1> QED
  BY <1>2, <1>3, TypeDisk, SeenStep DEF CacheInv, Next

\* One item described: its entry is sound, and its path has no contents on
\* record.
LEMMA CacheAnswer ==
  ASSUME CacheInv, phase = "batch",
         NEW p \in batch, NEW entry \in Entry, Sound(entry, p), Answer(p, entry),
         statted = {} \/ statted' = {}, statted' \subseteq statted,
         UNCHANGED <<phase, pending, records, given, absent>>
  PROVE  EntriesSound' /\ Underway' /\ GivenOnRecord'
<1> USE DEF CacheInv
<1>1. p \in Paths /\ output \in [Paths -> Entry]
  BY DEF TypeOK
<1>2. output' = [output EXCEPT ![p] = entry] /\ batch' = batch \ {p}
  BY DEF Answer
<1>3. EntriesSound'
  BY <1>1, <1>2 DEF EntriesSound, Sound
<1>4. Underway'
  <2>1. \A q \in Paths : output'[q].known => records[q].contents = {}
    BY <1>1, <1>2 DEF Underway
  <2>2. \A q \in pending : ~output'[q].known
    BY <1>1, <1>2 DEF Underway, TypeOK
  <2>3. statted' = {}
    OBVIOUS
  <2> QED
    BY <1>2, <2>1, <2>2, <2>3 DEF Underway
<1>5. GivenOnRecord'
  BY DEF GivenOnRecord
<1> QED
  BY <1>3, <1>4, <1>5

\* A batch that has described every item is stored.
LEMMA CacheEndBatch == CacheInv /\ EndBatch => EntriesSound' /\ Underway' /\ GivenOnRecord'
<1> SUFFICES ASSUME CacheInv, EndBatch PROVE EntriesSound' /\ Underway' /\ GivenOnRecord'
  OBVIOUS
<1> USE DEF CacheInv
<1>1. records' = [p \in Paths |-> IF output[p].known THEN output[p] ELSE records[p]]
  BY DEF EndBatch
<1>2. output' = Nothing /\ \A p \in Paths : output'[p] = Unknown
  BY DEF EndBatch, Nothing
<1>3. EntriesSound'
  <2>1. ASSUME NEW p \in Paths PROVE Sound(records'[p], p) /\ Sound(output'[p], p)
    BY <1>1, <1>2, SoundEntries DEF EntriesSound
  <2>2. absent' = absent
    BY DEF EndBatch, history
  <2> QED
    BY <2>1, <2>2 DEF EntriesSound, Sound
<1>4. Underway'
  <2>1. \A p \in pending : p \in Paths /\ records'[p].contents = {}
    BY <1>1 DEF Underway, TypeOK
  <2>2. \A p \in Paths : ~output'[p].known
    BY <1>2 DEF Unknown
  <2>3. batch' = {} /\ pending' = pending /\ statted' = statted
    BY DEF EndBatch
  <2>4. phase' = "idle" => pending' = {}
    BY <2>3 DEF EndBatch
  <2>5. statted = {}
    BY DEF Underway, EndBatch
  <2> QED
    BY <1>2, <2>1, <2>2, <2>3, <2>4, <2>5 DEF Underway
<1>5. GivenOnRecord'
  BY <1>1 DEF GivenOnRecord, Underway, EndBatch
<1> QED
  BY <1>3, <1>4, <1>5

\* prime asks, a batch starts, is described, stored or lost.
LEMMA CacheBatch == CacheInv /\ (Prime \/ Batch) => CacheInv'
<1> SUFFICES ASSUME CacheInv, Prime \/ Batch
             PROVE  EntriesSound' /\ Underway' /\ GivenOnRecord'
  BY TypeBatch, SeenStep DEF CacheInv, Next
<1> USE DEF CacheInv
<1>t. TypeOK
  OBVIOUS
<1>1. CASE Prime
  <2>1. PICK asked \in SUBSET Paths, limit \in [Paths -> Limits] :
          pending' = {p \in asked : Needed(p, limit[p])}
    BY <1>1 DEF Prime
  <2>2. \A p \in pending' : records[p].contents = {}
    BY <2>1, NeededHasNone DEF EntriesSound
  <2>3. UNCHANGED <<batch, statted, output, records, given, absent>>
    BY <1>1 DEF Prime, cache, history
  <2>4. \A p \in pending' : ~output[p].known
    BY <1>1, <2>1 DEF Prime, Underway, Nothing, Unknown
  <2>5. batch = {} /\ output = Nothing /\ phase' = "priming"
    BY <1>1 DEF Prime, Underway
  <2>6. EntriesSound' /\ GivenOnRecord'
    BY <2>3 DEF EntriesSound, Sound, GivenOnRecord
  <2> QED
    BY <2>2, <2>3, <2>4, <2>5, <2>6 DEF Underway
<1>2. CASE StartBatch
  <2>1. PICK items \in SUBSET pending : batch' = items /\ pending' = pending \ items
    BY <1>2 DEF StartBatch
  <2>2. UNCHANGED <<statted, records, given, absent>> /\ output' = Nothing /\ phase' = "batch"
    BY <1>2 DEF StartBatch, cache, history
  <2>3. \A p \in Paths : output'[p] = Unknown
    BY <2>2 DEF Nothing
  <2>4. EntriesSound' /\ GivenOnRecord'
    BY <2>2, <2>3, SoundEntries DEF EntriesSound, Sound, GivenOnRecord
  <2>5. pending \subseteq Paths
    BY DEF TypeOK
  <2>6. \A p \in Paths : ~output'[p].known
    BY <2>3 DEF Unknown
  <2>7. statted = {}
    BY <1>2 DEF Underway, StartBatch
  <2>8. pending' \cap batch' = {} /\ pending' \cup batch' \subseteq pending
    BY <2>1
  <2> QED
    BY <2>2, <2>4, <2>5, <2>6, <2>7, <2>8 DEF Underway
<1>3. ASSUME NEW p \in Paths, DescribeMissing(p) PROVE EntriesSound' /\ Underway' /\ GivenOnRecord'
  <2>1. p \in absent
    BY <1>3 DEF DescribeMissing, Gone, Seen
  <2> QED
    BY <1>3, <2>1, CacheAnswer, SoundEntries, EntryType DEF DescribeMissing, cache, history
<1>4. ASSUME NEW p \in Paths, DescribeListed(p) PROVE EntriesSound' /\ Underway' /\ GivenOnRecord'
  <2>1. disk[p].size \in Nat
    BY DEF TypeOK, File
  <2>2. PICK size \in SUBSET Nat : Answer(p, Listed(size))
    BY <1>4, <2>1 DEF DescribeListed
  <2> QED
    BY <1>4, <2>2, CacheAnswer, SoundEntries, EntryType DEF DescribeListed, cache, history
<1>5. ASSUME NEW p \in Paths, DescribeSize(p) PROVE EntriesSound' /\ Underway' /\ GivenOnRecord'
  <2>1. disk[p].size \in Nat
    BY DEF TypeOK, File
  <2>2. statted' \subseteq batch \X Nat
    BY <1>5, <2>1 DEF DescribeSize
  <2> QED
    BY <1>5, <2>2 DEF DescribeSize, cache, history, EntriesSound, Sound, Underway, GivenOnRecord
<1>6. CASE ReadItem
  <2>1. PICK item \in statted : Answer(item[1], Take(item[1], item[2]))
    BY <1>6 DEF ReadItem
  <2>2. item[1] \in batch /\ item[1] \in Paths /\ item[2] \in Nat
    BY DEF Underway, TypeOK
  <2>3. Take(item[1], item[2]) \in Entry /\ Sound(Take(item[1], item[2]), item[1])
    BY <2>2, TakeType, TakeSound DEF TypeOK
  <2>4. UNCHANGED <<phase, pending, records, given, absent>> /\ phase = "batch" /\ statted' = {}
    BY <1>6 DEF ReadItem, cache, history
  <2> QED
    BY <2>1, <2>2, <2>3, <2>4, CacheAnswer
<1>7. CASE EndBatch
  BY <1>7, CacheEndBatch
<1>8. CASE LoseBatch
  <2>1. batch' = {} /\ pending' = {} /\ statted' = {} /\ output' = Nothing
        /\ phase' = "idle" /\ UNCHANGED <<records, given, absent>>
    BY <1>8 DEF LoseBatch, history
  <2>2. \A p \in Paths : output'[p] = Unknown
    BY <2>1 DEF Nothing
  <2>3. \A p \in Paths : ~output'[p].known
    BY <2>2 DEF Unknown
  <2> QED
    BY <2>1, <2>2, <2>3, SoundEntries DEF EntriesSound, Sound, Underway, GivenOnRecord
<1> QED
  BY <1>1, <1>2, <1>3, <1>4, <1>5, <1>6, <1>7, <1>8 DEF Batch

\* A file is read, from the cache or over SSH, or a new invocation starts.
LEMMA CacheRetrieve == CacheInv /\ (Retrieve \/ Invoke) => CacheInv'
<1> SUFFICES ASSUME CacheInv, Retrieve \/ Invoke
             PROVE  EntriesSound' /\ Underway' /\ GivenOnRecord'
  BY TypeRetrieve, SeenStep DEF CacheInv, Next
<1> USE DEF CacheInv
<1>1. ASSUME NEW p \in Paths, RetrieveCached(p)
      PROVE  EntriesSound' /\ Underway' /\ GivenOnRecord'
  <2>1. given' = [given EXCEPT ![p] = @ \cup records[p].contents]
    BY <1>1 DEF RetrieveCached, Give
  <2>2. UNCHANGED <<priming, cache, history>>
    BY <1>1 DEF RetrieveCached
  <2>3. GivenOnRecord'
    BY <2>1, <2>2 DEF GivenOnRecord, TypeOK, cache
  <2> QED
    BY <2>2, <2>3 DEF EntriesSound, Sound, Underway, priming, cache, history
<1>2. ASSUME NEW p \in Paths, RetrieveRemote(p)
      PROVE  EntriesSound' /\ Underway' /\ GivenOnRecord'
  <2> DEFINE c == [gen |-> disk[p].gen, length |-> disk[p].size]
  <2>1. c \in Content
    BY DEF TypeOK, File, Content
  <2>2. given' = [given EXCEPT ![p] = @ \cup {c}] /\ records' = [records EXCEPT ![p] = Read(c)]
    BY <1>2 DEF RetrieveRemote, Give
  <2>3. UNCHANGED <<priming, history>> /\ phase = "idle" /\ records[p].contents = {}
    BY <1>2 DEF RetrieveRemote
  <2>4. Sound(Read(c), p)
    BY <2>1, SoundEntries
  <2>5. records'[p] = Read(c) /\ \A q \in Paths \ {p} : records'[q] = records[q]
    BY <2>2 DEF TypeOK
  <2>6. \A q \in Paths : Sound(records'[q], q) /\ Sound(output[q], q)
    BY <2>4, <2>5 DEF EntriesSound
  <2>7. EntriesSound'
    BY <2>3, <2>6 DEF EntriesSound, Sound, priming, history
  <2>8. given[p] = {} /\ Read(c).contents = {c}
    BY <2>3 DEF GivenOnRecord, Read, Listed
  <2>9. GivenOnRecord'
    BY <2>2, <2>5, <2>8 DEF GivenOnRecord, TypeOK
  <2>10. Underway'
    <3>1. batch = {} /\ pending = {} /\ statted = {} /\ output = Nothing
      BY <2>3 DEF Underway
    <3>2. \A q \in Paths : ~output[q].known
      BY <3>1 DEF Nothing, Unknown
    <3> QED
      BY <2>3, <3>1, <3>2 DEF Underway, priming
  <2> QED
    BY <2>7, <2>9, <2>10
<1>3. CASE Invoke
  <2>1. records' = Nothing /\ UNCHANGED priming /\ phase = "idle" /\ given' = [p \in Paths |-> {}]
    BY <1>3 DEF Invoke
  <2>2. batch = {} /\ pending = {} /\ statted = {} /\ output = Nothing
    BY <2>1 DEF Underway
  <2>3. \A p \in Paths : records'[p] = Unknown /\ output'[p] = Unknown
    BY <2>1, <2>2 DEF Nothing, priming
  <2>4. EntriesSound'
    BY <2>3, SoundEntries DEF EntriesSound, Sound, Unknown
  <2>5. Underway'
    BY <2>1, <2>2, <2>3 DEF Underway, Unknown, priming
  <2>6. GivenOnRecord'
    BY <2>1 DEF GivenOnRecord
  <2> QED
    BY <2>4, <2>5, <2>6
<1> QED
  BY <1>1, <1>2, <1>3 DEF Retrieve

\* Every step keeps the invariant.
LEMMA CacheStep == CacheInv /\ [Next]_vars => CacheInv'
<1> SUFFICES ASSUME CacheInv, [Next]_vars PROVE CacheInv'
  OBVIOUS
<1>1. CASE UNCHANGED vars
  <2>1. TypeOK'
    BY <1>1, TypeStep DEF CacheInv
  <2>2. Seen' /\ EntriesSound'
    BY <1>1 DEF CacheInv, Seen, Gone, EntriesSound, Sound, vars, priming, cache, history
  <2>3. Underway' /\ GivenOnRecord'
    BY <1>1 DEF CacheInv, Underway, GivenOnRecord, vars, priming, cache
  <2> QED
    BY <2>1, <2>2, <2>3 DEF CacheInv
<1> QED
  BY <1>1, CacheDisk, CacheBatch, CacheRetrieve DEF Next

\* The invariant holds in every reachable state.
LEMMA CacheInvariant == Spec => []CacheInv
  BY CacheInit, CacheStep, PTL DEF Spec

-----------------------------------------------------------------------------
(* The theorems.                                                           *)

\* However files change, an invocation is given one version of each, from
\* batches and single reads alike: for any number of files, of batches, and
\* any limits.
THEOREM CacheOneVersion == Spec => []OneVersion
<1>1. CacheInv => OneVersion
  <2> SUFFICES ASSUME CacheInv, NEW p \in Paths, NEW c \in given[p], NEW d \in given[p]
               PROVE  c = d
    BY DEF OneVersion
  <2>1. c \in records[p].contents /\ d \in records[p].contents
    BY DEF CacheInv, GivenOnRecord
  <2>2. records[p].contents = {c}
    BY <2>1 DEF CacheInv, EntriesSound, Sound
  <2> QED
    BY <2>1, <2>2
<1> QED
  BY <1>1, CacheInvariant, PTL

\* A file that the cache calls missing was absent during the invocation,
\* whichever batches fail.
THEOREM CacheAbsence == Spec => []AbsenceWasSeen
<1>1. CacheInv => AbsenceWasSeen
  BY DEF CacheInv, EntriesSound, Sound, AbsenceWasSeen
<1> QED
  BY <1>1, CacheInvariant, PTL

\* Contents, size and presence on record belong together, although the
\* script asks for them one after the other.
THEOREM CacheRecordsAgree == Spec => []RecordsAgree
<1>1. CacheInv => RecordsAgree
  BY DEF CacheInv, EntriesSound, Sound, RecordsAgree
<1> QED
  BY <1>1, CacheInvariant, PTL

-----------------------------------------------------------------------------
(* What is on record was in the files.  Files only move on: a later state  *)
(* of a file is of a later generation, or the file has grown or is gone.   *)
(* A size that was asked during the invocation is none of an older state,  *)
(* and the contents that are read afterwards are no newer than the file.   *)

Later(file, now) ==
    \/ file.gen < now.gen
    \/ /\ file.gen = now.gen
       /\ now.present => file.present /\ file.size <= now.size

\* The contents were in p during this invocation.
There(contents, p) ==
    \A c \in contents : NoOlder(c, since[p]) /\ NoNewer(c, disk[p])

\* The size is none that p had only before this invocation.
SizeSince(p, size) ==
    \/ since[p].gen < disk[p].gen
    \/ since[p].present => since[p].size <= size

ThereInv ==
    /\ \A p \in Paths : Later(since[p], disk[p])
    /\ \A p \in Paths : There(records[p].contents, p) /\ There(output[p].contents, p)
    /\ \A item \in statted : SizeSince(item[1], item[2])

\* What was in a file was in it whatever becomes of the file, and a size
\* that was asked stays one of this invocation.
LEMMA FileMovesOn ==
  ASSUME NEW file \in File, NEW now \in File, NEW then \in File, Later(now, then)
  PROVE  /\ Later(file, now) => Later(file, then)
         /\ \A c \in Content : NoNewer(c, now) => NoNewer(c, then)
         /\ file.gen < now.gen => file.gen < then.gen
<1>1. \A g \in File : g.gen \in Nat /\ g.size \in Nat
  BY DEF File
<1>2. \A c \in Content : c.gen \in Nat /\ c.length \in Nat
  BY DEF Content
<1>3. ASSUME NEW c \in Content, NoNewer(c, now) PROVE NoNewer(c, then)
  BY <1>1, <1>2, <1>3 DEF Later, NoNewer
<1>4. Later(file, now) => Later(file, then)
  BY <1>1 DEF Later
<1>5. file.gen < now.gen => file.gen < then.gen
  BY <1>1 DEF Later
<1> QED
  BY <1>3, <1>4, <1>5

\* A file is written, created or removed: it moves on, and the others stay.
LEMMA DiskMovesOn ==
  ASSUME TypeOK, Disk
  PROVE  /\ \A p \in Paths : Later(disk[p], disk'[p])
         /\ UNCHANGED <<since, records, output, statted>>
<1>1. PICK p \in Paths : Append(p) \/ Rewrite(p) \/ Remove(p)
  BY DEF Disk
<1>2. disk \in [Paths -> File] /\ \A q \in Paths : disk[q].gen \in Nat /\ disk[q].size \in Nat
  BY DEF TypeOK, File
<1>3. \A q \in Paths : Later(disk[q], disk[q])
  BY <1>2 DEF Later
<1>4. ASSUME NEW file, Become(p, file), Later(disk[p], file)
      PROVE  \A q \in Paths : Later(disk[q], disk'[q])
  <2>1. disk'[p] = file /\ \A q \in Paths \ {p} : disk'[q] = disk[q]
    BY <1>2, <1>4 DEF Become
  <2> QED
    BY <1>3, <1>4, <2>1
<1>5. CASE Append(p)
  <2>1. PICK size \in disk[p].size + 1 .. MaxSize :
          Become(p, [disk[p] EXCEPT !.size = size])
    BY <1>5 DEF Append
  <2>2. size \in Int /\ disk[p].size < size
    BY <1>2, SizesAssumption
  <2>3. /\ [disk[p] EXCEPT !.size = size].gen = disk[p].gen
        /\ [disk[p] EXCEPT !.size = size].size = size
    BY <1>2 DEF File
  <2>4. disk[p].present
    BY <1>5 DEF Append
  <2>5. Later(disk[p], [disk[p] EXCEPT !.size = size])
    BY <1>2, <2>2, <2>3, <2>4 DEF Later
  <2> QED
    BY <2>1, <2>5, <1>4 DEF Become, priming, cache
<1>6. CASE Rewrite(p)
  <2>1. Later(disk[p], [present |-> TRUE, gen |-> disk[p].gen + 1, size |-> 0])
    BY <1>2 DEF Later
  <2> QED
    BY <1>6, <2>1, <1>4 DEF Rewrite, Become, priming, cache
<1>7. CASE Remove(p)
  <2>1. Later(disk[p], [disk[p] EXCEPT !.present = FALSE, !.size = 0])
    BY <1>2 DEF Later, File
  <2> QED
    BY <1>7, <2>1, <1>4 DEF Remove, Become, priming, cache
<1> QED
  BY <1>1, <1>5, <1>6, <1>7

\* A size asked, or contents read, while the file is there are of now.
LEMMA NowIsThere ==
  ASSUME TypeOK, NEW p \in Paths, Later(since[p], disk[p])
  PROVE  /\ disk[p].present => SizeSince(p, disk[p].size)
         /\ \A size \in Nat : SizeSince(p, size) => There(Take(p, size).contents, p)
         /\ There({}, p)
<1>1. disk[p].gen \in Nat /\ disk[p].size \in Nat /\ since[p].gen \in Nat /\ since[p].size \in Nat
  BY DEF TypeOK, File
<1>2. disk[p].present => SizeSince(p, disk[p].size)
  BY <1>1 DEF Later, SizeSince
<1>3. ASSUME NEW size \in Nat, SizeSince(p, size) PROVE There(Take(p, size).contents, p)
  <2> DEFINE c == [gen |-> disk[p].gen, length |-> size]
  <2>1. CASE disk[p].size >= size
    <3>1. Take(p, size).contents = {c}
      BY <2>1 DEF Take, Read, Listed
    <3>2. c.gen = disk[p].gen /\ c.length = size
      OBVIOUS
    <3>3. NoNewer(c, disk[p])
      BY <1>1, <2>1, <3>2 DEF NoNewer
    <3>4. NoOlder(c, since[p])
      BY <1>1, <1>3, <3>2 DEF NoOlder, SizeSince, Later
    <3> QED
      BY <3>1, <3>3, <3>4 DEF There
  <2>2. CASE ~(disk[p].size >= size)
    <3>1. Take(p, size).contents = {}
      BY <2>2 DEF Take, Listed
    <3> QED
      BY <3>1 DEF There
  <2> QED
    BY <2>1, <2>2
<1> QED
  BY <1>2, <1>3 DEF There

\* Nothing is on record at the start, nor was any size asked.
LEMMA ThereInit == Init => ThereInv
<1> SUFFICES ASSUME Init PROVE ThereInv
  OBVIOUS
<1>1. \A p \in Paths : disk[p].gen \in Nat /\ disk[p].size \in Nat
  BY TypeInit DEF TypeOK, File
<1>2. \A p \in Paths : Later(since[p], disk[p])
  BY <1>1 DEF Init, Later
<1>3. \A p \in Paths : records[p].contents = {} /\ output[p].contents = {}
  BY DEF Init, Nothing, Unknown
<1>4. statted = {}
  BY DEF Init
<1> QED
  BY <1>2, <1>3, <1>4 DEF ThereInv, There

\* Files move on.
LEMMA ThereDisk == CacheInv /\ ThereInv /\ Disk => ThereInv'
<1> SUFFICES ASSUME CacheInv, ThereInv, Disk PROVE ThereInv'
  OBVIOUS
<1>1. TypeOK
  BY DEF CacheInv
<1>2. /\ \A p \in Paths : Later(disk[p], disk'[p])
      /\ UNCHANGED <<since, records, output, statted>>
  BY <1>1, DiskMovesOn
<1>3. \A p \in Paths : disk[p] \in File /\ disk'[p] \in File /\ since[p] \in File
  BY <1>1, TypeDisk DEF TypeOK
<1>4. \A p \in Paths : Later(since[p], disk'[p])
  BY <1>2, <1>3, FileMovesOn DEF ThereInv
<1>5. ASSUME NEW p \in Paths, NEW cs \in SUBSET Content, There(cs, p)
      PROVE  \A c \in cs : NoOlder(c, since[p]) /\ NoNewer(c, disk'[p])
  BY <1>2, <1>3, <1>5, FileMovesOn DEF There
<1>6. \A p \in Paths : records[p].contents \in SUBSET Content /\ output[p].contents \in SUBSET Content
  BY <1>1 DEF TypeOK, Entry
<1>7. \A p \in Paths : There(records[p].contents, p)' /\ There(output[p].contents, p)'
  BY <1>2, <1>5, <1>6 DEF There, ThereInv
<1>8. \A item \in statted' : SizeSince(item[1], item[2])'
  <2>1. \A item \in statted : item[1] \in Paths
    BY <1>1 DEF TypeOK
  <2> QED
    BY <1>2, <1>3, <2>1, FileMovesOn DEF SizeSince, ThereInv
<1> QED
  BY <1>2, <1>4, <1>7, <1>8 DEF ThereInv

\* prime asks, and a batch is started, described, stored or lost.
LEMMA ThereBatch == CacheInv /\ ThereInv /\ (Prime \/ Batch) => ThereInv'
<1> SUFFICES ASSUME CacheInv, ThereInv, Prime \/ Batch PROVE ThereInv'
  OBVIOUS
<1>0. TypeOK /\ \A p \in Paths : Later(since[p], disk[p])
  BY DEF CacheInv, ThereInv
<1>n. \A p \in Paths : Nothing[p].contents = {} /\ There({}, p)
  BY DEF Nothing, Unknown, There
<1>u. UNCHANGED <<disk, since>>
  BY DEF Prime, Batch, StartBatch, DescribeMissing, DescribeListed, DescribeSize,
     ReadItem, EndBatch, LoseBatch, history
<1>a. ASSUME NEW p \in Paths, NEW entry \in Entry, Answer(p, entry), There(entry.contents, p),
             records' = records, statted' = statted \/ statted' = {}
      PROVE  ThereInv'
  <2>1. output'[p] = entry /\ \A q \in Paths \ {p} : output'[q] = output[q]
    BY <1>a, <1>0 DEF Answer, TypeOK
  <2>2. \A q \in Paths : There(output'[q].contents, q)
    BY <1>a, <2>1 DEF ThereInv
  <2> QED
    BY <1>a, <1>u, <2>2 DEF ThereInv, There, SizeSince
<1>1. CASE Prime
  BY <1>1, <1>u DEF Prime, cache, ThereInv, There, SizeSince
<1>2. CASE StartBatch
  <2>1. output' = Nothing /\ records' = records /\ statted' = statted
    BY <1>2 DEF StartBatch, cache
  <2> QED
    BY <1>n, <1>u, <2>1 DEF ThereInv, There, SizeSince
<1>3. ASSUME NEW p \in Paths, DescribeMissing(p) PROVE ThereInv'
  <2>1. Missing.contents = {}
    BY DEF Missing, Unknown
  <2> QED
    BY <1>3, <1>a, <1>n, <2>1, EntryType DEF DescribeMissing, cache
<1>4. ASSUME NEW p \in Paths, DescribeListed(p) PROVE ThereInv'
  <2>1. disk[p].size \in Nat
    BY <1>0 DEF TypeOK, File
  <2>2. PICK size \in SUBSET Nat : Answer(p, Listed(size))
    BY <1>4, <2>1 DEF DescribeListed
  <2>3. Listed(size).contents = {} /\ Listed(size) \in Entry
    BY EntryType DEF Listed
  <2> QED
    BY <1>4, <1>a, <1>n, <2>2, <2>3 DEF DescribeListed, cache
<1>5. ASSUME NEW p \in Paths, DescribeSize(p) PROVE ThereInv'
  <2>1. SizeSince(p, disk[p].size)
    BY <1>0, <1>5, NowIsThere DEF DescribeSize
  <2>2. statted' = {<<p, disk[p].size>>} /\ UNCHANGED <<records, output>>
    BY <1>5 DEF DescribeSize, cache
  <2>3. \A item \in statted' : SizeSince(item[1], item[2])
    BY <2>1, <2>2
  <2> QED
    BY <1>u, <2>2, <2>3 DEF ThereInv, There, SizeSince
<1>6. CASE ReadItem
  <2>1. PICK item \in statted : Answer(item[1], Take(item[1], item[2]))
    BY <1>6 DEF ReadItem
  <2>2. item[1] \in Paths /\ item[2] \in Nat /\ SizeSince(item[1], item[2])
    BY <1>0 DEF TypeOK, ThereInv
  <2>3. There(Take(item[1], item[2]).contents, item[1])
    BY <1>0, <2>2, NowIsThere
  <2>4. Take(item[1], item[2]) \in Entry
    BY <1>0, <2>2, TakeType DEF TypeOK
  <2>5. records' = records /\ statted' = {}
    BY <1>6 DEF ReadItem, cache
  <2> QED
    BY <1>a, <2>1, <2>2, <2>3, <2>4, <2>5
<1>7. CASE EndBatch
  <2>1. records' = [p \in Paths |-> IF output[p].known THEN output[p] ELSE records[p]]
        /\ output' = Nothing /\ statted' = statted
    BY <1>7 DEF EndBatch
  <2>2. \A p \in Paths : records'[p] = output[p] \/ records'[p] = records[p]
    BY <2>1
  <2>3. \A p \in Paths : There(records'[p].contents, p) /\ There(output'[p].contents, p)
    BY <1>n, <2>1, <2>2 DEF ThereInv
  <2> QED
    BY <1>u, <2>1, <2>3 DEF ThereInv, There, SizeSince
<1>8. CASE LoseBatch
  <2>1. records' = records /\ output' = Nothing /\ statted' = {}
    BY <1>8 DEF LoseBatch
  <2> QED
    BY <1>n, <1>u, <2>1 DEF ThereInv, There
<1> QED
  BY <1>1, <1>2, <1>3, <1>4, <1>5, <1>6, <1>7, <1>8 DEF Batch

\* A file is read, from the cache or over SSH, or a new invocation starts
\* with nothing on record.
LEMMA ThereRetrieve == CacheInv /\ ThereInv /\ (Retrieve \/ Invoke) => ThereInv'
<1> SUFFICES ASSUME CacheInv, ThereInv, Retrieve \/ Invoke PROVE ThereInv'
  OBVIOUS
<1>0. TypeOK /\ \A p \in Paths : Later(since[p], disk[p])
  BY DEF CacheInv, ThereInv
<1>1. ASSUME NEW p \in Paths, RetrieveCached(p) PROVE ThereInv'
  BY <1>1 DEF RetrieveCached, priming, cache, history, ThereInv, There, SizeSince
<1>2. ASSUME NEW p \in Paths, RetrieveRemote(p) PROVE ThereInv'
  <2> DEFINE c == [gen |-> disk[p].gen, length |-> disk[p].size]
  <2>1. records' = [records EXCEPT ![p] = Read(c)] /\ UNCHANGED <<disk, since, output, statted>>
    BY <1>2 DEF RetrieveRemote, priming, history
  <2>2. Read(c).contents = {c}
    BY DEF Read, Listed
  <2>3. disk[p].present /\ disk[p].gen \in Nat /\ disk[p].size \in Nat
        /\ since[p].gen \in Nat /\ since[p].size \in Nat
    BY <1>0, <1>2 DEF RetrieveRemote, TypeOK, File
  <2>4. NoOlder(c, since[p]) /\ NoNewer(c, disk[p])
    BY <1>0, <2>3 DEF NoOlder, NoNewer, Later
  <2>5. \A q \in Paths : There(records'[q].contents, q)
    BY <1>0, <2>1, <2>2, <2>4 DEF ThereInv, There, TypeOK
  <2> QED
    BY <2>1, <2>5 DEF ThereInv, There, SizeSince
<1>3. CASE Invoke
  <2>1. records' = Nothing /\ since' = disk /\ disk' = disk /\ UNCHANGED priming /\ phase = "idle"
    BY <1>3 DEF Invoke
  <2>2. output' = Nothing /\ statted' = {}
    BY <2>1 DEF CacheInv, Underway, priming
  <2>3. \A p \in Paths : records'[p].contents = {} /\ output'[p].contents = {}
    BY <2>1, <2>2 DEF Nothing, Unknown
  <2>4. \A p \in Paths : Later(since'[p], disk'[p])
    BY <1>0, <2>1 DEF Later, TypeOK, File
  <2> QED
    BY <2>2, <2>3, <2>4 DEF ThereInv, There
<1> QED
  BY <1>1, <1>2, <1>3 DEF Retrieve

\* What the cache holds of a file was in the file during this invocation,
\* for any number of files that change at any point of the script.
THEOREM CacheContentsWereThere == Spec => []ContentsWereThere
<1>1. CacheInv /\ ThereInv /\ [Next]_vars => ThereInv'
  <2>1. ThereInv /\ UNCHANGED vars => ThereInv'
    BY DEF ThereInv, There, SizeSince, vars, priming, cache, history
  <2> QED
    BY <2>1, ThereDisk, ThereBatch, ThereRetrieve DEF Next
<1>2. ThereInv => ContentsWereThere
  BY DEF ThereInv, There, ContentsWereThere
<1> QED
  BY <1>1, <1>2, ThereInit, CacheInvariant, PTL DEF Spec

-----------------------------------------------------------------------------
(* The limits of a batch.  What the script has spent counts every byte it  *)
(* brought, and a size that was asked fits what is left.                   *)

LimitInv ==
    /\ IsFiniteSet(Brought)
    /\ Cardinality(Brought) <= used
    /\ used <= Total
    /\ \A item \in statted : used + item[2] <= Total /\ item[2] <= wanted[item[1]]
    /\ \A p \in Paths : \A c \in output[p].contents : c.length <= wanted[p]

\* n places of one file are n bytes.
LEMMA Places ==
  ASSUME NEW p, NEW n \in Nat
  PROVE  IsFiniteSet({p} \X (1 .. n)) /\ Cardinality({p} \X (1 .. n)) = n
<1>1. IsFiniteSet(1 .. n) /\ Cardinality(1 .. n) = n
  BY FS_Interval
<1>2. IsFiniteSet({p}) /\ Cardinality({p}) = 1
  BY FS_Singleton
<1>3. Cardinality({p} \X (1 .. n)) = 1 * n
  BY <1>1, <1>2, FS_Product
<1>4. IsFiniteSet({p} \X (1 .. n))
  BY <1>1, <1>2, FS_Product
<1> QED
  BY <1>3, <1>4

\* When no entry of the batch has contents, it has brought nothing.
LEMMA NothingBrought ==
  ASSUME \A p \in Paths : output[p].contents = {}
  PROVE  IsFiniteSet(Brought) /\ Cardinality(Brought) = 0
<1>1. \A p \in Paths : BytesOf(p) = {}
  BY DEF BytesOf
<1>2. Brought = {}
  BY <1>1 DEF Brought
<1> QED
  BY <1>2, FS_EmptySet

\* An entry without contents brings nothing; one with contents of a length
\* brings at most so many bytes.
LEMMA AnswerBrings ==
  ASSUME TypeOK, IsFiniteSet(Brought), NEW p \in Paths, NEW entry \in Entry, Answer(p, entry),
         NEW n \in Nat, \A c \in entry.contents : c.length <= n
  PROVE  IsFiniteSet(Brought') /\ Cardinality(Brought') <= Cardinality(Brought) + n
<1>1. output'[p] = entry /\ \A q \in Paths \ {p} : output'[q] = output[q]
  BY DEF Answer, TypeOK
<1>2. \A q \in Paths \ {p} : BytesOf(q)' = BytesOf(q)
  BY <1>1 DEF BytesOf
<1>3. BytesOf(p)' \subseteq {p} \X (1 .. n)
  <2>1. \A c \in entry.contents : c.length \in Nat
    BY DEF Entry, Content
  <2>2. \A c \in entry.contents : 1 .. c.length \subseteq 1 .. n
    BY <2>1
  <2> QED
    BY <1>1, <2>2 DEF BytesOf
<1> DEFINE Room == {p} \X (1 .. n)
<1>4. Brought' \subseteq Brought \cup Room
  BY <1>2, <1>3 DEF Brought
<1>5. IsFiniteSet(Room) /\ Cardinality(Room) = n
  BY Places
<1> HIDE DEF Room
<1>6. /\ IsFiniteSet(Brought \cup Room)
      /\ Cardinality(Brought \cup Room)
           = Cardinality(Brought) + n - Cardinality(Brought \cap Room)
  BY <1>5, FS_Union
<1>7. IsFiniteSet(Brought \cap Room)
  BY FS_Intersection
<1>8. Cardinality(Brought \cap Room) \in Nat /\ Cardinality(Brought) \in Nat
  BY <1>7, FS_CardinalityType
<1>9. /\ IsFiniteSet(Brought')
      /\ Cardinality(Brought') <= Cardinality(Brought \cup Room)
  BY <1>4, <1>6, FS_Subset
<1>10. Cardinality(Brought') \in Nat
  BY <1>9, FS_CardinalityType
<1> QED
  BY <1>6, <1>8, <1>9, <1>10

\* Nothing is brought at the start.
LEMMA LimitInit == Init => LimitInv
<1> SUFFICES ASSUME Init PROVE LimitInv
  OBVIOUS
<1>1. \A p \in Paths : output[p].contents = {}
  BY DEF Init, Nothing, Unknown
<1>2. IsFiniteSet(Brought) /\ Cardinality(Brought) = 0
  BY <1>1, NothingBrought
<1> QED
  BY <1>1, <1>2, SizesAssumption DEF Init, LimitInv

\* Only the steps of prime touch the batch.
LEMMA LimitStands ==
  LimitInv /\ UNCHANGED <<wanted, statted, used, output>> => LimitInv'
  BY DEF LimitInv, Brought, BytesOf

\* A new batch, and the end of one, start the account anew.
LEMMA LimitAnew ==
  ASSUME output' = Nothing, used' = 0, statted' = {}
  PROVE  LimitInv'
<1>1. \A p \in Paths : output'[p].contents = {}
  BY DEF Nothing, Unknown
<1>2. IsFiniteSet(Brought') /\ Cardinality(Brought') = 0
  <2>1. \A p \in Paths : BytesOf(p)' = {}
    BY <1>1 DEF BytesOf
  <2>2. Brought' = {}
    BY <2>1 DEF Brought
  <2> QED
    BY <2>2, FS_EmptySet
<1> QED
  BY <1>1, <1>2, SizesAssumption DEF LimitInv

\* The script describes an item: without contents it spends nothing, and
\* what it reads was reserved.
LEMMA LimitBatch == CacheInv /\ LimitInv /\ (Prime \/ Batch) => LimitInv'
<1> SUFFICES ASSUME CacheInv, LimitInv, Prime \/ Batch PROVE LimitInv'
  OBVIOUS
<1>0. TypeOK /\ IsFiniteSet(Brought) /\ Cardinality(Brought) \in Nat
  BY FS_CardinalityType DEF CacheInv, LimitInv
<1>i. phase # "batch" => statted = {} /\ output = Nothing
  BY DEF CacheInv, Underway
<1>a. ASSUME NEW p \in Paths, NEW entry \in Entry, Answer(p, entry), entry.contents = {},
             UNCHANGED <<wanted, used, statted>>
      PROVE  LimitInv'
  <2>1. output'[p] = entry /\ \A q \in Paths \ {p} : output'[q] = output[q]
    BY <1>a, <1>0 DEF Answer, TypeOK
  <2>2. IsFiniteSet(Brought') /\ Cardinality(Brought') <= Cardinality(Brought) + 0
    BY <1>a, <1>0, AnswerBrings
  <2>3. Cardinality(Brought') \in Nat
    BY <2>2, FS_CardinalityType
  <2> QED
    BY <1>a, <1>0, <2>1, <2>2, <2>3 DEF LimitInv, TypeOK
<1>1. CASE Prime
  <2>1. \A p \in Paths : output'[p].contents = {}
    BY <1>1, <1>i DEF Prime, Nothing, Unknown
  <2>2. statted' = {} /\ output' = output /\ used' = used
    BY <1>1, <1>i DEF Prime
  <2>3. Brought' = Brought
    BY <2>2 DEF Brought, BytesOf
  <2> QED
    BY <2>1, <2>2, <2>3 DEF LimitInv
<1>2. CASE StartBatch
  BY <1>2, <1>i, LimitAnew DEF StartBatch
<1>3. ASSUME NEW p \in Paths, DescribeMissing(p) PROVE LimitInv'
  <2>1. Missing.contents = {}
    BY DEF Missing, Unknown
  <2> QED
    BY <1>3, <1>a, <2>1, EntryType DEF DescribeMissing
<1>4. ASSUME NEW p \in Paths, DescribeListed(p) PROVE LimitInv'
  <2>1. disk[p].size \in Nat
    BY <1>0 DEF TypeOK, File
  <2>2. PICK size \in SUBSET Nat : Answer(p, Listed(size))
    BY <1>4, <2>1 DEF DescribeListed
  <2>3. Listed(size).contents = {} /\ Listed(size) \in Entry
    BY EntryType DEF Listed
  <2> QED
    BY <1>4, <1>a, <2>2, <2>3 DEF DescribeListed
<1>5. ASSUME NEW p \in Paths, DescribeSize(p) PROVE LimitInv'
  <2>1. statted' = {<<p, disk[p].size>>} /\ UNCHANGED <<wanted, used, output>>
    BY <1>5 DEF DescribeSize
  <2>2. disk[p].size <= wanted[p] /\ used + disk[p].size <= Total
    BY <1>5 DEF DescribeSize, WithinLimits
  <2>3. \A item \in statted' : used + item[2] <= Total /\ item[2] <= wanted[item[1]]
    BY <2>1, <2>2
  <2>4. Brought' = Brought
    BY <2>1 DEF Brought, BytesOf
  <2> QED
    BY <2>1, <2>3, <2>4 DEF LimitInv
<1>6. CASE ReadItem
  <2>1. PICK item \in statted :
          Answer(item[1], Take(item[1], item[2])) /\ used' = used + item[2]
    BY <1>6 DEF ReadItem
  <2> DEFINE p == item[1]
             n == item[2]
             entry == Take(p, n)
  <2>2. p \in Paths /\ n \in Nat /\ entry \in Entry
    BY <1>0, TakeType DEF TypeOK
  <2>3. \A c \in entry.contents : c.length = n
    BY DEF Take, Read, Listed
  <2>4. statted' = {} /\ wanted' = wanted
    BY <1>6 DEF ReadItem
  <2>5. used' <= Total /\ n <= wanted[p]
    BY <2>1 DEF LimitInv
  <2>a. Answer(p, entry)
    BY <2>1
  <2> HIDE DEF entry, p, n
  <2>6. output'[p] = entry /\ \A q \in Paths \ {p} : output'[q] = output[q]
    BY <1>0, <2>a, <2>2 DEF Answer, TypeOK
  <2>7. IsFiniteSet(Brought') /\ Cardinality(Brought') <= Cardinality(Brought) + n
    BY <1>0, <2>a, <2>2, <2>3, AnswerBrings
  <2>8. Cardinality(Brought') \in Nat
    BY <2>7, FS_CardinalityType
  <2>9. Cardinality(Brought') <= used'
    BY <1>0, <2>1, <2>2, <2>7, <2>8 DEF LimitInv, TypeOK, n
  <2>10. \A q \in Paths : \A c \in output'[q].contents : c.length <= wanted[q]
    BY <2>3, <2>5, <2>6 DEF LimitInv
  <2> QED
    BY <2>4, <2>5, <2>7, <2>9, <2>10 DEF LimitInv
<1>7. CASE EndBatch
  <2>1. statted' = {}
    BY <1>7 DEF EndBatch, CacheInv, Underway
  <2> QED
    BY <1>7, <2>1, LimitAnew DEF EndBatch
<1>8. CASE LoseBatch
  BY <1>8, LimitAnew DEF LoseBatch
<1> QED
  BY <1>1, <1>2, <1>3, <1>4, <1>5, <1>6, <1>7, <1>8 DEF Batch

\* No batch brings more than its limits: for any limits, any number of
\* files, and files of any size that grow while the script runs.
THEOREM CacheBatchWithinLimits == Spec => []BatchWithinLimits
<1>1. CacheInv /\ LimitInv /\ [Next]_vars => LimitInv'
  <2>1. Disk \/ Retrieve \/ Invoke \/ UNCHANGED vars => UNCHANGED <<wanted, statted, used, output>>
    BY DEF Disk, Append, Rewrite, Remove, Become, Retrieve, RetrieveCached, RetrieveRemote,
       Invoke, vars, priming
  <2> QED
    BY <2>1, LimitStands, LimitBatch DEF Next
<1>2. CacheInv /\ LimitInv => BatchWithinLimits
  <2> SUFFICES ASSUME CacheInv, LimitInv PROVE BatchWithinLimits
    OBVIOUS
  <2>1. Cardinality(Brought) <= Total
    <3>1. Cardinality(Brought) \in Nat
      BY FS_CardinalityType DEF LimitInv
    <3> QED
      BY <3>1, SizesAssumption DEF LimitInv, CacheInv, TypeOK
  <2>2. ASSUME NEW p \in Paths PROVE Cardinality(BytesOf(p)) <= wanted[p]
    <3>1. wanted[p] \in Nat /\ \A c \in output[p].contents : c.length \in Nat
      BY DEF CacheInv, TypeOK, Entry, Content
    <3>2. \A c \in output[p].contents : 1 .. c.length \subseteq 1 .. wanted[p]
      BY <3>1 DEF LimitInv
    <3> DEFINE Most == {p} \X (1 .. wanted[p])
    <3>3. BytesOf(p) \subseteq Most
      BY <3>2 DEF BytesOf
    <3>4. IsFiniteSet(Most) /\ Cardinality(Most) = wanted[p]
      BY <3>1, Places
    <3> HIDE DEF Most
    <3> QED
      BY <3>3, <3>4, FS_Subset
  <2> QED
    BY <2>1, <2>2 DEF BatchWithinLimits
<1> QED
  BY <1>1, <1>2, LimitInit, CacheInvariant, PTL DEF Spec

-----------------------------------------------------------------------------
(* The SSH session.                                                        *)

\* What close leaves behind is well typed.
LEMMA ClosedType ==
  ASSUME SessionTypeOK, CleanUp, socket' = "none", orphans' \in Nat
  PROVE  SessionTypeOK'
<1>1. control' \in BOOLEAN /\ connected' \in BOOLEAN /\ opens' \in BOOLEAN
  BY Zenon DEF SessionTypeOK, CleanUp
<1>2. status' = "closed" /\ UNCHANGED <<result, commands, counted, established>>
  BY Zenon DEF CleanUp
<1> QED
  BY <1>1, <1>2 DEF SessionTypeOK

\* Whatever the session and the ssh processes do, every variable keeps its
\* type: _connected stays a Boolean, and no counter leaves the naturals.
THEOREM SessionTypes == SessionSpec => []SessionTypeOK
<1>1. SessionInit => SessionTypeOK
  <2> SUFFICES ASSUME SessionInit PROVE SessionTypeOK
    OBVIOUS
  <2>1. control \in BOOLEAN /\ connected \in BOOLEAN /\ opens \in BOOLEAN
    BY Zenon DEF SessionInit
  <2> QED
    BY <2>1 DEF SessionInit, SessionTypeOK
<1>2. SessionTypeOK /\ [SessionNext]_sessionVars => SessionTypeOK'
  <2> SUFFICES ASSUME SessionTypeOK, [SessionNext]_sessionVars
               PROVE  SessionTypeOK'
    OBVIOUS
  <2> USE DEF SessionTypeOK
  <2>1. CASE StartCommand
    BY <2>1 DEF StartCommand, outside
  <2>2. CASE FinishCommand
    <3>1. connected' \in BOOLEAN /\ opens' \in BOOLEAN
      BY <2>2, Zenon DEF FinishCommand, Discard, Keep
    <3>2. socket' \in {"none", "live", "stale"} /\ orphans' \in Nat
      <4>1. Unlink \/ UNCHANGED <<socket, orphans>>
        BY <2>2, Zenon DEF FinishCommand, Discard, Keep
      <4> QED
        BY <4>1 DEF Unlink
    <3>3. counted' = counted + 1 \/ counted' = counted
      <4>1. CASE opens /\ result = "ok"
        BY <2>2, <4>1, Zenon DEF FinishCommand
      <4>2. CASE ~(opens /\ result = "ok")
        BY <2>2, <4>2, Zenon DEF FinishCommand
      <4> QED
        BY <4>1, <4>2
    <3>4. status' = "idle" /\ result' = "none" /\ UNCHANGED <<control, commands, established>>
      BY <2>2, Zenon DEF FinishCommand
    <3> QED
      BY <3>1, <3>2, <3>3, <3>4
  <2>3. CASE CloseWithExit
    <3>1. CleanUp /\ (orphans' = orphans \/ Unlink) /\ socket' = "none"
      BY <2>3 DEF CloseWithExit, Unlink
    <3> QED
      BY <3>1, ClosedType DEF Unlink
  <2>4. CASE CloseWithoutExit
    <3>1. CleanUp /\ Unlink
      BY <2>4 DEF CloseWithoutExit
    <3> QED
      BY <3>1, ClosedType DEF Unlink
  <2>5. CASE ClientShares
    BY <2>5 DEF ClientShares, Return, outside
  <2>6. CASE ClientConnects
    BY <2>6 DEF ClientConnects, Return
  <2>7. CASE ClientCannotConnect
    BY <2>7 DEF ClientCannotConnect, Return
  <2>8. CASE ClientDoesNotStart
    BY <2>8 DEF ClientDoesNotStart, Return, outside
  <2>9. CASE MasterDies
    BY <2>9 DEF MasterDies, session
  <2>10. CASE MasterExpires
    BY <2>10 DEF MasterExpires, session
  <2>11. CASE UNCHANGED sessionVars
    BY <2>11 DEF sessionVars
  <2> QED
    BY <2>1, <2>2, <2>3, <2>4, <2>5, <2>6, <2>7, <2>8, <2>9, <2>10, <2>11
    DEF SessionNext, Step
<1> QED
  BY <1>1, <1>2, PTL DEF SessionSpec

-----------------------------------------------------------------------------

\* What makes the label right: between commands connected covers every
\* socket, while a command runs its label does, and a command that was
\* labelled as opening and succeeded has a connection of its own, still to
\* be counted.
ToBeCounted == status = "returned" /\ opens /\ result = "ok"

LabelInv ==
    /\ NoForgottenSocket
    /\ OpensWhenNeeded
    /\ counted <= established
    /\ ToBeCounted => counted < established
    /\ status = "running" => (connected <=> ~opens)
    /\ status = "returned" /\ ~connected => opens

\* What the session believes of its connection stays in step with the
\* socket and the label of the command under way.
LEMMA LabelInvHolds == SessionSpec => []LabelInv
<1>1. SessionInit => LabelInv
  BY DEF SessionInit, LabelInv, NoForgottenSocket, OpensWhenNeeded, ToBeCounted
<1>2. SessionTypeOK /\ LabelInv /\ [SessionNext]_sessionVars => LabelInv'
  <2> SUFFICES ASSUME SessionTypeOK, LabelInv, [SessionNext]_sessionVars
               PROVE  LabelInv'
    OBVIOUS
  <2>t. counted \in Nat /\ established \in Nat
    BY DEF SessionTypeOK
  <2> USE DEF LabelInv, NoForgottenSocket, OpensWhenNeeded, ToBeCounted
  <2>1. CASE StartCommand
    BY <2>1 DEF StartCommand, SocketExists, outside
  <2>2. CASE FinishCommand
    <3>1. status' = "idle" /\ ~opens' /\ UNCHANGED established
      BY <2>2, Zenon DEF FinishCommand
    <3>2. status = "returned"
      BY <2>2, Zenon DEF FinishCommand
    <3>3. ~connected' => socket' = "none"
      <4>1. CASE Discard
        BY <4>1, Zenon DEF Discard, Unlink
      <4>2. CASE Keep
        <5> SUFFICES ASSUME ~connected'
                     PROVE  socket' = "none"
          OBVIOUS
        <5>1. ~connected /\ opens /\ result # "ok"
          BY <4>2, <3>2, Zenon DEF Keep
        <5>2. result = "timeout"
          BY <4>2, <5>1, Zenon DEF Keep
        <5> QED
          BY <4>2, <5>2, Zenon DEF Keep, SocketExists
      <4> QED
        BY <2>2, <4>1, <4>2, Zenon DEF FinishCommand
    <3>4. counted' <= established'
      <4>1. CASE opens /\ result = "ok"
        <5>1. counted' = counted + 1
          BY <2>2, <4>1, Zenon DEF FinishCommand
        <5> QED
          BY <5>1, <4>1, <3>1, <3>2, <2>t
      <4>2. CASE ~(opens /\ result = "ok")
        <5>1. counted' = counted
          BY <2>2, <4>2, Zenon DEF FinishCommand
        <5> QED
          BY <5>1, <3>1
      <4> QED
        BY <4>1, <4>2
    <3> QED
      BY <3>1, <3>3, <3>4
  <2>3. CASE CloseWithExit
    <3>1. CleanUp /\ socket' = "none"
      BY <2>3 DEF CloseWithExit, Unlink
    <3> QED
      BY <3>1 DEF CleanUp
  <2>4. CASE CloseWithoutExit
    BY <2>4 DEF CloseWithoutExit, CleanUp, Unlink
  <2>5. CASE ClientShares
    BY <2>5 DEF ClientShares, Return, outside
  <2>6. CASE ClientConnects
    BY <2>6, <2>t DEF ClientConnects, Return
  <2>7. CASE ClientCannotConnect
    BY <2>7 DEF ClientCannotConnect, Return
  <2>8. CASE ClientDoesNotStart
    BY <2>8 DEF ClientDoesNotStart, Return, outside
  <2>9. CASE MasterDies
    BY <2>9 DEF MasterDies, session
  <2>10. CASE MasterExpires
    BY <2>10 DEF MasterExpires, session
  <2>11. CASE UNCHANGED sessionVars
    BY <2>11 DEF sessionVars
  <2> QED
    BY <2>1, <2>2, <2>3, <2>4, <2>5, <2>6, <2>7, <2>8, <2>9, <2>10, <2>11
    DEF SessionNext, Step
<1> QED
  BY <1>1, <1>2, SessionTypes, PTL DEF SessionSpec

\* Between commands the session knows of every socket at its control path.
THEOREM SocketNeverForgotten == SessionSpec => []NoForgottenSocket
<1>1. LabelInv => NoForgottenSocket
  BY DEF LabelInv
<1> QED
  BY <1>1, LabelInvHolds, PTL

\* A command labelled as opening the connection never shares a live one.
THEOREM LabelIsRight == SessionSpec => []OpensWhenNeeded
<1>1. LabelInv => OpensWhenNeeded
  BY DEF LabelInv
<1> QED
  BY <1>1, LabelInvHolds, PTL

\* ssh_connections never exceeds the connections that were made.
THEOREM NoConnectionInvented == SessionSpec => []CountedWereEstablished
<1>1. LabelInv => CountedWereEstablished
  BY DEF LabelInv, CountedWereEstablished
<1> QED
  BY <1>1, LabelInvHolds, PTL
=============================================================================
