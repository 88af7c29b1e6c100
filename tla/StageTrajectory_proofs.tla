----------------------- MODULE StageTrajectory_proofs -----------------------
(***************************************************************************)
(* The forces, the labels and the course of the forces that are shown of a *)
(* stage, for every number of sites, runs, steps and reads that fail.      *)
(* First the extractor, line by line and from wherever it starts; then     *)
(* what is so of the files and of what was read of them; then the theorems. *)
(***************************************************************************)
EXTENDS StageTrajectory, FiniteSetTheorems, WellFoundedInduction, TLAPS

\* A set of numbers has a least one.
LEMMA Least ==
  ASSUME NEW T, T \subseteq Nat, T # {}
  PROVE  \E x \in T : \A y \in T : x <= y
<1>1. PICK x \in T : \A y \in T : ~(<<y, x>> \in OpToRel(<, Nat))
  BY WFMin, NatLessThanWellFounded, Zenon
<1>2. \A y \in T : ~(y < x)
  BY <1>1, Zenon DEF OpToRel
<1> QED
  BY <1>2

-----------------------------------------------------------------------------
(* The extractor reads one line after the other.                           *)

\* f is the extractor after each of the first n lines.
ScansUpto(f, n, lines, expected) ==
    f = [i \in 0..n |->
            IF i = 0 THEN Blank ELSE Feed(f[i - 1], lines[i], mode, expected)]

\* However many lines there are, the extractor can read them.
LEMMA ScanExists ==
  ASSUME NEW lines, NEW expected, NEW n \in Nat
  PROVE  \E f : ScansUpto(f, n, lines, expected)
<1> DEFINE Bad == {k \in Nat : ~\E f : ScansUpto(f, k, lines, expected)}
<1>1. ASSUME NEW k \in Bad, \A l \in Bad : k <= l PROVE FALSE
  <2>1. CASE k = 0
    <3>1. ScansUpto([i \in 0..0 |-> Blank], 0, lines, expected)
      BY DEF ScansUpto
    <3> QED
      BY <2>1, <3>1
  <2>2. CASE k # 0
    <3>1. k \in Nat /\ k - 1 \in Nat /\ k - 1 \notin Bad
      <4> HIDE DEF Bad
      <4>1. k \in Nat
        BY DEF Bad
      <4> QED
        BY <1>1, <2>2, <4>1
    <3>2. PICK f : ScansUpto(f, k - 1, lines, expected)
      BY <3>1
    <3> DEFINE g == [i \in 0..k |-> IF i = k THEN Feed(f[k - 1], lines[k], mode, expected)
                                    ELSE f[i]]
    <3>3. \A i \in 0..(k - 1) :
             f[i] = IF i = 0 THEN Blank ELSE Feed(f[i - 1], lines[i], mode, expected)
      BY <3>2, Zenon DEF ScansUpto
    <3>4. ASSUME NEW i \in 0..k
          PROVE  g[i] = IF i = 0 THEN Blank ELSE Feed(g[i - 1], lines[i], mode, expected)
      <4>1. CASE i = k
        <5>1. g[i] = Feed(f[k - 1], lines[k], mode, expected) /\ k - 1 \in 0..k /\ k - 1 # k
          BY <3>1, <4>1
        <5>2. g[i - 1] = f[k - 1]
          BY <4>1, <5>1
        <5> QED
          BY <2>2, <4>1, <5>1, <5>2
      <4>2. CASE i # k
        <5>1. i \in 0..(k - 1) /\ g[i] = f[i]
          BY <3>1, <4>2
        <5>2. i = 0 \/ g[i - 1] = f[i - 1]
          BY <3>1, <4>2
        <5> QED
          BY <3>3, <5>1, <5>2
      <4> QED
        BY <4>1, <4>2
    <3>5. ScansUpto(g, k, lines, expected)
      <4> HIDE DEF g
      <4>1. g = [i \in 0..k |-> g[i]]
        BY DEF g
      <4> QED
        BY <3>4, <4>1, Zenon DEF ScansUpto
    <3> QED
      BY <3>5, Zenon
  <2> QED
    BY <2>1, <2>2
<1>2. Bad = {}
  <2> HIDE DEF Bad
  <2>1. Bad \subseteq Nat
    BY DEF Bad
  <2> QED
    BY <1>1, <2>1, Least, Zenon
<1> QED
  BY <1>2

\* With one line more, what is read of the lines before it is the same.
LEMMA ScanIsUnique ==
  ASSUME NEW n \in Nat, NEW lines, NEW more, \A i \in 1..n : lines[i] = more[i],
         NEW expected
  PROVE  \A f, g : /\ ScansUpto(f, n, lines, expected)
                   /\ ScansUpto(g, n + 1, more, expected)
                   => f[n] = g[n]
<1> SUFFICES ASSUME NEW f, ScansUpto(f, n, lines, expected),
                    NEW g, ScansUpto(g, n + 1, more, expected)
             PROVE  f[n] = g[n]
  OBVIOUS
<1> DEFINE Bad == {i \in Nat : i <= n /\ f[i] # g[i]}
<1>1. \A i \in 0..n : f[i] = IF i = 0 THEN Blank ELSE Feed(f[i - 1], lines[i], mode, expected)
  BY Zenon DEF ScansUpto
<1>2. \A i \in 0..(n + 1) : g[i] = IF i = 0 THEN Blank ELSE Feed(g[i - 1], more[i], mode, expected)
  BY Zenon DEF ScansUpto
<1>3. ASSUME NEW k \in Bad, \A l \in Bad : k <= l PROVE FALSE
  <2>1. k \in 0..n /\ k \in 0..(n + 1)
    OBVIOUS
  <2>2. CASE k = 0
    BY <1>1, <1>2, <2>1, <2>2
  <2>3. CASE k # 0
    <3>1. k - 1 \in Nat /\ k - 1 \notin Bad /\ k - 1 <= n /\ k \in 1..n
      <4> HIDE DEF Bad
      <4> QED
        BY <1>3, <2>1, <2>3
    <3>2. f[k - 1] = g[k - 1] /\ lines[k] = more[k]
      BY <3>1
    <3>3. f[k] = Feed(f[k - 1], lines[k], mode, expected)
      BY <1>1, <2>1, <2>3, Zenon
    <3>4. g[k] = Feed(g[k - 1], more[k], mode, expected)
      BY <1>2, <2>1, <2>3, Zenon
    <3> QED
      BY <3>2, <3>3, <3>4, Zenon
  <2> QED
    BY <2>2, <2>3
<1>4. Bad = {}
  <2> HIDE DEF Bad
  <2>1. Bad \subseteq Nat
    BY DEF Bad
  <2> QED
    BY <1>3, <2>1, Least, Zenon
<1> QED
  BY <1>4

\* What Scanned stands for.
LEMMA ScannedIs ==
  ASSUME NEW lines, Len(lines) \in Nat, NEW expected
  PROVE  \E f : /\ ScansUpto(f, Len(lines), lines, expected)
                /\ Scanned(lines, mode, expected) = f[Len(lines)]
<1> DEFINE Right(f) == ScansUpto(f, Len(lines), lines, expected)
<1>1. Scanned(lines, mode, expected) = (CHOOSE f : Right(f))[Len(lines)]
  BY DEF Scanned, ScansUpto
<1>2. \E f : Right(f)
  BY ScanExists
<1>3. Right(CHOOSE f : Right(f))
  <2> HIDE DEF Right
  <2> QED
    BY <1>2, Zenon
<1> QED
  BY <1>1, <1>3, Zenon

LEMMA ScannedEmpty ==
  ASSUME NEW expected
  PROVE  Scanned(<<>>, mode, expected) = Blank
<1>1. Len(<<>>) = 0
  OBVIOUS
<1>2. PICK f : ScansUpto(f, 0, <<>>, expected) /\ Scanned(<<>>, mode, expected) = f[0]
  BY <1>1, ScannedIs
<1> QED
  BY <1>2 DEF ScansUpto

LEMMA ScannedAppend ==
  ASSUME NEW S, NEW lines \in Seq(S), NEW line \in S, NEW expected
  PROVE  Scanned(Append(lines, line), mode, expected)
         = Feed(Scanned(lines, mode, expected), line, mode, expected)
<1> DEFINE n == Len(lines)
           more == Append(lines, line)
<1>1. n \in Nat /\ Len(more) = n + 1 /\ n + 1 \in Nat /\ more[n + 1] = line
      /\ \A i \in 1..n : lines[i] = more[i]
  OBVIOUS
<1> HIDE DEF n, more
<1>2. PICK f : ScansUpto(f, n, lines, expected) /\ Scanned(lines, mode, expected) = f[n]
  BY <1>1, ScannedIs DEF n
<1>3. PICK g : ScansUpto(g, n + 1, more, expected) /\ Scanned(more, mode, expected) = g[n + 1]
  BY <1>1, ScannedIs
<1>4. f[n] = g[n]
  <2>1. \A i \in 1..n : lines[i] = more[i]
    BY <1>1
  <2>2. \A f1, g1 : ScansUpto(f1, n, lines, expected) /\ ScansUpto(g1, n + 1, more, expected)
                    => f1[n] = g1[n]
    BY <1>1, <2>1, ScanIsUnique
  <2> QED
    BY <1>2, <1>3, <2>2
<1>5. g[n + 1] = Feed(g[n], line, mode, expected)
  <2>1. n + 1 \in 0..(n + 1) /\ n + 1 # 0 /\ (n + 1) - 1 = n
    BY <1>1
  <2>2. \A i \in 0..(n + 1) :
           g[i] = IF i = 0 THEN Blank ELSE Feed(g[i - 1], more[i], mode, expected)
    BY <1>3, Zenon DEF ScansUpto
  <2>3. g[n + 1] = Feed(g[(n + 1) - 1], more[n + 1], mode, expected)
    BY <2>1, <2>2, Zenon
  <2> QED
    BY <1>1, <2>1, <2>3
<1> QED
  BY <1>2, <1>3, <1>4, <1>5 DEF more

-----------------------------------------------------------------------------
(* What is picked out of a sequence.                                       *)

PicksUpto(f, n, s, K) ==
    f = [i \in 0..n |-> IF i = 0 THEN <<>>
                        ELSE IF i \in K THEN Append(f[i - 1], s[i]) ELSE f[i - 1]]

LEMMA PickExists ==
  ASSUME NEW s, NEW K, NEW n \in Nat
  PROVE  \E f : PicksUpto(f, n, s, K)
<1> DEFINE Bad == {k \in Nat : ~\E f : PicksUpto(f, k, s, K)}
<1>1. ASSUME NEW k \in Bad, \A l \in Bad : k <= l PROVE FALSE
  <2>1. CASE k = 0
    <3>1. PicksUpto([i \in 0..0 |-> <<>>], 0, s, K)
      BY DEF PicksUpto
    <3> QED
      BY <2>1, <3>1
  <2>2. CASE k # 0
    <3>1. k \in Nat /\ k - 1 \in Nat /\ k - 1 \notin Bad
      <4> HIDE DEF Bad
      <4>1. k \in Nat
        BY DEF Bad
      <4> QED
        BY <1>1, <2>2, <4>1
    <3>2. PICK f : PicksUpto(f, k - 1, s, K)
      BY <3>1
    <3> DEFINE g == [i \in 0..k |->
                        IF i = k
                        THEN IF k \in K THEN Append(f[k - 1], s[k]) ELSE f[k - 1]
                        ELSE f[i]]
    <3>3. \A i \in 0..(k - 1) :
             f[i] = IF i = 0 THEN <<>>
                    ELSE IF i \in K THEN Append(f[i - 1], s[i]) ELSE f[i - 1]
      BY <3>2, Zenon DEF PicksUpto
    <3>4. ASSUME NEW i \in 0..k
          PROVE  g[i] = IF i = 0 THEN <<>>
                        ELSE IF i \in K THEN Append(g[i - 1], s[i]) ELSE g[i - 1]
      <4>1. CASE i = k
        <5>1. k - 1 \in 0..k /\ k - 1 # k
          BY <3>1
        <5>2. g[i - 1] = f[k - 1]
          BY <4>1, <5>1
        <5> QED
          BY <2>2, <4>1, <5>2
      <4>2. CASE i # k
        <5>1. i \in 0..(k - 1) /\ g[i] = f[i]
          BY <3>1, <4>2
        <5>2. i = 0 \/ g[i - 1] = f[i - 1]
          BY <3>1, <4>2
        <5> QED
          BY <3>3, <5>1, <5>2
      <4> QED
        BY <4>1, <4>2
    <3>5. PicksUpto(g, k, s, K)
      <4> HIDE DEF g
      <4>1. g = [i \in 0..k |-> g[i]]
        BY DEF g
      <4> QED
        BY <3>4, <4>1, Zenon DEF PicksUpto
    <3> QED
      BY <3>5, Zenon
  <2> QED
    BY <2>1, <2>2
<1>2. Bad = {}
  <2> HIDE DEF Bad
  <2>1. Bad \subseteq Nat
    BY DEF Bad
  <2> QED
    BY <1>1, <2>1, Least, Zenon
<1> QED
  BY <1>2

LEMMA PickedIs ==
  ASSUME NEW s, Len(s) \in Nat, NEW K
  PROVE  \E f : /\ PicksUpto(f, Len(s), s, K)
                /\ Picked(s, K) = f[Len(s)]
<1> DEFINE Right(f) == PicksUpto(f, Len(s), s, K)
<1>1. Picked(s, K) = (CHOOSE f : Right(f))[Len(s)]
  BY DEF Picked, PicksUpto
<1>2. \E f : Right(f)
  BY PickExists
<1>3. Right(CHOOSE f : Right(f))
  <2> HIDE DEF Right
  <2> QED
    BY <1>2, Zenon
<1> QED
  BY <1>1, <1>3, Zenon

\* p is picked out of the first n elements of s at the places in K: h tells
\* where each element of p stood, and skips no fewer places than p has.
Embeds(h, p, n, s, K) ==
    /\ h \in [1..Len(p) -> 1..n]
    /\ \A i \in 1..Len(p) : h[i] \in K /\ p[i] = s[h[i]]
    /\ \A i, j \in 1..Len(p) : i <= j => h[j] - h[i] >= j - i

\* One place more is looked at.
LEMMA EmbedStep ==
  ASSUME NEW S, NEW s \in Seq(S), NEW K, NEW k \in 1..Len(s),
         NEW p \in Seq(S), NEW h, Embeds(h, p, k - 1, s, K)
  PROVE  LET q == IF k \in K THEN Append(p, s[k]) ELSE p
         IN  q \in Seq(S) /\ \E g : Embeds(g, q, k, s, K)
<1>1. k \in Nat /\ k - 1 \in Nat /\ k <= Len(s) /\ s[k] \in S /\ Len(p) \in Nat
  OBVIOUS
<1>2. \A i \in 1..Len(p) : h[i] \in Nat /\ h[i] <= k - 1 /\ h[i] >= 1
  <2>1. \A i \in 1..Len(p) : h[i] \in 1..(k - 1)
    BY Zenon DEF Embeds
  <2> QED
    BY <1>1, <2>1
<1>3. CASE k \in K
  <2> DEFINE q == Append(p, s[k])
             g == [i \in 1..(Len(p) + 1) |-> IF i = Len(p) + 1 THEN k ELSE h[i]]
  <2>1. q \in Seq(S) /\ Len(q) = Len(p) + 1 /\ q[Len(p) + 1] = s[k]
        /\ \A i \in 1..Len(p) : q[i] = p[i]
    BY <1>1
  <2>2. g[Len(p) + 1] = k /\ \A i \in 1..Len(p) : g[i] = h[i]
    BY <1>1
  <2>3. g \in [1..Len(q) -> 1..k]
    BY <1>1, <1>2, <2>1
  <2>4. \A i \in 1..Len(q) : i \in 1..Len(p) \/ i = Len(p) + 1
    BY <1>1, <2>1
  <2> HIDE DEF g, q
  <2>5. \A i \in 1..Len(q) : g[i] \in K /\ q[i] = s[g[i]]
    BY <1>3, <2>1, <2>2, <2>4 DEF Embeds
  <2>6. ASSUME NEW i \in 1..Len(q), NEW j \in 1..Len(q), i <= j
        PROVE  g[j] - g[i] >= j - i
    <3>1. CASE j \in 1..Len(p)
      <4>1. i \in 1..Len(p)
        BY <1>1, <2>6, <3>1
      <4> QED
        BY <2>2, <2>6, <3>1, <4>1 DEF Embeds
    <3>2. CASE j = Len(p) + 1 /\ i = Len(p) + 1
      BY <1>1, <2>2, <3>2
    <3>3. CASE j = Len(p) + 1 /\ i \in 1..Len(p)
      <4>1. Len(p) \in 1..Len(p) /\ i <= Len(p)
        BY <1>1, <3>3
      <4>2. h[Len(p)] - h[i] >= Len(p) - i
        BY <3>3, <4>1 DEF Embeds
      <4>3. k >= h[Len(p)] + 1 /\ h[Len(p)] \in Nat /\ h[i] \in Nat
        BY <1>1, <1>2, <3>3, <4>1
      <4> QED
        BY <1>1, <2>2, <3>3, <4>2, <4>3
    <3> QED
      BY <2>4, <2>6, <3>1, <3>2, <3>3
  <2>7. Embeds(g, q, k, s, K)
    BY <2>3, <2>5, <2>6 DEF Embeds
  <2> QED
    BY <1>3, <2>1, <2>7 DEF q
<1>4. CASE k \notin K
  <2>1. h \in [1..Len(p) -> 1..k]
    BY <1>1, <1>2 DEF Embeds
  <2>2. Embeds(h, p, k, s, K)
    BY <2>1 DEF Embeds
  <2> QED
    BY <1>4, <2>2
<1> QED
  BY <1>3, <1>4

\* What is picked are elements of the sequence at places in K, in order.
LEMMA PickedEmbeds ==
  ASSUME NEW S, NEW s \in Seq(S), NEW K
  PROVE  /\ Picked(s, K) \in Seq(S)
         /\ \E h : Embeds(h, Picked(s, K), Len(s), s, K)
<1> DEFINE n == Len(s)
<1>0. n \in Nat
  OBVIOUS
<1>1. PICK f : PicksUpto(f, n, s, K) /\ Picked(s, K) = f[n]
  BY <1>0, PickedIs
<1>2. \A i \in 0..n : f[i] = IF i = 0 THEN <<>>
                         ELSE IF i \in K THEN Append(f[i - 1], s[i]) ELSE f[i - 1]
  BY <1>1, Zenon DEF PicksUpto
<1> DEFINE Good(k) == f[k] \in Seq(S) /\ \E h : Embeds(h, f[k], k, s, K)
           Bad == {k \in Nat : k <= n /\ ~Good(k)}
<1>3. ASSUME NEW k \in Bad, \A l \in Bad : k <= l PROVE FALSE
  <2>1. k \in 0..n /\ k \in Nat
    BY <1>0
  <2>2. CASE k = 0
    <3>1. f[0] = <<>> /\ Len(<<>>) = 0 /\ 1..0 = {}
      BY <1>0, <1>2
    <3>2. Embeds([i \in 1..0 |-> 1], <<>>, 0, s, K)
      BY <3>1 DEF Embeds
    <3>3. Good(0)
      BY <3>1, <3>2
    <3> QED
      BY <2>2, <3>3
  <2>3. CASE k # 0
    <3>1. k - 1 \in Nat /\ k - 1 <= n /\ k \in 1..n /\ k - 1 \notin Bad
      <4> HIDE DEF Bad, n
      <4> QED
        BY <1>0, <1>3, <2>1, <2>3
    <3>2. Good(k - 1)
      <4> HIDE DEF Good
      <4> QED
        BY <3>1
    <3>3. f[k] = IF k \in K THEN Append(f[k - 1], s[k]) ELSE f[k - 1]
      BY <1>2, <2>1, <2>3, Zenon
    <3>4. PICK h : Embeds(h, f[k - 1], k - 1, s, K)
      BY <3>2
    <3>5. Good(k)
      BY <3>1, <3>2, <3>3, <3>4, EmbedStep
    <3> QED
      BY <3>5
  <2> QED
    BY <2>2, <2>3
<1>4. Bad = {}
  <2> HIDE DEF Bad
  <2>1. Bad \subseteq Nat
    BY DEF Bad
  <2> QED
    BY <1>3, <2>1, Least, Zenon
<1>5. Good(n)
  <2> HIDE DEF Good, n
  <2>1. n \notin Bad
    BY <1>4
  <2> QED
    BY <1>0, <2>1
<1> QED
  BY <1>1, <1>5

\* What stands last and is picked is picked last.
LEMMA PickedLast ==
  ASSUME NEW S, NEW s \in Seq(S), s # <<>>, NEW K, Len(s) \in K
  PROVE  /\ Picked(s, K) # <<>>
         /\ Picked(s, K)[Len(Picked(s, K))] = s[Len(s)]
<1> DEFINE n == Len(s)
           all == Picked(s, K)
<1>1. n \in Nat /\ n # 0 /\ n \in 0..n /\ n - 1 \in 0..n /\ n \in 1..n
  OBVIOUS
<1>2. PICK f : PicksUpto(f, n, s, K) /\ all = f[n]
  BY <1>1, PickedIs
<1>3. f[n] = Append(f[n - 1], s[n])
  <2>1. \A i \in 0..n : f[i] = IF i = 0 THEN <<>>
                          ELSE IF i \in K THEN Append(f[i - 1], s[i]) ELSE f[i - 1]
    BY <1>2, Zenon DEF PicksUpto
  <2> QED
    BY <1>1, <2>1, Zenon
<1> QED
  BY <1>1, <1>2, <1>3

-----------------------------------------------------------------------------
(* What is so of the files while VASP writes them.                         *)

WorldType ==
    /\ run \in [number : 0..MaxRuns, running : BOOLEAN, over : BOOLEAN]
    /\ oszicar \in OszicarType
    /\ table \in 0..TableLength
    /\ outcar \in Seq(Line)
    /\ vasprun \in VasprunType
    /\ forces \in Seq(ForceValue)
    /\ mode \in {"job", "path"}

TableOpen == table \in 1..(TableLength - 1)

\* The files keep step: a table belongs to an open cycle, a step that has its
\* forces is summarised or about to be, and a vasprun.xml that is closed has
\* the steps of OSZICAR.
FilesInStep ==
    /\ run.over => ~run.running
    /\ run.running => oszicar.readable
    /\ table # 0 => oszicar.open
    /\ table <= Len(outcar)
    /\ outcar # <<>> => TableOpen \/ forces # <<>>
    /\ Len(forces) = Len(oszicar.cycles) + (IF table = TableLength THEN 1 ELSE 0)
    /\ ~oszicar.readable => oszicar.cycles = <<>>
    /\ ~vasprun.closed => vasprun = NoVasprun
    /\ vasprun.closed => /\ ~run.running
                         /\ oszicar.readable
                         /\ oszicar.cycles # <<>>
                         /\ Len(vasprun.forces) = Len(oszicar.cycles)

Extractor == [state : {"none", "separator", "rows"}, block : Nat, rows : Nat,
              largest : Nat, malformed : BOOLEAN, blocks : Seq(Block)]

\* The extractor that started after c lines.
After(c, expected) == Scanned(SubSeq(outcar, c + 1, Len(outcar)), mode, expected)

\* The places of the rows of the open table.
OpenRows == (Len(outcar) - table + 3)..Len(outcar)

\* A complete block has the force of step k, unless path mode takes one for a
\* number that is none.
HasForceOf(block, truth, k) ==
    block.complete => \/ block.force = truth[k]
                      \/ mode = "path" /\ truth[k] = NoForce

StateOfTable ==
    CASE table \in {0, TableLength} -> "none"
      [] table = 1 -> "separator"
      [] OTHER -> "rows"

\* It has the largest force of the rows so far.
HasLargest(p) ==
    /\ \A j \in OpenRows : outcar[j].kind \in Numeric(mode) /\ outcar[j].force <= p.largest
    /\ p.largest = 0 \/ \E j \in OpenRows : outcar[j].force = p.largest

\* Started at the first line, the extractor knows the tables by number.
KnowsTables(p) ==
    /\ p.state = StateOfTable
    /\ Len(p.blocks) = Len(forces)
    /\ p.block = Len(forces) + (IF TableOpen THEN 1 ELSE 0)
    /\ \A k \in 1..Len(forces) : p.blocks[k].index = k /\ HasForceOf(p.blocks[k], forces, k)
    /\ TableOpen /\ ~p.malformed => HasLargest(p)

\* Started later, it has missed the first table.
MissedTable(p) ==
    /\ p.blocks = <<>> \/ Len(p.blocks) < Len(forces)
    /\ p.state # "none" => p.state = StateOfTable /\ Len(p.blocks) < Len(forces)
    /\ p.state = "none" /\ TableOpen => p.blocks = <<>>

ExtractorRight(p, c) ==
    /\ p \in Extractor
    /\ p.state = "none" => p.largest = 0
    /\ c = 0 => KnowsTables(p)
    /\ c # 0 => MissedTable(p)

ExtractorInv ==
    \A expected \in {Sites, Unknown}, c \in 0..Len(outcar) :
       ExtractorRight(After(c, expected), c)

WorldInv == WorldType /\ FilesInStep /\ ExtractorInv

-----------------------------------------------------------------------------
(* What is so of what was read.                                            *)

\* The blocks of a whole file.
WholeBlocks(blocks, truth) ==
    \A k \in 1..Len(blocks) :
       /\ blocks[k].index = k
       /\ blocks[k].complete => k \in 1..Len(truth)
       /\ HasForceOf(blocks[k], truth, k)

\* The blocks of a file that was cut off: not every step has a complete one.
CutBlocks(blocks, truth) ==
    /\ mode = "path"
    /\ \E n \in Nat : /\ n = 0 \/ n < Len(truth)
                      /\ \A k \in 1..Len(blocks) : blocks[k].complete => k <= n

ReaderInv ==
    /\ pc \in {"first", "oszicar", "oszicar after result", "vasprun", "outcar", "done"}
    /\ faults \in 0..MaxFaults
    /\ got \in GotType
    /\ pc \in {"first", "oszicar"} => got = NothingRead
    /\ pc = "vasprun" => got.vasprun = NoVasprun
    /\ pc = "oszicar after result" => got.oszicar = NoOszicar
    /\ WholeBlocks(got.blocks, got.truth) \/ CutBlocks(got.blocks, got.truth)

\* Once the job is over nothing moves, and what was read is what is there.
CalmInv ==
    got.calm => /\ run.over
                /\ got.oszicar \in {NoOszicar, OszicarText}
                /\ got.vasprun \in {NoVasprun, vasprun}

Inv == WorldInv /\ ReaderInv /\ CalmInv

-----------------------------------------------------------------------------
(* One line more.                                                          *)

LEMMA Shapes ==
    /\ Blank \in Extractor /\ Blank.state = "none" /\ Blank.largest = 0
    /\ Blank.block = 0 /\ Blank.blocks = <<>>
    /\ NoOszicar \in OszicarType
    /\ NoVasprun \in VasprunType
    /\ NothingRead \in GotType
<1>1. Blank \in Extractor /\ Blank.state = "none" /\ Blank.largest = 0
      /\ Blank.block = 0 /\ Blank.blocks = <<>>
  BY DEF Blank, Extractor
<1>2. NoOszicar \in OszicarType
  BY DEF NoOszicar, OszicarType
<1>3. NoVasprun \in VasprunType
  BY DEF NoVasprun, VasprunType, Flag
<1>4. NothingRead \in GotType
  BY <1>2, <1>3 DEF NothingRead, GotType
<1> QED
  BY <1>1, <1>2, <1>3, <1>4

\* What an extractor becomes at the end of a block.
LEMMA Finished ==
  ASSUME NEW p \in Extractor, NEW status, NEW expected
  PROVE  LET q == Finish(p, status, expected)
         IN  /\ q \in Extractor /\ q.state = "none" /\ q.largest = 0 /\ q.block = p.block
             /\ \E b \in Block : /\ q.blocks = Append(p.blocks, b)
                                 /\ b.index = p.block
                                 /\ b.complete => /\ b.force = p.largest
                                                  /\ ~p.malformed
                                                  /\ status = "complete"
<1> DEFINE final == FinalStatus(p, status, expected)
           complete == final = "complete" /\ p.rows > 0
           b == [index |-> p.block, complete |-> complete,
                 force |-> IF complete THEN p.largest ELSE 0]
           q == Finish(p, status, expected)
<1>1. p.block \in Nat /\ p.largest \in Nat /\ p.blocks \in Seq(Block) /\ p.malformed \in BOOLEAN
  BY DEF Extractor
<1>2. complete \in BOOLEAN
  OBVIOUS
<1>3. complete => ~p.malformed /\ status = "complete"
  BY DEF FinalStatus
<1>4. q = [Blank EXCEPT !.block = p.block, !.blocks = Append(p.blocks, b)]
  BY DEF Finish
<1> HIDE DEF complete, q
<1>5. b \in Block /\ b.index = p.block /\ b.complete = complete
      /\ (complete => b.force = p.largest)
  BY <1>1, <1>2 DEF Block
<1> HIDE DEF b
<1>6. Append(p.blocks, b) \in Seq(Block)
  BY <1>1, <1>5
<1>7. q \in Extractor /\ q.state = "none" /\ q.largest = 0 /\ q.block = p.block
      /\ q.blocks = Append(p.blocks, b)
  BY <1>1, <1>4, <1>6 DEF Blank, Extractor
<1> QED
  BY <1>3, <1>5, <1>7 DEF q

LEMMA FeedHeader ==
  ASSUME NEW p \in Extractor, NEW line, line.kind = "header", p.state = "none", NEW expected
  PROVE  LET q == Feed(p, line, mode, expected)
         IN  /\ q \in Extractor /\ q.state = "separator" /\ q.largest = p.largest
             /\ q.block = p.block + 1 /\ q.blocks = p.blocks
<1>1. Feed(p, line, mode, expected) = [p EXCEPT !.state = "separator", !.block = @ + 1]
  BY DEF Feed, Header, FinishOpen
<1>2. p.block + 1 \in Nat
  BY DEF Extractor
<1> QED
  BY <1>1, <1>2 DEF Extractor

\* Outside a table every other line is passed over.
LEMMA FeedOutside ==
  ASSUME NEW p, NEW line, line.kind # "header", p.state = "none", NEW expected
  PROVE  Feed(p, line, mode, expected) = p
BY DEF Feed

LEMMA FeedSeparator ==
  ASSUME NEW p \in Extractor, NEW line, line.kind = "separator", p.state = "separator",
         NEW expected
  PROVE  LET q == Feed(p, line, mode, expected)
         IN  /\ q \in Extractor /\ q.state = "rows" /\ q.largest = p.largest
             /\ q.block = p.block /\ q.blocks = p.blocks /\ q.malformed = p.malformed
<1>1. Feed(p, line, mode, expected) = [p EXCEPT !.state = "rows"]
  BY DEF Feed, Separator
<1> QED
  BY <1>1 DEF Extractor

LEMMA FeedEnd ==
  ASSUME NEW p, NEW line, line.kind = "separator", p.state = "rows", NEW expected
  PROVE  Feed(p, line, mode, expected) = Finish(p, "complete", expected)
BY DEF Feed, Separator

LEMMA FeedRow ==
  ASSUME NEW p \in Extractor, NEW line \in Line, line.kind \in {"row", "nan", "stars"},
         p.state = "rows", NEW expected
  PROVE  LET q == Feed(p, line, mode, expected)
         IN  /\ q \in Extractor /\ q.state = "rows" /\ q.block = p.block /\ q.blocks = p.blocks
             /\ ~q.malformed => /\ ~p.malformed
                                /\ line.kind \in Numeric(mode)
                                /\ q.largest >= p.largest /\ q.largest >= line.force
                                /\ q.largest \in {p.largest, line.force}
<1> DEFINE q == Feed(p, line, mode, expected)
<1>1. q = TableRow(p, line, mode)
  BY DEF Feed
<1>2. line.force \in Nat /\ p.largest \in Nat /\ p.rows + 1 \in Nat
  BY SitesAssumption DEF Line, Extractor
<1>3. CASE line.kind \in Numeric(mode)
  <2>1. q = [p EXCEPT !.state = "rows", !.malformed = p.malformed, !.rows = @ + 1,
                      !.largest = IF line.force > @ THEN line.force ELSE @]
    BY <1>1, <1>3 DEF TableRow, Extractor
  <2> HIDE DEF q
  <2>2. q \in Extractor /\ q.state = "rows" /\ q.block = p.block /\ q.blocks = p.blocks
        /\ q.malformed = p.malformed
        /\ q.largest = IF line.force > p.largest THEN line.force ELSE p.largest
    BY <1>2, <2>1 DEF Extractor
  <2> QED
    BY <1>2, <1>3, <2>2 DEF q
<1>4. CASE line.kind \notin Numeric(mode)
  <2>1. q = [p EXCEPT !.state = "rows", !.malformed = TRUE]
    BY <1>1, <1>4 DEF TableRow
  <2> HIDE DEF q
  <2> QED
    BY <2>1 DEF Extractor, q
<1> QED
  BY <1>3, <1>4

LEMMA LargestOf ==
  ASSUME NEW T, T \subseteq Nat, T # {}, NEW bound \in Nat, \A x \in T : x <= bound
  PROVE  Max(T) \in T /\ \A x \in T : x <= Max(T)
<1> DEFINE Below == {bound - x : x \in T}
<1>1. Below \subseteq Nat /\ Below # {}
  <2>1. \A x \in T : x \in Nat /\ x <= bound /\ bound - x \in Nat
    OBVIOUS
  <2>2. PICK x \in T : TRUE
    OBVIOUS
  <2>3. bound - x \in Below
    BY <2>2
  <2> QED
    BY <2>1, <2>3
<1>2. PICK y \in Below : \A z \in Below : y <= z
  BY <1>1, Least, Zenon
<1>3. PICK x \in T : y = bound - x
  BY <1>2
<1>4. \A z \in T : x >= z
  <2> SUFFICES ASSUME NEW z \in T PROVE x >= z
    OBVIOUS
  <2>1. bound - z \in Below /\ z \in Nat /\ x \in Nat
    OBVIOUS
  <2>2. bound - x <= bound - z
    BY <1>2, <1>3, <2>1
  <2> QED
    BY <2>1, <2>2
<1>5. Max(T) \in T /\ \A z \in T : Max(T) >= z
  BY <1>4 DEF Max
<1> QED
  BY <1>5

\* The force of a table is the largest of its rows, when all are numbers.
LEMMA ForceOfTable ==
  ASSUME NEW rows \in Seq(Line), Len(rows) = Sites
  PROVE  /\ ForceOfRows(rows) \in ForceValue
         /\ \/ ForceOfRows(rows) = NoForce /\ \E i \in 1..Sites : rows[i].kind = "nan"
            \/ /\ \A i \in 1..Sites : rows[i].force <= ForceOfRows(rows)
               /\ \E i \in 1..Sites : rows[i].force = ForceOfRows(rows)
<1> DEFINE T == {rows[i].force : i \in DOMAIN rows}
<1>1. DOMAIN rows = 1..Sites /\ Sites \in Nat /\ 1 \in 1..Sites
  BY SitesAssumption
<1>2. \A i \in 1..Sites : rows[i] \in Line
  BY <1>1
<1>3. \A i \in 1..Sites : rows[i].force \in 0..MaxForce
  BY <1>2 DEF Line
<1>4. CASE \E i \in DOMAIN rows : rows[i].kind = "nan"
  BY <1>1, <1>4 DEF ForceOfRows, ForceValue
<1>5. CASE ~\E i \in DOMAIN rows : rows[i].kind = "nan"
  <2>1. ForceOfRows(rows) = Max(T)
    BY <1>5 DEF ForceOfRows
  <2>2. T \subseteq Nat /\ T # {} /\ \A x \in T : x <= MaxForce
    BY <1>1, <1>3, SitesAssumption
  <2>3. Max(T) \in T /\ \A x \in T : x <= Max(T)
    BY <2>2, LargestOf, SitesAssumption
  <2> QED
    BY <1>1, <1>3, <2>1, <2>3 DEF ForceValue
<1> QED
  BY <1>4, <1>5

\* The file one line longer.
LEMMA OutcarGrows ==
  ASSUME outcar \in Seq(Line), NEW line \in Line, outcar' = Append(outcar, line),
         mode' = mode, NEW expected
  PROVE  /\ outcar' \in Seq(Line) /\ Len(outcar') = Len(outcar) + 1
         /\ \A j \in 1..Len(outcar) : outcar'[j] = outcar[j]
         /\ outcar'[Len(outcar) + 1] = line
         /\ \A c \in 0..Len(outcar) :
               After(c, expected)' = Feed(After(c, expected), line, mode, expected)
         /\ \A c \in {Len(outcar) + 1} : After(c, expected)' = Blank
<1> DEFINE n == Len(outcar)
<1>1. n \in Nat /\ outcar' \in Seq(Line) /\ Len(outcar') = n + 1 /\ outcar'[n + 1] = line
      /\ \A j \in 1..n : outcar'[j] = outcar[j]
  OBVIOUS
<1>2. ASSUME NEW c \in 0..n
      PROVE  After(c, expected)' = Feed(After(c, expected), line, mode, expected)
  <2> DEFINE rest == SubSeq(outcar, c + 1, n)
             longer == SubSeq(outcar', c + 1, n + 1)
  <2>1. rest \in Seq(Line) /\ Len(rest) = n - c /\ \A i \in 1..(n - c) : rest[i] = outcar[c + i]
    BY <1>1
  <2>2. longer \in Seq(Line) /\ Len(longer) = n - c + 1
        /\ \A i \in 1..(n - c + 1) : longer[i] = outcar'[c + i]
    BY <1>1
  <2> HIDE DEF rest, longer
  <2>3. longer = Append(rest, line)
    <3> DEFINE app == Append(rest, line)
    <3>1. app \in Seq(Line) /\ Len(app) = n - c + 1 /\ app[n - c + 1] = line
          /\ \A i \in 1..(n - c) : app[i] = rest[i]
      BY <1>1, <2>1
    <3> HIDE DEF app
    <3>2. \A i \in 1..(n - c + 1) : longer[i] = app[i]
      <4> SUFFICES ASSUME NEW i \in 1..(n - c + 1) PROVE longer[i] = app[i]
        OBVIOUS
      <4>1. CASE i = n - c + 1
        BY <1>1, <2>2, <3>1, <4>1
      <4>2. CASE i # n - c + 1
        <5>1. i \in 1..(n - c) /\ c + i \in 1..n
          BY <1>1, <4>2
        <5> QED
          BY <1>1, <2>1, <2>2, <3>1, <5>1
      <4> QED
        BY <4>1, <4>2
    <3>3. longer = app
      BY <1>1, <2>2, <3>1, <3>2
    <3> QED
      BY <3>3 DEF app
  <2>4. After(c, expected)' = Scanned(longer, mode, expected)
    BY <1>1 DEF After, longer
  <2>5. After(c, expected) = Scanned(rest, mode, expected)
    BY DEF After, rest
  <2> QED
    BY <2>1, <2>3, <2>4, <2>5, ScannedAppend
<1>3. ASSUME NEW c \in {n + 1} PROVE After(c, expected)' = Blank
  <2>1. SubSeq(outcar', c + 1, n + 1) = <<>>
    BY <1>1
  <2>2. After(c, expected)' = Scanned(<<>>, mode, expected)
    BY <1>1, <2>1 DEF After
  <2> QED
    BY <2>2, ScannedEmpty
<1> QED
  BY <1>1, <1>2, <1>3

LEMMA LinesOfATable ==
  ASSUME NEW n \in 0..(TableLength - 1), NEW line \in LinesAfter(n)
  PROVE  /\ line \in Line
         /\ n = 0 => line.kind = "header"
         /\ n \in {1, Sites + 2} => line.kind = "separator"
         /\ n \notin {0, 1, Sites + 2} => line.kind \in {"row", "nan", "stars"}
<1>1. Sites \in Nat /\ Sites # 0 /\ MaxForce \in Nat /\ n \in Nat
      /\ 0 \in 0..MaxForce /\ MaxForce \in 0..MaxForce
  BY SitesAssumption DEF TableLength
<1>2. CASE n = 0
  <2>1. line = [kind |-> "header", force |-> 0]
    BY <1>1, <1>2 DEF LinesAfter
  <2>2. line \in Line /\ line.kind = "header"
    BY <1>1, <2>1 DEF Line
  <2> QED
    BY <1>1, <1>2, <2>2
<1>3. CASE n \in {1, Sites + 2}
  <2>1. line = [kind |-> "separator", force |-> 0]
    BY <1>1, <1>3 DEF LinesAfter
  <2> QED
    BY <1>1, <1>3, <2>1 DEF Line
<1>4. CASE n \notin {0, 1, Sites + 2}
  <2>1. line \in [kind : {"row"}, force : 0..MaxForce]
              \cup {[kind |-> "nan", force |-> 0], [kind |-> "stars", force |-> MaxForce]}
    BY <1>1, <1>4 DEF LinesAfter
  <2>2. CASE line \in [kind : {"row"}, force : 0..MaxForce]
    BY <1>4, <2>2 DEF Line
  <2>3. CASE line \in {[kind |-> "nan", force |-> 0], [kind |-> "stars", force |-> MaxForce]}
    BY <1>1, <1>4, <2>3 DEF Line
  <2> QED
    BY <2>1, <2>2, <2>3
<1> QED
  BY <1>2, <1>3, <1>4

\* The last lines of OUTCAR at the end of a table are its rows.
LEMMA RowsOfTheTable ==
  ASSUME WorldType, FilesInStep, table = Sites + 2
  PROVE  LET rows == SubSeq(outcar, Len(outcar) - Sites + 1, Len(outcar))
         IN  /\ rows \in Seq(Line) /\ Len(rows) = Sites
             /\ \A i \in 1..Sites : rows[i] = outcar[Len(outcar) - Sites + i]
<1>1. outcar \in Seq(Line) /\ Sites \in Nat /\ Len(outcar) \in Nat /\ Sites + 2 <= Len(outcar)
  BY SitesAssumption DEF WorldType, FilesInStep
<1> QED
  BY <1>1

-----------------------------------------------------------------------------
(* The steps of the world.                                                 *)

WorldNext == \/ StartVasp \/ OpenCycle \/ WriteLine \/ SummariseStep
             \/ EndVasp \/ CrashVasp \/ EndJob

ReadNext ==
    ReadResult \/ ReadOszicar \/ ReadOszicarLater \/ ReadVasprun \/ ReadOutcar

\* The files keep their types, and step.
LEMMA WorldTypes == WorldType /\ FilesInStep /\ WorldNext => WorldType' /\ FilesInStep'
<1> SUFFICES ASSUME WorldType, FilesInStep, WorldNext
             PROVE  WorldType' /\ FilesInStep'
  OBVIOUS
<1>0. /\ run.number \in 0..MaxRuns /\ run.running \in BOOLEAN /\ run.over \in BOOLEAN
      /\ oszicar \in OszicarType
      /\ oszicar.cycles \in Seq(Cycle) /\ oszicar.open \in BOOLEAN /\ oszicar.readable \in BOOLEAN
      /\ table \in 0..TableLength /\ table \in Nat
      /\ outcar \in Seq(Line)
      /\ vasprun \in VasprunType
      /\ forces \in Seq(ForceValue)
      /\ Len(forces) \in Nat /\ Len(oszicar.cycles) \in Nat /\ Len(outcar) \in Nat
      /\ TableLength = Sites + 3 /\ Sites \in Nat /\ Sites # 0
  BY SitesAssumption DEF WorldType, OszicarType, TableLength
<1>1. CASE StartVasp
  <2>1. /\ run' = [run EXCEPT !.number = @ + 1, !.running = TRUE]
        /\ oszicar' = [NoOszicar EXCEPT !.readable = TRUE]
        /\ table' = 0 /\ outcar' = <<>> /\ vasprun' = NoVasprun /\ forces' = <<>>
        /\ mode' = mode /\ ~run.over /\ run.number < MaxRuns
    BY <1>1 DEF StartVasp
  <2>2. run' \in [number : 0..MaxRuns, running : BOOLEAN, over : BOOLEAN]
        /\ run'.over = FALSE
    <3>1. run.number + 1 \in 0..MaxRuns
      BY <1>0, <2>1, TrajectoryAssumption
    <3> QED
      BY <1>0, <2>1, <3>1 DEF WorldType
  <2>3. oszicar' \in OszicarType /\ oszicar'.cycles = <<>> /\ oszicar'.readable = TRUE
    <3>1. oszicar' = [readable |-> TRUE, cycles |-> <<>>, open |-> FALSE]
      BY <2>1 DEF NoOszicar
    <3>2. <<>> \in Seq(Cycle)
      OBVIOUS
    <3> QED
      BY <3>1, <3>2 DEF OszicarType
  <2>4. NoVasprun \in VasprunType /\ NoVasprun.closed = FALSE
    BY Shapes DEF NoVasprun
  <2>5. WorldType'
    BY <1>0, <2>1, <2>2, <2>3, <2>4 DEF WorldType
  <2>6. Len(forces') = 0 /\ Len(oszicar'.cycles) = 0 /\ Len(outcar') = 0 /\ table' # TableLength'
    BY <1>0, <2>1, <2>3 DEF TableLength
  <2>7. FilesInStep'
    BY <2>1, <2>2, <2>3, <2>4, <2>6 DEF FilesInStep
  <2> QED
    BY <2>5, <2>7
<1>2. CASE OpenCycle
  <2>1. /\ oszicar' = [oszicar EXCEPT !.open = TRUE] /\ ~oszicar.open /\ run.running
        /\ UNCHANGED <<run, table, outcar, vasprun, forces, mode>>
    BY <1>2 DEF OpenCycle
  <2>2. oszicar' \in OszicarType /\ oszicar'.cycles = oszicar.cycles /\ oszicar'.open
        /\ oszicar'.readable = oszicar.readable
    BY <1>0, <2>1 DEF OszicarType
  <2>3. WorldType'
    BY <2>1, <2>2 DEF WorldType
  <2>4. FilesInStep'
    BY <2>1, <2>2 DEF FilesInStep, TableOpen
  <2> QED
    BY <2>3, <2>4
<1>3. CASE WriteLine
  <2>1. PICK line \in LinesAfter(table) : outcar' = Append(outcar, line)
    BY <1>3 DEF WriteLine
  <2>2. /\ run.running /\ oszicar.open /\ table < TableLength /\ table' = table + 1
        /\ forces' = IF table + 1 = TableLength
                     THEN Append(forces, ForceOfRows(
                              SubSeq(outcar, Len(outcar) - Sites + 1, Len(outcar))))
                     ELSE forces
        /\ UNCHANGED <<run, oszicar, vasprun, mode>>
    BY <1>3 DEF WriteLine
  <2>3. table \in 0..(TableLength - 1) /\ table' \in 0..TableLength /\ table' \in Nat
    BY <1>0, <2>2
  <2>4. line \in Line
    BY <2>1, <2>3, LinesOfATable
  <2>5. outcar' \in Seq(Line) /\ Len(outcar') = Len(outcar) + 1 /\ Len(outcar) \in Nat
    BY <1>0, <2>1, <2>4
  <2>6. CASE table + 1 = TableLength
    <3>1. table = Sites + 2
      BY <1>0, <2>6
    <3>2. ForceOfRows(SubSeq(outcar, Len(outcar) - Sites + 1, Len(outcar))) \in ForceValue
      BY <3>1, RowsOfTheTable, ForceOfTable
    <3>3. forces' \in Seq(ForceValue) /\ Len(forces') = Len(forces) + 1 /\ forces' # <<>>
      BY <1>0, <2>2, <2>6, <3>2
    <3>4. WorldType'
      BY <2>2, <2>3, <2>5, <3>3 DEF WorldType
    <3>5. table # TableLength /\ table' = TableLength /\ Len(forces) \in Nat
          /\ Len(oszicar.cycles) \in Nat
      BY <1>0, <2>2, <2>6
    <3>6. Len(forces') = Len(oszicar'.cycles) + (IF table' = TableLength THEN 1 ELSE 0)
      <4>1. Len(forces) = Len(oszicar.cycles)
        BY <3>5 DEF FilesInStep
      <4> QED
        BY <2>2, <3>3, <3>5, <4>1
    <3>7. FilesInStep'
      <4>1. TableLength' = TableLength
        BY DEF TableLength
      <4> QED
        <5>1. table' <= Len(outcar')
          BY <1>0, <2>2, <2>5 DEF FilesInStep
        <5>2. /\ run'.over => ~run'.running
              /\ run'.running => oszicar'.readable
              /\ ~oszicar'.readable => oszicar'.cycles = <<>>
              /\ ~vasprun'.closed => vasprun' = NoVasprun
              /\ vasprun'.closed => /\ ~run'.running
                                    /\ oszicar'.readable
                                    /\ oszicar'.cycles # <<>>
                                    /\ Len(vasprun'.forces) = Len(oszicar'.cycles)
          BY <2>2, Zenon DEF FilesInStep
        <5> QED
          BY <2>2, <3>3, <3>6, <4>1, <5>1, <5>2 DEF FilesInStep
    <3> QED
      BY <3>4, <3>7
  <2>7. CASE table + 1 # TableLength
    <3>1. forces' = forces /\ table' # TableLength /\ table # TableLength
          /\ table' \in 1..(TableLength - 1)
      BY <1>0, <2>2, <2>3, <2>7
    <3>2. WorldType'
      BY <2>2, <2>3, <2>5, <3>1 DEF WorldType
    <3>3. FilesInStep'
      <4>1. TableLength' = TableLength
        BY DEF TableLength
      <4>2. TableOpen'
        BY <3>1 DEF TableOpen
      <4> QED
        BY <2>2, <2>3, <2>5, <3>1, <4>1, <4>2 DEF FilesInStep
    <3> QED
      BY <3>2, <3>3
  <2> QED
    BY <2>6, <2>7
<1>4. CASE SummariseStep
  <2>1. PICK cycle \in Cycle :
           oszicar' = [oszicar EXCEPT !.cycles = Append(@, cycle), !.open = FALSE]
    BY <1>4 DEF SummariseStep
  <2>2. /\ run.running /\ oszicar.open /\ table = TableLength /\ table' = 0
        /\ UNCHANGED <<run, outcar, vasprun, forces, mode>>
    BY <1>4 DEF SummariseStep
  <2>3. oszicar' \in OszicarType /\ Len(oszicar'.cycles) = Len(oszicar.cycles) + 1
        /\ oszicar'.readable = oszicar.readable /\ Len(oszicar.cycles) \in Nat
    <3>1. Append(oszicar.cycles, cycle) \in Seq(Cycle)
          /\ Len(Append(oszicar.cycles, cycle)) = Len(oszicar.cycles) + 1
      BY <1>0
    <3>2. oszicar' = [readable |-> oszicar.readable, cycles |-> Append(oszicar.cycles, cycle),
                      open |-> FALSE]
      BY <1>0, <2>1 DEF OszicarType
    <3> HIDE <2>1
    <3> QED
      BY <1>0, <3>1, <3>2 DEF OszicarType
  <2>4. WorldType'
    BY <1>0, <2>2, <2>3 DEF WorldType
  <2>5. Len(forces) = Len(oszicar.cycles) + 1 /\ forces # <<>>
    BY <1>0, <2>2 DEF FilesInStep
  <2>6. FilesInStep'
    <3>1. table' # TableLength' /\ TableLength' = TableLength /\ oszicar.readable
      BY <1>0, <2>2 DEF TableLength, FilesInStep
    <3> QED
      BY <1>0, <2>2, <2>3, <2>5, <3>1 DEF FilesInStep
  <2> QED
    BY <2>4, <2>6
<1>5. CASE EndVasp
  <2>1. PICK flagE, flagI \in {"true", "false"} :
           vasprun' = [closed |-> TRUE, forces |-> forces, flagE |-> flagE, flagI |-> flagI]
    BY <1>5 DEF EndVasp
  <2>2. /\ run.running /\ ~oszicar.open /\ oszicar.cycles # <<>>
        /\ run' = [run EXCEPT !.running = FALSE]
        /\ UNCHANGED <<oszicar, table, outcar, forces, mode>>
    BY <1>5 DEF EndVasp
  <2>3. vasprun' \in VasprunType /\ vasprun'.closed /\ vasprun'.forces = forces
    BY <1>0, <2>1 DEF VasprunType, Flag
  <2>4. run' \in [number : 0..MaxRuns, running : BOOLEAN, over : BOOLEAN]
        /\ ~run'.running /\ run'.over = run.over
    BY <1>0, <2>2 DEF WorldType
  <2>5. table = 0 /\ table # TableLength /\ Len(forces) = Len(oszicar.cycles)
    <3>1. table = 0 /\ table # TableLength
      BY <1>0, <2>2 DEF FilesInStep
    <3> QED
      BY <1>0, <3>1 DEF FilesInStep
  <2>6. oszicar.readable
    BY <1>0, <2>2 DEF FilesInStep
  <2>7. WorldType'
    BY <2>2, <2>3, <2>4 DEF WorldType
  <2>8. FilesInStep'
    BY <1>0, <2>2, <2>3, <2>4, <2>5, <2>6 DEF FilesInStep, TableOpen
  <2> QED
    BY <2>7, <2>8
<1>6. CASE CrashVasp
  <2>1. run' = [run EXCEPT !.running = FALSE]
        /\ UNCHANGED <<oszicar, table, outcar, vasprun, forces, mode>>
    BY <1>6 DEF CrashVasp
  <2>2. run' \in [number : 0..MaxRuns, running : BOOLEAN, over : BOOLEAN]
        /\ ~run'.running /\ run'.over = run.over
    BY <1>0, <2>1 DEF WorldType
  <2> QED
    BY <2>1, <2>2 DEF WorldType, FilesInStep, TableOpen
<1>7. CASE EndJob
  <2>1. run' = [run EXCEPT !.running = FALSE, !.over = TRUE]
        /\ UNCHANGED <<oszicar, table, outcar, vasprun, forces, mode>>
    BY <1>7 DEF EndJob
  <2>2. run' \in [number : 0..MaxRuns, running : BOOLEAN, over : BOOLEAN]
        /\ ~run'.running /\ run'.over
    BY <1>0, <2>1 DEF WorldType
  <2> QED
    BY <2>1, <2>2 DEF WorldType, FilesInStep, TableOpen
<1> QED
  BY <1>1, <1>2, <1>3, <1>4, <1>5, <1>6, <1>7 DEF WorldNext

\* Whatever line comes next, an extractor stays right.
LEMMA LineIsRead ==
  ASSUME WorldType, FilesInStep, WriteLine,
         NEW line \in LinesAfter(table), outcar' = Append(outcar, line),
         NEW c \in 0..Len(outcar), NEW expected,
         NEW p, ExtractorRight(p, c), NEW q, q = Feed(p, line, mode, expected)
  PROVE  ExtractorRight(q, c)'
<1>0. /\ outcar \in Seq(Line) /\ Len(outcar) \in Nat
      /\ forces \in Seq(ForceValue) /\ Len(forces) \in Nat
      /\ table \in Nat /\ table < TableLength /\ table' = table + 1
      /\ table \in 0..(TableLength - 1)
      /\ TableLength = Sites + 3 /\ TableLength' = Sites + 3 /\ Sites \in Nat /\ Sites # 0
      /\ mode' = mode
      /\ c \in Nat /\ c <= Len(outcar)
  BY SitesAssumption DEF WorldType, TableLength, WriteLine
<1>1. /\ line \in Line
      /\ table = 0 => line.kind = "header"
      /\ table \in {1, Sites + 2} => line.kind = "separator"
      /\ table \notin {0, 1, Sites + 2} => line.kind \in {"row", "nan", "stars"}
  BY <1>0, LinesOfATable
<1>2. /\ outcar' \in Seq(Line) /\ Len(outcar') = Len(outcar) + 1
      /\ \A j \in 1..Len(outcar) : outcar'[j] = outcar[j]
      /\ outcar'[Len(outcar) + 1] = line
  BY <1>0, <1>1
<1>3. /\ p \in Extractor /\ p.blocks \in Seq(Block) /\ Len(p.blocks) \in Nat
      /\ p.block \in Nat /\ p.largest \in Nat
      /\ p.state = "none" => p.largest = 0
      /\ c = 0 => KnowsTables(p)
      /\ c # 0 => MissedTable(p)
  BY DEF ExtractorRight, Extractor
<1>4. table # Sites + 2 => forces' = forces
  BY <1>0 DEF WriteLine
<1>5. CASE table = 0
  <2>1. StateOfTable = "none" /\ ~TableOpen /\ StateOfTable' = "separator" /\ TableOpen'
    BY <1>0, <1>5 DEF StateOfTable, TableOpen
  <2>2. p.state = "none" /\ p.largest = 0
    BY <1>3, <2>1 DEF KnowsTables, MissedTable
  <2>3. /\ q \in Extractor /\ q.state = "separator" /\ q.largest = 0
        /\ q.block = p.block + 1 /\ q.blocks = p.blocks
    BY <1>1, <1>3, <1>5, <2>2, FeedHeader
  <2>4. CASE c = 0
    <3>1. HasLargest(q)'
      <4>1. OpenRows' = (Len(outcar) + 3)..(Len(outcar) + 1)
        BY <1>0, <1>2, <1>5 DEF OpenRows
      <4> QED
        BY <1>0, <2>3, <4>1 DEF HasLargest
    <3>2. KnowsTables(q)'
      BY <1>0, <1>3, <1>4, <1>5, <2>1, <2>3, <2>4, <3>1 DEF KnowsTables, HasForceOf
    <3> QED
      BY <2>3, <2>4, <3>2 DEF ExtractorRight
  <2>5. CASE c # 0
    <3>1. forces # <<>> /\ Len(forces) > 0
      <4>1. Len(outcar) # 0 /\ outcar # <<>>
        BY <1>0, <2>5
      <4>2. forces # <<>>
        BY <2>1, <4>1, Zenon DEF FilesInStep
      <4> QED
        BY <1>0, <4>2
    <3>2. Len(q.blocks) < Len(forces)
      BY <1>3, <2>3, <2>5, <3>1 DEF MissedTable
    <3>3. MissedTable(q)'
      BY <1>0, <1>4, <1>5, <2>1, <2>3, <3>2 DEF MissedTable
    <3> QED
      BY <2>3, <2>5, <3>3 DEF ExtractorRight
  <2> QED
    BY <2>4, <2>5
<1>6. CASE table = 1
  <2>1. StateOfTable = "separator" /\ TableOpen /\ StateOfTable' = "rows" /\ TableOpen'
    BY <1>0, <1>6 DEF StateOfTable, TableOpen
  <2>2. CASE p.state = "none"
    <3>1. c # 0 /\ p.blocks = <<>>
      BY <1>3, <2>1, <2>2 DEF KnowsTables, MissedTable
    <3>2. q = p
      BY <1>1, <1>6, <2>2, FeedOutside
    <3>3. MissedTable(q)'
      BY <2>2, <3>1, <3>2 DEF MissedTable
    <3> QED
      BY <1>3, <3>1, <3>2, <3>3 DEF ExtractorRight
  <2>3. CASE p.state # "none"
    <3>1. p.state = "separator"
      BY <1>3, <2>1, <2>3 DEF KnowsTables, MissedTable
    <3>2. /\ q \in Extractor /\ q.state = "rows" /\ q.largest = p.largest
          /\ q.block = p.block /\ q.blocks = p.blocks /\ q.malformed = p.malformed
      BY <1>1, <1>3, <1>6, <3>1, FeedSeparator
    <3>3. CASE c = 0
      <4>1. ~q.malformed => HasLargest(q)'
        <5>1. OpenRows = (Len(outcar) + 2)..Len(outcar)
              /\ OpenRows' = (Len(outcar) + 2)..(Len(outcar) + 1)
          BY <1>0, <1>2, <1>6 DEF OpenRows
        <5>2. ~q.malformed => q.largest = 0
          BY <1>0, <1>3, <2>1, <3>2, <3>3, <5>1 DEF KnowsTables, HasLargest
        <5> QED
          BY <1>0, <5>1, <5>2 DEF HasLargest
      <4>2. KnowsTables(q)'
        BY <1>0, <1>3, <1>4, <1>6, <2>1, <3>2, <3>3, <4>1 DEF KnowsTables, HasForceOf
      <4> QED
        BY <3>2, <3>3, <4>2 DEF ExtractorRight
    <3>4. CASE c # 0
      <4>1. MissedTable(q)'
        BY <1>0, <1>3, <1>4, <1>6, <2>1, <2>3, <3>2, <3>4 DEF MissedTable
      <4> QED
        BY <3>2, <3>4, <4>1 DEF ExtractorRight
    <3> QED
      BY <3>3, <3>4
  <2> QED
    BY <2>2, <2>3
<1>7. CASE table \notin {0, 1, Sites + 2}
  <2>1. StateOfTable = "rows" /\ TableOpen /\ StateOfTable' = "rows" /\ TableOpen'
    BY <1>0, <1>7 DEF StateOfTable, TableOpen
  <2>2. CASE p.state = "none"
    <3>1. c # 0 /\ p.blocks = <<>>
      BY <1>3, <2>1, <2>2 DEF KnowsTables, MissedTable
    <3>2. q = p
      BY <1>1, <1>7, <2>2, FeedOutside
    <3>3. MissedTable(q)'
      BY <2>2, <3>1, <3>2 DEF MissedTable
    <3> QED
      BY <1>3, <3>1, <3>2, <3>3 DEF ExtractorRight
  <2>3. CASE p.state # "none"
    <3>1. p.state = "rows"
      BY <1>3, <2>1, <2>3 DEF KnowsTables, MissedTable
    <3>2. /\ q \in Extractor /\ q.state = "rows" /\ q.block = p.block /\ q.blocks = p.blocks
          /\ ~q.malformed => /\ ~p.malformed
                             /\ line.kind \in Numeric(mode)
                             /\ q.largest >= p.largest /\ q.largest >= line.force
                             /\ q.largest \in {p.largest, line.force}
      BY <1>1, <1>3, <1>7, <3>1, FeedRow
    <3>3. CASE c = 0
      <4>1. ASSUME ~q.malformed PROVE HasLargest(q)'
        <5>1. HasLargest(p)
          BY <1>3, <2>1, <3>2, <3>3, <4>1 DEF KnowsTables
        <5> DEFINE first == Len(outcar) - table + 3
        <5>2. OpenRows = first..Len(outcar) /\ OpenRows' = first..(Len(outcar) + 1)
          BY <1>0, <1>2 DEF OpenRows
        <5>3. first \in Int /\ first <= Len(outcar) + 1 /\ first >= 1
          BY <1>0, <1>7 DEF FilesInStep
        <5> HIDE DEF first
        <5>4. /\ Len(outcar) + 1 \in OpenRows'
              /\ \A j \in OpenRows : j \in OpenRows' /\ j \in 1..Len(outcar)
              /\ \A j \in OpenRows' : j \in OpenRows \/ j = Len(outcar) + 1
          BY <1>0, <5>2, <5>3
        <5>5. /\ line.force \in Nat /\ q.largest \in Nat
              /\ \A j \in OpenRows : outcar'[j] = outcar[j] /\ outcar[j].force \in Nat
          <6>1. \A j \in OpenRows : outcar'[j] = outcar[j] /\ outcar[j] \in Line
            BY <1>0, <1>2, <5>4
          <6>2. \A l \in Line : l.force \in Nat
            BY SitesAssumption DEF Line
          <6> QED
            BY <1>1, <3>2, <6>1, <6>2 DEF Extractor
        <5>6. \A j \in OpenRows' : outcar'[j].kind \in Numeric(mode) /\ outcar'[j].force <= q.largest
          <6> SUFFICES ASSUME NEW j \in OpenRows'
                       PROVE  outcar'[j].kind \in Numeric(mode) /\ outcar'[j].force <= q.largest
            OBVIOUS
          <6>1. CASE j \in OpenRows
            <7>1. outcar[j].kind \in Numeric(mode) /\ outcar[j].force <= p.largest
              BY <5>1, <6>1 DEF HasLargest
            <7>2. outcar'[j] = outcar[j] /\ outcar[j].force \in Nat
              BY <5>5, <6>1
            <7>3. q.largest >= p.largest /\ q.largest \in Nat /\ p.largest \in Nat
              BY <1>3, <3>2, <4>1, <5>5
            <7> QED
              BY <7>1, <7>2, <7>3
          <6>2. CASE j = Len(outcar) + 1
            <7>1. outcar'[j] = line
              BY <1>2, <6>2
            <7>2. line.kind \in Numeric(mode) /\ q.largest >= line.force
              BY <3>2, <4>1
            <7> QED
              BY <5>5, <7>1, <7>2
          <6> QED
            BY <5>4, <6>1, <6>2
        <5>7. q.largest = 0 \/ \E j \in OpenRows' : outcar'[j].force = q.largest
          <6>1. CASE q.largest = p.largest
            BY <5>1, <5>4, <5>5, <6>1 DEF HasLargest
          <6>2. CASE q.largest = line.force
            BY <1>2, <5>4, <6>2
          <6> QED
            BY <3>2, <4>1, <6>1, <6>2
        <5> QED
          BY <1>0, <5>6, <5>7 DEF HasLargest
      <4>2. KnowsTables(q)'
        BY <1>0, <1>3, <1>4, <1>7, <2>1, <3>2, <3>3, <4>1 DEF KnowsTables, HasForceOf
      <4> QED
        BY <3>2, <3>3, <4>2 DEF ExtractorRight
    <3>4. CASE c # 0
      <4>1. MissedTable(q)'
        BY <1>0, <1>3, <1>4, <1>7, <2>1, <2>3, <3>2, <3>4 DEF MissedTable
      <4> QED
        BY <3>2, <3>4, <4>1 DEF ExtractorRight
    <3> QED
      BY <3>3, <3>4
  <2> QED
    BY <2>2, <2>3
<1>8. CASE table = Sites + 2
  <2> DEFINE rows == SubSeq(outcar, Len(outcar) - Sites + 1, Len(outcar))
             n == Len(forces)
  <2>1. StateOfTable = "rows" /\ TableOpen /\ StateOfTable' = "none" /\ ~TableOpen'
    BY <1>0, <1>8 DEF StateOfTable, TableOpen
  <2>2. /\ rows \in Seq(Line) /\ Len(rows) = Sites
        /\ \A i \in 1..Sites : rows[i] = outcar[Len(outcar) - Sites + i]
    BY <1>8, RowsOfTheTable
  <2>3. forces' = Append(forces, ForceOfRows(rows))
    BY <1>0, <1>8 DEF WriteLine
  <2>4. /\ ForceOfRows(rows) \in ForceValue
        /\ \/ ForceOfRows(rows) = NoForce /\ \E i \in 1..Sites : rows[i].kind = "nan"
           \/ /\ \A i \in 1..Sites : rows[i].force <= ForceOfRows(rows)
              /\ \E i \in 1..Sites : rows[i].force = ForceOfRows(rows)
    <3> HIDE DEF rows
    <3> QED
      BY <2>2, ForceOfTable
  <2> HIDE DEF rows
  <2>5. /\ Len(forces') = n + 1 /\ forces'[n + 1] = ForceOfRows(rows)
        /\ \A k \in 1..n : forces'[k] = forces[k]
    BY <1>0, <2>3, <2>4
  <2>6. CASE p.state = "none"
    <3>1. c # 0 /\ p.blocks = <<>>
      BY <1>3, <2>1, <2>6 DEF KnowsTables, MissedTable
    <3>2. q = p
      BY <1>1, <1>8, <2>6, FeedOutside
    <3>3. MissedTable(q)'
      BY <2>6, <3>1, <3>2 DEF MissedTable
    <3> QED
      BY <1>3, <3>1, <3>2, <3>3 DEF ExtractorRight
  <2>7. CASE p.state # "none"
    <3>1. p.state = "rows"
      BY <1>3, <2>1, <2>7 DEF KnowsTables, MissedTable
    <3>2. q = Finish(p, "complete", expected)
      BY <1>1, <1>8, <3>1, FeedEnd
    <3>3. q \in Extractor /\ q.state = "none" /\ q.largest = 0 /\ q.block = p.block
      BY <1>3, <3>2, Finished
    <3>4. PICK b \in Block : /\ q.blocks = Append(p.blocks, b)
                             /\ b.index = p.block
                             /\ b.complete => b.force = p.largest /\ ~p.malformed
      BY <1>3, <3>2, Finished
    <3>5. Len(q.blocks) = Len(p.blocks) + 1 /\ q.blocks[Len(p.blocks) + 1] = b
          /\ \A k \in 1..Len(p.blocks) : q.blocks[k] = p.blocks[k]
      BY <1>3, <3>4
    <3>6. CASE c = 0
      <4>1. Len(p.blocks) = n /\ p.block = n + 1
        BY <1>3, <2>1, <3>6 DEF KnowsTables
      <4>2. \A k \in {n + 1} : HasForceOf(b, forces, k)'
        <5> SUFFICES ASSUME b.complete
                     PROVE  \/ p.largest = ForceOfRows(rows)
                            \/ mode = "path" /\ ForceOfRows(rows) = NoForce
          BY <1>0, <2>5, <3>4 DEF HasForceOf
        <5>1. HasLargest(p)
          BY <1>3, <2>1, <3>4, <3>6 DEF KnowsTables
        <5>2. OpenRows = (Len(outcar) - Sites + 1)..Len(outcar)
          BY <1>0, <1>8 DEF OpenRows
        <5>3. \A i \in 1..Sites : rows[i].kind \in Numeric(mode) /\ rows[i].force <= p.largest
          <6> SUFFICES ASSUME NEW i \in 1..Sites
                       PROVE  rows[i].kind \in Numeric(mode) /\ rows[i].force <= p.largest
            OBVIOUS
          <6>1. Len(outcar) - Sites + i \in OpenRows
            BY <1>0, <5>2
          <6> QED
            BY <2>2, <5>1, <6>1 DEF HasLargest
        <5>4. p.largest = 0 \/ \E i \in 1..Sites : rows[i].force = p.largest
          <6> SUFFICES ASSUME NEW j \in OpenRows
                       PROVE  \E i \in 1..Sites : rows[i] = outcar[j]
            BY <5>1 DEF HasLargest
          <6>1. j - (Len(outcar) - Sites) \in 1..Sites
                /\ Len(outcar) - Sites + (j - (Len(outcar) - Sites)) = j
            BY <1>0, <5>2
          <6> QED
            BY <2>2, <6>1
        <5>5. \A i \in 1..Sites : rows[i].force \in Nat
          <6>1. \A l \in Line : l.force \in Nat
            BY SitesAssumption DEF Line
          <6> QED
            BY <1>0, <2>2, <6>1
        <5>6. CASE ForceOfRows(rows) = NoForce /\ \E i \in 1..Sites : rows[i].kind = "nan"
          <6>1. mode # "job"
            BY <5>3, <5>6 DEF Numeric
          <6> QED
            BY <5>6, <6>1 DEF WorldType
        <5>7. CASE /\ \A i \in 1..Sites : rows[i].force <= ForceOfRows(rows)
                   /\ \E i \in 1..Sites : rows[i].force = ForceOfRows(rows)
          BY <1>0, <1>3, <5>3, <5>4, <5>5, <5>7
        <5> QED
          BY <2>4, <5>6, <5>7
      <4>3. \A k \in 1..(n + 1) : q.blocks[k].index = k /\ HasForceOf(q.blocks[k], forces, k)'
        <5> SUFFICES ASSUME NEW k \in 1..(n + 1)
                     PROVE  q.blocks[k].index = k /\ HasForceOf(q.blocks[k], forces, k)'
          OBVIOUS
        <5>1. CASE k = n + 1
          BY <3>4, <3>5, <4>1, <4>2, <5>1
        <5>2. CASE k # n + 1
          <6>1. k \in 1..n
            BY <1>0, <5>2
          <6>2. p.blocks[k].index = k /\ HasForceOf(p.blocks[k], forces, k)
            BY <1>3, <3>6, <6>1 DEF KnowsTables
          <6> QED
            BY <1>0, <2>5, <3>5, <4>1, <6>1, <6>2 DEF HasForceOf
        <5> QED
          BY <5>1, <5>2
      <4>4. KnowsTables(q)'
        BY <1>0, <2>1, <2>5, <3>3, <3>5, <4>1, <4>3 DEF KnowsTables, HasForceOf
      <4> QED
        BY <3>3, <3>6, <4>4 DEF ExtractorRight
    <3>7. CASE c # 0
      <4>1. Len(p.blocks) < n
        BY <1>3, <2>7, <3>7 DEF MissedTable
      <4>2. MissedTable(q)'
        BY <1>0, <1>3, <2>1, <2>5, <3>3, <3>5, <4>1 DEF MissedTable
      <4> QED
        BY <3>3, <3>7, <4>2 DEF ExtractorRight
    <3> QED
      BY <3>6, <3>7
  <2> QED
    BY <2>6, <2>7
<1> QED
  BY <1>5, <1>6, <1>7, <1>8

LEMMA ExtractorSteps ==
  WorldType /\ FilesInStep /\ ExtractorInv /\ WorldNext => ExtractorInv'
<1> SUFFICES ASSUME WorldType, FilesInStep, ExtractorInv, WorldNext
             PROVE  ExtractorInv'
  OBVIOUS
<1>0. /\ outcar \in Seq(Line) /\ Len(outcar) \in Nat
      /\ forces \in Seq(ForceValue) /\ Len(forces) \in Nat
      /\ TableLength = Sites + 3 /\ TableLength' = Sites + 3 /\ Sites \in Nat /\ Sites # 0
  BY SitesAssumption DEF WorldType, TableLength
<1>1. CASE StartVasp
  <2>1. table' = 0 /\ outcar' = <<>> /\ forces' = <<>> /\ mode' = mode
    BY <1>1 DEF StartVasp
  <2>2. Len(outcar') = 0 /\ Len(forces') = 0
    BY <2>1
  <2>3. ASSUME NEW expected PROVE ExtractorRight(After(0, expected), 0)'
    <3>1. SubSeq(outcar', 0 + 1, Len(outcar')) = <<>>
      BY <2>1
    <3>2. After(0, expected)' = Blank
      BY <2>1, <3>1, ScannedEmpty DEF After
    <3>3. StateOfTable' = "none" /\ ~TableOpen'
      BY <1>0, <2>1 DEF StateOfTable, TableOpen
    <3>4. PICK p : p = After(0, expected)'
      OBVIOUS
    <3>5. ExtractorRight(p, 0)'
      BY <2>2, <3>2, <3>3, <3>4, Shapes DEF ExtractorRight, KnowsTables
    <3> QED
      BY <3>4, <3>5 DEF ExtractorRight, KnowsTables, HasForceOf, HasLargest
  <2> QED
    BY <2>2, <2>3 DEF ExtractorInv
<1>2. CASE WriteLine
  <2>1. PICK line \in LinesAfter(table) : outcar' = Append(outcar, line)
    BY <1>2 DEF WriteLine
  <2>2. table \in 0..(TableLength - 1) /\ mode' = mode
    BY <1>0, <1>2 DEF WorldType, WriteLine
  <2>3. line \in Line
    BY <2>1, <2>2, LinesOfATable
  <2>4. Len(outcar') = Len(outcar) + 1
    BY <1>0, <2>1, <2>3
  <2>5. ASSUME NEW expected \in {Sites, Unknown}, NEW c \in 0..(Len(outcar) + 1)
        PROVE  ExtractorRight(After(c, expected), c)'
    <3>1. CASE c \in 0..Len(outcar)
      <4>1. PICK p : p = After(c, expected)
        OBVIOUS
      <4>2. PICK q : q = After(c, expected)'
        OBVIOUS
      <4>3. q = Feed(p, line, mode, expected)
        BY <1>0, <2>1, <2>2, <2>3, <3>1, <4>1, <4>2, OutcarGrows
      <4>4. ExtractorRight(p, c)
        <5>1. ExtractorRight(After(c, expected), c)
          BY <3>1 DEF ExtractorInv
        <5> QED
          BY <4>1, <5>1
      <4>5. ExtractorRight(q, c)'
        BY <1>2, <2>1, <3>1, <4>3, <4>4, LineIsRead
      <4> QED
        BY <4>2, <4>5 DEF ExtractorRight, KnowsTables, MissedTable, HasForceOf, HasLargest
    <3>2. CASE c = Len(outcar) + 1
      <4>1. After(c, expected)' = Blank
        BY <1>0, <2>1, <2>2, <2>3, <3>2, OutcarGrows
      <4>2. PICK q : q = After(c, expected)'
        OBVIOUS
      <4>3. c # 0
        BY <1>0, <3>2
      <4>4. ExtractorRight(q, c)'
        BY <4>1, <4>2, <4>3, Shapes DEF ExtractorRight, MissedTable
      <4> QED
        BY <4>2, <4>4 DEF ExtractorRight, KnowsTables, MissedTable, HasForceOf, HasLargest
    <3> QED
      BY <1>0, <3>1, <3>2
  <2> QED
    BY <2>4, <2>5 DEF ExtractorInv
<1>3. ASSUME UNCHANGED <<outcar, forces, mode>>,
             \/ table' = table
             \/ table = TableLength /\ table' = 0
      PROVE  ExtractorInv'
  <2>1. StateOfTable' = StateOfTable /\ (TableOpen' <=> TableOpen)
    BY <1>0, <1>3 DEF StateOfTable, TableOpen
  <2>2. TableOpen => OpenRows' = OpenRows
    BY <1>0, <1>3 DEF OpenRows, TableOpen
  <2>3. ASSUME NEW expected \in {Sites, Unknown}, NEW c \in 0..Len(outcar)
        PROVE  ExtractorRight(After(c, expected), c)'
    <3>1. After(c, expected)' = After(c, expected)
      BY <1>3 DEF After
    <3>2. PICK p : p = After(c, expected)
      OBVIOUS
    <3>3. ExtractorRight(p, c)
      <4>1. ExtractorRight(After(c, expected), c)
        BY DEF ExtractorInv
      <4> QED
        BY <3>2, <4>1
    <3>4. KnowsTables(p) => KnowsTables(p)'
      BY <1>3, <2>1, <2>2 DEF KnowsTables, HasForceOf, HasLargest
    <3>5. MissedTable(p) => MissedTable(p)'
      BY <1>3, <2>1 DEF MissedTable
    <3>6. ExtractorRight(p, c)'
      BY <3>3, <3>4, <3>5 DEF ExtractorRight
    <3> QED
      BY <3>1, <3>2, <3>6 DEF ExtractorRight, KnowsTables, MissedTable, HasForceOf, HasLargest
  <2> QED
    BY <1>3, <2>3 DEF ExtractorInv
<1>4. CASE OpenCycle
  BY <1>3, <1>4 DEF OpenCycle
<1>5. CASE SummariseStep
  BY <1>3, <1>5 DEF SummariseStep
<1>6. CASE EndVasp
  BY <1>3, <1>6 DEF EndVasp
<1>7. CASE CrashVasp
  BY <1>3, <1>7 DEF CrashVasp
<1>8. CASE EndJob
  BY <1>3, <1>8 DEF EndJob
<1> QED
  BY <1>1, <1>2, <1>4, <1>5, <1>6, <1>7, <1>8 DEF WorldNext

-----------------------------------------------------------------------------
(* The steps of the reader.                                                *)

\* What is made of the whole file, or of its end.
LEMMA BlocksOfTheText ==
  ASSUME WorldInv, NEW expected \in {Sites, Unknown}
  PROVE  LET blocks == Blocks(OutcarText, mode, expected)
         IN  /\ blocks \in Seq(Block)
             /\ WholeBlocks(blocks, forces) \/ CutBlocks(blocks, forces)
<1>0. /\ outcar \in Seq(Line) /\ Len(outcar) \in Nat /\ Len(forces) \in Nat
      /\ TailLines \in Nat /\ TailLines # 0 /\ mode \in {"job", "path"}
  BY TrajectoryAssumption DEF WorldInv, WorldType
<1>1. PICK c \in 0..Len(outcar) : /\ OutcarText = SubSeq(outcar, c + 1, Len(outcar))
                                  /\ c # 0 => mode = "path"
  <2>1. CASE mode = "job" \/ Len(outcar) <= TailLines
    <3>1. OutcarText = SubSeq(outcar, 0 + 1, Len(outcar))
      BY <1>0, <2>1 DEF OutcarText
    <3>2. 0 \in 0..Len(outcar)
      BY <1>0
    <3> QED
      BY <3>1, <3>2
  <2>2. CASE ~(mode = "job" \/ Len(outcar) <= TailLines)
    <3>1. OutcarText = SubSeq(outcar, (Len(outcar) - TailLines) + 1, Len(outcar))
      BY <2>2 DEF OutcarText
    <3>2. Len(outcar) - TailLines \in 0..Len(outcar)
      BY <1>0, <2>2
    <3> QED
      BY <1>0, <2>2, <3>1, <3>2
  <2> QED
    BY <2>1, <2>2
<1>2. PICK p : p = After(c, expected)
  OBVIOUS
<1>3. ExtractorRight(p, c)
  <2>1. ExtractorRight(After(c, expected), c)
    BY DEF WorldInv, ExtractorInv
  <2> QED
    BY <1>2, <2>1
<1> DEFINE blocks == Blocks(OutcarText, mode, expected)
<1>4. blocks = FinishOpen(p, expected).blocks
  <2>1. p = Scanned(OutcarText, mode, expected)
    BY <1>1, <1>2 DEF After
  <2> QED
    BY <2>1 DEF Blocks
<1>5. /\ p \in Extractor /\ p.blocks \in Seq(Block) /\ Len(p.blocks) \in Nat
      /\ c = 0 => KnowsTables(p)
      /\ c # 0 => MissedTable(p)
  BY <1>3 DEF ExtractorRight, Extractor
<1>6. \/ p.state = "none" /\ blocks = p.blocks
      \/ p.state # "none" /\ \E b \in Block : /\ blocks = Append(p.blocks, b)
                                              /\ b.index = p.block
                                              /\ ~b.complete
  <2>1. CASE p.state = "none"
    BY <1>4, <2>1 DEF FinishOpen
  <2>2. CASE p.state # "none"
    <3>1. blocks = Finish(p, "incomplete", expected).blocks
      BY <1>4, <2>2 DEF FinishOpen
    <3>2. PICK b \in Block : /\ Finish(p, "incomplete", expected).blocks = Append(p.blocks, b)
                             /\ b.index = p.block
                             /\ b.complete => "incomplete" = "complete"
      BY <1>5, Finished
    <3> HIDE DEF blocks
    <3> QED
      BY <2>2, <3>1, <3>2
  <2> QED
    BY <2>1, <2>2
<1> HIDE DEF blocks
<1> DEFINE AllOrOneMore ==
        /\ blocks \in Seq(Block)
        /\ \A k \in 1..Len(p.blocks) : blocks[k] = p.blocks[k]
        /\ \A k \in 1..Len(blocks) :
              \/ k \in 1..Len(p.blocks)
              \/ /\ k = Len(p.blocks) + 1 /\ p.state # "none"
                 /\ blocks[k].index = p.block /\ ~blocks[k].complete
<1>7. AllOrOneMore
  <2>1. CASE p.state = "none" /\ blocks = p.blocks
    BY <1>5, <2>1
  <2>2. ASSUME p.state # "none", NEW b \in Block, blocks = Append(p.blocks, b),
               b.index = p.block, ~b.complete
        PROVE  AllOrOneMore
    <3>1. Len(blocks) = Len(p.blocks) + 1 /\ blocks[Len(p.blocks) + 1] = b
          /\ blocks \in Seq(Block)
      BY <1>5, <2>2
    <3>2. \A k \in 1..Len(p.blocks) : blocks[k] = p.blocks[k]
      BY <1>5, <2>2
    <3> QED
      BY <1>5, <2>2, <3>1, <3>2
  <2> QED
    BY <1>6, <2>1, <2>2
<1>8. CASE c = 0
  <2>1. /\ p.state = StateOfTable /\ Len(p.blocks) = Len(forces)
        /\ p.block = Len(forces) + (IF TableOpen THEN 1 ELSE 0)
        /\ \A k \in 1..Len(forces) : /\ p.blocks[k].index = k
                                     /\ HasForceOf(p.blocks[k], forces, k)
    BY <1>5, <1>8 DEF KnowsTables
  <2>2. p.state # "none" => p.block = Len(forces) + 1
    <3>1. p.state # "none" => TableOpen
      <4>1. table \in 0..TableLength /\ TableLength \in Nat
        BY SitesAssumption DEF WorldInv, WorldType, TableLength
      <4>2. table \in {0, TableLength} => StateOfTable = "none"
        BY SitesAssumption DEF StateOfTable, TableLength
      <4>3. table \notin {0, TableLength} => TableOpen
        BY <4>1 DEF TableOpen
      <4> QED
        BY <2>1, <4>2, <4>3
    <3> QED
      BY <2>1, <3>1
  <2>3. WholeBlocks(blocks, forces)
    <3> SUFFICES ASSUME NEW k \in 1..Len(blocks)
                 PROVE  /\ blocks[k].index = k
                        /\ blocks[k].complete => k \in 1..Len(forces)
                        /\ HasForceOf(blocks[k], forces, k)
      BY DEF WholeBlocks
    <3>1. CASE k \in 1..Len(p.blocks)
      BY <1>7, <2>1, <3>1
    <3>2. CASE /\ k = Len(p.blocks) + 1 /\ p.state # "none"
               /\ blocks[k].index = p.block /\ ~blocks[k].complete
      BY <2>1, <2>2, <3>2 DEF HasForceOf
    <3> QED
      BY <1>7, <3>1, <3>2
  <2> QED
    BY <1>7, <2>3 DEF blocks
<1>9. CASE c # 0
  <2>1. Len(p.blocks) = 0 \/ Len(p.blocks) < Len(forces)
    BY <1>5, <1>9 DEF MissedTable
  <2>2. \A k \in 1..Len(blocks) : blocks[k].complete => k <= Len(p.blocks)
    BY <1>5, <1>7
  <2>3. CutBlocks(blocks, forces)
    <3>1. mode = "path"
      BY <1>1, <1>9
    <3> QED
      BY <1>5, <2>1, <2>2, <3>1 DEF CutBlocks
  <2> QED
    BY <1>7, <2>3 DEF blocks
<1> QED
  BY <1>8, <1>9

LEMMA InitInv == Init => Inv
<1> SUFFICES ASSUME Init PROVE Inv
  OBVIOUS
<1>0. /\ run = [number |-> 0, running |-> FALSE, over |-> FALSE]
      /\ oszicar = NoOszicar /\ table = 0 /\ outcar = <<>> /\ vasprun = NoVasprun
      /\ forces = <<>> /\ mode \in {"job", "path"} /\ pc = "first"
      /\ got = NothingRead /\ faults = 0
      /\ Len(<<>>) = 0
  BY DEF Init
<1>1. Sites \in Nat /\ Sites # 0 /\ TableLength = Sites + 3 /\ MaxRuns \in Nat /\ MaxFaults \in Nat
  BY SitesAssumption, TrajectoryAssumption DEF TableLength
<1>2. WorldType
  <2>1. run \in [number : 0..MaxRuns, running : BOOLEAN, over : BOOLEAN]
    BY <1>0, <1>1
  <2>2. table \in 0..TableLength /\ outcar \in Seq(Line) /\ forces \in Seq(ForceValue)
    BY <1>0, <1>1
  <2> QED
    BY <1>0, <2>1, <2>2, Shapes DEF WorldType
<1>3. FilesInStep
  <2>1. oszicar.cycles = <<>> /\ vasprun.closed = FALSE
    BY <1>0 DEF NoOszicar, NoVasprun
  <2> QED
    BY <1>0, <1>1, <2>1 DEF FilesInStep
<1>4. ExtractorInv
  <2> SUFFICES ASSUME NEW expected \in {Sites, Unknown}, NEW c \in 0..Len(outcar)
               PROVE  ExtractorRight(After(c, expected), c)
    BY DEF ExtractorInv
  <2>1. c = 0
    BY <1>0
  <2>2. SubSeq(outcar, c + 1, Len(outcar)) = <<>>
    BY <1>0, <2>1
  <2>3. After(c, expected) = Blank
    BY <2>2, ScannedEmpty DEF After
  <2>4. StateOfTable = "none" /\ ~TableOpen
    BY <1>0, <1>1 DEF StateOfTable, TableOpen
  <2>5. KnowsTables(Blank)
    BY <1>0, <2>4, Shapes DEF KnowsTables
  <2> QED
    BY <2>1, <2>3, <2>5, Shapes DEF ExtractorRight
<1>5. ReaderInv
  <2>1. got.blocks = <<>>
    BY <1>0 DEF NothingRead
  <2>2. WholeBlocks(got.blocks, got.truth)
    BY <1>0, <2>1 DEF WholeBlocks
  <2>3. faults \in 0..MaxFaults
    BY <1>0, <1>1
  <2> QED
    BY <1>0, <2>2, <2>3, Shapes DEF ReaderInv
<1>6. CalmInv
  BY <1>0 DEF CalmInv, NothingRead
<1> QED
  BY <1>2, <1>3, <1>4, <1>5, <1>6 DEF Inv, WorldInv

\* Of a job that is over no file changes any more.
LEMMA NothingMoves == FilesInStep /\ WorldNext => ~run.over
BY DEF FilesInStep, WorldNext, StartVasp, OpenCycle, WriteLine, SummariseStep, EndVasp,
       CrashVasp, EndJob

\* The world leaves alone what was read.
LEMMA HistoryStays == Inv /\ WorldNext => ReaderInv' /\ CalmInv'
<1> SUFFICES ASSUME Inv, WorldNext PROVE ReaderInv' /\ CalmInv'
  OBVIOUS
<1>1. UNCHANGED <<mode, pc, got, faults>>
  BY DEF WorldNext, StartVasp, OpenCycle, WriteLine, SummariseStep, EndVasp, CrashVasp, EndJob
<1>2. ~run.over
  BY NothingMoves DEF Inv, WorldInv
<1>3. ~got.calm
  BY <1>2 DEF Inv, CalmInv
<1>4. ReaderInv'
  BY <1>1 DEF Inv, ReaderInv, WholeBlocks, CutBlocks, HasForceOf
<1>5. CalmInv'
  BY <1>1, <1>3 DEF CalmInv
<1> QED
  BY <1>4, <1>5

\* Every read is of what is there, and fits what was read before.
LEMMA WhatIsRead == Inv /\ ReadNext => ReaderInv' /\ CalmInv'
<1> SUFFICES ASSUME Inv, ReadNext PROVE ReaderInv' /\ CalmInv'
  OBVIOUS
<1>0. /\ got \in GotType
      /\ got.oszicar \in OszicarType /\ got.vasprun \in VasprunType
      /\ got.blocks \in Seq(Block) /\ got.truth \in Seq(ForceValue) /\ got.calm \in BOOLEAN
      /\ faults \in 0..MaxFaults /\ MaxFaults \in Nat
      /\ oszicar \in OszicarType /\ vasprun \in VasprunType /\ forces \in Seq(ForceValue)
      /\ run.over \in BOOLEAN
      /\ mode \in {"job", "path"}
  BY TrajectoryAssumption DEF Inv, ReaderInv, GotType, WorldInv, WorldType
<1>1. /\ UNCHANGED <<run, oszicar, table, outcar, vasprun, forces, mode>>
      /\ Fails \/ Succeeds
  BY DEF ReadNext, ReadResult, ReadOszicar, ReadOszicarLater, ReadVasprun, ReadOutcar, world
<1>2. faults' \in 0..MaxFaults
  BY <1>0, <1>1 DEF Fails, Succeeds
<1>3. OszicarText \in OszicarType
  <2>1. CASE mode = "path" /\ Len(oszicar.cycles) > Prefix
    <3>1. OszicarText = [oszicar EXCEPT !.cycles = SubSeq(@, 1, Prefix), !.open = TRUE]
      BY <2>1 DEF OszicarText
    <3>2. SubSeq(oszicar.cycles, 1, Prefix) \in Seq(Cycle)
      <4>1. oszicar.cycles \in Seq(Cycle) /\ Prefix \in Nat /\ Prefix # 0
        BY <1>0, TrajectoryAssumption DEF OszicarType
      <4> QED
        BY <2>1, <4>1
    <3> QED
      BY <1>0, <3>1, <3>2 DEF OszicarType
  <2>2. CASE ~(mode = "path" /\ Len(oszicar.cycles) > Prefix)
    BY <1>0, <2>2 DEF OszicarText
  <2> QED
    BY <2>1, <2>2
<1>4. OszicarText' = OszicarText
  BY <1>1 DEF OszicarText
<1>5. CASE ReadOszicar
  <2>1. pc' = "vasprun" /\ got = NothingRead
    BY <1>5 DEF ReadOszicar, Inv, ReaderInv
  <2>2. \/ got' = [got EXCEPT !.oszicar = OszicarText, !.calm = run.over]
        \/ got' = [got EXCEPT !.calm = run.over]
    BY <1>5 DEF ReadOszicar
  <2>3. /\ got' \in GotType
        /\ got'.vasprun = got.vasprun /\ got'.blocks = got.blocks /\ got'.truth = got.truth
        /\ got'.calm = run.over
        /\ got'.oszicar \in {got.oszicar, OszicarText}
    BY <1>0, <1>3, <2>2 DEF GotType
  <2>4. got.oszicar = NoOszicar /\ got.vasprun = NoVasprun /\ got.blocks = <<>>
    BY <2>1 DEF NothingRead
  <2>5. WholeBlocks(got.blocks, got.truth)'
    BY <2>3, <2>4 DEF WholeBlocks
  <2>6. ReaderInv'
    BY <1>2, <2>1, <2>3, <2>4, <2>5 DEF ReaderInv
  <2>7. CalmInv'
    BY <1>1, <1>4, <2>3, <2>4 DEF CalmInv
  <2> QED
    BY <2>6, <2>7
<1>8. CASE ReadResult
  <2>1. got = NothingRead
    BY <1>8 DEF ReadResult, Inv, ReaderInv
  <2>2. got.oszicar = NoOszicar /\ got.vasprun = NoVasprun /\ got.blocks = <<>> /\ ~got.calm
    BY <2>1 DEF NothingRead
  <2>3. CASE got' = [got EXCEPT !.vasprun = vasprun, !.calm = run.over]
             /\ pc' = "oszicar after result"
    <3>1. /\ got' \in GotType
          /\ got'.oszicar = got.oszicar /\ got'.blocks = got.blocks /\ got'.truth = got.truth
          /\ got'.calm = run.over /\ got'.vasprun = vasprun
      BY <1>0, <2>3 DEF GotType
    <3>2. WholeBlocks(got.blocks, got.truth)'
      BY <2>2, <3>1 DEF WholeBlocks
    <3>3. ReaderInv'
      BY <1>2, <2>2, <2>3, <3>1, <3>2 DEF ReaderInv
    <3>4. CalmInv'
      BY <1>1, <1>4, <2>2, <3>1 DEF CalmInv
    <3> QED
      BY <3>3, <3>4
  <2>4. CASE got' = got /\ pc' = "oszicar"
    <3>1. WholeBlocks(got.blocks, got.truth)'
      BY <2>2, <2>4 DEF WholeBlocks
    <3>2. ReaderInv'
      BY <1>0, <1>2, <2>1, <2>4, <3>1 DEF ReaderInv, NothingRead
    <3>3. CalmInv'
      BY <2>2, <2>4 DEF CalmInv
    <3> QED
      BY <3>2, <3>3
  <2> QED
    BY <1>8, <2>3, <2>4 DEF ReadResult
<1>9. CASE ReadOszicarLater
  <2>1. pc = "oszicar after result" /\ pc' = "outcar" /\ got.oszicar = NoOszicar
    BY <1>9 DEF ReadOszicarLater, Inv, ReaderInv
  <2>2. got' = [got EXCEPT !.oszicar = OszicarText] \/ got' = got
    BY <1>9 DEF ReadOszicarLater
  <2>3. /\ got' \in GotType
        /\ got'.vasprun = got.vasprun /\ got'.blocks = got.blocks /\ got'.truth = got.truth
        /\ got'.calm = got.calm
        /\ got'.oszicar \in {got.oszicar, OszicarText}
    BY <1>0, <1>3, <2>2 DEF GotType
  <2>4. WholeBlocks(got.blocks, got.truth)' \/ CutBlocks(got.blocks, got.truth)'
    BY <1>1, <2>3 DEF Inv, ReaderInv, WholeBlocks, CutBlocks, HasForceOf
  <2>5. ReaderInv'
    BY <1>2, <2>1, <2>3, <2>4 DEF ReaderInv
  <2>6. CalmInv'
    BY <1>1, <1>4, <2>1, <2>3 DEF Inv, CalmInv
  <2> QED
    BY <2>5, <2>6
<1>6. CASE ReadVasprun
  <2>1. pc = "vasprun" /\ pc' = "outcar" /\ got.vasprun = NoVasprun
    BY <1>6 DEF ReadVasprun, Inv, ReaderInv
  <2>2. got' = [got EXCEPT !.vasprun = vasprun] \/ got' = got
    BY <1>6 DEF ReadVasprun
  <2>3. /\ got' \in GotType
        /\ got'.oszicar = got.oszicar /\ got'.blocks = got.blocks /\ got'.truth = got.truth
        /\ got'.calm = got.calm
        /\ got'.vasprun \in {got.vasprun, vasprun}
    BY <1>0, <2>2 DEF GotType
  <2>4. WholeBlocks(got.blocks, got.truth)' \/ CutBlocks(got.blocks, got.truth)'
    BY <1>1, <2>3 DEF Inv, ReaderInv, WholeBlocks, CutBlocks, HasForceOf
  <2>5. ReaderInv'
    BY <1>2, <2>1, <2>3, <2>4 DEF ReaderInv
  <2>6. CalmInv'
    BY <1>1, <1>4, <2>1, <2>3 DEF Inv, CalmInv
  <2> QED
    BY <2>5, <2>6
<1>7. CASE ReadOutcar
  <2>1. pc = "outcar" /\ pc' = "done"
    BY <1>7 DEF ReadOutcar
  <2>2. got' = got \/ \E expected \in {Sites, Unknown} : got' = Extracted(expected)
    BY <1>7 DEF ReadOutcar
  <2>3. CASE got' = got
    <3>1. WholeBlocks(got.blocks, got.truth)' \/ CutBlocks(got.blocks, got.truth)'
      BY <1>1, <2>3 DEF Inv, ReaderInv, WholeBlocks, CutBlocks, HasForceOf
    <3>2. ReaderInv'
      BY <1>0, <1>2, <2>1, <2>3, <3>1 DEF ReaderInv
    <3>3. CalmInv'
      BY <1>1, <1>4, <2>3 DEF Inv, CalmInv
    <3> QED
      BY <3>2, <3>3
  <2>4. ASSUME NEW expected \in {Sites, Unknown}, got' = Extracted(expected)
        PROVE  ReaderInv' /\ CalmInv'
    <3>1. PICK blocks : blocks = Blocks(OutcarText, mode, expected)
      OBVIOUS
    <3>2. blocks \in Seq(Block) /\ (WholeBlocks(blocks, forces) \/ CutBlocks(blocks, forces))
      BY <3>1, BlocksOfTheText DEF Inv
    <3>3. got' = [got EXCEPT !.blocks = blocks, !.truth = forces]
      BY <2>4, <3>1 DEF Extracted
    <3>4. /\ got' \in GotType
          /\ got'.oszicar = got.oszicar /\ got'.vasprun = got.vasprun /\ got'.calm = got.calm
          /\ got'.blocks = blocks /\ got'.truth = forces
      BY <1>0, <3>2, <3>3 DEF GotType
    <3>5. WholeBlocks(got.blocks, got.truth)' \/ CutBlocks(got.blocks, got.truth)'
      BY <1>1, <3>2, <3>4 DEF WholeBlocks, CutBlocks, HasForceOf
    <3>6. ReaderInv'
      BY <1>2, <2>1, <3>4, <3>5 DEF ReaderInv
    <3>7. CalmInv'
      BY <1>1, <1>4, <3>4 DEF Inv, CalmInv
    <3> QED
      BY <3>6, <3>7
  <2> QED
    BY <2>2, <2>3, <2>4
<1> QED
  BY <1>5, <1>6, <1>7, <1>8, <1>9 DEF ReadNext

LEMMA StepInv == Inv /\ [Next]_vars => Inv'
<1> SUFFICES ASSUME Inv, [Next]_vars PROVE Inv'
  OBVIOUS
<1>1. CASE WorldNext
  <2>1. WorldType' /\ FilesInStep'
    BY <1>1, WorldTypes DEF Inv, WorldInv
  <2>2. ExtractorInv'
    BY <1>1, ExtractorSteps DEF Inv, WorldInv
  <2>3. ReaderInv' /\ CalmInv'
    BY <1>1, HistoryStays
  <2> QED
    BY <2>1, <2>2, <2>3 DEF Inv, WorldInv
<1>2. ASSUME UNCHANGED <<run, oszicar, table, outcar, vasprun, forces, mode>>
      PROVE  WorldInv'
  <2>1. WorldType' /\ FilesInStep'
    BY <1>2 DEF Inv, WorldInv, WorldType, FilesInStep, TableOpen
  <2>2. ExtractorInv'
    BY <1>2 DEF Inv, WorldInv, ExtractorInv, ExtractorRight, After, KnowsTables, MissedTable,
                HasForceOf, HasLargest, OpenRows, StateOfTable, TableOpen
  <2> QED
    BY <2>1, <2>2 DEF WorldInv
<1>3. CASE ReadNext
  <2>1. UNCHANGED <<run, oszicar, table, outcar, vasprun, forces, mode>>
    BY <1>3 DEF ReadNext, ReadResult, ReadOszicar, ReadOszicarLater, ReadVasprun,
                ReadOutcar, world
  <2>2. ReaderInv' /\ CalmInv'
    BY <1>3, WhatIsRead
  <2> QED
    BY <1>2, <2>1, <2>2 DEF Inv
<1>4. CASE UNCHANGED vars
  <2>1. UNCHANGED <<run, oszicar, table, outcar, vasprun, forces, mode, pc, got, faults>>
    BY <1>4 DEF vars
  <2>2. ReaderInv'
    BY <2>1 DEF Inv, ReaderInv, WholeBlocks, CutBlocks, HasForceOf
  <2>3. CalmInv'
    BY <2>1 DEF Inv, CalmInv, OszicarText
  <2> QED
    BY <1>2, <2>1, <2>2, <2>3 DEF Inv
<1> QED
  BY <1>1, <1>3, <1>4 DEF Next, WorldNext, ReadNext

\* Of the files and of what was read of them: the extractors know the tables
\* by number or have missed the first, and what was read of a job that was
\* over is what is there.
THEOREM TrajectoryIsOfTheFiles == Spec => []Inv
<1> QED
  BY InitInv, StepInv, PTL DEF Spec

-----------------------------------------------------------------------------
(* The forces of the steps.                                                *)

\* When nothing past place m is picked, no more than m elements are, and when
\* m are, each is at its own place.
LEMMA EmbeddingIsTight ==
  ASSUME NEW n \in Nat, NEW p, Len(p) \in Nat, NEW s, NEW K, NEW h, Embeds(h, p, n, s, K),
         NEW m \in Nat, \A i \in 1..Len(p) : h[i] <= m
  PROVE  Len(p) <= m /\ (Len(p) = m => \A i \in 1..Len(p) : h[i] = i)
<1>1. \A i \in 1..Len(p) : h[i] \in Nat /\ h[i] >= 1
  <2>1. \A i \in 1..Len(p) : h[i] \in 1..n
    BY Zenon DEF Embeds
  <2> QED
    BY <2>1
<1>2. \A i, j \in 1..Len(p) : i <= j => h[j] - h[i] >= j - i
  BY Zenon DEF Embeds
<1>3. ASSUME NEW i \in 1..Len(p) PROVE h[i] >= i /\ Len(p) <= m /\ (Len(p) = m => h[i] <= i)
  <2>1. 1 \in 1..Len(p) /\ Len(p) \in 1..Len(p) /\ i \in Nat /\ 1 <= i /\ i <= Len(p)
        /\ 1 <= Len(p)
    OBVIOUS
  <2>2. h[i] - h[1] >= i - 1
    BY <1>2, <2>1
  <2>3. h[Len(p)] - h[i] >= Len(p) - i
    BY <1>2, <2>1
  <2>4. h[Len(p)] <= m /\ h[Len(p)] \in Nat /\ h[1] >= 1 /\ h[1] \in Nat /\ h[i] \in Nat
    BY <1>1, <2>1
  <2> DEFINE first == h[1]
             here == h[i]
             last == h[Len(p)]
             length == Len(p)
  <2>5. /\ here - first >= i - 1 /\ last - here >= length - i /\ last <= m /\ first >= 1
        /\ last \in Nat /\ here \in Nat /\ first \in Nat /\ length \in Nat /\ i \in Nat
    BY <2>2, <2>3, <2>4, <2>1
  <2> HIDE DEF first, here, last, length
  <2>6. here >= i
    BY <2>5
  <2>7. length <= m
    BY <2>5, <2>6
  <2>8. length = m => here <= i
    BY <2>5
  <2> QED
    BY <2>6, <2>7, <2>8, Zenon DEF here, length
<1>4. Len(p) <= m
  <2>1. CASE Len(p) = 0
    BY <2>1
  <2>2. CASE Len(p) # 0
    <3>1. 1 \in 1..Len(p)
      BY <2>2
    <3> QED
      BY <1>3, <3>1
  <2> QED
    BY <2>1, <2>2
<1>5. ASSUME Len(p) = m, NEW i \in 1..Len(p) PROVE h[i] = i
  <2>1. h[i] >= i /\ h[i] <= i /\ h[i] \in Nat
    BY <1>1, <1>3, <1>5
  <2> QED
    BY <2>1
<1> QED
  BY <1>4, <1>5

\* The complete blocks that were read, and where they stood.
LEMMA CompleteOnes ==
  ASSUME Inv
  PROVE  LET complete == CompleteBlocks(got.blocks)
         IN  /\ complete \in Seq(Block)
             /\ \E h : /\ Embeds(h, complete, Len(got.blocks), got.blocks,
                                 {k \in DOMAIN got.blocks : got.blocks[k].complete})
                       /\ \A i \in 1..Len(complete) :
                             /\ h[i] \in 1..Len(got.blocks)
                             /\ complete[i] = got.blocks[h[i]]
                             /\ got.blocks[h[i]].complete
<1> DEFINE K == {k \in DOMAIN got.blocks : got.blocks[k].complete}
           complete == CompleteBlocks(got.blocks)
<1>1. got.blocks \in Seq(Block)
  BY DEF Inv, ReaderInv, GotType
<1>2. complete = Picked(got.blocks, K)
  BY DEF CompleteBlocks
<1>3. complete \in Seq(Block) /\ \E h : Embeds(h, complete, Len(got.blocks), got.blocks, K)
  <2> HIDE DEF K, complete
  <2> QED
    BY <1>1, <1>2, PickedEmbeds
<1>4. PICK h : Embeds(h, complete, Len(got.blocks), got.blocks, K)
  BY <1>3
<1>5. \A i \in 1..Len(complete) : h[i] \in K /\ complete[i] = got.blocks[h[i]]
  <2> HIDE DEF K, complete
  <2> QED
    BY <1>4 DEF Embeds
<1>6. \A i \in 1..Len(complete) : /\ h[i] \in 1..Len(got.blocks)
                                  /\ complete[i] = got.blocks[h[i]]
                                  /\ got.blocks[h[i]].complete
  <2> HIDE DEF complete
  <2> QED
    BY <1>1, <1>5
<1> QED
  BY <1>3, <1>4, <1>6

\* The steps that OSZICAR has, and what it says of the forces of OUTCAR.
LEMMA StepsAreCounted ==
  ASSUME Inv
  PROVE  /\ Steps \in Nat \cup {NoCount}
         /\ Steps = NoCount <=> ~got.oszicar.readable
         /\ got.oszicar.readable => Steps = Len(got.oszicar.cycles)
         /\ \A i \in DOMAIN OutcarStepForces :
               /\ i \in 1..Len(CompleteBlocks(got.blocks))
               /\ Steps = Len(CompleteBlocks(got.blocks)) /\ i \in 1..Steps
               /\ mode = "job" => CompleteBlocks(got.blocks)[i].index = i
               /\ OutcarStepForces[i] = CompleteBlocks(got.blocks)[i].force
<1>1. got.oszicar.cycles \in Seq(Cycle) /\ got.oszicar.readable \in BOOLEAN
  BY DEF Inv, ReaderInv, GotType, OszicarType
<1>2. CompleteBlocks(got.blocks) \in Seq(Block)
  BY CompleteOnes
<1>3. /\ Steps \in Nat \cup {NoCount}
      /\ Steps = NoCount <=> ~got.oszicar.readable
      /\ got.oszicar.readable => Steps = Len(got.oszicar.cycles)
  BY <1>1 DEF Steps, NoCount
<1>4. ASSUME NEW i \in DOMAIN OutcarStepForces
      PROVE  /\ i \in 1..Len(CompleteBlocks(got.blocks))
             /\ Steps = Len(CompleteBlocks(got.blocks)) /\ i \in 1..Steps
             /\ mode = "job" => CompleteBlocks(got.blocks)[i].index = i
             /\ OutcarStepForces[i] = CompleteBlocks(got.blocks)[i].force
  <2>1. CASE Aligned(Steps, got.blocks, mode)
    <3>1. OutcarStepForces = [k \in 1..Steps |-> CompleteBlocks(got.blocks)[k].force]
      BY <2>1 DEF OutcarStepForces, ForcesOfSteps
    <3> QED
      BY <2>1, <3>1 DEF Aligned
  <2>2. CASE ~Aligned(Steps, got.blocks, mode)
    <3>1. OutcarStepForces = <<>>
      BY <2>2 DEF OutcarStepForces, ForcesOfSteps
    <3> QED
      BY <3>1
  <2> QED
    BY <2>1, <2>2
<1> QED
  BY <1>3, <1>4

\* A force out of OUTCAR is the one VASP computed in that very step, although
\* the file was half written, cut off, newer than OSZICAR or had rows that are
\* no numbers: the awk program numbers the tables, and path mode counts them
\* where counting is enough.
THEOREM ForcesAreOfTheirStepsHolds == Spec => []ForcesAreOfTheirSteps
<1>1. Inv => ForcesAreOfTheirSteps
  <2> SUFFICES ASSUME Inv, Done,
                      \/ mode = "job"
                      \/ /\ Len(got.truth) = Steps
                         /\ \A i \in DOMAIN got.truth : got.truth[i] # NoForce,
                      NEW i \in DOMAIN OutcarStepForces
               PROVE  i \in DOMAIN got.truth /\ OutcarStepForces[i] = got.truth[i]
    BY DEF ForcesAreOfTheirSteps
  <2> DEFINE complete == CompleteBlocks(got.blocks)
  <2>1. /\ got.truth \in Seq(ForceValue) /\ Len(got.truth) \in Nat
        /\ DOMAIN got.truth = 1..Len(got.truth)
        /\ got.blocks \in Seq(Block) /\ Len(got.blocks) \in Nat
        /\ WholeBlocks(got.blocks, got.truth) \/ CutBlocks(got.blocks, got.truth)
        /\ mode \in {"job", "path"}
    <3>1. /\ got \in GotType /\ mode \in {"job", "path"}
          /\ WholeBlocks(got.blocks, got.truth) \/ CutBlocks(got.blocks, got.truth)
      BY DEF Inv, ReaderInv, WorldInv, WorldType
    <3>2. got.truth \in Seq(ForceValue) /\ got.blocks \in Seq(Block)
      BY <3>1 DEF GotType
    <3> QED
      BY <3>1, <3>2
  <2>2. /\ i \in 1..Len(complete) /\ Steps = Len(complete)
        /\ mode = "job" => complete[i].index = i
        /\ OutcarStepForces[i] = complete[i].force
    BY StepsAreCounted
  <2>3. complete \in Seq(Block) /\ Len(complete) \in Nat
    BY CompleteOnes
  <2>4. PICK h : /\ Embeds(h, complete, Len(got.blocks), got.blocks,
                           {k \in DOMAIN got.blocks : got.blocks[k].complete})
                 /\ \A j \in 1..Len(complete) : /\ h[j] \in 1..Len(got.blocks)
                                                /\ complete[j] = got.blocks[h[j]]
                                                /\ got.blocks[h[j]].complete
    BY CompleteOnes
  <2> HIDE DEF complete
  <2>5. ASSUME WholeBlocks(got.blocks, got.truth), h[i] = i
        PROVE  i \in 1..Len(got.truth) /\ HasForceOf(complete[i], got.truth, i)
               /\ complete[i].complete
    BY <2>2, <2>4, <2>5 DEF WholeBlocks
  <2>6. CASE mode = "job"
    <3>1. WholeBlocks(got.blocks, got.truth)
      BY <2>1, <2>6 DEF CutBlocks
    <3>2. h[i] = i
      BY <2>2, <2>4, <2>6, <3>1 DEF WholeBlocks
    <3> QED
      BY <2>1, <2>2, <2>5, <2>6, <3>1, <3>2 DEF HasForceOf
  <2>7. CASE mode # "job"
    <3>1. Len(got.truth) = Len(complete) /\ \A k \in 1..Len(got.truth) : got.truth[k] # NoForce
      BY <2>1, <2>2, <2>7
    <3>2. WholeBlocks(got.blocks, got.truth)
      <4> SUFFICES ASSUME NEW n \in Nat, n = 0 \/ n < Len(got.truth),
                          \A k \in 1..Len(got.blocks) : got.blocks[k].complete => k <= n
                   PROVE  FALSE
        BY <2>1 DEF CutBlocks
      <4>1. \A j \in 1..Len(complete) : h[j] <= n
        BY <2>4
      <4>2. Len(complete) <= n
        <5> DEFINE K == {k \in DOMAIN got.blocks : got.blocks[k].complete}
                   size == Len(got.blocks)
        <5>1. Embeds(h, complete, size, got.blocks, K)
          BY <2>4
        <5>2. size \in Nat
          BY <2>1
        <5> HIDE DEF K, size
        <5> QED
          BY ONLY <2>3, <4>1, <5>1, <5>2, n \in Nat, EmbeddingIsTight
      <4> QED
        BY <2>2, <2>3, <3>1, <4>2
    <3>3. h[i] = i
      <4>1. \A j \in 1..Len(complete) : h[j] <= Len(complete)
        <5> SUFFICES ASSUME NEW j \in 1..Len(complete) PROVE h[j] <= Len(complete)
          OBVIOUS
        <5>1. h[j] \in 1..Len(got.blocks) /\ got.blocks[h[j]].complete
          BY <2>4, Zenon
        <5>2. h[j] \in 1..Len(got.truth)
          BY ONLY <3>2, <5>1, Zenon DEF WholeBlocks
        <5>3. h[j] \in 1..Len(complete)
          BY ONLY <3>1, <5>2, Zenon
        <5> QED
          BY ONLY <2>3, <5>3
      <4>2. PICK m \in Nat : m = Len(complete)
        BY <2>3
      <4>3. \A j \in 1..Len(complete) : h[j] <= m
        BY <4>1, <4>2
      <4>4. \A j \in 1..Len(complete) : h[j] = j
        <5> DEFINE K == {k \in DOMAIN got.blocks : got.blocks[k].complete}
                   n == Len(got.blocks)
        <5>1. Embeds(h, complete, n, got.blocks, K)
          BY <2>4
        <5>2. n \in Nat
          BY <2>1
        <5> HIDE DEF K, n
        <5>3. Len(complete) = m => \A j \in 1..Len(complete) : h[j] = j
          BY ONLY <2>3, <4>2, <4>3, <5>1, <5>2, EmbeddingIsTight
        <5> QED
          BY <4>2, <5>3
      <4> QED
        BY <2>2, <4>4
    <3> QED
      BY <2>1, <2>2, <2>5, <3>1, <3>2, <3>3 DEF HasForceOf
  <2> QED
    BY <2>6, <2>7
<1> QED
  BY <1>1, TrajectoryIsOfTheFiles, PTL

-----------------------------------------------------------------------------
(* The labels, and the course of the forces.                               *)

\* Of files that rest, an OSZICAR that was read is the one that is there, or
\* its first part, and a vasprun.xml that was read belongs to it.
LEMMA FilesAtRest ==
  ASSUME Inv, got.calm
  PROVE  /\ got.oszicar.readable => /\ got.oszicar = OszicarText
                                    /\ oszicar.cycles # <<>> => Steps >= 1
                                    /\ mode = "job" => got.oszicar = oszicar
         /\ got.vasprun # NoVasprun => /\ got.vasprun = vasprun /\ vasprun.closed
                                       /\ oszicar.cycles # <<>>
                                       /\ Len(vasprun.forces) = Len(oszicar.cycles)
<1>1. got.oszicar \in {NoOszicar, OszicarText} /\ got.vasprun \in {NoVasprun, vasprun}
  BY DEF Inv, CalmInv
<1>2. /\ oszicar \in OszicarType /\ oszicar.cycles \in Seq(Cycle)
      /\ Len(oszicar.cycles) \in Nat /\ Prefix \in Nat /\ Prefix # 0
  BY TrajectoryAssumption DEF Inv, WorldInv, WorldType, OszicarType
<1>3. got.vasprun # NoVasprun => /\ got.vasprun = vasprun /\ vasprun.closed
                                 /\ oszicar.cycles # <<>>
                                 /\ Len(vasprun.forces) = Len(oszicar.cycles)
  BY <1>1 DEF Inv, WorldInv, FilesInStep
<1>4. ASSUME got.oszicar.readable
      PROVE  /\ got.oszicar = OszicarText
             /\ oszicar.cycles # <<>> => Steps >= 1
             /\ mode = "job" => got.oszicar = oszicar
  <2>1. got.oszicar = OszicarText
    BY <1>1, <1>4 DEF NoOszicar
  <2>2. mode = "job" => got.oszicar = oszicar
    BY <2>1 DEF OszicarText
  <2>3. Steps = Len(OszicarText.cycles)
    BY <1>4, <2>1, StepsAreCounted
  <2>4. ASSUME oszicar.cycles # <<>> PROVE Len(OszicarText.cycles) >= 1
    <3>1. Len(oszicar.cycles) >= 1
      BY <1>2, <2>4
    <3>2. CASE mode = "path" /\ Len(oszicar.cycles) > Prefix
      <4>1. OszicarText = [oszicar EXCEPT !.cycles = SubSeq(@, 1, Prefix), !.open = TRUE]
        BY <3>2 DEF OszicarText
      <4>2. OszicarText.cycles = SubSeq(oszicar.cycles, 1, Prefix)
        BY <1>2, <4>1 DEF OszicarType
      <4>3. Len(SubSeq(oszicar.cycles, 1, Prefix)) = Prefix
        BY <1>2, <3>2
      <4> QED
        BY <1>2, <4>2, <4>3
    <3>3. CASE ~(mode = "path" /\ Len(oszicar.cycles) > Prefix)
      BY <3>1, <3>3 DEF OszicarText
    <3> QED
      BY <3>2, <3>3
  <2> QED
    BY <2>1, <2>2, <2>3, <2>4
<1> QED
  BY <1>3, <1>4

\* The two labels of a scope say CONVERGED when the outcome of the scope does.
LEMMA LabelsOfScopes ==
  ASSUME NEW e, NEW t, NEW cell
  PROVE  /\ ElectronicLabel(e, t) = "CONVERGED" <=> ElectronicOutcome(e) = "converged"
         /\ IonicLabel(e, cell) = "CONVERGED" <=> IonicOutcome(e, cell) = "converged"
BY DEF ElectronicLabel, IonicLabel

\* Without a completed cycle only vasprun.xml can say that the electronic
\* scope has converged, and of files that rest it has the steps of OSZICAR.
LEMMA ConvergedHasSteps ==
  ASSUME Inv, got.calm, ElectronicOutcome(TrajectoryEvidence) = "converged"
  PROVE  Steps # 0
<1> SUFFICES ASSUME Steps = 0 PROVE FALSE
  OBVIOUS
<1>1. TrajectoryEvidence.cycle = "none" /\ TrajectoryEvidence.flagE = got.vasprun.flagE
  BY DEF TrajectoryEvidence, CycleMeasure
<1>2. got.vasprun.flagE = "true"
  BY <1>1 DEF ElectronicOutcome, Weigh
<1>3. got.vasprun # NoVasprun
  BY <1>2 DEF NoVasprun
<1>4. got.oszicar.readable
  BY StepsAreCounted DEF NoCount
<1> QED
  BY <1>3, <1>4, FilesAtRest

\* The label shown for a stage and the convergence its status is derived from
\* are computed by different functions; of files that rest they say the same,
\* for every kind of stage.
THEOREM LabelAgreesWithStatusHolds == Spec => []LabelAgreesWithStatus
<1>1. Inv => LabelAgreesWithStatus
  <2> SUFFICES ASSUME Inv, got.calm, NEW ionic \in BOOLEAN, NEW cell \in BOOLEAN
               PROVE  (Report(ionic, cell).label = "CONVERGED")
                      <=> (StageConvergence(TrajectoryEvidence, ionic, cell) = "converged")
    BY DEF LabelAgreesWithStatus, Calm
  <2> DEFINE electronic == ElectronicOutcome(TrajectoryEvidence)
             forceful == IonicOutcome(TrajectoryEvidence, cell)
  <2>1. Report(ionic, cell).label = StageLabel(TrajectoryEvidence, TrajectorySteps, ionic, cell)
    BY DEF Report
  <2>2. TrajectorySteps.steps = Steps
    BY DEF TrajectorySteps
  <2>3. electronic = "converged" => Steps # 0
    BY ConvergedHasSteps
  <2>4. /\ ElectronicLabel(TrajectoryEvidence, TrajectorySteps) = "CONVERGED"
           <=> electronic = "converged"
        /\ IonicLabel(TrajectoryEvidence, cell) = "CONVERGED" <=> forceful = "converged"
    BY LabelsOfScopes
  <2>5. CASE ~ionic
    <3>1. ScopeOutcomes(TrajectoryEvidence, ionic, cell) = {electronic}
      BY <2>5 DEF ScopeOutcomes
    <3>2. StageLabel(TrajectoryEvidence, TrajectorySteps, ionic, cell)
          = ElectronicLabel(TrajectoryEvidence, TrajectorySteps)
      BY <2>5 DEF StageLabel
    <3> HIDE DEF electronic
    <3>3. StageConvergence(TrajectoryEvidence, ionic, cell) = "converged"
          <=> electronic = "converged"
      BY <3>1 DEF StageConvergence
    <3> QED
      BY <2>1, <2>4, <3>2, <3>3
  <2>6. CASE ionic
    <3>1. ScopeOutcomes(TrajectoryEvidence, ionic, cell) = {electronic, forceful}
          /\ ScopeOutcomes(TrajectoryEvidence, TRUE, cell) = {electronic, forceful}
      BY <2>6 DEF ScopeOutcomes
    <3> HIDE DEF electronic, forceful
    <3>2. StageConvergence(TrajectoryEvidence, ionic, cell) = "converged"
          <=> electronic = "converged" /\ forceful = "converged"
      BY <3>1 DEF StageConvergence
    <3>3. StageLabel(TrajectoryEvidence, TrajectorySteps, ionic, cell) = "CONVERGED"
          <=> /\ Steps # 0 /\ electronic = "converged" /\ forceful = "converged"
              /\ "contradictory" \notin {electronic, forceful}
      BY <2>2, <2>4, <2>6, <3>1 DEF StageLabel
    <3> QED
      BY <2>1, <2>3, <3>2, <3>3
  <2> QED
    BY <2>5, <2>6
<1> QED
  BY <1>1, TrajectoryIsOfTheFiles, PTL

\* Of files that rest, the electronic scope is CONVERGED only when VASP says so
\* or the last cycle met EDIFF, but for an OSZICAR longer than the part of it
\* that path mode reads.
THEOREM ConvergedByTheLastCycleHolds == Spec => []ConvergedByTheLastCycle
<1>1. Inv => ConvergedByTheLastCycle
  <2> SUFFICES ASSUME Inv, got.calm, Report(FALSE, FALSE).electronic = "CONVERGED",
                      vasprun.flagE # "true",
                      ~(mode = "path" /\ Len(oszicar.cycles) > Prefix)
               PROVE  /\ oszicar.cycles # <<>>
                      /\ oszicar.cycles[Len(oszicar.cycles)].measure = "reached"
    BY DEF ConvergedByTheLastCycle, Calm
  <2>1. ElectronicOutcome(TrajectoryEvidence) = "converged"
    BY LabelsOfScopes DEF Report
  <2>2. got.vasprun.flagE # "true"
    <3>1. got.vasprun \in {NoVasprun, vasprun}
      BY DEF Inv, CalmInv
    <3> QED
      BY <3>1 DEF NoVasprun
  <2>3. CycleMeasure = "reached"
    <3>1. TrajectoryEvidence.cycle = CycleMeasure /\ TrajectoryEvidence.flagE = got.vasprun.flagE
      BY DEF TrajectoryEvidence
    <3> QED
      BY <2>1, <2>2, <3>1 DEF ElectronicOutcome, Weigh
  <2>4. Steps > 0 /\ got.oszicar.cycles[Steps].measure = "reached"
    BY <2>3 DEF CycleMeasure
  <2>5. got.oszicar.readable
    BY <2>4, StepsAreCounted DEF NoCount
  <2>6. got.oszicar = oszicar
    BY <2>5, FilesAtRest DEF OszicarText
  <2>7. Steps = Len(oszicar.cycles)
    BY <2>5, <2>6, StepsAreCounted
  <2> QED
    BY <2>4, <2>6, <2>7
<1> QED
  BY <1>1, TrajectoryIsOfTheFiles, PTL

\* The largest of three numbers.
LEMMA MaxOfThree ==
  ASSUME NEW a \in Int, NEW b \in Int, NEW c \in Int
  PROVE  Max({a, b, c}) \in {a, b, c} /\ \A x \in {a, b, c} : Max({a, b, c}) >= x
<1> DEFINE T == {a, b, c}
<1>1. \E x \in T : \A y \in T : x >= y
  <2>1. CASE a >= b /\ a >= c
    BY <2>1
  <2>2. CASE b >= a /\ b >= c
    BY <2>2
  <2>3. CASE c >= a /\ c >= b
    BY <2>3
  <2> QED
    BY <2>1, <2>2, <2>3
<1> HIDE DEF T
<1>2. Max(T) \in T /\ \A y \in T : Max(T) >= y
  BY <1>1 DEF Max
<1> QED
  BY <1>2 DEF T

\* The force of a step is a number or missing, and before the first step there
\* is none.
LEMMA ForceOfAStep ==
  ASSUME Inv
  PROVE  /\ VasprunForces \in Seq(ForceValue)
         /\ \A i : StepForce(i).force \in Nat \cup {NoForce}
         /\ StepForce(0).force = NoForce
<1>1. VasprunForces \in Seq(ForceValue)
  <2>1. got.vasprun.forces \in Seq(ForceValue)
    BY DEF Inv, ReaderInv, GotType, VasprunType
  <2> QED
    BY <2>1 DEF VasprunForces
<1>2. CompleteBlocks(got.blocks) \in Seq(Block)
  BY CompleteOnes
<1>3. \A i \in DOMAIN OutcarStepForces : OutcarStepForces[i] \in Nat /\ i \in 1..Steps
  <2> SUFFICES ASSUME NEW i \in DOMAIN OutcarStepForces
               PROVE  OutcarStepForces[i] \in Nat /\ i \in 1..Steps
    OBVIOUS
  <2>1. /\ i \in 1..Len(CompleteBlocks(got.blocks)) /\ i \in 1..Steps
        /\ OutcarStepForces[i] = CompleteBlocks(got.blocks)[i].force
    BY StepsAreCounted
  <2>2. CompleteBlocks(got.blocks)[i] \in Block
    BY <1>2, <2>1
  <2> QED
    BY <2>1, <2>2 DEF Block
<1>4. \A i \in DOMAIN VasprunForces : VasprunForces[i] \in Nat \cup {NoForce} /\ i \in Nat \ {0}
  <2>1. ASSUME NEW x \in ForceValue PROVE x \in Nat \cup {NoForce}
    BY SitesAssumption DEF ForceValue
  <2>2. ASSUME NEW i \in DOMAIN VasprunForces
        PROVE  i \in Nat \ {0} /\ VasprunForces[i] \in ForceValue
    <3> HIDE DEF ForceValue
    <3>1. DOMAIN VasprunForces = 1..Len(VasprunForces) /\ Len(VasprunForces) \in Nat
      BY <1>1
    <3> QED
      BY <1>1, <3>1
  <2> QED
    BY <2>1, <2>2
<1>5. ASSUME NEW i
      PROVE  /\ StepForce(i).force \in Nat \cup {NoForce}
             /\ i = 0 => StepForce(i).force = NoForce
  <2>1. CASE i \in DOMAIN VasprunForces
    <3>1. StepForce(i).force = VasprunForces[i]
      BY <2>1 DEF StepForce
    <3> QED
      BY <1>4, <2>1, <3>1
  <2>2. CASE i \notin DOMAIN VasprunForces /\ i \in DOMAIN OutcarStepForces
    <3>1. StepForce(i).force = OutcarStepForces[i]
      BY <2>2 DEF StepForce
    <3>2. OutcarStepForces[i] \in Nat /\ i # 0
      BY <1>3, <2>2, StepsAreCounted DEF NoCount
    <3> QED
      BY <3>1, <3>2
  <2>3. CASE i \notin DOMAIN VasprunForces /\ i \notin DOMAIN OutcarStepForces
    <3>1. StepForce(i).force = NoForce
      BY <2>3 DEF StepForce
    <3> QED
      BY <3>1
  <2> QED
    BY <2>1, <2>2, <2>3
<1> QED
  BY <1>1, <1>5

\* The steps of OSZICAR, or without it those of vasprun.xml.
LastShown == IF Steps = NoCount THEN StepsKnown ELSE Steps

\* The steps that any file knows, and those whose forces are shown, are as many
\* as a number says.
LEMMA LastStepIsANumber ==
  ASSUME Inv
  PROVE  /\ StepsKnown \in {Steps, 0, Len(VasprunForces)}
         /\ StepsKnown >= Steps
         /\ StepsKnown \in Nat /\ LastShown \in Nat
<1>1. VasprunForces \in Seq(ForceValue) /\ Len(VasprunForces) \in Nat
  BY ForceOfAStep
<1>2. Steps \in Nat \cup {NoCount} /\ Steps \in Int
  BY StepsAreCounted DEF NoCount
<1>3. /\ StepsKnown \in {Steps, 0, Len(VasprunForces)}
      /\ StepsKnown >= 0 /\ StepsKnown >= Steps
  <2> DEFINE a == Steps
             c == Len(VasprunForces)
  <2>1. a \in Int /\ c \in Int /\ StepsKnown = Max({a, 0, c})
    BY <1>1, <1>2 DEF StepsKnown
  <2> HIDE DEF a, c
  <2>2. Max({a, 0, c}) \in {a, 0, c} /\ \A x \in {a, 0, c} : Max({a, 0, c}) >= x
    BY ONLY <2>1, 0 \in Int, MaxOfThree, Zenon
  <2>3. StepsKnown \in {a, 0, c} /\ StepsKnown >= 0 /\ StepsKnown >= a
    BY <2>1, <2>2
  <2> QED
    BY <2>3 DEF a, c
<1>4. StepsKnown \in Nat
  BY <1>1, <1>2, <1>3
<1>5. LastShown \in Nat
  BY <1>2, <1>4 DEF LastShown
<1> QED
  BY <1>3, <1>4, <1>5

\* Of files that rest no file knows a later step than the last that is shown.
LEMMA LastStepIsShown ==
  ASSUME Inv, got.calm
  PROVE  StepsKnown \in Nat /\ LastShown = StepsKnown
<1>1. VasprunForces \in Seq(ForceValue) /\ Len(VasprunForces) \in Nat
  BY ForceOfAStep
<1>3. /\ StepsKnown \in {Steps, 0, Len(VasprunForces)}
      /\ StepsKnown >= 0 /\ StepsKnown >= Steps
  BY LastStepIsANumber
<1>4. StepsKnown \in Nat
  BY LastStepIsANumber
<1>5. ASSUME Steps # NoCount PROVE StepsKnown = Steps
  <2>1. got.oszicar.readable /\ Steps = Len(got.oszicar.cycles) /\ Steps \in Nat
    BY <1>5, StepsAreCounted
  <2>2. Len(VasprunForces) <= Steps
    <3>1. CASE mode = "job" /\ got.vasprun # NoVasprun
      <4>1. VasprunForces = vasprun.forces /\ Len(vasprun.forces) = Len(oszicar.cycles)
            /\ got.oszicar = oszicar
        BY <2>1, <3>1, FilesAtRest DEF VasprunForces
      <4> QED
        BY <1>1, <2>1, <4>1
    <3>2. CASE ~(mode = "job" /\ got.vasprun # NoVasprun)
      <4>1. VasprunForces = <<>>
        BY <3>2 DEF VasprunForces, NoVasprun
      <4> QED
        BY <2>1, <4>1
    <3> QED
      BY <3>1, <3>2
  <2> QED
    BY <1>1, <1>3, <2>1, <2>2
<1> QED
  BY <1>4, <1>5 DEF LastShown

\* The steps with a force, of those that are shown.
AllForces == [i \in 1..LastShown |-> StepForce(i).force]
WithForce == {i \in 1..LastShown : AllForces[i] # NoForce}

\* What is shown is picked from the forces of all steps, and each is a number.
LEMMA ShownAreNumbers ==
  ASSUME Inv
  PROVE  /\ AllForces \in Seq(Nat \cup {NoForce}) /\ Len(AllForces) = LastShown
         /\ ShownForces = Picked(AllForces, WithForce)
         /\ ShownForces \in Seq(Nat)
<1>1. LastShown \in Nat
  BY LastStepIsANumber
<1>2. AllForces \in [1..LastShown -> Nat \cup {NoForce}]
  BY ForceOfAStep DEF AllForces
<1>3. AllForces \in Seq(Nat \cup {NoForce}) /\ Len(AllForces) = LastShown
  BY <1>1, <1>2
<1>4. ShownForces = Picked(AllForces, WithForce)
  BY DEF ShownForces, LastShown, AllForces, WithForce
<1>5. /\ ShownForces \in Seq(Nat \cup {NoForce})
      /\ \E h : Embeds(h, ShownForces, Len(AllForces), AllForces, WithForce)
  BY <1>3, <1>4, PickedEmbeds
<1>6. PICK h : Embeds(h, ShownForces, Len(AllForces), AllForces, WithForce)
  BY <1>5
<1>7. \A i \in WithForce : AllForces[i] \in Nat
  <2>1. \A i \in WithForce : i \in 1..LastShown /\ AllForces[i] # NoForce
    BY DEF WithForce
  <2> QED
    BY <1>2, <2>1
<1>8. \A i \in 1..Len(ShownForces) : ShownForces[i] \in Nat
  <2>1. \A i \in 1..Len(ShownForces) :
           h[i] \in WithForce /\ ShownForces[i] = AllForces[h[i]]
    BY <1>6, Zenon DEF Embeds
  <2> QED
    BY <1>7, <2>1, Zenon
<1>9. ShownForces \in Seq(Nat)
  BY <1>5, <1>8
<1> QED
  BY <1>3, <1>4, <1>9

\* What is shown are the forces that are known, and the last one is that of
\* the last step when it is known.
LEMMA ShownAreKnown ==
  ASSUME Inv, got.calm, FinalForce.force # NoForce
  PROVE  /\ Len(ShownForces) \in Nat \ {0}
         /\ \A i \in 1..Len(ShownForces) : ShownForces[i] \in Nat
         /\ DOMAIN ShownForces = 1..Len(ShownForces)
         /\ ShownForces[Len(ShownForces)] = FinalForce.force
<1>1. StepsKnown \in Nat /\ LastShown = StepsKnown /\ LastShown \in Nat
  BY LastStepIsShown
<1>2. FinalForce = StepForce(LastShown)
  BY <1>1 DEF FinalForce
<1>3. LastShown \in 1..LastShown
  <2>1. LastShown # 0
    BY <1>2, ForceOfAStep
  <2> QED
    BY <1>1, <2>1
<1>4. LastShown \in WithForce /\ AllForces[LastShown] = FinalForce.force
  BY <1>2, <1>3 DEF WithForce, AllForces
<1>5. /\ AllForces \in Seq(Nat \cup {NoForce}) /\ Len(AllForces) = LastShown
      /\ ShownForces = Picked(AllForces, WithForce)
      /\ ShownForces \in Seq(Nat)
  BY ShownAreNumbers
<1>6. AllForces # <<>>
  BY <1>3, <1>5
<1>7. ShownForces # <<>> /\ ShownForces[Len(ShownForces)] = FinalForce.force
  BY <1>4, <1>5, <1>6, PickedLast
<1> QED
  BY <1>5, <1>7

\* The course of forces that are numbers: its values are forces, its best step
\* is one of the course, and so are the improvements.
LEMMA CourseOfForces ==
  ASSUME NEW s \in Seq(Nat)
  PROVE  /\ {Progress(s).initial, Progress(s).current, Progress(s).best} \subseteq Nat
         /\ Progress(s).count \in Nat
         /\ Progress(s).step \in 0..Progress(s).count
         /\ Progress(s).improvements \in 0..Progress(s).count
<1>1. CASE s = <<>>
  <2>1. Progress(s) = NoProgress
    BY <1>1 DEF Progress
  <2> QED
    BY <2>1 DEF NoProgress
<1>2. CASE s # <<>>
  <2> DEFINE count == Len(s)
             initial == s[1]
             current == s[Len(s)]
             best == Smallest(s)
             step == BestStep(s)
             improvements == Cardinality(Improvements(s))
             shown == Progress(s)
  <2>1. shown = [count |-> count, initial |-> initial, current |-> current,
                 best |-> best, step |-> step, improvements |-> improvements]
    BY <1>2, Zenon DEF Progress
  <2>2. count \in Nat \ {0} /\ DOMAIN s = 1..count /\ initial \in Nat /\ current \in Nat
    BY <1>2
  <2>3. best \in Nat /\ \E i \in DOMAIN s : s[i] = best
    <3> DEFINE T == {s[i] : i \in DOMAIN s}
    <3>1. T \subseteq Nat /\ T # {} /\ \A x \in T : \E i \in DOMAIN s : s[i] = x
      <4>1. \A i \in DOMAIN s : s[i] \in Nat
        OBVIOUS
      <4>2. 1 \in DOMAIN s
        BY <2>2
      <4> QED
        BY <4>1, <4>2
    <3>2. best = Min(T)
      BY DEF Smallest
    <3> HIDE DEF T, best
    <3>3. Min(T) \in T
      BY <3>1, Least DEF Min
    <3> QED
      BY <3>1, <3>2, <3>3
  <2>4. step \in 1..count
    <3> DEFINE T == {i \in DOMAIN s : s[i] = Smallest(s)}
    <3>1. T \subseteq 1..count /\ T \subseteq Nat /\ T # {}
      BY <2>2, <2>3
    <3>2. step = Min(T)
      BY DEF BestStep
    <3> HIDE DEF T, step, count
    <3>3. Min(T) \in T
      BY <3>1, Least DEF Min
    <3> QED
      BY <3>1, <3>2, <3>3
  <2>5. improvements \in 0..count
    <3>1. Improvements(s) \subseteq 1..count
      BY <2>2 DEF Improvements
    <3>2. IsFiniteSet(1..count) /\ Cardinality(1..count) = count
      BY <2>2, FS_Interval
    <3>3. /\ IsFiniteSet(Improvements(s))
          /\ Cardinality(Improvements(s)) <= Cardinality(1..count)
      BY <3>1, <3>2, FS_Subset
    <3>4. Cardinality(Improvements(s)) \in Nat
      BY <3>3, FS_CardinalityType
    <3> QED
      BY <2>2, <3>2, <3>3, <3>4
  <2> HIDE DEF count, initial, current, best, step, improvements, shown
  <2>6. /\ shown.count = count /\ shown.initial = initial /\ shown.current = current
        /\ shown.best = best /\ shown.step = step /\ shown.improvements = improvements
    BY <2>1
  <2>7. /\ {shown.initial, shown.current, shown.best} \subseteq Nat
        /\ shown.count \in Nat
        /\ shown.step \in 0..shown.count
        /\ shown.improvements \in 0..shown.count
    BY <2>2, <2>3, <2>4, <2>5, <2>6
  <2> QED
    BY <2>7 DEF shown
<1> QED
  BY <1>1, <1>2

\* The evidence of a stage is that which the assessments take.
LEMMA EvidenceIsEvidence ==
  ASSUME Inv
  PROVE  TrajectoryEvidence \in Evidence
<1>1. got.vasprun.flagE \in Flag /\ got.vasprun.flagI \in Flag
  BY DEF Inv, ReaderInv, GotType, VasprunType
<1>2. CycleMeasure \in Measure
  <2>1. CASE Steps > 0
    <3>1. got.oszicar.cycles \in Seq(Cycle)
      BY DEF Inv, ReaderInv, GotType, OszicarType
    <3>2. Steps \in 1..Len(got.oszicar.cycles)
      BY <2>1, <3>1, StepsAreCounted DEF NoCount
    <3>3. got.oszicar.cycles[Steps] \in Cycle
      <4> HIDE DEF Cycle
      <4> QED
        BY <3>1, <3>2
    <3>4. \A cycle \in Cycle : cycle.measure \in Measure
      BY DEF Cycle, Measure
    <3> QED
      BY <2>1, <3>3, <3>4 DEF CycleMeasure
  <2>2. CASE ~(Steps > 0)
    BY <2>2 DEF CycleMeasure, Measure
  <2> QED
    BY <2>1, <2>2
<1>3. FinalForce.source \in Source
  <2>1. \A i : StepForce(i).source \in Source
    BY DEF StepForce, Source
  <2> QED
    BY <2>1 DEF FinalForce
<1> DEFINE force == CASE FinalForce.force = NoForce -> "none"
                      [] FinalForce.force \in 0..Criterion -> "reached"
                      [] OTHER -> "above"
<1>4. force \in Measure
  BY DEF Measure
<1>5. TrajectoryEvidence = [flagE |-> got.vasprun.flagE, flagI |-> got.vasprun.flagI,
                            cycle |-> CycleMeasure, force |-> force,
                            source |-> FinalForce.source]
  BY DEF TrajectoryEvidence
<1> HIDE DEF force
<1> QED
  BY <1>1, <1>2, <1>3, <1>4, <1>5 DEF Evidence

\* The files, what was read of them, and what is made of it keep their types:
\* whatever was lost, half written or cut off, and whenever it was read, the
\* forces shown are numbers, and the best step and the improvements are steps
\* of their course.
THEOREM TrajectoryTypes == Spec => []TypeOK
<1>1. Inv => TypeOK
  <2> SUFFICES ASSUME Inv PROVE TypeOK
    OBVIOUS
  <2>1. /\ run \in [number : 0..MaxRuns, running : BOOLEAN, over : BOOLEAN]
        /\ oszicar \in OszicarType
        /\ table \in 0..TableLength
        /\ outcar \in Seq(Line)
        /\ vasprun \in VasprunType
        /\ forces \in Seq(ForceValue)
        /\ mode \in {"job", "path"}
    BY DEF Inv, WorldInv, WorldType
  <2>2. /\ pc \in {"first", "oszicar", "oszicar after result", "vasprun", "outcar", "done"}
        /\ got \in GotType
        /\ faults \in 0..MaxFaults
    BY DEF Inv, ReaderInv
  <2>3. TrajectoryEvidence \in Evidence
    BY EvidenceIsEvidence
  <2>4. CourseOK(Progress(ShownForces))
    BY ShownAreNumbers, CourseOfForces DEF CourseOK
  <2> QED
    BY <2>1, <2>2, <2>3, <2>4 DEF TypeOK
<1> QED
  BY <1>1, TrajectoryIsOfTheFiles, PTL

\* When the forces make a relaxation CONVERGED, the current force shown beside
\* the label meets the criterion, and is the last of the course of the forces.
THEOREM ShownForceSupportsLabelHolds == Spec => []ShownForceSupportsLabel
<1>1. Inv => ShownForceSupportsLabel
  <2> SUFFICES ASSUME Inv, got.calm, Report(TRUE, FALSE).ionic = "CONVERGED",
                      got.vasprun.flagI # "true"
               PROVE  /\ Report(TRUE, FALSE).progress.count > 0
                      /\ Report(TRUE, FALSE).progress.current <= Criterion
                      /\ Report(TRUE, FALSE).progress.best
                         <= Report(TRUE, FALSE).progress.current
    BY DEF ShownForceSupportsLabel, Calm
  <2>1. IonicOutcome(TrajectoryEvidence, FALSE) = "converged"
    <3>1. IonicLabel(TrajectoryEvidence, FALSE) = "CONVERGED"
      BY DEF Report
    <3> QED
      BY <3>1, LabelsOfScopes
  <2>2. TrajectoryEvidence.force = "reached"
    <3>1. TrajectoryEvidence.flagI # "true"
      BY DEF TrajectoryEvidence
    <3> QED
      BY <2>1, <3>1 DEF IonicOutcome, Weigh
  <2>3. FinalForce.force \in 0..Criterion /\ FinalForce.force # NoForce
    <3>1. TrajectoryEvidence.force = CASE FinalForce.force = NoForce -> "none"
                                       [] FinalForce.force \in 0..Criterion -> "reached"
                                       [] OTHER -> "above"
      BY DEF TrajectoryEvidence
    <3>2. NoForce \notin 0..Criterion
      BY DEF NoForce
    <3> QED
      BY <2>2, <3>1, <3>2
  <2> DEFINE T == {ShownForces[i] : i \in DOMAIN ShownForces}
             last == Len(ShownForces)
  <2>4. /\ last \in Nat \ {0}
        /\ \A i \in 1..last : ShownForces[i] \in Nat
        /\ DOMAIN ShownForces = 1..last
        /\ ShownForces[last] = FinalForce.force
    BY <2>3, ShownAreKnown
  <2>5. /\ Report(TRUE, FALSE).progress.count = last
        /\ Report(TRUE, FALSE).progress.current = ShownForces[last]
        /\ Report(TRUE, FALSE).progress.best = Smallest(ShownForces)
    <3>1. Report(TRUE, FALSE).progress = Progress(ShownForces)
      BY DEF Report
    <3>2. ShownForces # <<>>
      <4>1. Len(ShownForces) # 0
        BY <2>4
      <4> QED
        BY <4>1
    <3> DEFINE count == Len(ShownForces)
               current == ShownForces[Len(ShownForces)]
               best == Smallest(ShownForces)
               initial == ShownForces[1]
               step == BestStep(ShownForces)
               improvements == Cardinality(Improvements(ShownForces))
               shown == Report(TRUE, FALSE).progress
    <3>3. shown = [count |-> count, initial |-> initial, current |-> current,
                   best |-> best, step |-> step, improvements |-> improvements]
      BY <3>1, <3>2, Zenon DEF Progress
    <3> HIDE DEF count, initial, current, best, step, improvements, shown
    <3>4. shown.count = count /\ shown.current = current /\ shown.best = best
      BY <3>3
    <3> QED
      BY <3>4, Zenon DEF shown, count, current, best
  <2>6. Smallest(ShownForces) <= ShownForces[last]
    <3>1. T \subseteq Nat /\ ShownForces[last] \in T
      BY <2>4
    <3>2. PICK x \in T : \A y \in T : x <= y
      <4> HIDE DEF T
      <4> QED
        BY <3>1, Least
    <3>3. Smallest(ShownForces) = Min(T)
      BY DEF Smallest
    <3>4. \A y \in T : Min(T) <= y
      <4> HIDE DEF T
      <4> QED
        BY <3>2 DEF Min
    <3> QED
      BY <3>1, <3>3, <3>4
  <2>7. last > 0 /\ FinalForce.force <= Criterion
    BY <2>3, <2>4, TrajectoryAssumption
  <2> HIDE DEF T, last
  <2> QED
    BY <2>4, <2>5, <2>6, <2>7
<1> QED
  BY <1>1, TrajectoryIsOfTheFiles, PTL
=============================================================================
