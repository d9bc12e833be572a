---------------------------- MODULE WalkerProofs ----------------------------
(***************************************************************************)
(* The route walkers, for every catalogue, grammar and request: they keep  *)
(* their ground the way WalkStack promises, and what they close is a route *)
(* the corpus allows and a car can drive.  Then the telemetry stages, for  *)
(* every map and capture: coverage rows that add up, and a driven path     *)
(* that no other sequence of blocks beats.                                 *)
(***************************************************************************)
EXTENDS WalkStack, GrammarWalker, ClipWalker, TelemetryStages, BlockStatistics,
        SequenceTheorems, Orders

-----------------------------------------------------------------------------
(* The stack of footprints, as a sequence. *)

\* Footprints s are apart, and t is the ground under them.
Kept(s, t) ==
    /\ \A i, j \in DOMAIN s : i # j => s[i] \cap s[j] = {}
    /\ t = UNION {s[i] : i \in DOMAIN s}

LEMMA LastIndex ==
    ASSUME NEW n \in Nat, n > 1
    PROVE  /\ \A i \in 1 .. n - 1 : i \in 1 .. n /\ i # n
           /\ \A i \in 1 .. n : i \in 1 .. n - 1 \/ i = n
OBVIOUS

LEMMA Pushed ==
    ASSUME NEW S, NEW s \in Seq(S), NEW e \in S
    PROVE  /\ Append(s, e) \in Seq(S) /\ Len(Append(s, e)) = Len(s) + 1
           /\ Append(s, e)[Len(s) + 1] = e
           /\ \A i \in 1 .. Len(s) : Append(s, e)[i] = s[i]
OBVIOUS

LEMMA KeptAlone ==
    ASSUME NEW f
    PROVE  Kept(<<f>>, f)
<1>1. DOMAIN <<f>> = {1} /\ <<f>>[1] = f
  OBVIOUS
<1> QED
  BY <1>1 DEF Kept

LEMMA KeptNone == Kept(<< >>, {})
  BY DEF Kept

\* A free footprint on top of a kept ground keeps it.
LEMMA KeptOnTop ==
    ASSUME NEW S, NEW s \in Seq(S), NEW t, Kept(s, t), NEW f \in S, f \cap t = {}
    PROVE  Kept(Append(s, f), t \cup f)
<1> DEFINE n == Len(s)
<1>1. n \in Nat /\ DOMAIN s = 1 .. n
  OBVIOUS
<1>2. PICK q : q = Append(s, f)
  OBVIOUS
<1>3. DOMAIN q = 1 .. n + 1 /\ q[n + 1] = f /\ \A i \in 1 .. n : q[i] = s[i]
  BY <1>1, <1>2
<1>4. \A i \in 1 .. n : s[i] \subseteq t
  BY <1>1 DEF Kept
<1>5. ASSUME NEW i \in 1 .. n + 1, NEW j \in 1 .. n + 1, i # j
      PROVE  q[i] \cap q[j] = {}
  <2>1. \A k, m \in 1 .. n : k # m => s[k] \cap s[m] = {}
    BY <1>1 DEF Kept
  <2>2. CASE i \in 1 .. n /\ j \in 1 .. n
    BY <1>3, <1>5, <2>1, <2>2
  <2>3. CASE i = n + 1 /\ j \in 1 .. n
    BY <1>3, <1>4, <2>3
  <2>4. CASE j = n + 1 /\ i \in 1 .. n
    BY <1>3, <1>4, <2>4
  <2> QED
    BY <1>1, <1>5, <2>2, <2>3, <2>4
<1>6. t \cup f = UNION {q[i] : i \in 1 .. n + 1}
  <2>1. t = UNION {s[i] : i \in 1 .. n}
    BY <1>1 DEF Kept
  <2>2. ASSUME NEW x
        PROVE  x \in t \cup f <=> \E i \in 1 .. n + 1 : x \in q[i]
    <3>1. x \in t \cup f <=> x \in f \/ \E i \in 1 .. n : x \in s[i]
      BY <2>1
    <3>2. \A i \in 1 .. n + 1 : i \in 1 .. n \/ i = n + 1
      BY <1>1
    <3>3. n + 1 \in 1 .. n + 1 /\ \A i \in 1 .. n : i \in 1 .. n + 1
      BY <1>1
    <3> QED
      BY <1>3, <3>1, <3>2, <3>3
  <2> QED
    BY <2>2
<1> QED
  BY <1>2, <1>3, <1>5, <1>6 DEF Kept

\* Taking the last one away gives back its cells and no other's: they are apart.
LEMMA KeptBelow ==
    ASSUME NEW S, NEW s \in Seq(S), NEW t, Kept(s, t), Len(s) > 1
    PROVE  Kept(SubSeq(s, 1, Len(s) - 1), t \ s[Len(s)])
<1> DEFINE n == Len(s)
<1>1. n \in Nat /\ n > 1 /\ DOMAIN s = 1 .. n
  OBVIOUS
<1>2. PICK q : q = SubSeq(s, 1, n - 1)
  OBVIOUS
<1>3. DOMAIN q = 1 .. n - 1 /\ \A i \in 1 .. n - 1 : q[i] = s[i]
  BY <1>1, <1>2
<1>4. \A i, j \in 1 .. n : i # j => s[i] \cap s[j] = {}
  BY <1>1 DEF Kept
<1>5. \A i, j \in 1 .. n - 1 : i # j => q[i] \cap q[j] = {}
  BY <1>1, <1>3, <1>4
<1>6. t \ s[n] = UNION {q[i] : i \in 1 .. n - 1}
  <2>1. t = UNION {s[i] : i \in 1 .. n}
    BY <1>1 DEF Kept
  <2>2. ASSUME NEW x
        PROVE  x \in t \ s[n] <=> \E i \in 1 .. n - 1 : x \in q[i]
    <3>1. x \in t \ s[n] <=> x \notin s[n] /\ \E i \in 1 .. n : x \in s[i]
      BY <2>1
    <3>2. /\ \A i \in 1 .. n - 1 : i \in 1 .. n /\ i # n
          /\ \A i \in 1 .. n : i \in 1 .. n - 1 \/ i = n
      BY <1>1, LastIndex
    <3>3. n \in 1 .. n
      BY <1>1
    <3>4. \A i \in 1 .. n - 1 : x \in s[i] => x \notin s[n]
      BY <1>4, <3>2, <3>3
    <3> QED
      BY <1>3, <3>1, <3>2, <3>4
  <2> QED
    BY <2>2
<1> QED
  BY <1>2, <1>3, <1>5, <1>6 DEF Kept

StackInv == feet \in Seq(Footprints) /\ GroundKept

LEMMA StackStarts == StackInit => StackInv
BY DEF StackInit, StackInv, GroundKept, FeetApart, TakenIsFeet

LEMMA StackSteps ==
    ASSUME StackInv, [StackNext]_stackVars
    PROVE  StackInv'
<1>1. Kept(feet, taken) /\ feet \in Seq(Footprints)
  BY DEF StackInv, GroundKept, FeetApart, TakenIsFeet, Kept
<1>2. ASSUME feet' \in Seq(Footprints), Kept(feet', taken')
      PROVE  StackInv'
  <2>1. FeetApart'
    BY <1>2 DEF FeetApart, Kept
  <2>2. TakenIsFeet'
    BY <1>2 DEF TakenIsFeet, Kept
  <2> QED
    BY <1>2, <2>1, <2>2 DEF StackInv, GroundKept
<1>3. CASE Drop
  <2>1. feet' = << >> /\ taken' = {}
    BY <1>3 DEF Drop
  <2>2. feet' \in Seq(Footprints)
    BY <2>1
  <2> QED
    BY <1>2, <2>1, <2>2, KeptNone
<1>4. CASE Undo
  <2>1. SubSeq(feet, 1, Len(feet) - 1) \in Seq(Footprints)
    BY <1>1, <1>4 DEF Undo
  <2> QED
    BY <1>1, <1>2, <1>4, <2>1, KeptBelow DEF Undo
<1>5. ASSUME NEW f \in Footprints, Start(f)
      PROVE  StackInv'
  BY <1>2, <1>5, KeptAlone DEF Start
<1>6. ASSUME NEW f \in Footprints, Place(f)
      PROVE  StackInv'
  <2>1. Append(feet, f) \in Seq(Footprints)
    BY <1>1
  <2> QED
    BY <1>1, <1>2, <1>6, <2>1, KeptOnTop DEF Place
<1>7. CASE UNCHANGED stackVars
  BY <1>1, <1>2, <1>7 DEF stackVars
<1> QED
  BY <1>3, <1>4, <1>5, <1>6, <1>7 DEF StackNext

(* Whatever blocks there are, and however a walker places and takes away,  *)
(* no two blocks of its route share a cell and its occupancy is the ground *)
(* under its blocks: what _place and the undo of both walkers must keep.   *)
THEOREM StackKeepsGround == StackSpec => []GroundKept
<1>1. StackInv => GroundKept
  BY DEF StackInv
<1>2. StackInv /\ [StackNext]_stackVars => StackInv'
  BY StackSteps
<1> QED
  BY StackStarts, <1>1, <1>2, PTL DEF StackSpec

-----------------------------------------------------------------------------
(* Lattice, vectors and the variants of a block. *)

LEMMA CellParts ==
    /\ \A c \in Lattice : c = <<c[1], c[2], c[3]>> /\ c[1] \in Int /\ c[2] \in Int /\ c[3] \in Int
    /\ \A x, y, z \in Int : <<x, y, z>> \in Lattice
  BY DEF Lattice

LEMMA Quarter ==
    ASSUME NEW d \in Int
    PROVE  d % 4 \in Int /\ (d % 4 = 0 \/ d % 4 = 1 \/ d % 4 = 2 \/ d % 4 = 3)
OBVIOUS

LEMMA VectorSums ==
    ASSUME NEW a \in Lattice, NEW b \in Lattice
    PROVE  Plus(a, b) \in Lattice /\ Minus(a, b) \in Lattice
  BY CellParts DEF Plus, Minus

LEMMA VectorTurns ==
    ASSUME NEW v \in Lattice, NEW d \in Int
    PROVE  RotateVector(v, d) \in Lattice
  BY CellParts, Quarter DEF RotateVector

LEMMA OffsetTurns ==
    ASSUME NEW v \in Lattice, NEW d \in Int, NEW s \in Lattice
    PROVE  RotateOffset(v, d, s) \in Lattice
  BY CellParts, Quarter DEF RotateOffset

\* Cells laid out from a variant at a rotation, from a place on.
Laid(v, at, d) == {Plus(at, RotateOffset(u, d, v.size)) : u \in v.units}

LEMMA LaidCells ==
    ASSUME NEW v, Anchored(v), NEW at \in Lattice, NEW d \in 0 .. 3
    PROVE  Laid(v, at, d) \subseteq Lattice /\ IsFiniteSet(Laid(v, at, d))
  <1>1. v.units \subseteq Lattice /\ IsFiniteSet(v.units) /\ v.size \in Lattice
    BY DEF Anchored
  <1>2. Laid(v, at, d) \subseteq Lattice
    <2> SUFFICES ASSUME NEW u \in v.units PROVE Plus(at, RotateOffset(u, d, v.size)) \in Lattice
      BY DEF Laid
    <2>1. d \in Int /\ u \in Lattice
      BY <1>1
    <2>2. RotateOffset(u, d, v.size) \in Lattice
      BY <1>1, <2>1, OffsetTurns
    <2> QED
      BY <2>2, VectorSums
  <1> DEFINE g == [u \in v.units |-> Plus(at, RotateOffset(u, d, v.size))]
  <1>3. \A c \in Laid(v, at, d) : \E u \in v.units : c = g[u]
    BY DEF Laid
  <1>4. g \in [v.units -> {g[u] : u \in v.units}] /\ Laid(v, at, d) = {g[u] : u \in v.units}
    BY DEF Laid
  <1>5. g \in Surjection(v.units, Laid(v, at, d))
    BY <1>3, <1>4 DEF Surjection
  <1>6. IsFiniteSet(Laid(v, at, d))
    BY <1>1, <1>5, FS_Surjection
  <1> QED
    BY <1>2, <1>6

\* What stands in bounds is anchored in bounds.
LEMMA LaidFrom ==
    ASSUME NEW v, Anchored(v), v.units # {}, NEW at \in Lattice, NEW d \in 0 .. 3,
           InBounds(Laid(v, at, d))
    PROVE  at \in GroundCells
  <1>1. ASSUME NEW k \in 1 .. 3
        PROVE  \E c \in Laid(v, at, d) : c[k] = at[k]
    <2>1. PICK u \in v.units : RotateOffset(u, d, v.size)[k] = 0
      BY DEF Anchored
    <2>2. PICK o : o = RotateOffset(u, d, v.size)
      OBVIOUS
    <2>3. Plus(at, o) \in Laid(v, at, d) /\ o[k] = 0
      BY <2>1, <2>2 DEF Laid
    <2>4. Plus(at, o)[k] = at[k] + o[k] /\ at[k] \in Int
      BY CellParts DEF Plus
    <2> QED
      BY <2>3, <2>4
  <1>2. /\ at[1] \in GridMin .. GridMax - 1
        /\ at[2] \in GroundY .. MaxY
        /\ at[3] \in GridMin .. GridMax - 1
    BY <1>1 DEF InBounds
  <1> QED
    BY <1>2, CellParts DEF GroundCells

LEMMA OriginOnGround == Origin \in GroundCells /\ GroundCells \subseteq Lattice
  <1> DEFINE m == GridMin + (GridMax - GridMin) \div 2
  <1>1. GridMin \in Int /\ GridMax \in Int /\ GroundY \in Int /\ MaxY \in Int /\ GridMin < GridMax /\ GroundY <= MaxY
    BY GridAssumption
  <1>2. m \in GridMin .. GridMax - 1
    BY <1>1
  <1>3. GroundY \in GroundY .. MaxY
    BY <1>1
  <1>4. Origin \in GroundCells
    BY <1>2, <1>3 DEF Origin, GroundCells
  <1>5. GroundCells \subseteq Lattice
    BY <1>1 DEF GroundCells, Lattice
  <1> QED
    BY <1>4, <1>5

-----------------------------------------------------------------------------
(* The vocabulary of a route is of its pool: by induction on the rounds,   *)
(* each set of naturals that is not empty having a least element.          *)

\* One more round.
More(s, allow) ==
    LET near == UNION {Strongest(b, Successors(b, allow, FALSE)) : b \in s.frontier}
        new == near \ s.vocab
    IN  [vocab |-> s.vocab \cup new, frontier |-> new]
Seeded(seeds) == [vocab |-> seeds, frontier |-> seeds]
Grown(g, seeds, allow, k) ==
    g = [n \in 0 .. k |-> IF n = 0 THEN Seeded(seeds) ELSE More(g[n - 1], allow)]

LEMMA RoundsExist ==
    ASSUME NEW seeds, NEW allow, NEW K \in Nat
    PROVE  \E g : Grown(g, seeds, allow, K)
  <1> DEFINE T == {k \in Nat : ~ \E g : Grown(g, seeds, allow, k)}
  <1> SUFFICES ASSUME T # {} PROVE FALSE
    OBVIOUS
  <1>1. PICK k \in T : \A m \in T : k <= m
    BY LeastNat
  <1>2. k # 0
    <2> DEFINE g == [n \in 0 .. 0 |-> Seeded(seeds)]
    <2>1. Grown(g, seeds, allow, 0)
      BY DEF Grown
    <2> QED
      BY <1>1, <2>1
  <1>3. k - 1 \in Nat /\ k - 1 \notin T
    BY <1>1, <1>2
  <1>4. PICK g : Grown(g, seeds, allow, k - 1)
    BY <1>3
  <1> DEFINE h == [n \in 0 .. k |-> IF n < k THEN g[n] ELSE More(g[k - 1], allow)]
  <1>5. \A n \in 0 .. k - 1 : g[n] = IF n = 0 THEN Seeded(seeds) ELSE More(g[n - 1], allow)
    BY <1>4 DEF Grown
  <1>6. \A n \in 0 .. k - 1 : h[n] = g[n]
    BY <1>3
  <1>7. ASSUME NEW n \in 0 .. k
        PROVE  h[n] = IF n = 0 THEN Seeded(seeds) ELSE More(h[n - 1], allow)
    <2>1. CASE n < k
      <3>1. n \in 0 .. k - 1 /\ (n # 0 => n - 1 \in 0 .. k - 1)
        BY <1>3, <2>1
      <3> HIDE DEF h
      <3> QED
        BY <1>5, <1>6, <3>1
    <2>2. CASE n = k
      <3>1. h[k] = More(g[k - 1], allow) /\ k - 1 \in 0 .. k - 1
        BY <1>3
      <3> HIDE DEF h
      <3> QED
        BY <1>2, <1>6, <2>2, <3>1
    <2> QED
      BY <1>3, <2>1, <2>2
  <1>8. h = [n \in 0 .. k |-> IF n = 0 THEN Seeded(seeds) ELSE More(h[n - 1], allow)]
    BY <1>7
  <1> HIDE DEF h
  <1> QED
    BY <1>1, <1>8 DEF Grown

LEMMA RoundsAllowed ==
    ASSUME NEW seeds, NEW allow, seeds \subseteq allow, NEW K \in Nat,
           NEW g, Grown(g, seeds, allow, K)
    PROVE  g[K].vocab \subseteq allow
  <1> DEFINE T == {n \in Nat : n <= K /\ ~(g[n].vocab \subseteq allow)}
  <1> SUFFICES ASSUME T # {} PROVE FALSE
    OBVIOUS
  <1>1. PICK k \in T : \A m \in T : k <= m
    BY LeastNat
  <1>2. \A n \in 0 .. K : g[n] = IF n = 0 THEN Seeded(seeds) ELSE More(g[n - 1], allow)
    BY DEF Grown
  <1>3. k # 0
    <2>1. g[0] = Seeded(seeds)
      BY <1>2
    <2> QED
      BY <1>1, <2>1 DEF Seeded
  <1>4. k - 1 \in Nat /\ k - 1 <= K /\ k - 1 \notin T /\ k \in 0 .. K
    BY <1>1, <1>3
  <1>5. g[k - 1].vocab \subseteq allow
    BY <1>4
  <1>6. g[k] = More(g[k - 1], allow)
    BY <1>2, <1>3, <1>4
  <1>7. ASSUME NEW s, s.vocab \subseteq allow
        PROVE  More(s, allow).vocab \subseteq allow
    <2>1. \A b : Strongest(b, Successors(b, allow, FALSE)) \subseteq allow
      BY DEF Strongest, Successors
    <2> QED
      BY <1>7, <2>1 DEF More
  <1> QED
    BY <1>1, <1>5, <1>6, <1>7

LEMMA VocabularyOfPool ==
    ASSUME NEW pool
    PROVE  Allowed(pool) \subseteq pool
  <1> DEFINE seeds == {b \in pool : Way(b) # "None" \/ Catalogue[b].bridge}
  <1>1. RouteVocabulary(seeds, pool) = (CHOOSE g : Grown(g, seeds, pool, VocabRounds))[VocabRounds].vocab
    BY DEF RouteVocabulary, Grown, Seeded, More
  <1>2. VocabRounds \in Nat /\ seeds \subseteq pool
    BY WalkerAssumption
  <1> HIDE DEF seeds
  <1>3. PICK g : g = CHOOSE h : Grown(h, seeds, pool, VocabRounds)
    OBVIOUS
  <1>4. Grown(g, seeds, pool, VocabRounds)
    BY <1>2, <1>3, RoundsExist
  <1>5. g[VocabRounds].vocab \subseteq pool
    BY <1>2, <1>4, RoundsAllowed
  <1> QED
    BY <1>1, <1>3, <1>5 DEF Allowed, seeds

-----------------------------------------------------------------------------
(* The grammar walker.  What may follow the first i placements of a route. *)

Usables == {b \in DOMAIN Catalogue : Buildable(b)}
Nodes == [block : Usables, at : GroundCells, rot : 0 .. 3, first : BOOLEAN, gap : BOOLEAN,
          incoming : Lattice \cup {<< >>}, foot : SUBSET Lattice]
Steps == [node : Nodes, rest : SUBSET Nodes]
Stands(c) == c.foot = Footprint(c.block, c.at, c.rot) /\ IsFiniteSet(c.foot)

Seen(b) == {MovesOf(b)[i] : i \in DOMAIN MovesOf(b)}
           \cup (IF b \in DOMAIN Jumps THEN Jumps[b] ELSE {})
Ways(i) == IF i >= request.length THEN {"Finish"} ELSE {"None", "Checkpoint"}
Over(r, k, i) == {j \in 1 .. i : k \in ColumnsOf(r[j].node.foot)}
Follows(r, i, c) ==
    /\ Stands(c) /\ Way(c.block) \in Ways(i)
    /\ \E m \in Seen(r[i].node.block) : m.maps >= MinMaps /\ c = Landing(r[i].node, m)
    /\ \A j \in 1 .. i : c.foot \cap r[j].node.foot = {}
    /\ \A k \in ColumnsOf(c.foot) : Cardinality(Over(r, k, i)) < MaxLevels

LEMMA SeenMoves ==
    ASSUME NEW b, NEW m \in Seen(b)
    PROVE  IsMove(m)
  BY WalkerAssumption DEF Seen, MovesOf

\* A footprint is the variant's cells, laid.
LEMMA VariantChosen ==
    ASSUME NEW b \in Usables, NEW y
    PROVE  Anchored(VariantOf(b, y)) /\ VariantOf(b, y).units # {}
  BY GridAssumption DEF Usables, Buildable, VariantOf

LEMMA FootprintLaid ==
    ASSUME NEW b \in Usables, NEW at \in Lattice, NEW d \in 0 .. 3
    PROVE  /\ Footprint(b, at, d) \subseteq Lattice /\ IsFiniteSet(Footprint(b, at, d))
           /\ InBounds(Footprint(b, at, d)) => at \in GroundCells
  <1> DEFINE v == VariantOf(b, at[2])
  <1>1. Footprint(b, at, d) = Laid(v, at, d)
    BY DEF Footprint, Laid
  <1>2. Anchored(v) /\ v.units # {}
    BY VariantChosen
  <1> HIDE DEF v
  <1> QED
    BY <1>1, <1>2, LaidCells, LaidFrom

LEMMA Landed ==
    ASSUME NEW n \in Nodes, NEW m, IsMove(m), m.block \in Usables,
           InBounds(Landing(n, m).foot)
    PROVE  Landing(n, m) \in Nodes /\ Stands(Landing(n, m)) /\ Landing(n, m).block = m.block
  <1>1. PICK at : at = Plus(n.at, RotateVector(m.off, n.rot))
    OBVIOUS
  <1>2. PICK d : d = (n.rot + m.rel) % 4
    OBVIOUS
  <1>3. n.at \in Lattice /\ n.rot \in 0 .. 3 /\ m.off \in Lattice /\ m.rel \in 0 .. 3 /\ m.clip \in BOOLEAN
    BY OriginOnGround DEF Nodes, IsMove
  <1>4. at \in Lattice /\ d \in 0 .. 3
    <2>1. at \in Lattice
      BY <1>1, <1>3, VectorTurns, VectorSums
    <2>2. d \in 0 .. 3
      BY <1>2, <1>3
    <2> QED
      BY <2>1, <2>2
  <1>5. ReverseOffset(m) \in Lattice
    <2>1. <<-m.off[1], -m.off[2], -m.off[3]>> \in Lattice
      BY <1>3, CellParts
    <2>2. 4 - m.rel \in Int
      BY <1>3
    <2> QED
      BY <2>1, <2>2, VectorTurns DEF ReverseOffset
  <1>6. IsGap(m) \in BOOLEAN /\ (m.clip \/ IsGap(m)) \in BOOLEAN
    BY DEF IsGap
  <1>7. PICK f : f = Footprint(m.block, at, d)
    OBVIOUS
  <1>8. Landing(n, m) = [block |-> m.block, at |-> at, rot |-> d, first |-> m.clip \/ IsGap(m),
                         gap |-> IsGap(m), incoming |-> ReverseOffset(m), foot |-> f]
    BY <1>1, <1>2, <1>7 DEF Landing, Apply
  <1>9. Landing(n, m).foot = f
    BY <1>8
  <1>10. f \subseteq Lattice /\ IsFiniteSet(f) /\ at \in GroundCells
    BY <1>4, <1>7, <1>9, FootprintLaid
  <1>11. PICK g : g = IsGap(m)
    OBVIOUS
  <1>12. PICK e : e = (m.clip \/ IsGap(m))
    OBVIOUS
  <1>13. PICK i : i = ReverseOffset(m)
    OBVIOUS
  <1>14. Landing(n, m) = [block |-> m.block, at |-> at, rot |-> d, first |-> e,
                          gap |-> g, incoming |-> i, foot |-> f]
    BY <1>8, <1>11, <1>12, <1>13
  <1>15. g \in BOOLEAN /\ e \in BOOLEAN /\ i \in Lattice
    BY <1>5, <1>6, <1>11, <1>12, <1>13
  <1>16. Landing(n, m) \in Nodes
    BY <1>4, <1>10, <1>14, <1>15 DEF Nodes
  <1>17. Stands(Landing(n, m)) /\ Landing(n, m).block = m.block
    BY <1>7, <1>10, <1>14 DEF Stands
  <1> QED
    BY <1>16, <1>17

\* What is tried is attested.
LEMMA CandidatesSeen ==
    ASSUME NEW n, NEW i, NEW m \in Candidates(n, i), request.length \in Int, i \in Int
    PROVE  /\ m \in Seen(n.block) /\ m.maps >= MinMaps /\ m.block \in request.allow
           /\ Way(m.block) \in Ways(i)
  <1>1. ASSUME NEW want, NEW c \in CandidateMoves(n, want)
        PROVE  c \in Seen(n.block) /\ c.maps >= MinMaps /\ c.block \in request.allow /\ Way(c.block) = want
    BY DEF CandidateMoves, Seen, Successors
  <1>2. i >= request.length => Want(i) = "Finish"
    BY DEF Want
  <1>3. ~(i >= request.length) => Want(i) \in {"None", "Checkpoint"}
    BY DEF Want
  <1>4. m \in CandidateMoves(n, Want(i)) \/ (Want(i) = "Checkpoint" /\ m \in CandidateMoves(n, "None"))
    BY DEF Candidates
  <1> QED
    BY <1>1, <1>2, <1>3, <1>4 DEF Ways

RouteInv(r) ==
    /\ r \in Seq(Steps)
    /\ \A i \in 1 .. Len(r) : \A c \in r[i].rest : Follows(r, i, c)
    /\ \A i \in 1 .. Len(r) - 1 : Follows(r, i, r[i + 1].node)
    /\ \A i \in 1 .. Len(r) : \A k \in Columns : Cardinality(Over(r, k, i)) <= MaxLevels
    /\ Len(r) > 0 => Way(r[1].node.block) = "Start" /\ Stands(r[1].node)

LEMMA OverFinite ==
    ASSUME NEW r, NEW k, NEW i \in Nat
    PROVE  IsFiniteSet(Over(r, k, i)) /\ Cardinality(Over(r, k, i)) \in Nat
  <1>1. IsFiniteSet(1 .. i) /\ Over(r, k, i) \in SUBSET (1 .. i)
    BY FS_Interval DEF Over
  <1>2. IsFiniteSet(Over(r, k, i))
    BY <1>1, FS_Subset
  <1> QED
    BY <1>2, FS_CardinalityType

LEMMA SamePrefix ==
    ASSUME NEW r, NEW q, NEW i \in Nat, i > 0, \A j \in 1 .. i : r[j].node = q[j].node
    PROVE  /\ \A k : Over(r, k, i) = Over(q, k, i)
           /\ \A c : Follows(r, i, c) => Follows(q, i, c)
  <1>1. \A k : Over(r, k, i) = Over(q, k, i)
    BY DEF Over
  <1>2. i \in 1 .. i
    OBVIOUS
  <1>3. ASSUME NEW c, Follows(r, i, c) PROVE Follows(q, i, c)
    <2>1. Stands(c) /\ Way(c.block) \in Ways(i)
      BY <1>3 DEF Follows
    <2>2. \E m \in Seen(q[i].node.block) : m.maps >= MinMaps /\ c = Landing(q[i].node, m)
      BY <1>2, <1>3 DEF Follows
    <2>3. \A j \in 1 .. i : c.foot \cap q[j].node.foot = {}
      BY <1>3 DEF Follows
    <2>4. \A k \in ColumnsOf(c.foot) : Cardinality(Over(q, k, i)) < MaxLevels
      BY <1>1, <1>3 DEF Follows
    <2> QED
      BY <2>1, <2>2, <2>3, <2>4 DEF Follows
  <1> QED
    BY <1>1, <1>3

LEMMA ColumnsInBounds ==
    ASSUME NEW f, f \subseteq Lattice, InBounds(f)
    PROVE  ColumnsOf(f) \subseteq Columns
  <1>1. ASSUME NEW c \in f PROVE <<c[1], c[3]>> \in Columns
    BY DEF InBounds, Columns
  <1> QED
    BY <1>1 DEF ColumnsOf

LEMMA ScoredFollows ==
    ASSUME NEW r, NEW i \in Nat, i > 0, r[i].node \in Nodes, NEW used, NEW cols,
           request.allow \subseteq DOMAIN Catalogue, request.length \in Int,
           \A j \in 1 .. i : r[j].node.foot \subseteq used,
           \A k \in Columns : cols[k] \in Int /\ Cardinality(Over(r, k, i)) <= cols[k],
           NEW c \in Scored(r[i].node, i, used, cols)
    PROVE  c \in Nodes /\ Follows(r, i, c)
  <1>1. PICK n : n = r[i].node
    OBVIOUS
  <1>2. PICK m \in Candidates(n, i) : Buildable(m.block) /\ c = Landing(n, m)
    BY <1>1 DEF Scored
  <1>3. /\ InBounds(c.foot) /\ c.foot \cap used = {}
        /\ \A k \in ColumnsOf(c.foot) : cols[k] < MaxLevels
    BY <1>1 DEF Scored, Free
  <1>4. /\ m \in Seen(n.block) /\ m.maps >= MinMaps /\ m.block \in Usables
        /\ Way(m.block) \in Ways(i)
    BY <1>2, CandidatesSeen DEF Usables
  <1>5. IsMove(m)
    BY <1>4, SeenMoves
  <1>6. c \in Nodes /\ Stands(c) /\ c.block = m.block
    BY <1>1, <1>2, <1>3, <1>4, <1>5, Landed
  <1>7. \A j \in 1 .. i : c.foot \cap r[j].node.foot = {}
    BY <1>3
  <1>8. ASSUME NEW k \in ColumnsOf(c.foot)
        PROVE  Cardinality(Over(r, k, i)) < MaxLevels
    <2>1. k \in Columns
      BY <1>3, <1>6, ColumnsInBounds DEF Nodes
    <2>2. /\ cols[k] \in Int /\ Cardinality(Over(r, k, i)) <= cols[k] /\ cols[k] < MaxLevels
          /\ Cardinality(Over(r, k, i)) \in Nat /\ MaxLevels \in Nat
      BY <1>3, <2>1, OverFinite, WalkerAssumption
    <2> QED
      BY <2>2
  <1> QED
    BY <1>1, <1>2, <1>4, <1>6, <1>7, <1>8 DEF Follows

\* One placement more.
LEMMA RouteOnTop ==
    ASSUME NEW r, RouteInv(r), NEW n \in Nat, n = Len(r), n > 0,
           NEW q \in Seq(Steps), Len(q) = n + 1,
           \A i \in 1 .. n : q[i].node = r[i].node /\ q[i].rest \subseteq r[i].rest,
           Follows(r, n, q[n + 1].node),
           \A c \in q[n + 1].rest : Follows(q, n + 1, c)
    PROVE  RouteInv(q)
  <1>1. \A i \in 1 .. n : \A j \in 1 .. i : r[j].node = q[j].node
    OBVIOUS
  <1>2. \A i \in 1 .. n : i \in Nat /\ i > 0
    OBVIOUS
  <1>3. ASSUME NEW i \in 1 .. n
        PROVE  /\ \A k : Over(q, k, i) = Over(r, k, i)
               /\ \A c : Follows(r, i, c) => Follows(q, i, c)
    <2>1. \A j \in 1 .. i : r[j].node = q[j].node
      BY <1>1
    <2> QED
      BY <1>2, <2>1, SamePrefix
  <1>4. ASSUME NEW i \in 1 .. n + 1, NEW c \in q[i].rest
        PROVE  Follows(q, i, c)
    <2>1. CASE i \in 1 .. n
      BY <1>3, <1>4, <2>1 DEF RouteInv
    <2>2. CASE i = n + 1
      BY <1>4, <2>2
    <2> QED
      BY <2>1, <2>2
  <1>5. ASSUME NEW i \in 1 .. n
        PROVE  Follows(q, i, q[i + 1].node)
    <2>1. CASE i \in 1 .. n - 1
      <3>1. Follows(r, i, r[i + 1].node) /\ i + 1 \in 1 .. n
        BY <2>1 DEF RouteInv
      <3> QED
        BY <1>3, <3>1
    <2>2. CASE i = n
      BY <1>3, <2>2
    <2> QED
      BY <2>1, <2>2
  <1>6. ASSUME NEW i \in 1 .. n + 1, NEW k \in Columns
        PROVE  Cardinality(Over(q, k, i)) <= MaxLevels
    <2>1. CASE i \in 1 .. n
      BY <1>3, <2>1 DEF RouteInv
    <2>2. CASE i = n + 1 /\ k \notin ColumnsOf(q[n + 1].node.foot)
      <3>1. Over(q, k, n + 1) = Over(q, k, n)
        BY <2>2 DEF Over
      <3>2. Cardinality(Over(r, k, n)) <= MaxLevels /\ n \in 1 .. n
        BY DEF RouteInv
      <3> QED
        BY <1>3, <2>2, <3>1, <3>2
    <2>3. CASE i = n + 1 /\ k \in ColumnsOf(q[n + 1].node.foot)
      <3>1. Over(q, k, n + 1) = Over(q, k, n) \cup {n + 1} /\ n + 1 \notin Over(q, k, n)
        BY <2>3 DEF Over
      <3>2. IsFiniteSet(Over(q, k, n)) /\ Cardinality(Over(q, k, n)) \in Nat
        BY OverFinite
      <3>3. Cardinality(Over(q, k, n + 1)) = Cardinality(Over(q, k, n)) + 1
        BY <3>1, <3>2, FS_AddElement
      <3>4. Cardinality(Over(q, k, n)) < MaxLevels
        <4>1. n \in 1 .. n
          OBVIOUS
        <4> QED
          BY <1>3, <2>3, <4>1 DEF Follows
      <3> QED
        BY <2>3, <3>2, <3>3, <3>4, WalkerAssumption
    <2> QED
      BY <2>1, <2>2, <2>3
  <1>7. Way(q[1].node.block) = "Start" /\ Stands(q[1].node)
    BY <1>2 DEF RouteInv
  <1> QED
    BY <1>4, <1>5, <1>6, <1>7 DEF RouteInv

\* The last placement taken away.
LEMMA RouteBelow ==
    ASSUME NEW r, RouteInv(r), NEW n \in Nat, n = Len(r), n > 1
    PROVE  RouteInv(SubSeq(r, 1, n - 1))
  <1>1. PICK q : q = SubSeq(r, 1, n - 1)
    OBVIOUS
  <1>2. q \in Seq(Steps) /\ Len(q) = n - 1 /\ \A i \in 1 .. n - 1 : q[i] = r[i]
    BY <1>1 DEF RouteInv
  <1>3. ASSUME NEW i \in 1 .. n - 1
        PROVE  /\ \A k : Over(q, k, i) = Over(r, k, i)
               /\ \A c : Follows(r, i, c) => Follows(q, i, c)
    <2>1. i \in Nat /\ i > 0 /\ \A j \in 1 .. i : r[j].node = q[j].node
      BY <1>2
    <2> QED
      BY <2>1, SamePrefix
  <1>4. \A i \in 1 .. n - 1 : \A c \in q[i].rest : Follows(q, i, c)
    BY <1>2, <1>3 DEF RouteInv
  <1>5. ASSUME NEW i \in 1 .. n - 2 PROVE Follows(q, i, q[i + 1].node)
    <2>1. Follows(r, i, r[i + 1].node) /\ i + 1 \in 1 .. n - 1 /\ i \in 1 .. n - 1
      BY DEF RouteInv
    <2> QED
      BY <1>2, <1>3, <2>1
  <1>6. \A i \in 1 .. n - 1 : \A k \in Columns : Cardinality(Over(q, k, i)) <= MaxLevels
    BY <1>3 DEF RouteInv
  <1>7. Way(q[1].node.block) = "Start" /\ Stands(q[1].node)
    BY <1>2 DEF RouteInv
  <1>8. (n - 1) - 1 = n - 2 /\ Len(q) = n - 1
    BY <1>2
  <1> QED
    BY <1>1, <1>2, <1>4, <1>5, <1>6, <1>7, <1>8 DEF RouteInv

LEMMA OverNext ==
    ASSUME NEW r, NEW k, NEW n \in Nat
    PROVE  Cardinality(Over(r, k, n + 1))
             = Cardinality(Over(r, k, n)) + (IF k \in ColumnsOf(r[n + 1].node.foot) THEN 1 ELSE 0)
  <1>1. IsFiniteSet(Over(r, k, n)) /\ Cardinality(Over(r, k, n)) \in Nat
    BY OverFinite
  <1>2. CASE k \notin ColumnsOf(r[n + 1].node.foot)
    <2>1. Over(r, k, n + 1) = Over(r, k, n)
      BY <1>2 DEF Over
    <2> QED
      BY <1>1, <1>2, <2>1
  <1>3. CASE k \in ColumnsOf(r[n + 1].node.foot)
    <2>1. Over(r, k, n + 1) = Over(r, k, n) \cup {n + 1} /\ n + 1 \notin Over(r, k, n)
      BY <1>3 DEF Over
    <2>2. Cardinality(Over(r, k, n + 1)) = Cardinality(Over(r, k, n)) + 1
      BY <1>1, <2>1, FS_AddElement
    <2> QED
      BY <1>3, <2>2
  <1> QED
    BY <1>2, <1>3

-----------------------------------------------------------------------------
(* Its inductive invariant: the route's, its ground, and how far it is.    *)

Taken == IF Closed THEN inUse \cup Top.node.foot ELSE inUse
FeetOf(r) == [i \in DOMAIN r |-> r[i].node.foot]

Asked ==
    /\ request.allow \subseteq DOMAIN Catalogue /\ request.pool \subseteq DOMAIN Catalogue
    /\ request.length \in Int
Progress ==
    /\ walkState \in {"idle", "refused", "between", "walking", "closed", "dead"}
    /\ walkState \notin {"walking", "closed"} => route = << >> /\ inUse = {}
    /\ walkState = "walking" =>
         /\ Len(route) > 0
         /\ \A i \in 1 .. Len(route) - 1 : i < request.length
         /\ \A k \in Columns : /\ columns[k] \in Int
                               /\ Cardinality(Over(route, k, Len(route))) <= columns[k]
    /\ walkState = "closed" =>
         /\ Len(route) > 1 /\ Len(route) - 1 >= request.length
         /\ \A i \in 1 .. Len(route) - 2 : i < request.length
         /\ AsRequested(route)
WalkerInv == Asked /\ RouteInv(route) /\ Progress /\ Kept(FeetOf(route), Taken)

Footed(S) == \A s \in S : s.node.foot \subseteq Lattice

LEMMA StepsFooted == Footed(Steps) /\ \A s \in Steps : s.node \in Nodes
  BY DEF Footed, Steps, Nodes

LEMMA FeetAre ==
    ASSUME NEW S, Footed(S), NEW r \in Seq(S)
    PROVE  /\ FeetOf(r) \in Seq(SUBSET Lattice) /\ Len(FeetOf(r)) = Len(r)
           /\ DOMAIN FeetOf(r) = 1 .. Len(r)
           /\ \A i \in 1 .. Len(r) : FeetOf(r)[i] = r[i].node.foot
  <1>1. DOMAIN r = 1 .. Len(r) /\ Len(r) \in Nat
    OBVIOUS
  <1>2. \A i \in 1 .. Len(r) : r[i] \in S
    BY <1>1
  <1>3. \A i \in 1 .. Len(r) : r[i].node.foot \subseteq Lattice
    BY <1>2 DEF Footed
  <1>4. FeetOf(r) \in [1 .. Len(r) -> SUBSET Lattice]
    BY <1>1, <1>3 DEF FeetOf
  <1>5. FeetOf(r) \in Seq(SUBSET Lattice) /\ Len(FeetOf(r)) = Len(r)
    BY <1>1, <1>4
  <1> QED
    BY <1>1, <1>3, <1>5 DEF FeetOf

LEMMA FeetAreFeet == Feet = FeetOf(route)
  BY DEF Feet, Blocks, FeetOf

LEMMA FeetOnTop ==
    ASSUME NEW S, Footed(S), NEW r \in Seq(S), NEW q \in Seq(S), NEW f,
           Len(q) = Len(r) + 1, q[Len(r) + 1].node.foot = f,
           \A i \in 1 .. Len(r) : q[i].node = r[i].node
    PROVE  FeetOf(q) = Append(FeetOf(r), f)
  <1>1. PICK n \in Nat : n = Len(r)
    OBVIOUS
  <1>2. PICK a : a = FeetOf(r)
    OBVIOUS
  <1>3. PICK b : b = FeetOf(q)
    OBVIOUS
  <1>4. a \in Seq(SUBSET Lattice) /\ Len(a) = n /\ \A i \in 1 .. n : a[i] = r[i].node.foot
    BY <1>1, <1>2, FeetAre
  <1>5. b \in Seq(SUBSET Lattice) /\ Len(b) = n + 1 /\ \A i \in 1 .. n + 1 : b[i] = q[i].node.foot
    BY <1>1, <1>3, FeetAre
  <1>6. f \in SUBSET Lattice
    <2>1. n + 1 \in 1 .. n + 1 /\ b[n + 1] \in SUBSET Lattice
      BY <1>5
    <2> QED
      BY <1>1, <1>5, <2>1
  <1>7. \A i \in 1 .. n : b[i] = a[i]
    BY <1>1, <1>4, <1>5
  <1>8. b[n + 1] = f
    BY <1>1, <1>5
  <1>9. PICK c : c = Append(a, f)
    OBVIOUS
  <1>10. c \in Seq(SUBSET Lattice) /\ Len(c) = n + 1 /\ c[n + 1] = f /\ \A i \in 1 .. n : c[i] = a[i]
    BY <1>4, <1>6, <1>9
  <1>11. b = c
    BY <1>5, <1>7, <1>8, <1>10
  <1> QED
    BY <1>2, <1>3, <1>9, <1>11

LEMMA FeetBelow ==
    ASSUME NEW S, Footed(S), NEW r \in Seq(S), Len(r) > 1
    PROVE  FeetOf(SubSeq(r, 1, Len(r) - 1)) = SubSeq(FeetOf(r), 1, Len(r) - 1)
  <1>1. PICK n \in Nat : n = Len(r)
    OBVIOUS
  <1>2. PICK q : q = SubSeq(r, 1, n - 1)
    OBVIOUS
  <1>3. PICK a : a = FeetOf(r)
    OBVIOUS
  <1>4. q \in Seq(S) /\ Len(q) = n - 1 /\ \A i \in 1 .. n - 1 : q[i] = r[i]
    BY <1>1, <1>2
  <1>5. a \in Seq(SUBSET Lattice) /\ Len(a) = n /\ \A i \in 1 .. n : a[i] = r[i].node.foot
    BY <1>1, <1>3, FeetAre
  <1>6. PICK b : b = FeetOf(q)
    OBVIOUS
  <1>7. b \in Seq(SUBSET Lattice) /\ Len(b) = n - 1 /\ \A i \in 1 .. n - 1 : b[i] = q[i].node.foot
    BY <1>4, <1>6, FeetAre
  <1>8. PICK c : c = SubSeq(a, 1, n - 1)
    OBVIOUS
  <1>9. c \in Seq(SUBSET Lattice) /\ Len(c) = n - 1 /\ \A i \in 1 .. n - 1 : c[i] = a[i]
    <2>1. PICK T : T = SUBSET Lattice
      OBVIOUS
    <2>2. a \in Seq(T) /\ n > 1
      BY <1>1, <1>5, <2>1
    <2>3. c \in Seq(T) /\ Len(c) = n - 1 /\ \A i \in 1 .. n - 1 : c[i] = a[i]
      BY <1>5, <1>8, <2>2
    <2> QED
      BY <2>1, <2>3
  <1>10. ASSUME NEW i \in 1 .. n - 1 PROVE b[i] = c[i]
    <2>1. i \in 1 .. n
      BY <1>1
    <2>2. b[i] = q[i].node.foot /\ q[i] = r[i]
      BY <1>4, <1>7
    <2>3. c[i] = a[i] /\ a[i] = r[i].node.foot
      BY <1>5, <1>9, <2>1
    <2> QED
      BY <2>2, <2>3
  <1>11. b = c
    <2>1. b = [i \in 1 .. n - 1 |-> b[i]]
      BY <1>7
    <2>2. c = [i \in 1 .. n - 1 |-> c[i]]
      BY <1>9
    <2> QED
      BY <1>10, <2>1, <2>2
  <1> QED
    BY <1>1, <1>2, <1>3, <1>6, <1>8, <1>11

\* A block that stands and came down in bounds is one of the stack's footprints.
LEMMA NodesStandable ==
    ASSUME NEW c \in Nodes, Stands(c)
    PROVE  c.foot \in Standable
  <1>1. c.block \in DOMAIN Catalogue /\ Buildable(c.block) /\ c.at \in GroundCells /\ c.rot \in 0 .. 3
    BY DEF Nodes, Usables
  <1> QED
    BY <1>1 DEF Stands, Standable

LEMMA SameRequest ==
    ASSUME UNCHANGED request, NEW q, RouteInv(q), route' = q
    PROVE  RouteInv(route)'
  <1>1. \A i : Ways(i)' = Ways(i)
    BY DEF Ways
  <1>2. \A i, c : Follows(q, i, c) => Follows(route, i, c)'
    BY <1>1 DEF Follows, Over
  <1> QED
    BY <1>2 DEF RouteInv, Over

-----------------------------------------------------------------------------
(* Its steps, each with the step of WalkStack it is. *)

Stacked == Stack!StackNext \/ UNCHANGED <<Feet, Taken>>

LEMMA StackMoves ==
    /\ \A f \in Standable : Feet = << >> /\ Feet' = <<f>> /\ Taken' = f => Stacked
    /\ \A f \in Standable : Feet # << >> /\ f \cap Taken = {} /\ Feet' = Append(Feet, f)
                              /\ Taken' = Taken \cup f => Stacked
    /\ Feet' = << >> /\ Taken' = {} => Stacked
    /\ Len(Feet) > 1 /\ Feet' = SubSeq(Feet, 1, Len(Feet) - 1) /\ Taken' = Taken \ Feet[Len(Feet)]
         => Stacked
  <1>1. ASSUME NEW f \in Standable, Feet = << >>, Feet' = <<f>>, Taken' = f PROVE Stacked
    <2>1. Stack!Start(f)
      BY <1>1 DEF Stack!Start, Taken
    <2> QED
      BY <2>1 DEF Stacked, Stack!StackNext
  <1>2. ASSUME NEW f \in Standable, Feet # << >>, f \cap Taken = {}, Feet' = Append(Feet, f),
               Taken' = Taken \cup f
        PROVE Stacked
    <2>1. Stack!Place(f)
      BY <1>2 DEF Stack!Place, Taken
    <2> QED
      BY <2>1 DEF Stacked, Stack!StackNext
  <1>3. ASSUME Feet' = << >>, Taken' = {} PROVE Stacked
    <2>1. Stack!Drop
      BY <1>3 DEF Stack!Drop, Taken
    <2> QED
      BY <2>1 DEF Stacked, Stack!StackNext
  <1>4. ASSUME Len(Feet) > 1, Feet' = SubSeq(Feet, 1, Len(Feet) - 1),
               Taken' = Taken \ Feet[Len(Feet)]
        PROVE Stacked
    <2>1. Stack!Undo
      BY <1>4 DEF Stack!Undo, Taken
    <2> QED
      BY <2>1 DEF Stacked, Stack!StackNext
  <1> QED
    BY <1>1, <1>2, <1>3, <1>4

\* The attempt is given up.
LEMMA Failing ==
    ASSUME WalkerInv, Fail, UNCHANGED request
    PROVE  WalkerInv' /\ Stacked
  <1>1. route' = << >> /\ inUse' = {} /\ walkState' \in {"between", "dead"}
    BY DEF Fail
  <1>2. RouteInv(route)'
    BY <1>1 DEF RouteInv
  <1>3. FeetOf(route') = << >> /\ Taken' = {} /\ Feet' = << >>
    BY <1>1 DEF FeetOf, Taken, Closed, Feet, Blocks
  <1>4. Kept(FeetOf(route), Taken)'
    BY <1>3, KeptNone
  <1>5. Progress'
    BY <1>1 DEF Progress
  <1>6. Asked'
    BY DEF WalkerInv, Asked
  <1>7. Stacked
    BY <1>3, StackMoves
  <1> QED
    BY <1>2, <1>4, <1>5, <1>6, <1>7 DEF WalkerInv

LEMMA Beginning ==
    ASSUME WalkerInv, BeginWalk
    PROVE  WalkerInv' /\ Stacked
  <1>1. UNCHANGED <<route, inUse, columns>> /\ walkState = "idle" /\ walkState' \in {"refused", "between"}
    BY DEF BeginWalk
  <1>2. route = << >> /\ inUse = {}
    BY <1>1 DEF WalkerInv, Progress
  <1>3. PICK r \in WalkRequests :
          request' = [pool |-> r.pool, jumps |-> r.jumps, model |-> r.model, length |-> r.length,
                      every |-> r.every, require |-> r.require, allow |-> Allowed(r.pool)]
    BY DEF BeginWalk
  <1>4. request'.pool = r.pool /\ request'.length = r.length /\ request'.allow = Allowed(r.pool)
    BY <1>3
  <1>5. Asked'
    BY <1>4, VocabularyOfPool, WalkerAssumption DEF Asked
  <1>6. RouteInv(route)'
    BY <1>1, <1>2 DEF RouteInv
  <1>7. Progress'
    BY <1>1, <1>2 DEF Progress
  <1>8. FeetOf(route') = << >> /\ Taken' = {} /\ Feet' = << >>
    BY <1>1, <1>2 DEF FeetOf, Taken, Closed, Feet, Blocks
  <1>9. Kept(FeetOf(route), Taken)'
    BY <1>8, KeptNone
  <1>10. Stacked
    BY <1>8, StackMoves
  <1> QED
    BY <1>5, <1>6, <1>7, <1>9, <1>10 DEF WalkerInv

LEMMA StartColumns ==
    ASSUME NEW foot, IsFiniteSet(foot), NEW k
    PROVE  /\ Cardinality({c \in foot : <<c[1], c[3]>> = k}) \in Nat
           /\ k \in ColumnsOf(foot) => Cardinality({c \in foot : <<c[1], c[3]>> = k}) >= 1
  <1> DEFINE S == {c \in foot : <<c[1], c[3]>> = k}
  <1>1. S \in SUBSET foot
    OBVIOUS
  <1>2. IsFiniteSet(S)
    BY <1>1, FS_Subset
  <1>3. Cardinality(S) \in Nat /\ (Cardinality(S) = 0 <=> S = {})
    BY <1>2, FS_CardinalityType, FS_EmptySet
  <1>4. k \in ColumnsOf(foot) => S # {}
    BY DEF ColumnsOf
  <1> HIDE DEF S
  <1>5. k \in ColumnsOf(foot) => Cardinality(S) >= 1
    BY <1>3, <1>4
  <1> QED
    BY <1>3, <1>5 DEF S

LEMMA OverFirst ==
    ASSUME NEW r, NEW k
    PROVE  Cardinality(Over(r, k, 1)) = IF k \in ColumnsOf(r[1].node.foot) THEN 1 ELSE 0
  <1>1. Over(r, k, 0) = {}
    BY DEF Over
  <1>2. Cardinality(Over(r, k, 0 + 1))
          = Cardinality(Over(r, k, 0)) + (IF k \in ColumnsOf(r[0 + 1].node.foot) THEN 1 ELSE 0)
    BY OverNext
  <1>3. Cardinality(Over(r, k, 0)) = 0 /\ 0 + 1 = 1
    BY <1>1, FS_EmptySet
  <1> QED
    BY <1>2, <1>3

LEMMA Starting ==
    ASSUME WalkerInv, BeginAttempt
    PROVE  WalkerInv' /\ Stacked
  <1>1. PICK b \in Starts(request.pool), rot \in 0 .. 3 :
          LET foot == Footprint(b, Origin, rot)
              cols == [k \in Columns |-> Cardinality({c \in foot : <<c[1], c[3]>> = k})]
              node == [block |-> b, at |-> Origin, rot |-> rot, first |-> TRUE,
                       gap |-> FALSE, incoming |-> << >>, foot |-> foot]
          IN  /\ route' = <<[node |-> node, rest |-> Scored(node, 1, foot, cols)]>>
              /\ inUse' = foot /\ columns' = cols /\ walkState' = "walking"
    BY DEF BeginAttempt
  <1>2. PICK foot : foot = Footprint(b, Origin, rot)
    OBVIOUS
  <1>3. PICK cols : cols = [k \in Columns |-> Cardinality({c \in foot : <<c[1], c[3]>> = k})]
    OBVIOUS
  <1>4. PICK node : node = [block |-> b, at |-> Origin, rot |-> rot, first |-> TRUE,
                            gap |-> FALSE, incoming |-> << >>, foot |-> foot]
    OBVIOUS
  <1>5. PICK rest : rest = Scored(node, 1, foot, cols)
    OBVIOUS
  <1>6. /\ route' = <<[node |-> node, rest |-> rest]>>
        /\ inUse' = foot /\ columns' = cols /\ walkState' = "walking"
    BY <1>1, <1>2, <1>3, <1>4, <1>5
  <1>7. UNCHANGED request /\ walkState = "between" /\ Asked /\ route = << >>
    BY DEF BeginAttempt, WalkerInv, Progress
  <1>8. b \in Usables /\ Way(b) = "Start"
    BY <1>7 DEF Starts, Way, Usables, Asked
  <1>9. foot \subseteq Lattice /\ IsFiniteSet(foot) /\ Origin \in GroundCells
    BY <1>2, <1>8, OriginOnGround, FootprintLaid
  <1>10. node \in Nodes /\ node.foot = foot /\ node.block = b /\ Stands(node)
    <2>1. node \in Nodes /\ node.foot = foot /\ node.block = b /\ node.at = Origin /\ node.rot = rot
      BY <1>4, <1>8, <1>9 DEF Nodes
    <2> QED
      BY <1>2, <1>9, <2>1 DEF Stands
  <1>11. PICK p : p = <<[node |-> node, rest |-> {}]>>
    OBVIOUS
  <1>12. p[1].node = node
    BY <1>11
  <1>13. ASSUME NEW k \in Columns
         PROVE  cols[k] \in Int /\ Cardinality(Over(p, k, 1)) <= cols[k]
    <2>1. cols[k] \in Nat /\ (k \in ColumnsOf(foot) => cols[k] >= 1)
      BY <1>3, <1>9, StartColumns
    <2>2. Cardinality(Over(p, k, 1)) = IF k \in ColumnsOf(foot) THEN 1 ELSE 0
      BY <1>10, <1>12, OverFirst
    <2> QED
      BY <2>1, <2>2
  <1>14. \A c \in rest : c \in Nodes /\ Follows(p, 1, c)
    <2>1. \A j \in 1 .. 1 : p[j].node.foot \subseteq foot
      BY <1>10, <1>12
    <2>2. request.allow \subseteq DOMAIN Catalogue /\ request.length \in Int
      BY <1>7 DEF Asked
    <2>3. 1 \in Nat /\ 1 > 0 /\ p[1].node \in Nodes
      BY <1>10, <1>12
    <2>4. ASSUME NEW c \in rest PROVE c \in Nodes /\ Follows(p, 1, c)
      <3>1. c \in Scored(p[1].node, 1, foot, cols)
        BY <1>5, <1>12
      <3> QED
        BY <1>13, <2>1, <2>2, <2>3, <3>1, ScoredFollows
    <2> QED
      BY <2>4
  <1>15. PICK q : q = <<[node |-> node, rest |-> rest]>>
    OBVIOUS
  <1>16. /\ q \in Seq(Steps) /\ Len(q) = 1 /\ q[1].node = node /\ q[1].rest = rest /\ DOMAIN q = {1}
    <2>1. rest \in SUBSET Nodes
      BY <1>14
    <2>2. [node |-> node, rest |-> rest] \in Steps
      BY <1>10, <2>1 DEF Steps
    <2> QED
      BY <1>15, <2>2
  <1>17. \A k : Over(q, k, 1) = Over(p, k, 1)
    BY <1>12, <1>16 DEF Over
  <1>18. \A c \in rest : Follows(q, 1, c)
    <2>1. \A j \in 1 .. 1 : p[j].node = q[j].node
      BY <1>12, <1>16
    <2> QED
      BY <1>14, <2>1, SamePrefix
  <1>19. RouteInv(q)
    <2>1. \A k \in Columns : Cardinality(Over(q, k, 1)) <= MaxLevels
      <3> SUFFICES ASSUME NEW k \in Columns PROVE Cardinality(Over(q, k, 1)) <= MaxLevels
        OBVIOUS
      <3>1. Cardinality(Over(q, k, 1)) \in {0, 1}
        BY OverFirst
      <3> QED
        BY <3>1, WalkerAssumption
    <2>2. \A i \in 1 .. 1 : i = 1
      OBVIOUS
    <2>3. 1 .. Len(q) - 1 = {}
      BY <1>16
    <2> QED
      BY <1>8, <1>10, <1>16, <1>18, <2>1, <2>2, <2>3 DEF RouteInv
  <1>20. RouteInv(route)'
    BY <1>6, <1>7, <1>15, <1>19 DEF RouteInv, Follows, Ways
  <1>21. FeetOf(q) = <<foot>>
    <2>1. FeetOf(q) \in Seq(SUBSET Lattice) /\ Len(FeetOf(q)) = 1 /\ FeetOf(q)[1] = foot
      BY <1>10, <1>16, StepsFooted, FeetAre
    <2> QED
      BY <2>1
  <1>22. FeetOf(route)' = <<foot>> /\ Feet' = <<foot>> /\ Taken' = foot /\ Feet = << >>
    <2>1. Taken' = foot
      BY <1>6 DEF Taken, Closed
    <2>2. route' = q /\ FeetOf(q) = <<foot>>
      BY <1>6, <1>15, <1>21
    <2>3. FeetOf(route)' = <<foot>>
      BY <2>2 DEF FeetOf
    <2>4. Feet' = FeetOf(route)'
      BY DEF Feet, Blocks, FeetOf
    <2>5. Feet = << >>
      BY <1>7 DEF Feet, Blocks
    <2> QED
      BY <2>1, <2>3, <2>4, <2>5
  <1>23. Kept(FeetOf(route), Taken)'
    BY <1>22, KeptAlone DEF Kept
  <1>24. Progress'
    <2>1. route' = q /\ walkState' = "walking" /\ columns' = cols
      BY <1>6, <1>15
    <2>2. \A k \in Columns : cols[k] \in Int /\ Cardinality(Over(q, k, 1)) <= cols[k]
      BY <1>13, <1>17
    <2>3. 1 .. Len(q) - 1 = {}
      BY <1>16
    <2>4. ASSUME NEW k PROVE Over(route, k, Len(route))' = Over(q, k, 1)
      <3>1. Over(route, k, Len(route))' = Over(q, k, Len(q))
        BY <2>1 DEF Over
      <3>2. Len(q) = 1
        BY <1>16
      <3> QED
        BY <3>1, <3>2, Zenon
    <2>5. Len(route') > 0 /\ \A i \in 1 .. Len(route') - 1 : i < request'.length
      <3>1. Len(route') = 1
        BY <1>16, <2>1
      <3>2. \A i \in 1 .. 1 - 1 : FALSE
        OBVIOUS
      <3> QED
        BY <3>1, <3>2
    <2>6. \A k \in Columns : columns'[k] \in Int /\ Cardinality(Over(route, k, Len(route))') <= columns'[k]
      BY <2>1, <2>2, <2>4
    <2> QED
      BY <2>1, <2>5, <2>6 DEF Progress
  <1>25. Asked'
    BY <1>7 DEF Asked
  <1>26. foot \in Standable
    BY <1>10, NodesStandable
  <1>27. Stacked
    BY <1>22, <1>26, StackMoves
  <1> QED
    BY <1>20, <1>23, <1>24, <1>25, <1>27 DEF WalkerInv

\* The moves that may be tried, and the route with one less to try.
LEMMA Trying ==
    ASSUME WalkerInv, walkState = "walking", NEW c \in Tried
    PROVE  /\ c \in Nodes /\ Follows(route, Len(route), c)
           /\ LessTried(c) \in Seq(Steps) /\ Len(LessTried(c)) = Len(route)
           /\ Len(route) \in Nat /\ Len(route) > 0
           /\ \A i \in 1 .. Len(route) : /\ LessTried(c)[i].node = route[i].node
                                         /\ LessTried(c)[i].rest \subseteq route[i].rest
  <1>1. PICK n \in Nat : n = Len(route)
    BY DEF WalkerInv, RouteInv
  <1>2. n > 0 /\ route \in Seq(Steps) /\ n \in 1 .. n
    BY <1>1 DEF WalkerInv, RouteInv, Progress
  <1>3. Top = route[n]
    BY <1>1 DEF Top, Last
  <1>4. \A i \in 1 .. n : route[i] \in Steps
    BY <1>1, <1>2
  <1>5. c \in route[n].rest
    BY <1>3 DEF Tried
  <1>6. c \in Nodes
    BY <1>2, <1>4, <1>5 DEF Steps
  <1>7. Follows(route, n, c)
    BY <1>1, <1>2, <1>5 DEF WalkerInv, RouteInv
  <1>8. PICK t : t = route[n]
    OBVIOUS
  <1>9. t \in Steps
    BY <1>2, <1>4, <1>8
  <1>10. PICK u : u = [t EXCEPT !.rest = @ \ {c}]
    OBVIOUS
  <1>11. u \in Steps /\ u.node = t.node /\ u.rest \subseteq t.rest
    BY <1>9, <1>10 DEF Steps
  <1>12. LessTried(c) = [route EXCEPT ![n] = u]
    BY <1>1, <1>8, <1>10 DEF LessTried
  <1>13. LessTried(c) \in Seq(Steps) /\ Len(LessTried(c)) = n
    BY <1>1, <1>2, <1>11, <1>12
  <1>14. ASSUME NEW i \in 1 .. n
         PROVE  LessTried(c)[i].node = route[i].node /\ LessTried(c)[i].rest \subseteq route[i].rest
    <2>1. CASE i = n
      BY <1>1, <1>2, <1>8, <1>11, <1>12, <2>1
    <2>2. CASE i # n
      BY <1>1, <1>2, <1>12, <2>2
    <2> QED
      BY <2>1, <2>2
  <1> QED
    BY <1>1, <1>2, <1>6, <1>7, <1>13, <1>14

\* The route with one placement more, and what is left to try there.
WithOne(c, rest) == Append(LessTried(c), [node |-> c, rest |-> rest])

LEMMA Extended ==
    ASSUME WalkerInv, walkState = "walking", NEW c \in Tried, NEW rest \in SUBSET Nodes
    PROVE  /\ WithOne(c, rest) \in Seq(Steps) /\ Len(WithOne(c, rest)) = Len(route) + 1
           /\ WithOne(c, rest)[Len(route) + 1].node = c
           /\ WithOne(c, rest)[Len(route) + 1].rest = rest
           /\ \A i \in 1 .. Len(route) : /\ WithOne(c, rest)[i].node = route[i].node
                                         /\ WithOne(c, rest)[i].rest \subseteq route[i].rest
  <1>1. PICK n \in Nat : n = Len(route)
    BY DEF WalkerInv, RouteInv
  <1>2. PICK p : p = LessTried(c)
    OBVIOUS
  <1>3. /\ c \in Nodes /\ p \in Seq(Steps) /\ Len(p) = n
        /\ \A i \in 1 .. n : p[i].node = route[i].node /\ p[i].rest \subseteq route[i].rest
    BY <1>1, <1>2, Trying
  <1>4. PICK s : s = [node |-> c, rest |-> rest]
    OBVIOUS
  <1>5. s \in Steps /\ s.node = c /\ s.rest = rest
    BY <1>3, <1>4 DEF Steps
  <1>6. WithOne(c, rest) = Append(p, s)
    BY <1>2, <1>4 DEF WithOne
  <1>7. /\ Append(p, s) \in Seq(Steps) /\ Len(Append(p, s)) = n + 1
        /\ Append(p, s)[n + 1] = s /\ \A i \in 1 .. n : Append(p, s)[i] = p[i]
    <2>1. p \in Seq(Steps) /\ s \in Steps
      BY <1>3, <1>5
    <2>2. /\ Append(p, s) \in Seq(Steps) /\ Len(Append(p, s)) = Len(p) + 1
          /\ Append(p, s)[Len(p) + 1] = s
          /\ \A i \in 1 .. Len(p) : Append(p, s)[i] = p[i]
      BY <2>1, Pushed
    <2> QED
      BY <1>3, <2>2
  <1> QED
    BY <1>1, <1>3, <1>5, <1>6, <1>7

\* A move placed on top is a step of the stack, and the ground is kept.
LEMMA GroundOnTop ==
    ASSUME WalkerInv, walkState = "walking", NEW c, c \in Nodes, Follows(route, Len(route), c),
           NEW q \in Seq(Steps), Len(q) = Len(route) + 1, q[Len(route) + 1].node = c,
           \A i \in 1 .. Len(route) : q[i].node = route[i].node,
           route' = q, Taken' = inUse \cup c.foot
    PROVE  Kept(FeetOf(route), Taken)' /\ Stacked
  <1>1. route \in Seq(Steps) /\ Len(route) > 0 /\ Len(route) \in Nat /\ Kept(FeetOf(route), inUse)
    BY DEF WalkerInv, RouteInv, Progress, Taken, Closed
  <1>2. FeetOf(q) = Append(FeetOf(route), c.foot)
    BY <1>1, StepsFooted, FeetOnTop
  <1>3. c.foot \in Standable /\ c.foot \subseteq Lattice
    BY NodesStandable DEF Follows, Nodes
  <1>4. c.foot \cap inUse = {}
    <2>1. inUse = UNION {FeetOf(route)[i] : i \in DOMAIN FeetOf(route)}
      BY <1>1 DEF Kept
    <2>2. \A i \in DOMAIN FeetOf(route) : i \in 1 .. Len(route) /\ FeetOf(route)[i] = route[i].node.foot
      BY <1>1, StepsFooted, FeetAre
    <2>3. \A j \in 1 .. Len(route) : c.foot \cap route[j].node.foot = {}
      BY DEF Follows
    <2>4. ASSUME NEW x \in inUse PROVE x \notin c.foot
      <3>1. PICK i \in DOMAIN FeetOf(route) : x \in FeetOf(route)[i]
        BY <2>1
      <3> QED
        BY <2>2, <2>3, <3>1
    <2> QED
      BY <2>4
  <1>5. FeetOf(route) \in Seq(SUBSET Lattice) /\ Len(FeetOf(route)) > 0
    BY <1>1, StepsFooted, FeetAre
  <1>6. Kept(Append(FeetOf(route), c.foot), inUse \cup c.foot)
    <2>1. PICK S : S = SUBSET Lattice
      OBVIOUS
    <2>2. FeetOf(route) \in Seq(S) /\ c.foot \in S
      BY <1>3, <1>5, <2>1
    <2> QED
      BY <1>1, <1>4, <2>2, KeptOnTop
  <1>7. FeetOf(route)' = Append(FeetOf(route), c.foot) /\ Taken' = inUse \cup c.foot
    BY <1>2 DEF FeetOf
  <1>8. Kept(FeetOf(route), Taken)'
    BY <1>6, <1>7 DEF Kept
  <1>9. Feet = FeetOf(route) /\ Feet' = FeetOf(route)' /\ Taken = inUse
    BY FeetAreFeet DEF Feet, Blocks, FeetOf, Taken, Closed
  <1>10. Feet # << >>
    BY <1>5, <1>9
  <1>11. Stacked
    BY <1>3, <1>4, <1>7, <1>9, <1>10, StackMoves
  <1> QED
    BY <1>8, <1>11

\* A finish or a step is only due where the length says so.
LEMMA WhenDue ==
    ASSUME request.length \in Int, NEW i \in Nat
    PROVE  Want(i) = "Finish" <=> i >= request.length
  BY DEF Want

LEMMA GroundUnder ==
    ASSUME WalkerInv, walkState = "walking"
    PROVE  \A j \in 1 .. Len(route) : route[j].node.foot \subseteq inUse
  <1>1. route \in Seq(Steps) /\ Kept(FeetOf(route), inUse)
    BY DEF WalkerInv, RouteInv, Taken, Closed
  <1>2. inUse = UNION {FeetOf(route)[i] : i \in DOMAIN FeetOf(route)}
    BY <1>1 DEF Kept
  <1>3. \A i \in 1 .. Len(route) : i \in DOMAIN FeetOf(route) /\ FeetOf(route)[i] = route[i].node.foot
    BY <1>1, StepsFooted, FeetAre
  <1> QED
    BY <1>2, <1>3

LEMMA SteppingOn ==
    ASSUME WalkerInv, StepOn
    PROVE  WalkerInv' /\ Stacked
  <1>1. walkState = "walking" /\ UNCHANGED request /\ Want(Len(route)) # "Finish"
    BY DEF StepOn
  <1>2. PICK c \in Tried :
          Enter(Append(LessTried(c), [node |-> c, rest |-> {}]), inUse \cup c.foot,
                [k \in Columns |-> columns[k] + (IF k \in ColumnsOf(c.foot) THEN 1 ELSE 0)])
    BY DEF StepOn
  <1>3. PICK p : p = WithOne(c, {})
    OBVIOUS
  <1>4. PICK used : used = inUse \cup c.foot
    OBVIOUS
  <1>5. PICK cols : cols = [k \in Columns |-> columns[k] + (IF k \in ColumnsOf(c.foot) THEN 1 ELSE 0)]
    OBVIOUS
  <1>6. Enter(p, used, cols)
    BY <1>2, <1>3, <1>4, <1>5 DEF WithOne
  <1>7. CASE expansions + 1 > MaxExpansions
    BY <1>1, <1>6, <1>7, Failing DEF Enter
  <1>8. CASE ~(expansions + 1 > MaxExpansions)
    <2>1. PICK n \in Nat : n = Len(route) /\ n > 0
      BY <1>1 DEF WalkerInv, RouteInv, Progress
    <2>2. c \in Nodes /\ Follows(route, n, c)
      BY <1>1, <2>1, Trying
    <2>3. /\ p \in Seq(Steps) /\ Len(p) = n + 1 /\ p[n + 1].node = c
          /\ \A i \in 1 .. n : p[i].node = route[i].node /\ p[i].rest \subseteq route[i].rest
      <3>1. {} \in SUBSET Nodes
        OBVIOUS
      <3> QED
        BY <1>1, <1>3, <2>1, <3>1, Extended
    <2>4. PICK rest : rest = Scored(c, n + 1, used, cols)
      OBVIOUS
    <2>5. /\ route' = [p EXCEPT ![n + 1] = [node |-> c, rest |-> rest]]
          /\ inUse' = used /\ columns' = cols /\ walkState' = "walking"
      BY <1>6, <1>8, <2>3, <2>4 DEF Enter, Last
    <2>6. n + 1 \in Nat /\ n + 1 > 0 /\ n + 1 \in 1 .. n + 1
      BY <2>1
    <2>7. \A k : Over(p, k, n) = Over(route, k, n)
      BY <2>1, <2>3, SamePrefix
    <2>8. ASSUME NEW k \in Columns
          PROVE  cols[k] \in Int /\ Cardinality(Over(p, k, n + 1)) <= cols[k]
      <3>1. columns[k] \in Int /\ Cardinality(Over(route, k, n)) <= columns[k]
        BY <1>1, <2>1 DEF WalkerInv, Progress
      <3>2. Cardinality(Over(route, k, n)) \in Nat
        BY OverFinite
      <3>3. Cardinality(Over(p, k, n + 1))
              = Cardinality(Over(route, k, n)) + (IF k \in ColumnsOf(c.foot) THEN 1 ELSE 0)
        <4>1. Cardinality(Over(p, k, n + 1))
                = Cardinality(Over(p, k, n)) + (IF k \in ColumnsOf(p[n + 1].node.foot) THEN 1 ELSE 0)
          BY OverNext
        <4>2. Over(p, k, n) = Over(route, k, n) /\ p[n + 1].node = c
          BY <2>3, <2>7
        <4> QED
          BY <4>1, <4>2
      <3>4. cols[k] = columns[k] + (IF k \in ColumnsOf(c.foot) THEN 1 ELSE 0)
        BY <1>5
      <3> QED
        BY <3>1, <3>2, <3>3, <3>4
    <2>9. \A j \in 1 .. n + 1 : p[j].node.foot \subseteq used
      <3>1. \A j \in 1 .. n : route[j].node.foot \subseteq inUse
        BY <1>1, <2>1, GroundUnder
      <3>2. \A j \in 1 .. n + 1 : j \in 1 .. n \/ j = n + 1
        BY <2>1
      <3> QED
        BY <1>4, <2>3, <3>1, <3>2
    <2>10. ASSUME NEW d \in rest PROVE d \in Nodes /\ Follows(p, n + 1, d)
      <3>1. request.allow \subseteq DOMAIN Catalogue /\ request.length \in Int
        BY DEF WalkerInv, Asked
      <3>2. d \in Scored(p[n + 1].node, n + 1, used, cols) /\ p[n + 1].node \in Nodes
        BY <2>2, <2>3, <2>4
      <3> QED
        BY <2>6, <2>8, <2>9, <3>1, <3>2, ScoredFollows
    <2>11. PICK s : s = [node |-> c, rest |-> rest]
      OBVIOUS
    <2>12. s \in Steps /\ s.node = c /\ s.rest = rest
      BY <2>2, <2>10, <2>11 DEF Steps
    <2>13. PICK q : q = [p EXCEPT ![n + 1] = s]
      OBVIOUS
    <2>14. /\ q \in Seq(Steps) /\ Len(q) = n + 1 /\ q[n + 1] = s
           /\ \A i \in 1 .. n : q[i] = p[i]
      BY <2>1, <2>3, <2>12, <2>13
    <2>15. \A j \in 1 .. n + 1 : q[j].node = p[j].node
      <3>1. \A j \in 1 .. n + 1 : j \in 1 .. n \/ j = n + 1
        BY <2>1
      <3> QED
        BY <2>3, <2>12, <2>14, <3>1
    <2>16. /\ \A k : Over(q, k, n + 1) = Over(p, k, n + 1)
           /\ \A d \in rest : Follows(q, n + 1, d)
      BY <2>6, <2>10, <2>15, SamePrefix
    <2>17. RouteInv(q)
      <3>1. \A i \in 1 .. n : q[i].node = route[i].node /\ q[i].rest \subseteq route[i].rest
        BY <2>3, <2>14
      <3>2. RouteInv(route)
        BY DEF WalkerInv
      <3>3. q[n + 1].node = c /\ q[n + 1].rest = rest
        BY <2>12, <2>14
      <3> QED
        BY <2>1, <2>2, <2>14, <2>16, <3>1, <3>2, <3>3, RouteOnTop
    <2>18. route' = q
      BY <2>5, <2>11, <2>13
    <2>19. RouteInv(route)'
      BY <1>1, <2>17, <2>18, SameRequest
    <2>20. Taken' = inUse \cup c.foot
      BY <1>4, <2>5 DEF Taken, Closed
    <2>21. Kept(FeetOf(route), Taken)' /\ Stacked
      <3>1. \A i \in 1 .. n : q[i].node = route[i].node
        BY <2>3, <2>14
      <3>2. q[n + 1].node = c
        BY <2>12, <2>14
      <3> QED
        BY <1>1, <2>1, <2>2, <2>14, <2>18, <2>20, <3>1, <3>2, GroundOnTop
    <2>22. Progress'
      <3>1. Len(route') = n + 1 /\ walkState' = "walking"
        BY <2>5, <2>14, <2>18
      <3>2. n < request.length
        BY <1>1, <2>1, WhenDue DEF WalkerInv, Asked
      <3>3. \A i \in 1 .. n - 1 : i < request.length
        BY <1>1, <2>1 DEF WalkerInv, Progress
      <3>4. \A i \in 1 .. Len(route') - 1 : i < request'.length
        BY <1>1, <2>1, <3>1, <3>2, <3>3
      <3>5. ASSUME NEW k \in Columns
            PROVE  columns'[k] \in Int /\ Cardinality(Over(route, k, Len(route))') <= columns'[k]
        <4>1. Over(route, k, Len(route))' = Over(q, k, Len(q))
          BY <2>18 DEF Over
        <4>2. Len(q) = n + 1
          BY <2>14
        <4>3. Over(route, k, Len(route))' = Over(p, k, n + 1)
          BY <2>16, <4>1, <4>2, Zenon
        <4> QED
          BY <2>5, <2>8, <4>3
      <3>6. Len(route') > 0
        BY <2>1, <3>1
      <3> QED
        BY <3>1, <3>4, <3>5, <3>6 DEF Progress
    <2>23. Asked'
      BY <1>1 DEF WalkerInv, Asked
    <2> QED
      BY <2>19, <2>21, <2>22, <2>23 DEF WalkerInv
  <1> QED
    BY <1>7, <1>8

LEMMA Finishing ==
    ASSUME WalkerInv, PlaceFinish
    PROVE  WalkerInv' /\ Stacked
  <1>1. walkState = "walking" /\ UNCHANGED request /\ Want(Len(route)) = "Finish"
    BY DEF PlaceFinish
  <1>2. PICK c \in Tried :
          IF AsRequested(WithOne(c, {}))
          THEN walkState' = "closed" /\ route' = WithOne(c, {}) /\ UNCHANGED <<inUse, columns>>
          ELSE Fail
    BY DEF PlaceFinish, WithOne
  <1>3. PICK q : q = WithOne(c, {})
    OBVIOUS
  <1>4. CASE ~AsRequested(q)
    BY <1>1, <1>2, <1>3, <1>4, Failing
  <1>5. CASE AsRequested(q)
    <2>1. PICK n \in Nat : n = Len(route) /\ n > 0
      BY <1>1 DEF WalkerInv, RouteInv, Progress
    <2>2. c \in Nodes /\ Follows(route, n, c)
      BY <1>1, <2>1, Trying
    <2>3. /\ q \in Seq(Steps) /\ Len(q) = n + 1 /\ q[n + 1].node = c /\ q[n + 1].rest = {}
          /\ \A i \in 1 .. n : q[i].node = route[i].node /\ q[i].rest \subseteq route[i].rest
      <3>1. {} \in SUBSET Nodes
        OBVIOUS
      <3> QED
        BY <1>1, <1>3, <2>1, <3>1, Extended
    <2>4. RouteInv(q)
      <3>1. \A d \in q[n + 1].rest : Follows(q, n + 1, d)
        BY <2>3
      <3>2. RouteInv(route) /\ Follows(route, n, q[n + 1].node)
        BY <2>2, <2>3 DEF WalkerInv
      <3> QED
        BY <2>1, <2>3, <3>1, <3>2, RouteOnTop
    <2>5. route' = q /\ walkState' = "closed" /\ UNCHANGED inUse
      BY <1>2, <1>3, <1>5
    <2>6. RouteInv(route)'
      BY <1>1, <2>4, <2>5, SameRequest
    <2>7. Taken' = inUse \cup c.foot
      <3>1. Top' = q[n + 1]
        BY <2>3, <2>5 DEF Top, Last
      <3> QED
        BY <2>3, <2>5, <3>1 DEF Taken, Closed
    <2>8. Kept(FeetOf(route), Taken)' /\ Stacked
      BY <1>1, <2>1, <2>2, <2>3, <2>5, <2>7, GroundOnTop
    <2>9. Progress'
      <3>1. n >= request.length
        BY <1>1, <2>1, WhenDue DEF WalkerInv, Asked
      <3>2. \A i \in 1 .. n - 1 : i < request.length
        BY <1>1, <2>1 DEF WalkerInv, Progress
      <3>3. Len(route') = n + 1 /\ (n + 1) - 1 = n /\ (n + 1) - 2 = n - 1 /\ n + 1 > 1
        BY <2>1, <2>3, <2>5
      <3>4. AsRequested(route)'
        BY <1>1, <1>5, <2>5 DEF AsRequested, SurfacesOf
      <3>5. Len(route') > 1 /\ Len(route') - 1 >= request'.length
        BY <1>1, <3>1, <3>3
      <3>6. \A i \in 1 .. Len(route') - 2 : i < request'.length
        BY <1>1, <3>2, <3>3
      <3> QED
        BY <2>5, <3>4, <3>5, <3>6 DEF Progress
    <2>10. Asked'
      BY <1>1 DEF WalkerInv, Asked
    <2> QED
      BY <2>6, <2>8, <2>9, <2>10 DEF WalkerInv
  <1> QED
    BY <1>4, <1>5

LEMMA Backing ==
    ASSUME WalkerInv, Backtrack
    PROVE  WalkerInv' /\ Stacked
  <1>1. walkState = "walking" /\ UNCHANGED <<request, walkState>> /\ Len(route) > 1
    BY DEF Backtrack
  <1>2. PICK n \in Nat : n = Len(route) /\ n > 1
    BY <1>1 DEF WalkerInv, RouteInv
  <1>3. PICK q : q = SubSeq(route, 1, n - 1)
    OBVIOUS
  <1>4. route' = q
    BY <1>2, <1>3 DEF Backtrack, Front
  <1>5. route \in Seq(Steps) /\ Kept(FeetOf(route), inUse) /\ RouteInv(route)
    BY <1>1 DEF WalkerInv, RouteInv, Taken, Closed
  <1>6. /\ q \in Seq(Steps) /\ Len(q) = n - 1 /\ n - 1 \in Nat /\ n - 1 > 0
        /\ \A i \in 1 .. n - 1 : q[i] = route[i]
    BY <1>2, <1>3, <1>5
  <1>7. PICK c : c = route[n].node
    OBVIOUS
  <1>8. Top.node = c
    BY <1>2, <1>7 DEF Top, Last
  <1>9. inUse' = inUse \ c.foot
    BY <1>8 DEF Backtrack, CellsWithout
  <1>10. columns' = [k \in Columns |-> columns[k] - (IF k \in ColumnsOf(c.foot) THEN 1 ELSE 0)]
    BY <1>8 DEF Backtrack, LevelsWithout
  <1>11. RouteInv(q)
    BY <1>2, <1>3, <1>5, RouteBelow
  <1>12. RouteInv(route)'
    BY <1>1, <1>4, <1>11, SameRequest
  <1>13. PICK a : a = FeetOf(route)
    OBVIOUS
  <1>14. /\ a \in Seq(SUBSET Lattice) /\ Len(a) = n /\ a[n] = c.foot
    <2>1. n \in 1 .. n
      BY <1>2
    <2> QED
      BY <1>2, <1>5, <1>7, <1>13, <2>1, StepsFooted, FeetAre
  <1>15. FeetOf(q) = SubSeq(a, 1, n - 1)
    BY <1>2, <1>3, <1>5, <1>13, StepsFooted, FeetBelow
  <1>16. Kept(SubSeq(a, 1, n - 1), inUse \ c.foot)
    <2>1. PICK S : S = SUBSET Lattice
      OBVIOUS
    <2>2. a \in Seq(S) /\ Len(a) = n /\ Kept(a, inUse)
      BY <1>5, <1>13, <1>14, <2>1
    <2> QED
      BY <1>2, <1>14, <2>2, KeptBelow
  <1>17. FeetOf(route)' = SubSeq(a, 1, n - 1) /\ Taken' = inUse \ c.foot
    <2>1. FeetOf(route)' = FeetOf(q)
      BY <1>4 DEF FeetOf
    <2> QED
      BY <1>1, <1>9, <1>15, <2>1 DEF Taken, Closed
  <1>18. Kept(FeetOf(route), Taken)'
    BY <1>16, <1>17 DEF Kept
  <1>19. Stacked
    <2>1. Feet = a /\ Taken = inUse
      BY <1>1, <1>13, FeetAreFeet DEF Taken, Closed
    <2>2. Feet' = FeetOf(route)'
      BY DEF Feet, Blocks, FeetOf
    <2>3. Feet' = SubSeq(Feet, 1, Len(Feet) - 1) /\ Taken' = Taken \ Feet[Len(Feet)] /\ Len(Feet) > 1
      BY <1>2, <1>14, <1>17, <2>1, <2>2
    <2> QED
      BY <2>3, StackMoves
  <1>20. Progress'
    <2>1. Len(route') = n - 1 /\ walkState' = "walking"
      BY <1>1, <1>4, <1>6
    <2>2. \A i \in 1 .. n - 1 : i < request.length
      BY <1>1, <1>2 DEF WalkerInv, Progress
    <2>3. \A i \in 1 .. Len(route') - 1 : i < request'.length
      <3>1. \A i \in 1 .. (n - 1) - 1 : i \in 1 .. n - 1
        BY <1>2
      <3> QED
        BY <1>1, <2>1, <2>2, <3>1
    <2>4. ASSUME NEW k \in Columns
          PROVE  columns'[k] \in Int /\ Cardinality(Over(route, k, Len(route))') <= columns'[k]
      <3>1. columns[k] \in Int /\ Cardinality(Over(route, k, n)) <= columns[k]
        BY <1>1, <1>2 DEF WalkerInv, Progress
      <3>2. Cardinality(Over(route, k, (n - 1) + 1))
              = Cardinality(Over(route, k, n - 1))
                  + (IF k \in ColumnsOf(route[(n - 1) + 1].node.foot) THEN 1 ELSE 0)
        BY <1>6, OverNext
      <3>3. (n - 1) + 1 = n
        BY <1>2
      <3>4. Cardinality(Over(route, k, n))
              = Cardinality(Over(route, k, n - 1)) + (IF k \in ColumnsOf(c.foot) THEN 1 ELSE 0)
        BY <1>7, <3>2, <3>3
      <3>5. Cardinality(Over(route, k, n - 1)) \in Nat
        BY <1>6, OverFinite
      <3>6. columns'[k] = columns[k] - (IF k \in ColumnsOf(c.foot) THEN 1 ELSE 0)
        BY <1>10
      <3>7. columns'[k] \in Int /\ Cardinality(Over(route, k, n - 1)) <= columns'[k]
        BY <3>1, <3>4, <3>5, <3>6
      <3>8. Over(route, k, Len(route))' = Over(q, k, Len(q))
        BY <1>4 DEF Over
      <3>9. Over(q, k, n - 1) = Over(route, k, n - 1)
        <4>1. \A j \in 1 .. n - 1 : q[j].node = route[j].node
          BY <1>6
        <4> QED
          BY <1>6, <4>1, SamePrefix
      <3>10. Len(q) = n - 1
        BY <1>6
      <3>11. Over(route, k, Len(route))' = Over(route, k, n - 1)
        BY <3>8, <3>9, <3>10, Zenon
      <3> QED
        BY <3>7, <3>11
    <2>5. Len(route') > 0
      BY <1>6, <2>1
    <2> QED
      BY <2>1, <2>3, <2>4, <2>5 DEF Progress
  <1>21. Asked'
    BY <1>1 DEF WalkerInv, Asked
  <1> QED
    BY <1>12, <1>18, <1>19, <1>20, <1>21 DEF WalkerInv

LEMMA WalkerStarts == WalkerInit => WalkerInv /\ Stack!StackInit
  <1> SUFFICES ASSUME WalkerInit PROVE WalkerInv /\ Stack!StackInit
    OBVIOUS
  <1>1. /\ route = << >> /\ inUse = {} /\ walkState = "idle" /\ request.length = 0
        /\ request.allow = {} /\ request.pool = {}
    BY DEF WalkerInit
  <1>2. Asked /\ Progress
    BY <1>1 DEF Asked, Progress
  <1>3. RouteInv(route)
    BY <1>1 DEF RouteInv
  <1>4. FeetOf(route) = << >> /\ Taken = {} /\ Feet = << >>
    BY <1>1 DEF FeetOf, Taken, Closed, Feet, Blocks
  <1>5. Kept(FeetOf(route), Taken)
    BY <1>4, KeptNone
  <1>6. Stack!StackInit
    BY <1>4 DEF Stack!StackInit, Taken
  <1> QED
    BY <1>2, <1>3, <1>5, <1>6 DEF WalkerInv

LEMMA WalkerSteps ==
    ASSUME WalkerInv, [WalkerNext]_walkerVars
    PROVE  WalkerInv' /\ Stacked
  <1>1. CASE DeadEnd
    <2>1. Fail /\ UNCHANGED request
      BY <1>1 DEF DeadEnd
    <2> QED
      BY <2>1, Failing
  <1>2. CASE UNCHANGED walkerVars
    <2>1. UNCHANGED <<request, walkState, route, inUse, columns>>
      BY <1>2 DEF walkerVars
    <2>2. Asked' /\ Progress'
      BY <2>1 DEF WalkerInv, Asked, Progress, Over, AsRequested, SurfacesOf
    <2>3. RouteInv(route)'
      BY <2>1, SameRequest DEF WalkerInv
    <2>4. FeetOf(route)' = FeetOf(route) /\ UNCHANGED Taken /\ UNCHANGED Feet
      BY <2>1 DEF FeetOf, Taken, Closed, Top, Last, Feet, Blocks
    <2>5. Kept(FeetOf(route), Taken)'
      BY <2>4 DEF WalkerInv, Kept
    <2> QED
      BY <2>2, <2>3, <2>4, <2>5 DEF WalkerInv, Stacked
  <1> QED
    BY <1>1, <1>2, Beginning, Starting, SteppingOn, Finishing, Backing DEF WalkerNext

-----------------------------------------------------------------------------
(* What the invariant says of a route. *)

\* Turned to the grid and back.
LEMMA TurnedBack ==
    ASSUME NEW v \in Lattice, NEW d \in 0 .. 3
    PROVE  RotateVector(RotateVector(v, d), 4 - d) = v
  <1>1. v = <<v[1], v[2], v[3]>> /\ v[1] \in Int /\ v[2] \in Int /\ v[3] \in Int
    BY CellParts
  <1>2. CASE d = 0
    <2>1. 0 % 4 = 0 /\ (4 - 0) % 4 = 0
      OBVIOUS
    <2> QED
      BY <1>2, <2>1 DEF RotateVector
  <1>3. CASE d = 1
    <2>1. 1 % 4 = 1 /\ (4 - 1) % 4 = 3
      OBVIOUS
    <2>2. RotateVector(v, 1) = <<-v[3], v[2], v[1]>>
      BY <2>1 DEF RotateVector
    <2>3. RotateVector(<<-v[3], v[2], v[1]>>, 4 - 1) = <<v[1], v[2], -(-v[3])>>
      BY <2>1 DEF RotateVector
    <2> QED
      BY <1>1, <1>3, <2>2, <2>3
  <1>4. CASE d = 2
    <2>1. 2 % 4 = 2 /\ (4 - 2) % 4 = 2
      OBVIOUS
    <2>2. RotateVector(v, 2) = <<-v[1], v[2], -v[3]>>
      BY <2>1 DEF RotateVector
    <2>3. RotateVector(<<-v[1], v[2], -v[3]>>, 4 - 2) = <<-(-v[1]), v[2], -(-v[3])>>
      BY <2>1 DEF RotateVector
    <2> QED
      BY <1>1, <1>4, <2>2, <2>3
  <1>5. CASE d = 3
    <2>1. 3 % 4 = 3 /\ (4 - 3) % 4 = 1
      OBVIOUS
    <2>2. RotateVector(v, 3) = <<v[3], v[2], -v[1]>>
      BY <2>1 DEF RotateVector
    <2>3. RotateVector(<<v[3], v[2], -v[1]>>, 4 - 3) = <<-(-v[1]), v[2], v[3]>>
      BY <2>1 DEF RotateVector
    <2> QED
      BY <1>1, <1>5, <2>2, <2>3
  <1> QED
    BY <1>2, <1>3, <1>4, <1>5

\* The move is read off where the two blocks stand.
LEMMA MoveBetween ==
    ASSUME NEW n \in Nodes, NEW m, IsMove(m), NEW c, c = Landing(n, m)
    PROVE  /\ c.block = m.block /\ m.rel = (c.rot - n.rot) % 4
           /\ m.off = RotateVector(Minus(c.at, n.at), 4 - n.rot)
  <1>1. n.at \in Lattice /\ n.rot \in 0 .. 3 /\ m.off \in Lattice /\ m.rel \in 0 .. 3
    BY OriginOnGround DEF Nodes, IsMove
  <1>2. PICK v : v = RotateVector(m.off, n.rot)
    OBVIOUS
  <1>3. c.block = m.block /\ c.at = Plus(n.at, v) /\ c.rot = (n.rot + m.rel) % 4
    BY <1>2 DEF Landing, Apply
  <1>4. v \in Lattice
    BY <1>1, <1>2, VectorTurns
  <1>5. Minus(Plus(n.at, v), n.at) = v
    <2>1. /\ v = <<v[1], v[2], v[3]>> /\ v[1] \in Int /\ v[2] \in Int /\ v[3] \in Int
          /\ n.at[1] \in Int /\ n.at[2] \in Int /\ n.at[3] \in Int
      BY <1>1, <1>4, CellParts
    <2> QED
      BY <2>1 DEF Minus, Plus
  <1>6. m.off = RotateVector(Minus(c.at, n.at), 4 - n.rot)
    BY <1>1, <1>2, <1>3, <1>5, TurnedBack
  <1>7. \A a, e \in 0 .. 3 : e = (((a + e) % 4) - a) % 4
    OBVIOUS
  <1> QED
    BY <1>1, <1>3, <1>6, <1>7

LEMMA LengthAsked ==
    ASSUME NEW n \in Nat, NEW l \in Int, n > 1, n - 1 >= l, \A i \in 1 .. n - 2 : i < l
    PROVE  n = Max({1, l}) + 1
  <1> DEFINE Least(x) == x \in {1, l} /\ \A y \in {1, l} : x >= y
  <1>1. Least(n - 1)
    <2>1. CASE n = 2
      BY <2>1
    <2>2. CASE n > 2
      <3>1. n - 2 \in 1 .. n - 2
        BY <2>2
      <3>2. n - 2 < l
        BY <3>1
      <3> QED
        BY <2>2, <3>2
    <2> QED
      BY <2>1, <2>2
  <1>2. \A x : Least(x) => x = n - 1
    BY <1>1
  <1>3. Max({1, l}) = CHOOSE x : Least(x)
    BY DEF Max
  <1> HIDE DEF Least
  <1>4. Max({1, l}) = n - 1
    BY <1>1, <1>2, <1>3
  <1> QED
    BY <1>4

LEMMA RouteSays == WalkerInv => RouteAllowed
  <1> SUFFICES ASSUME WalkerInv PROVE RouteAllowed
    OBVIOUS
  <1>1. PICK n \in Nat : n = Len(route)
    BY DEF WalkerInv, RouteInv
  <1>2. route \in Seq(Steps) /\ DOMAIN route = 1 .. n
    BY <1>1 DEF WalkerInv, RouteInv
  <1>3. DOMAIN Blocks = 1 .. n /\ \A i \in 1 .. n : Blocks[i] = route[i].node /\ route[i].node \in Nodes
    <2>1. \A i \in 1 .. n : route[i] \in Steps
      BY <1>1, <1>2
    <2> QED
      BY <1>2, <2>1 DEF Blocks, Steps
  <1>4. LevelsCapped
    <2> SUFFICES ASSUME NEW k \in Columns
                 PROVE  Cardinality({i \in DOMAIN route : k \in ColumnsOf(Blocks[i].foot)}) <= MaxLevels
      BY DEF LevelsCapped
    <2>1. {i \in DOMAIN route : k \in ColumnsOf(Blocks[i].foot)} = Over(route, k, n)
      BY <1>2, <1>3 DEF Over
    <2>2. CASE n = 0
      <3>1. Over(route, k, n) = {}
        BY <2>2 DEF Over
      <3>2. Cardinality(Over(route, k, n)) = 0
        BY <3>1, FS_EmptySet
      <3>3. 0 <= MaxLevels
        BY WalkerAssumption
      <3> QED
        BY <2>1, <3>2, <3>3
    <2>3. CASE n > 0
      <3>1. n \in 1 .. n
        BY <2>3
      <3> QED
        BY <1>1, <2>1, <3>1 DEF WalkerInv, RouteInv
    <2> QED
      BY <2>2, <2>3
  <1>5. \A i \in 1 .. n - 1 : Follows(route, i, route[i + 1].node) /\ i \in 1 .. n /\ i + 1 \in 1 .. n
    BY <1>1 DEF WalkerInv, RouteInv
  <1>6. RouteAttested
    <2> SUFFICES ASSUME NEW i \in 1 .. n - 1
                 PROVE  LET a == Blocks[i]
                            b == Blocks[i + 1]
                            seen == ToSet(MovesOf(a.block))
                                    \cup (IF a.block \in DOMAIN Jumps THEN Jumps[a.block] ELSE {})
                        IN  \E m \in seen :
                                /\ m.block = b.block /\ m.maps >= MinMaps
                                /\ m.rel = (b.rot - a.rot) % 4
                                /\ m.off = RotateVector(Minus(b.at, a.at), 4 - a.rot)
      BY <1>1 DEF RouteAttested
    <2>1. PICK a : a = route[i].node
      OBVIOUS
    <2>2. PICK b : b = route[i + 1].node
      OBVIOUS
    <2>3. a \in Nodes /\ Blocks[i] = a /\ Blocks[i + 1] = b
      BY <1>3, <1>5, <2>1, <2>2
    <2>4. PICK m \in Seen(a.block) : m.maps >= MinMaps /\ b = Landing(a, m)
      BY <1>5, <2>1, <2>2 DEF Follows
    <2>5. IsMove(m)
      BY <2>4, SeenMoves
    <2>6. /\ m.block = b.block /\ m.rel = (b.rot - a.rot) % 4
          /\ m.off = RotateVector(Minus(b.at, a.at), 4 - a.rot)
      BY <2>3, <2>4, <2>5, MoveBetween
    <2>7. Seen(a.block) = ToSet(MovesOf(a.block))
                          \cup (IF a.block \in DOMAIN Jumps THEN Jumps[a.block] ELSE {})
      BY DEF Seen, ToSet
    <2>8. m \in ToSet(MovesOf(a.block)) \cup (IF a.block \in DOMAIN Jumps THEN Jumps[a.block] ELSE {})
      BY <2>4, <2>7
    <2> QED
      BY <2>3, <2>4, <2>6, <2>8
  <1>7. RouteAsAsked
    <2> SUFFICES ASSUME Closed PROVE RouteAsAsked
      BY DEF RouteAsAsked
    <2>1. /\ n > 1 /\ n - 1 >= request.length /\ \A i \in 1 .. n - 2 : i < request.length
          /\ AsRequested(route) /\ request.length \in Int
      BY <1>1 DEF Closed, WalkerInv, Progress, Asked
    <2>2. Head(Blocks) = route[1].node /\ Last(Blocks) = route[n].node
      <3>1. Len(Blocks) = n
        BY <1>3
      <3>2. 1 \in 1 .. n /\ n \in 1 .. n
        BY <2>1
      <3> QED
        BY <1>3, <3>1, <3>2 DEF Last
    <2>3. Way(Head(Blocks).block) = "Start"
      BY <1>1, <2>1, <2>2 DEF WalkerInv, RouteInv
    <2>4. Way(Last(Blocks).block) = "Finish"
      <3>1. n - 1 \in 1 .. n - 1 /\ (n - 1) + 1 = n
        BY <2>1
      <3>2. Follows(route, n - 1, route[n].node)
        BY <1>5, <3>1
      <3>3. Ways(n - 1) = {"Finish"}
        BY <2>1 DEF Ways
      <3> QED
        BY <2>2, <3>2, <3>3 DEF Follows
    <2>5. ASSUME NEW i \in 2 .. n - 1 PROVE Way(Blocks[i].block) \in {"None", "Checkpoint"}
      <3>1. i - 1 \in 1 .. n - 1 /\ i - 1 \in 1 .. n - 2 /\ (i - 1) + 1 = i /\ i \in 1 .. n
        BY <2>1
      <3>2. Follows(route, i - 1, route[i].node)
        BY <1>5, <3>1
      <3>3. Ways(i - 1) = {"None", "Checkpoint"}
        <4>1. i - 1 < request.length /\ i - 1 \in Int
          BY <2>1, <3>1
        <4> QED
          BY <2>1, <4>1 DEF Ways
      <3> QED
        BY <1>3, <3>1, <3>2, <3>3 DEF Follows
    <2>6. Len(route) = Max({1, request.length}) + 1
      BY <1>1, <2>1, LengthAsked
    <2>7. ASSUME NEW s \in request.require
          PROVE  \E i \in DOMAIN route : Catalogue[Blocks[i].block].surface = s
      <3>1. s \in SurfacesOf(route)
        BY <2>1 DEF AsRequested
      <3>2. PICK i \in DOMAIN route : s = Catalogue[route[i].node.block].surface
        BY <3>1 DEF SurfacesOf
      <3> QED
        BY <1>2, <1>3, <3>2
    <2> QED
      BY <1>1, <2>3, <2>4, <2>5, <2>6, <2>7 DEF RouteAsAsked
  <1> QED
    BY <1>4, <1>6, <1>7 DEF RouteAllowed

(* Whatever the catalogue, the grammar and the requests, and however often *)
(* _attempt backtracks or generate starts anew: a route has no column over *)
(* MAX_LEVELS_PER_COLUMN, and a closed one is attested step by step, runs  *)
(* from a Start to a Finish and is as long and as varied as asked.         *)
THEOREM GrammarRoutesAllowed ==
    WalkerInit /\ [][WalkerNext]_walkerVars => []RouteAllowed
<1>1. WalkerInv /\ [WalkerNext]_walkerVars => WalkerInv'
  BY WalkerSteps
<1> QED
  BY WalkerStarts, RouteSays, <1>1, PTL

(* The grammar walker implements WalkStack: each step of generate places   *)
(* on free ground, gives back the ground of the block it takes away, or    *)
(* gives the attempt up.                                                   *)
THEOREM GrammarWalksAsStack ==
    WalkerInit /\ [][WalkerNext]_walkerVars => WalksAsStack
<1>1. WalkerInv /\ [WalkerNext]_walkerVars
        => WalkerInv' /\ [Stack!StackNext]_(Stack!stackVars)
  <2>1. Stacked => [Stack!StackNext]_(Stack!stackVars)
    BY DEF Stacked, Stack!stackVars, Taken
  <2> QED
    BY <2>1, WalkerSteps
<1> QED
  BY WalkerStarts, <1>1, PTL DEF WalksAsStack, Stack!StackSpec

-----------------------------------------------------------------------------
(* The clip walker. *)

Ports == [cell : Lattice, face : 0 .. 3, clip : RouteClips]
StoodOn(c) == {Plus(c.at, u) : u \in Oriented(c.block, c.rot).cells}
ClipNodes == [block : DOMAIN Catalogue, rot : 0 .. 3, at : GroundCells, foot : SUBSET Lattice,
              exits : SUBSET Ports]
ClipSteps == [node : ClipNodes, rest : SUBSET ClipNodes]

LEMMA PortParts ==
    /\ \A p \in Ports : p.cell \in Lattice /\ p.face \in 0 .. 3 /\ p.clip \in RouteClips
    /\ \A p, q \in Ports : p.cell = q.cell /\ p.face = q.face /\ p.clip = q.clip => p = q
    /\ \A x \in Lattice, f \in 0 .. 3, k \in RouteClips :
          [cell |-> x, face |-> f, clip |-> k] \in Ports
  BY DEF Ports

LEMMA Facing ==
    ASSUME NEW f \in 0 .. 3
    PROVE  /\ FaceDeltas[f] \in Lattice /\ OppositeFace(f) \in 0 .. 3
           /\ \A d \in 0 .. 3 : RotateFace(f, d) \in 0 .. 3
  <1>1. OppositeFace(f) \in 0 .. 3 /\ \A d \in 0 .. 3 : RotateFace(f, d) \in 0 .. 3
    BY DEF OppositeFace, RotateFace
  <1>2. \A x, y, z \in Int : <<x, y, z>> \in Lattice
    BY CellParts
  <1>3. <<0, 0, 1>> \in Lattice /\ <<-1, 0, 0>> \in Lattice /\ <<0, 0, -1>> \in Lattice /\ <<1, 0, 0>> \in Lattice
    BY <1>2
  <1>4. FaceDeltas[f] \in {<<0, 0, 1>>, <<-1, 0, 0>>, <<0, 0, -1>>, <<1, 0, 0>>}
    BY DEF FaceDeltas
  <1> QED
    BY <1>1, <1>3, <1>4

\* An oriented block's ports, each on one of its cells.
LEMMA OrientedTyped ==
    ASSUME NEW b \in DOMAIN Catalogue, NEW d \in 0 .. 3
    PROVE  /\ Oriented(b, d).block = b /\ Oriented(b, d).rot = d
           /\ Oriented(b, d).cells \subseteq Lattice
           /\ Oriented(b, d).ports \subseteq Ports /\ IsFiniteSet(Oriented(b, d).ports)
           /\ \A p \in Oriented(b, d).ports : p.cell \in Oriented(b, d).cells
  <1>1. PICK v : v = Catalogue[b].ground
    OBVIOUS
  <1>2. PICK Q : Q = {q \in Catalogue[b].ports : q.clip \in RouteClips}
    OBVIOUS
  <1> DEFINE Turn(p) == [cell |-> RotateOffset(p.cell, d, v.size),
                         face |-> RotateFace(p.face, d), clip |-> p.clip]
  <1>3. PICK C : C = {RotateOffset(u, d, v.size) : u \in v.units}
    OBVIOUS
  <1>4. PICK R : R = {Turn(p) : p \in Q}
    OBVIOUS
  <1>5. Oriented(b, d) = [block |-> b, rot |-> d, cells |-> C, ports |-> R]
    BY <1>1, <1>2, <1>3, <1>4 DEF Oriented
  <1>6. v.units \subseteq Lattice /\ v.size \in Lattice
    BY <1>1, GridAssumption DEF Anchored
  <1>7. C \subseteq Lattice
    BY <1>3, <1>6, OffsetTurns
  <1>8. \A p \in Q : p.cell \in v.units /\ p.face \in 0 .. 3 /\ p.clip \in RouteClips
    BY <1>1, <1>2, GridAssumption
  <1>9. ASSUME NEW p \in Q PROVE Turn(p) \in Ports /\ Turn(p).cell \in C
    <2>1. RotateOffset(p.cell, d, v.size) \in C /\ RotateOffset(p.cell, d, v.size) \in Lattice
      BY <1>3, <1>7, <1>8
    <2>2. RotateFace(p.face, d) \in 0 .. 3
      BY <1>8, Facing
    <2> QED
      BY <1>8, <2>1, <2>2, PortParts
  <1>10. R \subseteq Ports /\ \A p \in R : p.cell \in C
    BY <1>4, <1>9
  <1>11. IsFiniteSet(Q)
    <2>1. Q \in SUBSET Catalogue[b].ports /\ IsFiniteSet(Catalogue[b].ports)
      BY <1>2, GridAssumption
    <2> QED
      BY <2>1, FS_Subset
  <1>12. IsFiniteSet(R)
    <2> DEFINE g == [p \in Q |-> Turn(p)]
    <2>1. \A r \in R : \E p \in Q : g[p] = r
      BY <1>4
    <2>2. g \in [Q -> R]
      BY <1>4
    <2>3. g \in Surjection(Q, R)
      BY <2>1, <2>2 DEF Surjection
    <2> QED
      BY <1>11, <2>3, FS_Surjection
  <1> QED
    BY <1>5, <1>7, <1>10, <1>12

LEMMA SumsCancel ==
    ASSUME NEW a \in Lattice, NEW x \in Lattice, NEW y \in Lattice, Plus(a, x) = Plus(a, y)
    PROVE  x = y
  <1>1. /\ x = <<x[1], x[2], x[3]>> /\ x[1] \in Int /\ x[2] \in Int /\ x[3] \in Int
        /\ y = <<y[1], y[2], y[3]>> /\ y[1] \in Int /\ y[2] \in Int /\ y[3] \in Int
        /\ a[1] \in Int /\ a[2] \in Int /\ a[3] \in Int
    BY CellParts
  <1>2. /\ Plus(a, x)[1] = a[1] + x[1] /\ Plus(a, x)[2] = a[2] + x[2] /\ Plus(a, x)[3] = a[3] + x[3]
        /\ Plus(a, y)[1] = a[1] + y[1] /\ Plus(a, y)[2] = a[2] + y[2] /\ Plus(a, y)[3] = a[3] + y[3]
    BY DEF Plus
  <1>3. a[1] + x[1] = a[1] + y[1] /\ a[2] + x[2] = a[2] + y[2] /\ a[3] + x[3] = a[3] + y[3]
    BY <1>2
  <1>4. \A l, m, n \in Int : l + m = l + n => m = n
    OBVIOUS
  <1>5. x[1] = y[1] /\ x[2] = y[2] /\ x[3] = y[3]
    <2>1. /\ x[1] \in Int /\ x[2] \in Int /\ x[3] \in Int /\ y[1] \in Int /\ y[2] \in Int
          /\ y[3] \in Int /\ a[1] \in Int /\ a[2] \in Int /\ a[3] \in Int
      BY <1>1
    <2> QED
      BY <1>3, <1>4, <2>1
  <1> QED
    BY <1>1, <1>5

\* A port moved on is another port, and no two become one.
LEMMA PortsMove ==
    ASSUME NEW at \in Lattice, NEW p \in Ports
    PROVE  /\ MovedOn(p, at) \in Ports /\ MovedOn(p, at).cell = Plus(at, p.cell)
           /\ MovedOn(p, at).face = p.face /\ MovedOn(p, at).clip = p.clip
           /\ \A q \in Ports : MovedOn(p, at) = MovedOn(q, at) => p = q
  <1>1. p.cell \in Lattice /\ p.face \in 0 .. 3 /\ p.clip \in RouteClips
    BY PortParts
  <1>2. /\ MovedOn(p, at).cell = Plus(at, p.cell) /\ MovedOn(p, at).face = p.face
        /\ MovedOn(p, at).clip = p.clip
    BY DEF MovedOn
  <1>3. Plus(at, p.cell) \in Lattice
    BY <1>1, VectorSums
  <1>4. MovedOn(p, at) \in Ports
    BY <1>1, <1>3, PortParts DEF MovedOn
  <1>5. ASSUME NEW q \in Ports, MovedOn(p, at) = MovedOn(q, at) PROVE p = q
    <2>1. /\ MovedOn(q, at).cell = Plus(at, q.cell) /\ MovedOn(q, at).face = q.face
          /\ MovedOn(q, at).clip = q.clip
      BY DEF MovedOn
    <2>2. Plus(at, p.cell) = Plus(at, q.cell) /\ p.face = q.face /\ p.clip = q.clip
      BY <1>2, <1>5, <2>1
    <2>3. p.cell = q.cell
      <3>1. p.cell \in Lattice /\ q.cell \in Lattice
        BY PortParts
      <3> QED
        BY <2>2, <3>1, SumsCancel
    <2> QED
      BY <2>2, <2>3, PortParts
  <1> QED
    BY <1>2, <1>4, <1>5

\* c stands where its cells say, and its ways out are ports of it.
Stood(c) == c.foot = StoodOn(c) /\ c.exits \subseteq PortsAt(c)

\* c was put behind a way out of a: a port of c, no way out of it, meets that one.
Continued(a, c) ==
    \E p \in a.exits, q \in PortsAt(c) :
        q \notin c.exits /\ Meets(q, p) /\ q.cell = LeadsTo(p)

ClipFollows(r, i, c) ==
    /\ Stood(c) /\ Continued(r[i].node, c)
    /\ Catalogue[c.block].way = "Finish" <=> i >= clipRequest.length
    /\ IF Catalogue[c.block].way = "Finish" THEN c.exits = {}
       ELSE /\ c.exits # {} /\ OneOf(c.exits) \in c.exits
            /\ Catalogue[c.block].directional => ArrowFollows(c)
    /\ \A j \in 1 .. i : c.foot \cap r[j].node.foot = {}

ClipRouteInv(r) ==
    /\ r \in Seq(ClipSteps)
    /\ \A i \in 1 .. Len(r) : \A c \in r[i].rest : ClipFollows(r, i, c)
    /\ \A i \in 1 .. Len(r) - 1 : ClipFollows(r, i, r[i + 1].node)
    /\ Len(r) > 0 => Stood(r[1].node)

ClipTaken == IF ClipClosed THEN clipUsed \cup ClipTop.node.foot ELSE clipUsed
ClipAsked == clipRequest.pool \subseteq DOMAIN Catalogue /\ clipRequest.length \in Int
ClipProgress ==
    /\ clipState \in {"idle", "refused", "ready", "walking", "closed", "dead"}
    /\ clipState \notin {"walking", "closed"} => clipRoute = << >> /\ clipUsed = {}
    /\ clipState = "walking" => Len(clipRoute) > 0
    /\ clipState = "closed" => Len(clipRoute) > 1 /\ Len(clipRoute) - 1 >= clipRequest.length
ClipInv == ClipAsked /\ ClipRouteInv(clipRoute) /\ ClipProgress /\ Kept(FeetOf(clipRoute), ClipTaken)

LEMMA OneIn ==
    ASSUME NEW S, IsFiniteSet(S), Cardinality(S) = 1
    PROVE  S # {} /\ OneOf(S) \in S
  <1>1. S # {}
    BY FS_EmptySet
  <1> QED
    BY <1>1 DEF OneOf

LEMMA UsableParts ==
    ASSUME NEW pool, pool \subseteq DOMAIN Catalogue, NEW way, NEW n, NEW o \in Usable(pool, way, n)
    PROVE  \E b \in DOMAIN Catalogue, d \in 0 .. 3 :
               o = Oriented(b, d) /\ Catalogue[b].way = way /\ Cardinality(o.ports) = n
  <1>1. PICK b \in pool, d \in 0 .. 3 : o = Oriented(b, d)
    BY DEF Usable, Orientations
  <1>2. o.block = b
    BY <1>1, OrientedTyped
  <1> QED
    BY <1>1, <1>2 DEF Usable

LEMMA PoolParts ==
    ASSUME ClipAsked, NEW i \in Nat, NEW o \in ClipPool(i)
    PROVE  \E b \in DOMAIN Catalogue, d \in 0 .. 3 :
               /\ o = Oriented(b, d)
               /\ Catalogue[b].way = "Finish" <=> i >= clipRequest.length
  <1>1. clipRequest.pool \subseteq DOMAIN Catalogue /\ clipRequest.length \in Int
    BY DEF ClipAsked
  <1>2. CASE i >= clipRequest.length
    <2>1. o \in Usable(clipRequest.pool, "Finish", 1)
      BY <1>1, <1>2, SMTT(30) DEF ClipPool, ClipFinishes
    <2> QED
      BY <1>1, <1>2, <2>1, UsableParts
  <1>3. CASE ~(i >= clipRequest.length)
    <2>1. o \in Usable(clipRequest.pool, "Checkpoint", 2) \/ o \in Usable(clipRequest.pool, "None", 2)
      BY <1>3 DEF ClipPool
    <2> QED
      BY <1>1, <1>3, <2>1, UsableParts
  <1> QED
    BY <1>2, <1>3

\* A block joined to an open port.
LEMMA JoinParts ==
    ASSUME NEW b \in DOMAIN Catalogue, NEW d \in 0 .. 3, NEW open \in Ports,
           NEW c \in Joins(Oriented(b, d), open), InBounds(c.foot)
    PROVE  /\ c \in ClipNodes /\ Stood(c) /\ IsFiniteSet(c.exits) /\ c.block = b
           /\ \E q \in PortsAt(c) : q \notin c.exits /\ Meets(q, open) /\ q.cell = LeadsTo(open)
  <1>1. PICK o : o = Oriented(b, d)
    OBVIOUS
  <1>2. /\ o.block = b /\ o.rot = d /\ o.cells \subseteq Lattice /\ o.ports \subseteq Ports
        /\ IsFiniteSet(o.ports) /\ \A p \in o.ports : p.cell \in o.cells
    BY <1>1, OrientedTyped
  <1>3. PICK e \in o.ports :
          /\ Meets(e, open)
          /\ c = [block |-> o.block, rot |-> o.rot, at |-> Minus(LeadsTo(open), e.cell),
                  foot |-> {Plus(Minus(LeadsTo(open), e.cell), x) : x \in o.cells},
                  exits |-> {MovedOn(p, Minus(LeadsTo(open), e.cell)) : p \in o.ports \ {e}}]
    BY <1>1 DEF Joins
  <1>4. PICK at : at = Minus(LeadsTo(open), e.cell)
    OBVIOUS
  <1>5. PICK f : f = {Plus(at, x) : x \in o.cells}
    OBVIOUS
  <1>6. PICK x : x = {MovedOn(p, at) : p \in o.ports \ {e}}
    OBVIOUS
  <1>7. c = [block |-> b, rot |-> d, at |-> at, foot |-> f, exits |-> x]
    BY <1>2, <1>3, <1>4, <1>5, <1>6
  <1>8. e \in Ports /\ e.cell \in Lattice /\ e.cell \in o.cells
    BY <1>2, PortParts
  <1>9. LeadsTo(open) \in Lattice
    <2>1. open.cell \in Lattice /\ open.face \in 0 .. 3
      BY PortParts
    <2>2. FaceDeltas[open.face] \in Lattice
      BY <2>1, Facing
    <2> QED
      BY <2>1, <2>2, VectorSums DEF LeadsTo
  <1>10. at \in Lattice
    BY <1>4, <1>8, <1>9, VectorSums
  <1>11. f \subseteq Lattice
    BY <1>2, <1>5, <1>10, VectorSums
  <1>12. x \subseteq Ports
    BY <1>2, <1>6, <1>10, PortsMove
  <1>13. at \in GroundCells
    <2>1. PICK v : v = Catalogue[b].ground
      OBVIOUS
    <2>2. Anchored(v)
      BY <2>1, GridAssumption
    <2>3. o.cells = {RotateOffset(u, d, v.size) : u \in v.units}
      BY <1>1, <2>1 DEF Oriented
    <2>4. f = Laid(v, at, d)
      BY <1>5, <2>3 DEF Laid
    <2>5. v.units # {}
      BY <1>8, <2>3
    <2>6. InBounds(f)
      BY <1>7
    <2> QED
      BY <1>10, <2>2, <2>4, <2>5, <2>6, LaidFrom
  <1>14. c \in ClipNodes /\ c.block = b /\ c.rot = d /\ c.at = at /\ c.foot = f /\ c.exits = x
    BY <1>7, <1>11, <1>12, <1>13 DEF ClipNodes
  <1>15. PortsAt(c) = {MovedOn(p, at) : p \in o.ports}
    BY <1>1, <1>14 DEF PortsAt
  <1>16. x \subseteq PortsAt(c)
    BY <1>6, <1>15
  <1>17. Stood(c)
    BY <1>1, <1>5, <1>14, <1>16 DEF Stood, StoodOn
  <1>18. IsFiniteSet(x)
    <2>1. IsFiniteSet(o.ports \ {e})
      <3>1. o.ports \ {e} \in SUBSET o.ports
        OBVIOUS
      <3> QED
        BY <1>2, <3>1, FS_Subset
    <2> DEFINE g == [p \in o.ports \ {e} |-> MovedOn(p, at)]
    <2>2. g \in [o.ports \ {e} -> x] /\ \A y \in x : \E p \in o.ports \ {e} : g[p] = y
      BY <1>6
    <2>3. g \in Surjection(o.ports \ {e}, x)
      BY <2>2 DEF Surjection
    <2> QED
      BY <2>1, <2>3, FS_Surjection
  <1>19. PICK q : q = MovedOn(e, at)
    OBVIOUS
  <1>20. q \in PortsAt(c) /\ q.cell = Plus(at, e.cell) /\ q.face = e.face /\ q.clip = e.clip
    BY <1>8, <1>10, <1>15, <1>19, PortsMove
  <1>21. q \notin x
    <2> SUFFICES ASSUME NEW p \in o.ports \ {e}, q = MovedOn(p, at) PROVE FALSE
      BY <1>6
    <2>1. p \in Ports
      BY <1>2
    <2> QED
      BY <1>8, <1>10, <1>19, <2>1, PortsMove
  <1>22. q.cell = LeadsTo(open)
    <2>1. PICK l \in Lattice : l = LeadsTo(open)
      BY <1>9
    <2>2. PICK k \in Lattice : k = e.cell
      BY <1>8
    <2>3. /\ l = <<l[1], l[2], l[3]>> /\ l[1] \in Int /\ l[2] \in Int /\ l[3] \in Int
          /\ k[1] \in Int /\ k[2] \in Int /\ k[3] \in Int
      BY CellParts
    <2>4. Plus(Minus(l, k), k) = l
      BY <2>3 DEF Plus, Minus
    <2> QED
      BY <1>4, <1>20, <2>1, <2>2, <2>4
  <1>23. Meets(q, open)
    BY <1>3, <1>20 DEF Meets
  <1> QED
    BY <1>14, <1>17, <1>18, <1>20, <1>21, <1>22, <1>23

LEMMA TrialsFollow ==
    ASSUME ClipAsked, NEW r, NEW i \in Nat, r[i].node \in ClipNodes, NEW open \in r[i].node.exits,
           NEW used, \A j \in 1 .. i : r[j].node.foot \subseteq used,
           NEW c \in Trials(open, i, used)
    PROVE  c \in ClipNodes /\ ClipFollows(r, i, c)
  <1>1. PICK o \in ClipPool(i) : c \in Joins(o, open)
    BY DEF Trials
  <1>2. /\ InBounds(c.foot) /\ c.foot \cap used = {}
        /\ IF Catalogue[c.block].way = "Finish" THEN c.exits = {}
           ELSE /\ Cardinality(c.exits) = 1
                /\ Catalogue[c.block].directional => ArrowFollows(c)
    BY DEF Trials, Fits
  <1>3. PICK b \in DOMAIN Catalogue, d \in 0 .. 3 :
          o = Oriented(b, d) /\ (Catalogue[b].way = "Finish" <=> i >= clipRequest.length)
    BY PoolParts
  <1>4. open \in Ports
    BY DEF ClipNodes
  <1>5. /\ c \in ClipNodes /\ Stood(c) /\ IsFiniteSet(c.exits) /\ c.block = b
        /\ \E q \in PortsAt(c) : q \notin c.exits /\ Meets(q, open) /\ q.cell = LeadsTo(open)
    BY <1>1, <1>2, <1>3, <1>4, JoinParts
  <1>6. Continued(r[i].node, c)
    BY <1>5 DEF Continued
  <1>7. Catalogue[c.block].way # "Finish" => c.exits # {} /\ OneOf(c.exits) \in c.exits
    BY <1>2, <1>5, OneIn
  <1>8. \A j \in 1 .. i : c.foot \cap r[j].node.foot = {}
    BY <1>2
  <1> QED
    BY <1>2, <1>3, <1>5, <1>6, <1>7, <1>8 DEF ClipFollows

LEMMA ClipStepsFooted ==
    /\ Footed(ClipSteps)
    /\ \A s \in ClipSteps : s.node \in ClipNodes /\ s.rest \subseteq ClipNodes
  BY DEF Footed, ClipSteps, ClipNodes

LEMMA SamePrefixClip ==
    ASSUME NEW r, NEW q, NEW i \in Nat, i > 0, \A j \in 1 .. i : r[j].node = q[j].node,
           NEW c, ClipFollows(r, i, c)
    PROVE  ClipFollows(q, i, c)
  <1>1. i \in 1 .. i
    OBVIOUS
  <1>2. Continued(q[i].node, c)
    BY <1>1 DEF ClipFollows
  <1>3. \A j \in 1 .. i : c.foot \cap q[j].node.foot = {}
    BY DEF ClipFollows
  <1> QED
    BY <1>2, <1>3 DEF ClipFollows

LEMMA SameClipRequest ==
    ASSUME UNCHANGED clipRequest, NEW q, ClipRouteInv(q), clipRoute' = q
    PROVE  ClipRouteInv(clipRoute)'
  <1>1. \A i, c : ClipFollows(q, i, c) => ClipFollows(clipRoute, i, c)'
    BY DEF ClipFollows
  <1> QED
    BY <1>1 DEF ClipRouteInv

LEMMA ClipOnTop ==
    ASSUME NEW r, ClipRouteInv(r), NEW n \in Nat, n = Len(r), n > 0,
           NEW q \in Seq(ClipSteps), Len(q) = n + 1,
           \A i \in 1 .. n : q[i].node = r[i].node /\ q[i].rest \subseteq r[i].rest,
           ClipFollows(r, n, q[n + 1].node),
           \A c \in q[n + 1].rest : ClipFollows(q, n + 1, c)
    PROVE  ClipRouteInv(q)
  <1>1. ASSUME NEW i \in 1 .. n, NEW c, ClipFollows(r, i, c)
        PROVE  ClipFollows(q, i, c)
    <2>1. i \in Nat /\ i > 0 /\ \A j \in 1 .. i : r[j].node = q[j].node
      OBVIOUS
    <2> QED
      BY <1>1, <2>1, SamePrefixClip
  <1>2. ASSUME NEW i \in 1 .. n + 1, NEW c \in q[i].rest
        PROVE  ClipFollows(q, i, c)
    <2>1. CASE i \in 1 .. n
      BY <1>1, <1>2, <2>1 DEF ClipRouteInv
    <2>2. CASE i = n + 1
      BY <1>2, <2>2
    <2> QED
      BY <2>1, <2>2
  <1>3. ASSUME NEW i \in 1 .. n
        PROVE  ClipFollows(q, i, q[i + 1].node)
    <2>1. CASE i \in 1 .. n - 1
      <3>1. ClipFollows(r, i, r[i + 1].node) /\ i + 1 \in 1 .. n
        BY <2>1 DEF ClipRouteInv
      <3> QED
        BY <1>1, <3>1
    <2>2. CASE i = n
      BY <1>1, <2>2
    <2> QED
      BY <2>1, <2>2
  <1>4. Stood(q[1].node)
    BY DEF ClipRouteInv
  <1> QED
    BY <1>2, <1>3, <1>4 DEF ClipRouteInv

LEMMA ClipBelow ==
    ASSUME NEW r, ClipRouteInv(r), NEW n \in Nat, n = Len(r), n > 1
    PROVE  ClipRouteInv(SubSeq(r, 1, n - 1))
  <1>1. PICK q : q = SubSeq(r, 1, n - 1)
    OBVIOUS
  <1>2. q \in Seq(ClipSteps) /\ Len(q) = n - 1 /\ \A i \in 1 .. n - 1 : q[i] = r[i]
    BY <1>1 DEF ClipRouteInv
  <1>3. ASSUME NEW i \in 1 .. n - 1, NEW c, ClipFollows(r, i, c)
        PROVE  ClipFollows(q, i, c)
    <2>1. i \in Nat /\ i > 0 /\ \A j \in 1 .. i : r[j].node = q[j].node
      BY <1>2
    <2> QED
      BY <1>3, <2>1, SamePrefixClip
  <1>4. \A i \in 1 .. n - 1 : \A c \in q[i].rest : ClipFollows(q, i, c)
    BY <1>2, <1>3 DEF ClipRouteInv
  <1>5. ASSUME NEW i \in 1 .. n - 2 PROVE ClipFollows(q, i, q[i + 1].node)
    <2>1. ClipFollows(r, i, r[i + 1].node) /\ i + 1 \in 1 .. n - 1 /\ i \in 1 .. n - 1
      BY DEF ClipRouteInv
    <2> QED
      BY <1>2, <1>3, <2>1
  <1>6. Stood(q[1].node)
    BY <1>2 DEF ClipRouteInv
  <1>7. (n - 1) - 1 = n - 2 /\ Len(q) = n - 1
    BY <1>2
  <1> QED
    BY <1>1, <1>2, <1>4, <1>5, <1>6, <1>7 DEF ClipRouteInv

LEMMA StoodStandable ==
    ASSUME NEW c \in ClipNodes, Stood(c)
    PROVE  c.foot \in ClipStandable
  <1>1. c.block \in DOMAIN Catalogue /\ c.at \in GroundCells /\ c.rot \in 0 .. 3
    BY DEF ClipNodes
  <1>2. Oriented(c.block, c.rot) \in Orientations(DOMAIN Catalogue)
    BY <1>1 DEF Orientations
  <1> QED
    BY <1>1, <1>2 DEF Stood, StoodOn, ClipStandable

ClipStacked == ClipStack!StackNext \/ UNCHANGED <<ClipFeet, ClipTaken>>

LEMMA ClipStackMoves ==
    /\ \A f \in ClipStandable : ClipFeet = << >> /\ ClipFeet' = <<f>> /\ ClipTaken' = f => ClipStacked
    /\ \A f \in ClipStandable : ClipFeet # << >> /\ f \cap ClipTaken = {}
                                  /\ ClipFeet' = Append(ClipFeet, f)
                                  /\ ClipTaken' = ClipTaken \cup f => ClipStacked
    /\ ClipFeet' = << >> /\ ClipTaken' = {} => ClipStacked
    /\ Len(ClipFeet) > 1 /\ ClipFeet' = SubSeq(ClipFeet, 1, Len(ClipFeet) - 1)
         /\ ClipTaken' = ClipTaken \ ClipFeet[Len(ClipFeet)] => ClipStacked
  <1>1. ASSUME NEW f \in ClipStandable, ClipFeet = << >>, ClipFeet' = <<f>>, ClipTaken' = f
        PROVE ClipStacked
    <2>1. ClipStack!Start(f)
      BY <1>1 DEF ClipStack!Start, ClipTaken
    <2> QED
      BY <2>1 DEF ClipStacked, ClipStack!StackNext
  <1>2. ASSUME NEW f \in ClipStandable, ClipFeet # << >>, f \cap ClipTaken = {},
               ClipFeet' = Append(ClipFeet, f), ClipTaken' = ClipTaken \cup f
        PROVE ClipStacked
    <2>1. ClipStack!Place(f)
      BY <1>2 DEF ClipStack!Place, ClipTaken
    <2> QED
      BY <2>1 DEF ClipStacked, ClipStack!StackNext
  <1>3. ASSUME ClipFeet' = << >>, ClipTaken' = {} PROVE ClipStacked
    <2>1. ClipStack!Drop
      BY <1>3 DEF ClipStack!Drop, ClipTaken
    <2> QED
      BY <2>1 DEF ClipStacked, ClipStack!StackNext
  <1>4. ASSUME Len(ClipFeet) > 1, ClipFeet' = SubSeq(ClipFeet, 1, Len(ClipFeet) - 1),
               ClipTaken' = ClipTaken \ ClipFeet[Len(ClipFeet)]
        PROVE ClipStacked
    <2>1. ClipStack!Undo
      BY <1>4 DEF ClipStack!Undo, ClipTaken
    <2> QED
      BY <2>1 DEF ClipStacked, ClipStack!StackNext
  <1> QED
    BY <1>1, <1>2, <1>3, <1>4

LEMMA ClipFailing ==
    ASSUME ClipInv, ClipDead, UNCHANGED clipRequest
    PROVE  ClipInv' /\ ClipStacked
  <1>1. clipRoute' = << >> /\ clipUsed' = {} /\ clipState' = "dead"
    BY DEF ClipDead
  <1>2. ClipRouteInv(clipRoute)'
    BY <1>1 DEF ClipRouteInv
  <1>3. FeetOf(clipRoute') = << >> /\ ClipTaken' = {} /\ ClipFeet' = << >>
    BY <1>1 DEF FeetOf, ClipTaken, ClipClosed, ClipFeet, ClipBlocks
  <1>4. Kept(FeetOf(clipRoute), ClipTaken)'
    BY <1>3, KeptNone
  <1>5. ClipProgress' /\ ClipAsked'
    BY <1>1 DEF ClipProgress, ClipInv, ClipAsked
  <1> QED
    BY <1>2, <1>3, <1>4, <1>5, ClipStackMoves DEF ClipInv

LEMMA ClipBeginning ==
    ASSUME ClipInv, BeginClip
    PROVE  ClipInv' /\ ClipStacked
  <1>1. /\ UNCHANGED <<clipRoute, clipUsed>> /\ clipState = "idle"
        /\ clipState' \in {"refused", "ready"} /\ clipRequest' \in ClipRequests
    BY DEF BeginClip
  <1>2. clipRoute = << >> /\ clipUsed = {}
    BY <1>1 DEF ClipInv, ClipProgress
  <1>3. ClipAsked'
    BY <1>1, ClipAssumption DEF ClipAsked
  <1>4. ClipRouteInv(clipRoute)' /\ ClipProgress'
    BY <1>1, <1>2 DEF ClipRouteInv, ClipProgress
  <1>5. FeetOf(clipRoute') = << >> /\ ClipTaken' = {} /\ ClipFeet' = << >>
    BY <1>1, <1>2 DEF FeetOf, ClipTaken, ClipClosed, ClipFeet, ClipBlocks
  <1>6. Kept(FeetOf(clipRoute), ClipTaken)'
    BY <1>5, KeptNone
  <1> QED
    BY <1>3, <1>4, <1>5, <1>6, ClipStackMoves DEF ClipInv

LEMMA ClipStarting ==
    ASSUME ClipInv, PlaceStart
    PROVE  ClipInv' /\ ClipStacked
  <1>1. PICK o \in ClipStarts(clipRequest.pool) :
          LET foot == {Plus(Origin, c) : c \in o.cells}
              open == MovedOn(OneOf(o.ports), Origin)
          IN  /\ clipRoute' = <<[node |-> [block |-> o.block, rot |-> o.rot, at |-> Origin,
                                           foot |-> foot, exits |-> {open}],
                                 rest |-> Trials(open, 1, foot)]>>
              /\ clipUsed' = foot
    BY DEF PlaceStart
  <1>2. UNCHANGED clipRequest /\ clipState = "ready" /\ clipState' = "walking"
    BY DEF PlaceStart
  <1>3. ClipAsked /\ clipRoute = << >>
    BY <1>2 DEF ClipInv, ClipProgress
  <1>4. PICK foot : foot = {Plus(Origin, c) : c \in o.cells}
    OBVIOUS
  <1>5. PICK open : open = MovedOn(OneOf(o.ports), Origin)
    OBVIOUS
  <1>6. PICK node : node = [block |-> o.block, rot |-> o.rot, at |-> Origin, foot |-> foot,
                            exits |-> {open}]
    OBVIOUS
  <1>7. PICK rest : rest = Trials(open, 1, foot)
    OBVIOUS
  <1>8. clipRoute' = <<[node |-> node, rest |-> rest]>> /\ clipUsed' = foot
    BY <1>1, <1>4, <1>5, <1>6, <1>7
  <1>9. PICK b \in DOMAIN Catalogue, d \in 0 .. 3 :
          o = Oriented(b, d) /\ Cardinality(o.ports) = 1
    BY <1>3, UsableParts DEF ClipStarts, ClipAsked
  <1>10. /\ o.block = b /\ o.rot = d /\ o.cells \subseteq Lattice /\ o.ports \subseteq Ports
         /\ IsFiniteSet(o.ports)
    BY <1>9, OrientedTyped
  <1>11. OneOf(o.ports) \in o.ports
    BY <1>9, <1>10, OneIn
  <1>12. Origin \in GroundCells /\ Origin \in Lattice
    BY OriginOnGround
  <1>13. open \in Ports
    <2>1. OneOf(o.ports) \in Ports
      BY <1>10, <1>11
    <2> QED
      BY <1>5, <1>12, <2>1, PortsMove
  <1>14. foot \subseteq Lattice
    BY <1>4, <1>10, <1>12, VectorSums
  <1>15. /\ node \in ClipNodes /\ node.block = b /\ node.rot = d /\ node.at = Origin
         /\ node.foot = foot /\ node.exits = {open}
    <2>1. {open} \subseteq Ports
      BY <1>13
    <2> QED
      BY <1>6, <1>10, <1>12, <1>14, <2>1 DEF ClipNodes
  <1>16. Stood(node)
    <2>1. open \in PortsAt(node)
      BY <1>5, <1>9, <1>11, <1>15 DEF PortsAt
    <2>2. foot = StoodOn(node)
      BY <1>4, <1>9, <1>15 DEF StoodOn
    <2> QED
      BY <1>15, <2>1, <2>2 DEF Stood
  <1>17. PICK p : p = <<[node |-> node, rest |-> {}]>>
    OBVIOUS
  <1>18. p[1].node = node
    BY <1>17
  <1>19. ASSUME NEW c \in rest PROVE c \in ClipNodes /\ ClipFollows(p, 1, c)
    <2>1. \A j \in 1 .. 1 : p[j].node.foot \subseteq foot
      BY <1>15, <1>18
    <2>2. p[1].node \in ClipNodes /\ open \in p[1].node.exits /\ 1 \in Nat /\ c \in Trials(open, 1, foot)
      BY <1>7, <1>15, <1>18
    <2> QED
      BY <1>3, <2>1, <2>2, TrialsFollow
  <1>20. PICK q : q = <<[node |-> node, rest |-> rest]>>
    OBVIOUS
  <1>21. q \in Seq(ClipSteps) /\ Len(q) = 1 /\ q[1].node = node /\ q[1].rest = rest
    <2>1. rest \in SUBSET ClipNodes
      BY <1>19
    <2>2. [node |-> node, rest |-> rest] \in ClipSteps
      BY <1>15, <2>1 DEF ClipSteps
    <2> QED
      BY <1>20, <2>2
  <1>22. \A c \in rest : ClipFollows(q, 1, c)
    <2>1. \A j \in 1 .. 1 : p[j].node = q[j].node
      BY <1>18, <1>21
    <2> QED
      BY <1>19, <2>1, SamePrefixClip
  <1>23. ClipRouteInv(q)
    <2>1. \A i \in 1 .. 1 : i = 1
      OBVIOUS
    <2>2. 1 .. Len(q) - 1 = {}
      BY <1>21
    <2> QED
      BY <1>16, <1>21, <1>22, <2>1, <2>2 DEF ClipRouteInv
  <1>24. ClipRouteInv(clipRoute)'
    BY <1>2, <1>8, <1>20, <1>23, SameClipRequest
  <1>25. FeetOf(q) = <<foot>>
    <2>1. FeetOf(q) \in Seq(SUBSET Lattice) /\ Len(FeetOf(q)) = 1 /\ FeetOf(q)[1] = foot
      BY <1>15, <1>21, ClipStepsFooted, FeetAre
    <2> QED
      BY <2>1
  <1>26. FeetOf(clipRoute)' = <<foot>> /\ ClipFeet' = <<foot>> /\ ClipTaken' = foot /\ ClipFeet = << >>
    <2>1. ClipTaken' = foot
      BY <1>2, <1>8 DEF ClipTaken, ClipClosed
    <2>2. clipRoute' = q /\ FeetOf(q) = <<foot>>
      BY <1>8, <1>20, <1>25
    <2>3. FeetOf(clipRoute)' = <<foot>>
      BY <2>2 DEF FeetOf
    <2>4. ClipFeet' = FeetOf(clipRoute)'
      BY DEF ClipFeet, ClipBlocks, FeetOf
    <2>5. ClipFeet = << >>
      BY <1>3 DEF ClipFeet, ClipBlocks
    <2> QED
      BY <2>1, <2>3, <2>4, <2>5
  <1>27. Kept(FeetOf(clipRoute), ClipTaken)'
    BY <1>26, KeptAlone DEF Kept
  <1>28. ClipProgress' /\ ClipAsked'
    <2>1. Len(clipRoute') = 1
      BY <1>8, <1>20, <1>21
    <2> QED
      BY <1>2, <1>3, <2>1 DEF ClipProgress, ClipAsked
  <1>29. foot \in ClipStandable
    BY <1>15, <1>16, StoodStandable
  <1> QED
    BY <1>24, <1>26, <1>27, <1>28, <1>29, ClipStackMoves DEF ClipInv

ClipWithOne(c, rest) == Append(ClipLess(c), [node |-> c, rest |-> rest])

\* The moves that may be tried, and the route with one placement more.
LEMMA ClipExtended ==
    ASSUME ClipInv, clipState = "walking", NEW c \in ClipTop.rest, NEW rest \in SUBSET ClipNodes
    PROVE  /\ c \in ClipNodes /\ ClipFollows(clipRoute, Len(clipRoute), c)
           /\ ClipWithOne(c, rest) \in Seq(ClipSteps)
           /\ Len(ClipWithOne(c, rest)) = Len(clipRoute) + 1
           /\ ClipWithOne(c, rest)[Len(clipRoute) + 1].node = c
           /\ ClipWithOne(c, rest)[Len(clipRoute) + 1].rest = rest
           /\ \A i \in 1 .. Len(clipRoute) :
                 /\ ClipWithOne(c, rest)[i].node = clipRoute[i].node
                 /\ ClipWithOne(c, rest)[i].rest \subseteq clipRoute[i].rest
  <1>1. PICK n \in Nat : n = Len(clipRoute)
    BY DEF ClipInv, ClipRouteInv
  <1>2. n > 0 /\ clipRoute \in Seq(ClipSteps) /\ n \in 1 .. n
    BY <1>1 DEF ClipInv, ClipRouteInv, ClipProgress
  <1>3. ClipTop = clipRoute[n]
    BY <1>1 DEF ClipTop, Last
  <1>4. \A i \in 1 .. n : clipRoute[i] \in ClipSteps
    BY <1>1, <1>2
  <1>5. c \in ClipNodes
    BY <1>2, <1>3, <1>4, ClipStepsFooted
  <1>6. ClipFollows(clipRoute, n, c)
    BY <1>1, <1>2, <1>3 DEF ClipInv, ClipRouteInv
  <1>7. PICK t : t = clipRoute[n]
    OBVIOUS
  <1>8. t \in ClipSteps
    BY <1>2, <1>4, <1>7
  <1>9. PICK u : u = [t EXCEPT !.rest = @ \ {c}]
    OBVIOUS
  <1>10. u \in ClipSteps /\ u.node = t.node /\ u.rest \subseteq t.rest
    BY <1>8, <1>9 DEF ClipSteps
  <1>11. PICK p : p = ClipLess(c)
    OBVIOUS
  <1>12. p = [clipRoute EXCEPT ![n] = u]
    BY <1>1, <1>7, <1>9, <1>11 DEF ClipLess
  <1>13. p \in Seq(ClipSteps) /\ Len(p) = n
    BY <1>1, <1>2, <1>10, <1>12
  <1>14. ASSUME NEW i \in 1 .. n
         PROVE  p[i].node = clipRoute[i].node /\ p[i].rest \subseteq clipRoute[i].rest
    <2>1. CASE i = n
      BY <1>1, <1>2, <1>7, <1>10, <1>12, <2>1
    <2>2. CASE i # n
      BY <1>1, <1>2, <1>12, <2>2
    <2> QED
      BY <2>1, <2>2
  <1>15. PICK s : s = [node |-> c, rest |-> rest]
    OBVIOUS
  <1>16. s \in ClipSteps /\ s.node = c /\ s.rest = rest
    BY <1>5, <1>15 DEF ClipSteps
  <1>17. ClipWithOne(c, rest) = Append(p, s)
    BY <1>11, <1>15 DEF ClipWithOne
  <1>18. /\ Append(p, s) \in Seq(ClipSteps) /\ Len(Append(p, s)) = n + 1
         /\ Append(p, s)[n + 1] = s /\ \A i \in 1 .. n : Append(p, s)[i] = p[i]
    <2>1. p \in Seq(ClipSteps) /\ s \in ClipSteps
      BY <1>13, <1>16
    <2>2. /\ Append(p, s) \in Seq(ClipSteps) /\ Len(Append(p, s)) = Len(p) + 1
          /\ Append(p, s)[Len(p) + 1] = s
          /\ \A i \in 1 .. Len(p) : Append(p, s)[i] = p[i]
      BY <2>1, Pushed
    <2> QED
      BY <1>13, <2>2
  <1> QED
    BY <1>1, <1>5, <1>6, <1>14, <1>16, <1>17, <1>18

LEMMA ClipGround ==
    ASSUME ClipInv, clipState = "walking"
    PROVE  /\ Kept(FeetOf(clipRoute), clipUsed) /\ ClipTaken = clipUsed
           /\ ClipFeet = FeetOf(clipRoute) /\ clipRoute \in Seq(ClipSteps)
           /\ \A j \in 1 .. Len(clipRoute) : clipRoute[j].node.foot \subseteq clipUsed
  <1>1. /\ clipRoute \in Seq(ClipSteps) /\ Kept(FeetOf(clipRoute), clipUsed)
        /\ ClipTaken = clipUsed
    BY DEF ClipInv, ClipRouteInv, ClipTaken, ClipClosed
  <1>2. clipUsed = UNION {FeetOf(clipRoute)[i] : i \in DOMAIN FeetOf(clipRoute)}
    BY <1>1 DEF Kept
  <1>3. \A i \in 1 .. Len(clipRoute) :
           i \in DOMAIN FeetOf(clipRoute) /\ FeetOf(clipRoute)[i] = clipRoute[i].node.foot
    BY <1>1, ClipStepsFooted, FeetAre
  <1>4. ClipFeet = FeetOf(clipRoute)
    BY DEF ClipFeet, ClipBlocks, FeetOf
  <1> QED
    BY <1>1, <1>2, <1>3, <1>4

LEMMA ClipGroundOnTop ==
    ASSUME ClipInv, clipState = "walking", NEW c, c \in ClipNodes,
           ClipFollows(clipRoute, Len(clipRoute), c),
           NEW q \in Seq(ClipSteps), Len(q) = Len(clipRoute) + 1, q[Len(clipRoute) + 1].node = c,
           \A i \in 1 .. Len(clipRoute) : q[i].node = clipRoute[i].node,
           clipRoute' = q, ClipTaken' = clipUsed \cup c.foot
    PROVE  Kept(FeetOf(clipRoute), ClipTaken)' /\ ClipStacked
  <1>1. PICK a : a = FeetOf(clipRoute)
    OBVIOUS
  <1>2. /\ clipRoute \in Seq(ClipSteps) /\ Len(clipRoute) > 0 /\ Len(clipRoute) \in Nat
        /\ Kept(a, clipUsed) /\ ClipTaken = clipUsed /\ ClipFeet = a
    BY <1>1, ClipGround DEF ClipInv, ClipProgress
  <1>3. FeetOf(q) = Append(a, c.foot)
    BY <1>1, <1>2, ClipStepsFooted, FeetOnTop
  <1>4. c.foot \in ClipStandable /\ c.foot \subseteq Lattice
    BY StoodStandable DEF ClipFollows, ClipNodes
  <1>5. /\ a \in Seq(SUBSET Lattice) /\ Len(a) > 0
        /\ \A i \in DOMAIN a : i \in 1 .. Len(clipRoute) /\ a[i] = clipRoute[i].node.foot
    BY <1>1, <1>2, ClipStepsFooted, FeetAre
  <1>6. c.foot \cap clipUsed = {}
    <2>1. clipUsed = UNION {a[i] : i \in DOMAIN a}
      BY <1>2 DEF Kept
    <2>2. \A j \in 1 .. Len(clipRoute) : c.foot \cap clipRoute[j].node.foot = {}
      BY DEF ClipFollows
    <2>3. ASSUME NEW x \in clipUsed PROVE x \notin c.foot
      <3>1. PICK i \in DOMAIN a : x \in a[i]
        BY <2>1
      <3> QED
        BY <1>5, <2>2, <3>1
    <2> QED
      BY <2>3
  <1>7. Kept(Append(a, c.foot), clipUsed \cup c.foot)
    <2>1. PICK S : S = SUBSET Lattice
      OBVIOUS
    <2>2. a \in Seq(S) /\ c.foot \in S
      BY <1>4, <1>5, <2>1
    <2> QED
      BY <1>2, <1>6, <2>2, KeptOnTop
  <1>8. FeetOf(clipRoute)' = Append(a, c.foot) /\ ClipTaken' = clipUsed \cup c.foot
    BY <1>3 DEF FeetOf
  <1>9. Kept(FeetOf(clipRoute), ClipTaken)'
    BY <1>7, <1>8 DEF Kept
  <1>10. ClipFeet' = FeetOf(clipRoute)'
    BY DEF ClipFeet, ClipBlocks, FeetOf
  <1>11. ClipFeet # << >>
    BY <1>2, <1>5
  <1>12. ClipStacked
    BY <1>2, <1>4, <1>6, <1>8, <1>10, <1>11, ClipStackMoves
  <1> QED
    BY <1>9, <1>12

LEMMA ClipStepping ==
    ASSUME ClipInv, ClipStep
    PROVE  ClipInv' /\ ClipStacked
  <1>1. clipState = "walking" /\ UNCHANGED clipRequest /\ Len(clipRoute) < clipRequest.length
    BY DEF ClipStep
  <1>2. PICK c \in ClipTop.rest :
          IF clipSpent + 1 > ClipExpansions THEN ClipDead
          ELSE /\ clipRoute' = ClipWithOne(c, Trials(OneOf(c.exits), Len(clipRoute) + 1,
                                                      clipUsed \cup c.foot))
               /\ clipUsed' = clipUsed \cup c.foot /\ clipState' = clipState
    BY DEF ClipStep, ClipWithOne
  <1>3. CASE clipSpent + 1 > ClipExpansions
    BY <1>1, <1>2, <1>3, ClipFailing
  <1>4. CASE ~(clipSpent + 1 > ClipExpansions)
    <2>1. PICK n \in Nat : n = Len(clipRoute) /\ n > 0
      BY <1>1 DEF ClipInv, ClipRouteInv, ClipProgress
    <2>2. PICK used : used = clipUsed \cup c.foot
      OBVIOUS
    <2>3. PICK rest : rest = Trials(OneOf(c.exits), n + 1, used)
      OBVIOUS
    <2>4. clipRoute' = ClipWithOne(c, rest) /\ clipUsed' = used /\ clipState' = "walking"
      BY <1>1, <1>2, <1>4, <2>1, <2>2, <2>3
    <2>5. PICK p : p = ClipWithOne(c, {})
      OBVIOUS
    <2>6. /\ c \in ClipNodes /\ ClipFollows(clipRoute, n, c)
          /\ p \in Seq(ClipSteps) /\ Len(p) = n + 1 /\ p[n + 1].node = c
          /\ \A i \in 1 .. n : p[i].node = clipRoute[i].node
      <3>1. {} \in SUBSET ClipNodes
        OBVIOUS
      <3> QED
        BY <1>1, <2>1, <2>5, <3>1, ClipExtended
    <2>7. OneOf(c.exits) \in c.exits
      <3>1. Catalogue[c.block].way = "Finish" <=> n >= clipRequest.length
        BY <2>6 DEF ClipFollows
      <3>2. ~(n >= clipRequest.length)
        BY <1>1, <2>1 DEF ClipInv, ClipAsked
      <3> QED
        BY <2>6, <3>1, <3>2 DEF ClipFollows
    <2>8. \A j \in 1 .. n + 1 : p[j].node.foot \subseteq used
      <3>1. \A j \in 1 .. n : clipRoute[j].node.foot \subseteq clipUsed
        BY <1>1, <2>1, ClipGround
      <3>2. \A j \in 1 .. n + 1 : j \in 1 .. n \/ j = n + 1
        BY <2>1
      <3> QED
        BY <2>2, <2>6, <3>1, <3>2
    <2>9. ASSUME NEW d \in rest PROVE d \in ClipNodes /\ ClipFollows(p, n + 1, d)
      <3>1. ClipAsked /\ n + 1 \in Nat
        BY <2>1 DEF ClipInv
      <3>2. /\ p[n + 1].node \in ClipNodes /\ OneOf(c.exits) \in p[n + 1].node.exits
            /\ d \in Trials(OneOf(c.exits), n + 1, used)
        BY <2>3, <2>6, <2>7
      <3> QED
        BY <2>8, <3>1, <3>2, TrialsFollow
    <2>10. PICK q : q = ClipWithOne(c, rest)
      OBVIOUS
    <2>11. /\ q \in Seq(ClipSteps) /\ Len(q) = n + 1 /\ q[n + 1].node = c /\ q[n + 1].rest = rest
           /\ \A i \in 1 .. n : /\ q[i].node = clipRoute[i].node
                                /\ q[i].rest \subseteq clipRoute[i].rest
      <3>1. rest \in SUBSET ClipNodes
        BY <2>9
      <3> QED
        BY <1>1, <2>1, <2>10, <3>1, ClipExtended
    <2>12. \A d \in q[n + 1].rest : ClipFollows(q, n + 1, d)
      <3>1. \A j \in 1 .. n + 1 : j \in 1 .. n \/ j = n + 1
        BY <2>1
      <3>2. \A j \in 1 .. n + 1 : p[j].node = q[j].node
        BY <2>6, <2>11, <3>1
      <3>3. n + 1 \in Nat /\ n + 1 > 0
        BY <2>1
      <3> QED
        BY <2>9, <2>11, <3>2, <3>3, SamePrefixClip
    <2>13. ClipRouteInv(q)
      <3>1. ClipRouteInv(clipRoute) /\ ClipFollows(clipRoute, n, q[n + 1].node)
        BY <2>6, <2>11 DEF ClipInv
      <3> QED
        BY <2>1, <2>11, <2>12, <3>1, ClipOnTop
    <2>14. clipRoute' = q
      BY <2>4, <2>10
    <2>15. ClipRouteInv(clipRoute)'
      BY <1>1, <2>13, <2>14, SameClipRequest
    <2>16. ClipTaken' = clipUsed \cup c.foot
      BY <2>2, <2>4 DEF ClipTaken, ClipClosed
    <2>17. Kept(FeetOf(clipRoute), ClipTaken)' /\ ClipStacked
      BY <1>1, <2>1, <2>6, <2>11, <2>14, <2>16, ClipGroundOnTop
    <2>18. ClipProgress' /\ ClipAsked'
      <3>1. Len(clipRoute') > 0
        BY <2>1, <2>11, <2>14
      <3> QED
        BY <1>1, <2>4, <3>1 DEF ClipInv, ClipProgress, ClipAsked
    <2> QED
      BY <2>15, <2>17, <2>18 DEF ClipInv
  <1> QED
    BY <1>3, <1>4

LEMMA ClipClosing ==
    ASSUME ClipInv, ClipFinish
    PROVE  ClipInv' /\ ClipStacked
  <1>1. /\ clipState = "walking" /\ clipState' = "closed" /\ UNCHANGED <<clipRequest, clipUsed>>
        /\ Len(clipRoute) >= clipRequest.length
    BY DEF ClipFinish
  <1>2. PICK c \in ClipTop.rest : clipRoute' = ClipWithOne(c, {})
    BY DEF ClipFinish, ClipWithOne
  <1>3. PICK n \in Nat : n = Len(clipRoute) /\ n > 0
    BY <1>1 DEF ClipInv, ClipRouteInv, ClipProgress
  <1>4. PICK q : q = ClipWithOne(c, {})
    OBVIOUS
  <1>5. /\ c \in ClipNodes /\ ClipFollows(clipRoute, n, c)
        /\ q \in Seq(ClipSteps) /\ Len(q) = n + 1 /\ q[n + 1].node = c /\ q[n + 1].rest = {}
        /\ \A i \in 1 .. n : /\ q[i].node = clipRoute[i].node
                             /\ q[i].rest \subseteq clipRoute[i].rest
    <2>1. {} \in SUBSET ClipNodes
      OBVIOUS
    <2> QED
      BY <1>1, <1>3, <1>4, <2>1, ClipExtended
  <1>6. ClipRouteInv(q)
    <2>1. \A d \in q[n + 1].rest : ClipFollows(q, n + 1, d)
      BY <1>5
    <2>2. ClipRouteInv(clipRoute) /\ ClipFollows(clipRoute, n, q[n + 1].node)
      BY <1>5 DEF ClipInv
    <2> QED
      BY <1>3, <1>5, <2>1, <2>2, ClipOnTop
  <1>7. clipRoute' = q
    BY <1>2, <1>4
  <1>8. ClipRouteInv(clipRoute)'
    BY <1>1, <1>6, <1>7, SameClipRequest
  <1>9. ClipTaken' = clipUsed \cup c.foot
    <2>1. ClipTop' = q[n + 1]
      BY <1>5, <1>7 DEF ClipTop, Last
    <2> QED
      BY <1>1, <1>5, <2>1 DEF ClipTaken, ClipClosed
  <1>10. Kept(FeetOf(clipRoute), ClipTaken)' /\ ClipStacked
    BY <1>1, <1>3, <1>5, <1>7, <1>9, ClipGroundOnTop
  <1>11. ClipProgress' /\ ClipAsked'
    <2>1. Len(clipRoute') = n + 1 /\ (n + 1) - 1 = n /\ n + 1 > 1
      BY <1>3, <1>5, <1>7
    <2>2. Len(clipRoute') > 1 /\ Len(clipRoute') - 1 >= clipRequest'.length
      BY <1>1, <1>3, <2>1
    <2> QED
      BY <1>1, <2>2 DEF ClipInv, ClipProgress, ClipAsked
  <1> QED
    BY <1>8, <1>10, <1>11 DEF ClipInv

LEMMA ClipBacking ==
    ASSUME ClipInv, ClipBacktrack
    PROVE  ClipInv' /\ ClipStacked
  <1>1. clipState = "walking" /\ UNCHANGED clipRequest
    BY DEF ClipBacktrack
  <1>2. PICK n \in Nat : n = Len(clipRoute) /\ n > 0
    BY <1>1 DEF ClipInv, ClipRouteInv, ClipProgress
  <1>3. CASE n = 1
    BY <1>1, <1>2, <1>3, ClipFailing DEF ClipBacktrack
  <1>4. CASE n # 1
    <2>1. PICK q : q = SubSeq(clipRoute, 1, n - 1)
      OBVIOUS
    <2>2. clipRoute' = q /\ clipState' = "walking"
      BY <1>1, <1>2, <1>4, <2>1 DEF ClipBacktrack, Front
    <2>3. PICK a : a = FeetOf(clipRoute)
      OBVIOUS
    <2>4. /\ clipRoute \in Seq(ClipSteps) /\ ClipRouteInv(clipRoute) /\ n > 1
          /\ Kept(a, clipUsed) /\ ClipTaken = clipUsed /\ ClipFeet = a
      BY <1>1, <1>2, <1>4, <2>3, ClipGround DEF ClipInv
    <2>5. /\ q \in Seq(ClipSteps) /\ Len(q) = n - 1 /\ n - 1 > 0
      BY <1>2, <2>1, <2>4
    <2>6. PICK f : f = clipRoute[n].node.foot
      OBVIOUS
    <2>7. clipUsed' = clipUsed \ f
      BY <1>2, <1>4, <2>6 DEF ClipBacktrack, CellsGivenBack, ClipTop, Last
    <2>8. ClipRouteInv(clipRoute)'
      BY <1>1, <1>2, <2>1, <2>2, <2>4, ClipBelow, SameClipRequest
    <2>9. a \in Seq(SUBSET Lattice) /\ Len(a) = n /\ a[n] = f
      <3>1. n \in 1 .. n
        BY <2>4
      <3> QED
        BY <1>2, <2>3, <2>4, <2>6, <3>1, ClipStepsFooted, FeetAre
    <2>10. FeetOf(q) = SubSeq(a, 1, n - 1)
      BY <1>2, <2>1, <2>3, <2>4, ClipStepsFooted, FeetBelow
    <2>11. Kept(SubSeq(a, 1, n - 1), clipUsed \ f)
      <3>1. PICK S : S = SUBSET Lattice
        OBVIOUS
      <3>2. a \in Seq(S) /\ Len(a) = n /\ Kept(a, clipUsed)
        BY <2>4, <2>9, <3>1
      <3> QED
        BY <2>4, <2>9, <3>2, KeptBelow
    <2>12. FeetOf(clipRoute)' = SubSeq(a, 1, n - 1) /\ ClipTaken' = clipUsed \ f
      <3>1. FeetOf(clipRoute)' = FeetOf(q)
        BY <2>2 DEF FeetOf
      <3> QED
        BY <2>2, <2>7, <2>10, <3>1 DEF ClipTaken, ClipClosed
    <2>13. Kept(FeetOf(clipRoute), ClipTaken)'
      BY <2>11, <2>12 DEF Kept
    <2>14. ClipStacked
      <3>1. ClipFeet' = FeetOf(clipRoute)'
        BY DEF ClipFeet, ClipBlocks, FeetOf
      <3>2. /\ ClipFeet' = SubSeq(ClipFeet, 1, Len(ClipFeet) - 1) /\ Len(ClipFeet) > 1
            /\ ClipTaken' = ClipTaken \ ClipFeet[Len(ClipFeet)]
        BY <2>4, <2>9, <2>12, <3>1
      <3> QED
        BY <3>2, ClipStackMoves
    <2>15. ClipProgress' /\ ClipAsked'
      <3>1. Len(clipRoute') > 0
        BY <2>2, <2>5
      <3> QED
        BY <1>1, <2>2, <3>1 DEF ClipInv, ClipProgress, ClipAsked
    <2> QED
      BY <2>8, <2>13, <2>14, <2>15 DEF ClipInv
  <1> QED
    BY <1>3, <1>4

LEMMA ClipStartsWell == ClipInit => ClipInv /\ ClipStack!StackInit
  <1> SUFFICES ASSUME ClipInit PROVE ClipInv /\ ClipStack!StackInit
    OBVIOUS
  <1>1. /\ clipRoute = << >> /\ clipUsed = {} /\ clipState = "idle"
        /\ clipRequest.length = 0 /\ clipRequest.pool = {}
    BY DEF ClipInit
  <1>2. ClipAsked /\ ClipProgress /\ ClipRouteInv(clipRoute)
    BY <1>1 DEF ClipAsked, ClipProgress, ClipRouteInv
  <1>3. FeetOf(clipRoute) = << >> /\ ClipTaken = {} /\ ClipFeet = << >>
    BY <1>1 DEF FeetOf, ClipTaken, ClipClosed, ClipFeet, ClipBlocks
  <1>4. Kept(FeetOf(clipRoute), ClipTaken)
    BY <1>3, KeptNone
  <1>5. ClipStack!StackInit
    BY <1>3 DEF ClipStack!StackInit, ClipTaken
  <1> QED
    BY <1>2, <1>4, <1>5 DEF ClipInv

LEMMA ClipMoves ==
    ASSUME ClipInv, [ClipNext]_clipVars
    PROVE  ClipInv' /\ ClipStacked
  <1>1. CASE UNCHANGED clipVars
    <2>1. UNCHANGED <<clipRequest, clipState, clipRoute, clipUsed>>
      BY <1>1 DEF clipVars
    <2>2. ClipAsked' /\ ClipProgress'
      BY <2>1 DEF ClipInv, ClipAsked, ClipProgress
    <2>3. ClipRouteInv(clipRoute)'
      BY <2>1, SameClipRequest DEF ClipInv
    <2>4. FeetOf(clipRoute)' = FeetOf(clipRoute) /\ UNCHANGED ClipTaken /\ UNCHANGED ClipFeet
      BY <2>1 DEF FeetOf, ClipTaken, ClipClosed, ClipTop, Last, ClipFeet, ClipBlocks
    <2>5. Kept(FeetOf(clipRoute), ClipTaken)'
      BY <2>4 DEF ClipInv, Kept
    <2> QED
      BY <2>2, <2>3, <2>4, <2>5 DEF ClipInv, ClipStacked
  <1> QED
    BY <1>1, ClipBeginning, ClipStarting, ClipStepping, ClipClosing, ClipBacking DEF ClipNext

-----------------------------------------------------------------------------
(* What its invariant says of a route. *)

\* The cell a port leads to is one step away, along one axis.
LEMMA OneStep ==
    ASSUME NEW p \in Ports, NEW x, x = LeadsTo(p)
    PROVE  \E k \in 1 .. 3 : /\ Abs(p.cell[k] - x[k]) = 1
                             /\ \A j \in (1 .. 3) \ {k} : p.cell[j] = x[j]
  <1>1. PICK y \in Lattice : y = p.cell
    BY PortParts
  <1>2. PICK g : g = FaceDeltas[p.face]
    OBVIOUS
  <1>3. g \in {<<0, 0, 1>>, <<-1, 0, 0>>, <<0, 0, -1>>, <<1, 0, 0>>}
    <2>1. p.face \in 0 .. 3
      BY PortParts
    <2> QED
      BY <1>2, <2>1 DEF FaceDeltas
  <1>4. x = Plus(y, g)
    BY <1>1, <1>2 DEF LeadsTo
  <1>5. y[1] \in Int /\ y[2] \in Int /\ y[3] \in Int
    BY CellParts
  <1>6. x[1] = y[1] + g[1] /\ x[2] = y[2] + g[2] /\ x[3] = y[3] + g[3]
    BY <1>4 DEF Plus
  <1>7. \A j \in 1 .. 3 : j = 1 \/ j = 2 \/ j = 3
    OBVIOUS
  <1>8. CASE g[1] = 0 /\ g[2] = 0 /\ g[3] \in {1, -1}
    <2>1. x[1] = y[1] /\ x[2] = y[2]
      BY <1>5, <1>6, <1>8
    <2>2. Abs(y[3] - x[3]) = 1
      BY <1>5, <1>6, <1>8 DEF Abs
    <2> QED
      BY <1>1, <1>7, <2>1, <2>2
  <1>9. CASE g[3] = 0 /\ g[2] = 0 /\ g[1] \in {1, -1}
    <2>1. x[3] = y[3] /\ x[2] = y[2]
      BY <1>5, <1>6, <1>9
    <2>2. Abs(y[1] - x[1]) = 1
      BY <1>5, <1>6, <1>9 DEF Abs
    <2> QED
      BY <1>1, <1>7, <2>1, <2>2
  <1> QED
    BY <1>3, <1>8, <1>9

\* Arrows that follow the way out point at the next block.
LEMMA Pointing ==
    ASSUME NEW a \in ClipNodes, Stood(a), ArrowFollows(a), NEW c \in ClipNodes, Stood(c), Continued(a, c)
    PROVE  \E x \in a.foot : Plus(x, FaceDeltas[RotateFace(0, a.rot)]) \in c.foot
  <1>1. PICK p \in a.exits, q \in PortsAt(c) : q.cell = LeadsTo(p)
    BY DEF Continued
  <1>2. ASSUME NEW n \in ClipNodes, Stood(n), NEW e \in PortsAt(n)
        PROVE  e.cell \in n.foot
    <2>1. n.block \in DOMAIN Catalogue /\ n.rot \in 0 .. 3 /\ n.at \in Lattice
      BY OriginOnGround DEF ClipNodes
    <2>2. PICK o : o = Oriented(n.block, n.rot)
      OBVIOUS
    <2>3. PICK m \in o.ports : e = MovedOn(m, n.at)
      BY <2>2 DEF PortsAt
    <2>4. m \in Ports /\ m.cell \in o.cells
      BY <2>1, <2>2, <2>3, OrientedTyped
    <2>5. e.cell = Plus(n.at, m.cell)
      BY <2>1, <2>3, <2>4, PortsMove
    <2> QED
      BY <1>2, <2>2, <2>4, <2>5 DEF Stood, StoodOn
  <1>3. p \in PortsAt(a)
    BY DEF Stood
  <1>4. p.cell \in a.foot /\ q.cell \in c.foot
    BY <1>2, <1>3
  <1>5. RotateFace(0, a.rot) = p.face
    BY DEF ArrowFollows
  <1> QED
    BY <1>1, <1>4, <1>5 DEF LeadsTo

LEMMA ClipRouteSays == ClipInv => ClipRouteRuns
  <1> SUFFICES ASSUME ClipInv, ClipClosed PROVE ClipRouteRuns
    BY DEF ClipRouteRuns, ClosedEndToEnd, ArrowsPointOn
  <1>1. PICK n \in Nat : n = Len(clipRoute)
    BY DEF ClipInv, ClipRouteInv
  <1>2. /\ clipRoute \in Seq(ClipSteps) /\ DOMAIN clipRoute = 1 .. n
        /\ n > 1 /\ n - 1 >= clipRequest.length
    BY <1>1 DEF ClipInv, ClipRouteInv, ClipProgress, ClipClosed
  <1>3. /\ DOMAIN ClipBlocks = 1 .. n /\ Len(ClipBlocks) = n
        /\ \A i \in 1 .. n : ClipBlocks[i] = clipRoute[i].node /\ clipRoute[i].node \in ClipNodes
    <2>1. \A i \in 1 .. n : clipRoute[i] \in ClipSteps
      BY <1>1, <1>2
    <2>2. DOMAIN ClipBlocks = 1 .. n
      BY <1>2 DEF ClipBlocks
    <2>3. Len(ClipBlocks) = n
      BY <1>2, <2>2 DEF ClipBlocks
    <2> QED
      BY <1>2, <2>1, <2>2, <2>3, ClipStepsFooted DEF ClipBlocks
  <1>4. \A i \in 1 .. n - 1 :
           ClipFollows(clipRoute, i, clipRoute[i + 1].node) /\ i \in 1 .. n /\ i + 1 \in 1 .. n
    BY <1>1 DEF ClipInv, ClipRouteInv
  <1>5. \A i \in 1 .. n : Stood(clipRoute[i].node)
    <2>1. CASE n > 0
      <3>1. Stood(clipRoute[1].node)
        BY <1>1, <2>1 DEF ClipInv, ClipRouteInv
      <3>2. ASSUME NEW i \in 2 .. n PROVE Stood(clipRoute[i].node)
        <4>1. i - 1 \in 1 .. n - 1 /\ (i - 1) + 1 = i
          OBVIOUS
        <4> QED
          BY <1>4, <4>1 DEF ClipFollows
      <3>3. \A i \in 1 .. n : i = 1 \/ i \in 2 .. n
        OBVIOUS
      <3> QED
        BY <3>1, <3>2, <3>3
    <2> QED
      BY <1>2, <2>1
  <1>6. ClosedEndToEnd
    <2>1. Catalogue[Last(ClipBlocks).block].way = "Finish"
      <3>1. n - 1 \in 1 .. n - 1 /\ (n - 1) + 1 = n /\ n \in 1 .. n
        BY <1>2
      <3>2. ClipFollows(clipRoute, n - 1, clipRoute[n].node)
        BY <1>4, <3>1
      <3>3. Last(ClipBlocks) = clipRoute[n].node
        BY <1>3, <3>1 DEF Last
      <3> QED
        BY <1>2, <3>2, <3>3 DEF ClipFollows
    <2>2. ASSUME NEW i \in 1 .. n - 1
          PROVE  \E p \in PortsAt(ClipBlocks[i]), q \in PortsAt(ClipBlocks[i + 1]) :
                      /\ p \in ClipBlocks[i].exits /\ q \notin ClipBlocks[i + 1].exits
                      /\ p.clip = q.clip /\ q.face = OppositeFace(p.face)
                      /\ \E k \in 1 .. 3 : /\ Abs(p.cell[k] - q.cell[k]) = 1
                                           /\ \A j \in (1 .. 3) \ {k} : p.cell[j] = q.cell[j]
      <3>1. PICK a \in ClipNodes : a = ClipBlocks[i] /\ a = clipRoute[i].node
        BY <1>3, <1>4
      <3>2. PICK c \in ClipNodes : c = ClipBlocks[i + 1] /\ c = clipRoute[i + 1].node
        BY <1>3, <1>4
      <3>3. Stood(a) /\ Continued(a, c)
        BY <1>4, <1>5, <3>1, <3>2 DEF ClipFollows
      <3>4. PICK p \in a.exits, q \in PortsAt(c) :
              q \notin c.exits /\ Meets(q, p) /\ q.cell = LeadsTo(p)
        BY <3>3 DEF Continued
      <3>5. p \in PortsAt(a) /\ p \in Ports
        BY <3>3 DEF Stood, ClipNodes
      <3>6. \E k \in 1 .. 3 : /\ Abs(p.cell[k] - q.cell[k]) = 1
                              /\ \A j \in (1 .. 3) \ {k} : p.cell[j] = q.cell[j]
        BY <3>4, <3>5, OneStep
      <3>7. p.clip = q.clip /\ q.face = OppositeFace(p.face)
        BY <3>4 DEF Meets
      <3> QED
        BY <3>1, <3>2, <3>4, <3>5, <3>6, <3>7
    <2> QED
      BY <1>1, <2>1, <2>2 DEF ClosedEndToEnd
  <1>7. ArrowsPointOn
    <2> SUFFICES ASSUME NEW i \in 2 .. n - 1, Catalogue[ClipBlocks[i].block].directional
                 PROVE  \E c \in ClipBlocks[i].foot :
                          Plus(c, FaceDeltas[RotateFace(0, ClipBlocks[i].rot)])
                             \in ClipBlocks[i + 1].foot
      BY <1>1 DEF ArrowsPointOn
    <2>1. /\ i \in 1 .. n - 1 /\ i \in 1 .. n /\ i + 1 \in 1 .. n
          /\ i - 1 \in 1 .. n - 1 /\ (i - 1) + 1 = i
      OBVIOUS
    <2>2. PICK a \in ClipNodes : a = ClipBlocks[i] /\ a = clipRoute[i].node
      BY <1>3, <2>1
    <2>3. PICK c \in ClipNodes : c = ClipBlocks[i + 1] /\ c = clipRoute[i + 1].node
      BY <1>3, <2>1
    <2>4. Continued(a, c)
      BY <1>4, <2>1, <2>2, <2>3 DEF ClipFollows
    <2>5. a.exits # {}
      BY <2>4 DEF Continued
    <2>6. ClipFollows(clipRoute, i - 1, a)
      BY <1>4, <2>1, <2>2
    <2>7. ArrowFollows(a)
      BY <2>2, <2>5, <2>6 DEF ClipFollows
    <2>8. Stood(a) /\ Stood(c)
      BY <1>5, <2>1, <2>2, <2>3
    <2> QED
      BY <2>2, <2>3, <2>4, <2>7, <2>8, Pointing
  <1> QED
    BY <1>6, <1>7 DEF ClipRouteRuns

(* Whatever the catalogue, its ports and the requests: a route generate    *)
(* returns is closed end-to-end, from its start to a finish, by ports that *)
(* meet face to face with the same clip, and its arrows point on.          *)
THEOREM ClipRoutesRun == ClipInit /\ [][ClipNext]_clipVars => []ClipRouteRuns
<1>1. ClipInv /\ [ClipNext]_clipVars => ClipInv'
  BY ClipMoves
<1> QED
  BY ClipStartsWell, ClipRouteSays, <1>1, PTL

(* The clip walker implements WalkStack as well: dfs and its undo.         *)
THEOREM ClipsWalkAsStack == ClipInit /\ [][ClipNext]_clipVars => ClipsAsStack
<1>1. ClipInv /\ [ClipNext]_clipVars
        => ClipInv' /\ [ClipStack!StackNext]_(ClipStack!stackVars)
  <2>1. ClipStacked => [ClipStack!StackNext]_(ClipStack!stackVars)
    BY DEF ClipStacked, ClipStack!stackVars, ClipTaken
  <2> QED
    BY <2>1, ClipMoves
<1> QED
  BY ClipStartsWell, <1>1, PTL DEF ClipsAsStack, ClipStack!StackSpec

-----------------------------------------------------------------------------
(* Telemetry coverage: what each coverage row adds up to.                  *)

Samples == [at : Lattice, t : Int, vy : Int]

LEMMA AbsNat == \A n \in Int : Abs(n) \in Nat
  BY DEF Abs

\* A sample's place is a cell, and its steps have lengths.
LEMMA SampleSteps ==
    ASSUME NEW s \in Seq(Samples), NEW i \in 1 .. Len(s)
    PROVE  /\ ToCell(Point(s[i].at)) \in Lattice
           /\ StepM(s, i) \in Nat /\ StepMs(s, i) \in Nat
  <1>1. s[i] \in Samples /\ (i # 1 => s[i - 1] \in Samples)
    <2>1. i # 1 => i - 1 \in 1 .. Len(s)
      OBVIOUS
    <2> QED
      BY <2>1
  <1>2. PICK at : at = s[i].at
    OBVIOUS
  <1>3. /\ at \in Lattice /\ s[i].t \in Int
        /\ i # 1 => s[i - 1].at \in Lattice /\ s[i - 1].t \in Int
    BY <1>1, <1>2 DEF Samples
  <1>4. at[1] \in Int /\ at[2] \in Int /\ at[3] \in Int
    BY <1>3 DEF Lattice
  <1>5. ToCell(Point(at)) \in Lattice
    <2>1. ToCell(Point(at)) = <<at[1] \div 32, GroundY + (at[2] - 8) \div 8, at[3] \div 32>>
      BY <1>4 DEF ToCell, Point, CellSize, GroundAbsY, LevelHeight
    <2>2. GroundY \in Int
      BY GridAssumption
    <2>3. at[1] \div 32 \in Int /\ GroundY + (at[2] - 8) \div 8 \in Int /\ at[3] \div 32 \in Int
      <3>1. PICK x \in Int, y \in Int, z \in Int : x = at[1] /\ y = at[2] /\ z = at[3]
        BY <1>4
      <3>2. x \div 32 \in Int /\ (y - 8) \div 8 \in Int /\ z \div 32 \in Int
        OBVIOUS
      <3>3. GroundY + (y - 8) \div 8 \in Int
        BY <2>2, <3>2
      <3> QED
        BY <3>1, <3>2, <3>3
    <2> QED
      BY <2>1, <2>3 DEF Lattice
  <1>6. StepMs(s, i) \in Nat
    BY <1>3 DEF StepMs
  <1>7. StepM(s, i) \in Nat
    <2>1. CASE i = 1
      BY <2>1 DEF StepM
    <2>2. CASE i # 1
      <3>1. PICK from : from = s[i - 1].at
        OBVIOUS
      <3>2. from[1] \in Int /\ from[2] \in Int /\ from[3] \in Int
        BY <1>3, <2>2, <3>1 DEF Lattice
      <3>3. /\ Abs(at[1] - from[1]) \in Nat /\ Abs(at[2] - from[2]) \in Nat
            /\ Abs(at[3] - from[3]) \in Nat
        <4>1. ASSUME NEW x \in Int, NEW y \in Int PROVE Abs(x - y) \in Nat
          <5>1. x - y \in Int
            OBVIOUS
          <5> QED
            BY <5>1, AbsNat
        <4>2. Abs(at[1] - from[1]) \in Nat
          BY <1>4, <3>2, <4>1
        <4>3. Abs(at[2] - from[2]) \in Nat
          BY <1>4, <3>2, <4>1
        <4>4. Abs(at[3] - from[3]) \in Nat
          BY <1>4, <3>2, <4>1
        <4> QED
          BY <4>2, <4>3, <4>4
      <3> QED
        BY <1>2, <2>2, <3>1, <3>3 DEF StepM
    <2> QED
      BY <2>1, <2>2
  <1> QED
    BY <1>2, <1>5, <1>6, <1>7

LEMMA SourceOne ==
    ASSUME NEW m, NEW q
    PROVE  Source(m, q) \in {{}, {"grid"}, {"free"}, {"item"}, {"baked"}}
  BY DEF Source

Places == SUBSET Nat
Tallies == [air : Nat, grounded : Nat, grid : Nat, free : Nat, item : Nat, baked : Nat,
            covered : Places, terrain : Seq(Lattice), lost : Nat, lostM : Nat, lostMs : Nat]

\* What the counters of i samples add up to.
Balanced(a, i) ==
    /\ a.air + a.grounded = i
    /\ Cardinality(a.covered) = a.grid + a.free + a.item + a.baked
    /\ a.grounded = Cardinality(a.covered) + Len(a.terrain) + a.lost
Explained(m, s, air, i) == {j \in 1 .. i : ~air[j] /\ Source(m, Point(s[j].at)) # {}}
\* What the first loop has counted when it has seen the samples up to i.
Counted(m, s, air, a, i) ==
    a \in Tallies /\ Balanced(a, i) /\ a.covered = Explained(m, s, air, i)

\* One more sample in the air.
LEMMA TallyAir ==
    ASSUME NEW a \in Tallies, NEW r \in Nat, NEW b, b = [a EXCEPT !.air = r]
    PROVE  /\ b \in Tallies
           /\ /\ b.air = r /\ b.grounded = a.grounded /\ b.grid = a.grid
              /\ b.free = a.free /\ b.item = a.item /\ b.baked = a.baked /\ b.covered = a.covered
              /\ b.terrain = a.terrain /\ b.lost = a.lost /\ b.lostM = a.lostM
              /\ b.lostMs = a.lostMs
  <1>1. b \in Tallies
    BY DEF Tallies
  <1>2. /\ b.air = r /\ b.grounded = a.grounded /\ b.grid = a.grid
        /\ b.free = a.free /\ b.item = a.item /\ b.baked = a.baked /\ b.covered = a.covered
        /\ b.terrain = a.terrain /\ b.lost = a.lost /\ b.lostM = a.lostM /\ b.lostMs = a.lostMs
    BY DEF Tallies
  <1> QED
    BY <1>1, <1>2

\* The samples put down to something: one more, or not.
OneMore(m, s, air, i) ==
    \E old, co :
        /\ old = Explained(m, s, air, i - 1) /\ co = Explained(m, s, air, i)
        /\ co \in Places /\ Cardinality(old) \in Nat
        /\ IF ~air[i] /\ Source(m, Point(s[i].at)) # {}
           THEN co = old \cup {i} /\ Cardinality(co) = Cardinality(old) + 1
           ELSE co = old
LEMMA ExplainedStep ==
    ASSUME NEW m, NEW s, NEW air, NEW i \in Nat \ {0}
    PROVE  OneMore(m, s, air, i)
  <1>1. PICK n \in Nat : n = i - 1
    BY i - 1 \in Nat
  <1>2. \A j : j \in 1 .. i <=> j \in 1 .. n \/ j = i
    BY <1>1
  <1>3. i \notin 1 .. n
    BY <1>1
  <1>4. PICK D : D = Explained(m, s, air, n)
    OBVIOUS
  <1>5. D \subseteq 1 .. n
    BY <1>4 DEF Explained
  <1>6. IsFiniteSet(D) /\ Cardinality(D) \in Nat
    <2>1. IsFiniteSet(1 .. n)
      BY FS_Interval
    <2>2. IsFiniteSet(D)
      BY <1>5, <2>1, FS_Subset
    <2> QED
      BY <2>2, FS_CardinalityType
  <1>7. i \notin D
    BY <1>3, <1>5
  <1>8. PICK E : E = Explained(m, s, air, i)
    OBVIOUS
  <1>9. CASE ~air[i] /\ Source(m, Point(s[i].at)) # {}
    <2>1. E = D \cup {i}
      BY <1>2, <1>4, <1>8, <1>9 DEF Explained
    <2>2. Cardinality(D \cup {i}) = Cardinality(D) + 1
      BY <1>6, <1>7, FS_AddElement
    <2>3. D \in Places /\ E \in Places
      BY <1>1, <1>5, <2>1 DEF Places
    <2> QED
      BY <1>1, <1>4, <1>6, <1>8, <1>9, <2>1, <2>2, <2>3 DEF OneMore
  <1>10. CASE ~(~air[i] /\ Source(m, Point(s[i].at)) # {})
    <2>1. E = D
      BY <1>2, <1>4, <1>8, <1>10 DEF Explained
    <2>2. D \in Places
      BY <1>1, <1>5 DEF Places
    <2> QED
      BY <1>1, <1>4, <1>6, <1>8, <1>10, <2>1, <2>2 DEF OneMore
  <1> QED
    BY <1>9, <1>10

\* A sample is lost when it is on the ground, not on known terrain and on no source.
Missing(m, s, air, i) == ~air[i] /\ Source(m, Point(s[i].at)) = {} /\ ~OnGround(s[i])

\* The loop's step counts its sample, and a lost one with its length.
LEMMA TallyCounts ==
    ASSUME NEW m, NEW s \in Seq(Samples), NEW air \in [DOMAIN s -> BOOLEAN],
           NEW i \in 1 .. Len(s), NEW a, Counted(m, s, air, a, i - 1),
           NEW b, b = Tally(m, s, air, a, i)
    PROVE  /\ Counted(m, s, air, b, i)
           /\ IF Missing(m, s, air, i)
              THEN /\ b.lost = a.lost + 1 /\ b.lostM = a.lostM + StepM(s, i)
                   /\ b.lostMs = a.lostMs + StepMs(s, i)
              ELSE b.lost = a.lost /\ b.lostM = a.lostM /\ b.lostMs = a.lostMs
  <1>1. a \in Tallies /\ air[i] \in BOOLEAN /\ i \in Nat \ {0}
    BY DEF Counted
  <1>2. PICK src : src = Source(m, Point(s[i].at))
    OBVIOUS
  <1>3. src \in {{}, {"grid"}, {"free"}, {"item"}, {"baked"}}
    BY <1>2, SourceOne
  <1>4. PICK ground \in BOOLEAN : ground <=> OnGround(s[i])
    BY DEF OnGround
  <1>5. PICK pa \in Nat, pr \in Nat, pg \in Nat, pf \in Nat, pi \in Nat, pb \in Nat, pl \in Nat,
             pm \in Nat, ps \in Nat :
           /\ a.air = pa /\ a.grounded = pr /\ a.grid = pg /\ a.free = pf /\ a.item = pi
           /\ a.baked = pb /\ a.lost = pl /\ a.lostM = pm /\ a.lostMs = ps
    BY <1>1 DEF Tallies
  <1>6. a.terrain \in Seq(Lattice)
    BY <1>1 DEF Tallies
  <1>7. PICK old, co :
           /\ old = Explained(m, s, air, i - 1) /\ co = Explained(m, s, air, i)
           /\ co \in Places /\ Cardinality(old) \in Nat
           /\ IF ~air[i] /\ src # {}
              THEN co = old \cup {i} /\ Cardinality(co) = Cardinality(old) + 1
              ELSE co = old
    <2>1. i \in Nat \ {0}
      BY <1>1
    <2>2. OneMore(m, s, air, i)
      BY <2>1, ExplainedStep
    <2> QED
      BY <1>2, <2>2 DEF OneMore
  <1>8. a.covered = old
    BY <1>7 DEF Counted
  <1>9. PICK n \in Nat, d \in Nat : n = Len(a.terrain) /\ d = Cardinality(old)
    BY <1>6, <1>7
  <1>10. pa + pr = i - 1 /\ d = pg + pf + pi + pb /\ pr = d + n + pl
    BY <1>5, <1>8, <1>9 DEF Counted, Balanced
  <1>11. CASE air[i]
    <2>1. b = [a EXCEPT !.air = @ + 1]
      BY <1>11 DEF Tally
    <2>2. PICK r \in Nat : r = pa + 1
      OBVIOUS
    <2>3. b = [a EXCEPT !.air = r]
      BY <1>5, <2>1, <2>2
    <2>4. /\ b \in Tallies
          /\ /\ b.air = r /\ b.grounded = a.grounded /\ b.grid = a.grid
             /\ b.free = a.free /\ b.item = a.item /\ b.baked = a.baked /\ b.covered = a.covered
             /\ b.terrain = a.terrain /\ b.lost = a.lost /\ b.lostM = a.lostM
             /\ b.lostMs = a.lostMs
      <3>1. a \in Tallies
        BY <1>1
      <3> QED
        BY <2>3, <3>1, TallyAir
    <2>5. r + pr = i
      BY <1>10, <2>2
    <2>6. Balanced(b, i)
      BY <1>5, <1>8, <1>9, <1>10, <2>4, <2>5 DEF Balanced
    <2>7. b.covered = Explained(m, s, air, i)
      BY <1>7, <1>8, <1>11, <2>4
    <2>8. Counted(m, s, air, b, i)
      BY <2>4, <2>6, <2>7 DEF Counted
    <2> QED
      BY <1>11, <2>4, <2>8 DEF Missing
  <1>12. CASE ~air[i]
    <2>1. b = TallyGrounded(s, a, i, src)
      BY <1>2, <1>12 DEF Tally
    <2>2. PICK off \in BOOLEAN, gone \in BOOLEAN :
              (off <=> src = {} /\ ground) /\ (gone <=> src = {} /\ ~ground)
      OBVIOUS
    <2>3. gone <=> Missing(m, s, air, i)
      BY <1>2, <1>4, <1>12, <2>2 DEF Missing
    <2>4. b = [a EXCEPT
                 !.grounded = @ + 1,
                 !.grid = @ + One("grid" \in src), !.free = @ + One("free" \in src),
                 !.item = @ + One("item" \in src), !.baked = @ + One("baked" \in src),
                 !.covered = IF src # {} THEN @ \cup {i} ELSE @,
                 !.terrain = IF off THEN Append(@, ToCell(Point(s[i].at))) ELSE @,
                 !.lost = @ + One(gone),
                 !.lostM = @ + (IF gone THEN StepM(s, i) ELSE 0),
                 !.lostMs = @ + (IF gone THEN StepMs(s, i) ELSE 0)]
      BY <1>4, <2>1, <2>2 DEF TallyGrounded
    <2>5. PICK c, h, ms : /\ c = ToCell(Point(s[i].at)) /\ h = StepM(s, i) /\ ms = StepMs(s, i)
      OBVIOUS
    <2>6. c \in Lattice /\ h \in Nat /\ ms \in Nat
      BY <2>5, SampleSteps
    <2>7. PICK te : te = (IF off THEN Append(a.terrain, c) ELSE a.terrain)
      OBVIOUS
    <2>8. te \in Seq(Lattice) /\ Len(te) = (IF off THEN n + 1 ELSE n)
      BY <1>6, <1>9, <2>6, <2>7, AppendProperties
    <2>9. (IF src # {} THEN a.covered \cup {i} ELSE a.covered) = co
      BY <1>7, <1>8, <1>12
    <2>10. PICK g, f, it, bk, l, dm, dms :
              /\ g = One("grid" \in src) /\ f = One("free" \in src) /\ it = One("item" \in src)
              /\ bk = One("baked" \in src) /\ l = One(gone)
              /\ dm = (IF gone THEN h ELSE 0) /\ dms = (IF gone THEN ms ELSE 0)
      OBVIOUS
    <2>11. /\ g = (IF "grid" \in src THEN 1 ELSE 0) /\ f = (IF "free" \in src THEN 1 ELSE 0)
           /\ it = (IF "item" \in src THEN 1 ELSE 0) /\ bk = (IF "baked" \in src THEN 1 ELSE 0)
           /\ l = (IF gone THEN 1 ELSE 0)
      BY <2>10 DEF One
    <2>12. /\ g \in Nat /\ f \in Nat /\ it \in Nat /\ bk \in Nat /\ l \in Nat
           /\ dm \in Nat /\ dms \in Nat
      BY <2>6, <2>10, <2>11
    <2>13. g + f + it + bk = (IF src # {} THEN 1 ELSE 0)
      BY <1>3, <2>11
    <2>14. PICK r2, g2, f2, it2, bk2, l2, dm2, dms2 :
              /\ r2 = pr + 1 /\ g2 = pg + g /\ f2 = pf + f /\ it2 = pi + it
              /\ bk2 = pb + bk /\ l2 = pl + l /\ dm2 = pm + dm /\ dms2 = ps + dms
      OBVIOUS
    <2>15. /\ r2 \in Nat /\ g2 \in Nat /\ f2 \in Nat /\ it2 \in Nat /\ bk2 \in Nat /\ l2 \in Nat
           /\ dm2 \in Nat /\ dms2 \in Nat
      BY <2>12, <2>14
    <2>16. b = [a EXCEPT !.grounded = r2, !.grid = g2, !.free = f2, !.item = it2, !.baked = bk2,
                         !.covered = co, !.terrain = te, !.lost = l2, !.lostM = dm2,
                         !.lostMs = dms2]
      BY <1>5, <2>4, <2>5, <2>7, <2>9, <2>10, <2>14
    <2>17. /\ b \in Tallies
           /\ /\ b.air = a.air /\ b.grounded = r2 /\ b.grid = g2 /\ b.free = f2 /\ b.item = it2
              /\ b.baked = bk2 /\ b.covered = co /\ b.terrain = te /\ b.lost = l2 /\ b.lostM = dm2
              /\ b.lostMs = dms2
      <3>1. co \in Places /\ te \in Seq(Lattice)
        BY <1>7, <2>8
      <3>2. b \in Tallies
        <4>1. b = [air |-> pa, grounded |-> r2, grid |-> g2, free |-> f2, item |-> it2,
                   baked |-> bk2, covered |-> co, terrain |-> te, lost |-> l2, lostM |-> dm2,
                   lostMs |-> dms2]
          <5>1. a = [air |-> a.air, grounded |-> a.grounded, grid |-> a.grid, free |-> a.free,
                     item |-> a.item, baked |-> a.baked, covered |-> a.covered,
                     terrain |-> a.terrain, lost |-> a.lost, lostM |-> a.lostM,
                     lostMs |-> a.lostMs]
            BY <1>1 DEF Tallies
          <5>2. a.air = pa
            BY <1>5
          <5> QED
            BY <2>16, <5>1, <5>2
        <4> QED
          BY <2>15, <3>1, <4>1 DEF Tallies
      <3>3. /\ b.air = a.air /\ b.grounded = r2 /\ b.grid = g2 /\ b.free = f2 /\ b.item = it2
            /\ b.baked = bk2 /\ b.covered = co /\ b.terrain = te /\ b.lost = l2
            /\ b.lostM = dm2 /\ b.lostMs = dms2
        BY <1>1, <2>16 DEF Tallies
      <3> QED
        BY <3>2, <3>3
    <2>18. PICK d2 \in Nat, n2 \in Nat :
              /\ d2 = Cardinality(co) /\ d2 = (IF src # {} THEN d + 1 ELSE d)
              /\ n2 = Len(te) /\ n2 = (IF off THEN n + 1 ELSE n)
      BY <1>7, <1>9, <1>12, <2>8
    <2>19. d2 = g2 + f2 + it2 + bk2
      BY <1>10, <2>12, <2>13, <2>14, <2>18
    <2>20. r2 = d2 + n2 + l2
      BY <1>10, <2>2, <2>11, <2>14, <2>18
    <2>21. pa + r2 = i
      BY <1>10, <2>14
    <2>22. Balanced(b, i)
      BY <1>5, <2>17, <2>18, <2>19, <2>20, <2>21 DEF Balanced
    <2>23. Counted(m, s, air, b, i)
      BY <1>7, <2>17, <2>22 DEF Counted
    <2>24. IF gone THEN l2 = pl + 1 /\ dm2 = pm + h /\ dms2 = ps + ms
           ELSE l2 = pl /\ dm2 = pm /\ dms2 = ps
      BY <2>10, <2>11, <2>14
    <2> QED
      BY <1>5, <2>3, <2>5, <2>17, <2>23, <2>24
  <1> QED
    BY <1>1, <1>11, <1>12
\* A place in the air or not is a truth value, for each sample.
LEMMA AirborneIs ==
    ASSUME NEW s \in Seq(Samples)
    PROVE  ClassifyAirborne(s) \in [DOMAIN s -> BOOLEAN]
  BY DEF ClassifyAirborne

LEMMA NoTallyCounts ==
    ASSUME NEW m, NEW s, NEW air
    PROVE  Counted(m, s, air, NoTally, 0)
  <1>1. NoTally \in Tallies
    <2>1. {} \in Places /\ << >> \in Seq(Lattice)
      BY DEF Places
    <2> QED
      BY <2>1 DEF NoTally, Tallies
  <1>2. Explained(m, s, air, 0) = {}
    BY DEF Explained
  <1>3. Cardinality({}) = 0
    BY FS_EmptySet
  <1>4. Balanced(NoTally, 0)
    BY <1>3 DEF NoTally, Balanced
  <1> QED
    BY <1>1, <1>2, <1>4 DEF Counted, NoTally

\* The first loop's row of tallies.
IsTallies(m, s, air, f) ==
    f = [i \in 0 .. Len(s) |-> IF i = 0 THEN NoTally ELSE Tally(m, s, air, f[i - 1], i)]
CountedAt(m, s, air) == [i \in 0 .. Len(s) |-> {a \in Tallies : Counted(m, s, air, a, i)}]
TallySteps(m, s, air) == [i \in 1 .. Len(s) |-> [a \in Tallies |-> Tally(m, s, air, a, i)]]

LEMMA TalliesExist ==
    ASSUME NEW m, NEW s \in Seq(Samples), NEW air \in [DOMAIN s -> BOOLEAN]
    PROVE  \E f : IsTallies(m, s, air, f)
  <1>1. PICK n \in Nat : n = Len(s)
    OBVIOUS
  <1>2. PICK step, P : step = TallySteps(m, s, air) /\ P = CountedAt(m, s, air)
    OBVIOUS
  <1>3. PICK f : RowOf(NoTally, step, n, f)
    BY <1>1, RowsExist
  <1>4. \A i \in 0 .. n : f[i] = IF i = 0 THEN NoTally ELSE step[i][f[i - 1]]
    BY <1>3 DEF RowOf
  <1>5. \A i \in 0 .. n : P[i] = {a \in Tallies : Counted(m, s, air, a, i)}
    BY <1>1, <1>2 DEF CountedAt
  <1>6. \A i \in 1 .. n : \A a \in Tallies : step[i][a] = Tally(m, s, air, a, i)
    BY <1>1, <1>2 DEF TallySteps
  <1>7. f[0] \in P[0]
    <2>1. 0 \in 0 .. n
      OBVIOUS
    <2>2. f[0] = NoTally /\ Counted(m, s, air, NoTally, 0)
      BY <1>4, <2>1, NoTallyCounts
    <2>3. NoTally \in Tallies
      BY <2>2 DEF Counted
    <2> QED
      BY <1>5, <2>1, <2>2, <2>3
  <1>8. ASSUME NEW i \in 1 .. n, f[i - 1] \in P[i - 1] PROVE f[i] \in P[i]
    <2>1. i - 1 \in 0 .. n /\ i \in 0 .. n /\ i # 0 /\ i \in 1 .. Len(s)
      BY <1>1
    <2>2. f[i - 1] \in Tallies /\ Counted(m, s, air, f[i - 1], i - 1)
      BY <1>5, <1>8, <2>1
    <2>3. f[i] = Tally(m, s, air, f[i - 1], i)
      BY <1>4, <1>6, <2>1, <2>2
    <2>4. PICK a, b : a = f[i - 1] /\ b = f[i]
      OBVIOUS
    <2>5. Counted(m, s, air, b, i)
      BY <2>1, <2>2, <2>3, <2>4, TallyCounts
    <2>6. b \in Tallies
      BY <2>5 DEF Counted
    <2> QED
      BY <1>5, <2>1, <2>4, <2>5, <2>6
  <1>9. \A i \in 0 .. n : f[i] \in P[i]
    BY <1>7, <1>8, HoldsAlong
  <1>10. ASSUME NEW i \in 0 .. n
         PROVE  f[i] = IF i = 0 THEN NoTally ELSE Tally(m, s, air, f[i - 1], i)
    <2>1. CASE i = 0
      BY <1>4, <2>1
    <2>2. CASE i # 0
      <3>1. i \in 1 .. n /\ i - 1 \in 0 .. n
        BY <2>2
      <3>2. f[i - 1] \in Tallies
        BY <1>5, <1>9, <3>1
      <3> QED
        BY <1>4, <1>6, <2>2, <3>1, <3>2
    <2> QED
      BY <2>1, <2>2
  <1>11. f = [i \in 0 .. n |-> f[i]]
    BY <1>3 DEF RowOf
  <1>12. f = [i \in 0 .. n |-> IF i = 0 THEN NoTally ELSE Tally(m, s, air, f[i - 1], i)]
    BY <1>10, <1>11
  <1> QED
    BY <1>1, <1>12 DEF IsTallies

\* The loop's tallies are what the samples so far add up to, each made of the one before.
LEMMA TallyToIs ==
    ASSUME NEW m, NEW s \in Seq(Samples), NEW air \in [DOMAIN s -> BOOLEAN]
    PROVE  \E f : /\ f = TallyTo(m, s, air)
                  /\ f[0] = NoTally
                  /\ \A i \in 1 .. Len(s) : f[i] = Tally(m, s, air, f[i - 1], i)
                  /\ \A i \in 0 .. Len(s) : Counted(m, s, air, f[i], i)
  <1>1. TallyTo(m, s, air) = CHOOSE f : IsTallies(m, s, air, f)
    BY DEF TallyTo, IsTallies
  <1>2. PICK f : f = TallyTo(m, s, air) /\ IsTallies(m, s, air, f)
    BY <1>1, TalliesExist
  <1>3. \A i \in 0 .. Len(s) : f[i] = IF i = 0 THEN NoTally ELSE Tally(m, s, air, f[i - 1], i)
    BY <1>2 DEF IsTallies
  <1>4a. PICK n \in Nat : n = Len(s)
    OBVIOUS
  <1>4b. PICK P : P = CountedAt(m, s, air)
    OBVIOUS
  <1>4. n = Len(s) /\ P = CountedAt(m, s, air)
    BY <1>4a, <1>4b
  <1>5. \A i \in 0 .. n : P[i] = {a \in Tallies : Counted(m, s, air, a, i)}
    BY <1>4 DEF CountedAt
  <1>6. f[0] \in P[0] /\ f[0] = NoTally
    <2>1. 0 \in 0 .. n
      OBVIOUS
    <2>2. f[0] = NoTally /\ Counted(m, s, air, NoTally, 0)
      BY <1>3, <1>4, <2>1, NoTallyCounts
    <2>3. NoTally \in Tallies
      BY <2>2 DEF Counted
    <2> QED
      BY <1>5, <2>1, <2>2, <2>3
  <1>7. ASSUME NEW i \in 1 .. n, f[i - 1] \in P[i - 1] PROVE f[i] \in P[i]
    <2>1. i - 1 \in 0 .. n /\ i \in 0 .. n /\ i # 0 /\ i \in 1 .. Len(s)
      BY <1>4
    <2>2. PICK a, b : a = f[i - 1] /\ b = f[i]
      OBVIOUS
    <2>3. Counted(m, s, air, a, i - 1) /\ b = Tally(m, s, air, a, i)
      BY <1>3, <1>4, <1>5, <1>7, <2>1, <2>2
    <2>4. Counted(m, s, air, b, i)
      BY <2>1, <2>3, TallyCounts
    <2>5. b \in Tallies
      BY <2>4 DEF Counted
    <2> QED
      BY <1>5, <2>1, <2>2, <2>4, <2>5
  <1>8. \A i \in 0 .. n : f[i] \in P[i]
    BY <1>6, <1>7, HoldsAlong
  <1>9. \A i \in 1 .. Len(s) : f[i] = Tally(m, s, air, f[i - 1], i)
    <2> SUFFICES ASSUME NEW i \in 1 .. Len(s)
                 PROVE  f[i] = Tally(m, s, air, f[i - 1], i)
      OBVIOUS
    <2>1. i \in 0 .. Len(s) /\ i # 0
      OBVIOUS
    <2> QED
      BY <1>3, <2>1
  <1> QED
    BY <1>2, <1>4, <1>5, <1>6, <1>8, <1>9
Triples == Nat \X Nat \X Nat
Gaps == [cur : Triples, best : Triples]
\* A gap within the totals of a tally.
Within(x, a) == x[1] <= a.lost /\ x[2] <= a.lostM /\ x[3] <= a.lostMs
\* The n samples up to e are missing.
RunTo(m, s, air, e, n) ==
    n <= e /\ \A j \in 1 .. Len(s) : e - n < j /\ j <= e => Missing(m, s, air, j)
\* What the second loop holds after i samples, the first one's tally of them being a.
GapRight(m, s, air, a, acc, i) ==
    /\ acc \in Gaps
    /\ Within(acc.cur, a) /\ Within(acc.best, a)
    /\ RunTo(m, s, air, i, acc.cur[1])
    /\ \E e \in 0 .. i : RunTo(m, s, air, e, acc.best[1])

LEMMA TripleIs ==
    ASSUME NEW x \in Triples
    PROVE  x[1] \in Nat /\ x[2] \in Nat /\ x[3] \in Nat
  BY DEF Triples

\* The second loop's step keeps that.
LEMMA GapStepRight ==
    ASSUME NEW m, NEW s \in Seq(Samples), NEW air \in [DOMAIN s -> BOOLEAN],
           NEW i \in 1 .. Len(s), NEW a \in Tallies, NEW b,
           b = Tally(m, s, air, a, i), Counted(m, s, air, a, i - 1),
           NEW covered, i \in covered <=> ~air[i] /\ Source(m, Point(s[i].at)) # {},
           NEW acc, GapRight(m, s, air, a, acc, i - 1),
           NEW new, new = GapStep(s, air, covered, acc, i)
    PROVE  GapRight(m, s, air, b, new, i)
  <1>1. PICK pl \in Nat, pm \in Nat, ps \in Nat :
           a.lost = pl /\ a.lostM = pm /\ a.lostMs = ps
    BY DEF Tallies
  <1>2. PICK h \in Nat, ms \in Nat : h = StepM(s, i) /\ ms = StepMs(s, i)
    BY SampleSteps
  <1>3. IF Missing(m, s, air, i)
        THEN b.lost = pl + 1 /\ b.lostM = pm + h /\ b.lostMs = ps + ms
        ELSE b.lost = pl /\ b.lostM = pm /\ b.lostMs = ps
    <2>1. IF Missing(m, s, air, i)
          THEN /\ b.lost = a.lost + 1 /\ b.lostM = a.lostM + StepM(s, i)
               /\ b.lostMs = a.lostMs + StepMs(s, i)
          ELSE b.lost = a.lost /\ b.lostM = a.lostM /\ b.lostMs = a.lostMs
      BY TallyCounts
    <2> QED
      BY <1>1, <1>2, <2>1
  <1>4. PICK ql \in Nat, qm \in Nat, qs \in Nat :
           /\ b.lost = ql /\ b.lostM = qm /\ b.lostMs = qs
           /\ IF Missing(m, s, air, i) THEN ql = pl + 1 /\ qm = pm + h /\ qs = ps + ms
              ELSE ql = pl /\ qm = pm /\ qs = ps
    BY <1>3
  <1>5. acc \in Gaps
    BY DEF GapRight
  <1>6. PICK c, z : c = acc.cur /\ z = acc.best /\ c \in Triples /\ z \in Triples
    BY <1>5 DEF Gaps
  <1>7. PICK c1 \in Nat, c2 \in Nat, c3 \in Nat, z1 \in Nat, z2 \in Nat, z3 \in Nat :
           /\ c[1] = c1 /\ c[2] = c2 /\ c[3] = c3
           /\ z[1] = z1 /\ z[2] = z2 /\ z[3] = z3
    BY <1>6, TripleIs
  <1>8. /\ c1 <= pl /\ c2 <= pm /\ c3 <= ps /\ z1 <= pl /\ z2 <= pm /\ z3 <= ps
    <2>1. Within(c, a) /\ Within(z, a)
      BY <1>6 DEF GapRight
    <2> QED
      BY <1>1, <1>7, <2>1 DEF Within
  <1>9. RunTo(m, s, air, i - 1, c1)
    BY <1>6, <1>7 DEF GapRight
  <1>10. PICK e \in 0 .. i - 1 : RunTo(m, s, air, e, z1)
    <2>1. acc.best[1] = z1
      BY <1>6, <1>7
    <2>2. \E e \in 0 .. i - 1 : RunTo(m, s, air, e, acc.best[1])
      BY DEF GapRight
    <2> QED
      BY <2>1, <2>2
  <1>11. Within(z, b)
    <2>1. z1 <= ql /\ z2 <= qm /\ z3 <= qs
      BY <1>4, <1>8
    <2> QED
      BY <1>4, <1>7, <2>1 DEF Within
  <1>12. air[i] \/ i \in covered \/ OnGround(s[i]) <=> ~Missing(m, s, air, i)
    BY DEF Missing
  <1>13. e \in 0 .. i
    OBVIOUS
  <1>14. CASE ~Missing(m, s, air, i)
    <2>1. new = [acc EXCEPT !.cur = <<0, 0, 0>>]
      BY <1>12, <1>14 DEF GapStep
    <2>2. PICK o : o = <<0, 0, 0>>
      OBVIOUS
    <2>3. o \in Triples /\ o[1] = 0 /\ o[2] = 0 /\ o[3] = 0
      BY <2>2 DEF Triples
    <2>4. new \in Gaps /\ new.cur = o /\ new.best = z
      BY <1>5, <1>6, <2>1, <2>2, <2>3 DEF Gaps
    <2>5. Within(o, b)
      BY <1>4, <2>3 DEF Within
    <2>6. RunTo(m, s, air, i, 0)
      BY DEF RunTo
    <2> QED
      BY <1>7, <1>10, <1>11, <1>13, <2>3, <2>4, <2>5, <2>6 DEF GapRight
  <1>15. CASE Missing(m, s, air, i)
    <2>1. PICK o : o = <<c1 + 1, c2 + h, c3 + ms>>
      OBVIOUS
    <2>2. o \in Triples /\ o[1] = c1 + 1 /\ o[2] = c2 + h /\ o[3] = c3 + ms
      BY <2>1 DEF Triples
    <2>3. new = [cur |-> o, best |-> IF o[1] > z[1] THEN o ELSE z]
      BY <1>2, <1>6, <1>7, <1>12, <1>15, <2>1 DEF GapStep
    <2>4. PICK w : w = (IF o[1] > z[1] THEN o ELSE z)
      OBVIOUS
    <2>5. new = [cur |-> o, best |-> w]
      BY <2>3, <2>4
    <2>6. w \in Triples
      BY <1>6, <2>2, <2>4
    <2>7. new \in Gaps /\ new.cur = o /\ new.best = w
      BY <2>2, <2>5, <2>6 DEF Gaps
    <2>8. Within(o, b)
      BY <1>4, <1>8, <1>15, <2>2 DEF Within
    <2>9. Within(w, b)
      BY <1>11, <2>4, <2>8
    <2>10. RunTo(m, s, air, i, c1 + 1)
      <3>1. c1 <= i - 1
        BY <1>9 DEF RunTo
      <3>2. ASSUME NEW j \in 1 .. Len(s), i - (c1 + 1) < j, j <= i
            PROVE  Missing(m, s, air, j)
        <4>1. CASE j = i
          BY <1>15, <4>1
        <4>2. CASE j # i
          <5>1. (i - 1) - c1 < j /\ j <= i - 1
            BY <3>2, <4>2
          <5> QED
            BY <1>9, <5>1 DEF RunTo
        <4> QED
          BY <4>1, <4>2
      <3>3. c1 + 1 <= i
        BY <3>1
      <3> QED
        BY <3>2, <3>3 DEF RunTo
    <2>11. i \in 0 .. i
      OBVIOUS
    <2>12. \E y \in 0 .. i : RunTo(m, s, air, y, w[1])
      <3>1. CASE o[1] > z[1]
        BY <2>2, <2>4, <2>10, <2>11, <3>1
      <3>2. CASE ~(o[1] > z[1])
        BY <1>7, <1>10, <1>13, <2>4, <3>2
      <3> QED
        BY <3>1, <3>2
    <2> QED
      BY <2>2, <2>7, <2>8, <2>9, <2>10, <2>12 DEF GapRight
  <1> QED
    BY <1>14, <1>15

LEMMA NoGapRight ==
    ASSUME NEW m, NEW s, NEW air
    PROVE  GapRight(m, s, air, NoTally, NoGap, 0)
  <1>1. PICK o : o = <<0, 0, 0>>
    OBVIOUS
  <1>2. o \in Triples /\ o[1] = 0 /\ o[2] = 0 /\ o[3] = 0
    BY <1>1 DEF Triples
  <1>3. NoGap = [cur |-> o, best |-> o]
    BY <1>1 DEF NoGap
  <1>4. NoGap \in Gaps /\ NoGap.cur = o /\ NoGap.best = o
    BY <1>2, <1>3 DEF Gaps
  <1>5. Within(o, NoTally)
    BY <1>2 DEF Within, NoTally
  <1>6. RunTo(m, s, air, 0, 0) /\ 0 \in 0 .. 0
    BY DEF RunTo
  <1> QED
    BY <1>2, <1>4, <1>5, <1>6 DEF GapRight
\* The second loop's row, over the first one's: f are the tallies.
IsGaps(s, air, covered, g) ==
    g = [i \in 0 .. Len(s) |-> IF i = 0 THEN NoGap ELSE GapStep(s, air, covered, g[i - 1], i)]
GapSteps(s, air, covered) ==
    [i \in 1 .. Len(s) |-> [acc \in Gaps |-> GapStep(s, air, covered, acc, i)]]
RightAt(m, s, air, f) ==
    [i \in 0 .. Len(s) |-> {acc \in Gaps : GapRight(m, s, air, f[i], acc, i)}]
\* The tallies a row of the first loop may be.
Tallied(m, s, air, f) ==
    /\ f[0] = NoTally
    /\ \A i \in 1 .. Len(s) : f[i] = Tally(m, s, air, f[i - 1], i)
    /\ \A i \in 0 .. Len(s) : Counted(m, s, air, f[i], i)

\* One step of the row, whatever the accumulator before it.
LEMMA GapsStay ==
    ASSUME NEW m, NEW s \in Seq(Samples), NEW air \in [DOMAIN s -> BOOLEAN], NEW f,
           Tallied(m, s, air, f), NEW covered, covered = Explained(m, s, air, Len(s)),
           NEW i \in 1 .. Len(s), NEW acc, GapRight(m, s, air, f[i - 1], acc, i - 1),
           NEW new, new = GapStep(s, air, covered, acc, i)
    PROVE  GapRight(m, s, air, f[i], new, i)
  <1>1. PICK a, b : a = f[i - 1] /\ b = f[i]
    OBVIOUS
  <1>2. i - 1 \in 0 .. Len(s)
    OBVIOUS
  <1>3. b = Tally(m, s, air, a, i) /\ Counted(m, s, air, a, i - 1)
    BY <1>1, <1>2 DEF Tallied
  <1>4. a \in Tallies
    BY <1>3 DEF Counted
  <1>5. i \in covered <=> ~air[i] /\ Source(m, Point(s[i].at)) # {}
    BY DEF Explained
  <1>6. GapRight(m, s, air, a, acc, i - 1)
    BY <1>1
  <1>7. GapRight(m, s, air, b, new, i)
    BY <1>3, <1>4, <1>5, <1>6, GapStepRight
  <1> QED
    BY <1>1, <1>7

LEMMA GapsExist ==
    ASSUME NEW m, NEW s \in Seq(Samples), NEW air \in [DOMAIN s -> BOOLEAN], NEW f,
           Tallied(m, s, air, f), NEW covered, covered = Explained(m, s, air, Len(s))
    PROVE  \E g : IsGaps(s, air, covered, g)
  <1>1. PICK n \in Nat : n = Len(s)
    OBVIOUS
  <1>2. PICK step, P : step = GapSteps(s, air, covered) /\ P = RightAt(m, s, air, f)
    OBVIOUS
  <1>3. PICK g : RowOf(NoGap, step, n, g)
    BY <1>1, RowsExist
  <1>4. \A i \in 0 .. n : g[i] = IF i = 0 THEN NoGap ELSE step[i][g[i - 1]]
    BY <1>3 DEF RowOf
  <1>5. \A i \in 0 .. n : P[i] = {acc \in Gaps : GapRight(m, s, air, f[i], acc, i)}
    BY <1>1, <1>2 DEF RightAt
  <1>6. \A i \in 1 .. n : \A acc \in Gaps : step[i][acc] = GapStep(s, air, covered, acc, i)
    BY <1>1, <1>2 DEF GapSteps
  <1>7. g[0] \in P[0]
    <2>1. 0 \in 0 .. n
      OBVIOUS
    <2>2. g[0] = NoGap /\ GapRight(m, s, air, f[0], NoGap, 0)
      BY <1>4, <2>1, NoGapRight DEF Tallied
    <2>3. NoGap \in Gaps
      BY <2>2 DEF GapRight
    <2> QED
      BY <1>5, <2>1, <2>2, <2>3
  <1>8. ASSUME NEW i \in 1 .. n, g[i - 1] \in P[i - 1] PROVE g[i] \in P[i]
    <2>1. i - 1 \in 0 .. n /\ i \in 0 .. n /\ i # 0 /\ i \in 1 .. Len(s)
      BY <1>1
    <2>2. PICK acc, new : acc = g[i - 1] /\ new = g[i]
      OBVIOUS
    <2>3. acc \in Gaps /\ GapRight(m, s, air, f[i - 1], acc, i - 1)
      BY <1>5, <1>8, <2>1, <2>2
    <2>4. new = GapStep(s, air, covered, acc, i)
      BY <1>4, <1>6, <2>1, <2>2, <2>3
    <2>5. GapRight(m, s, air, f[i], new, i)
      BY <2>1, <2>3, <2>4, GapsStay
    <2>6. new \in Gaps
      BY <2>5 DEF GapRight
    <2> QED
      BY <1>5, <2>1, <2>2, <2>5, <2>6
  <1>9. \A i \in 0 .. n : g[i] \in P[i]
    BY <1>7, <1>8, HoldsAlong
  <1>10. ASSUME NEW i \in 0 .. n
         PROVE  g[i] = IF i = 0 THEN NoGap ELSE GapStep(s, air, covered, g[i - 1], i)
    <2>1. CASE i = 0
      BY <1>4, <2>1
    <2>2. CASE i # 0
      <3>1. i \in 1 .. n /\ i - 1 \in 0 .. n
        BY <2>2
      <3>2. g[i - 1] \in Gaps
        BY <1>5, <1>9, <3>1
      <3> QED
        BY <1>4, <1>6, <2>2, <3>1, <3>2
    <2> QED
      BY <2>1, <2>2
  <1>11. g = [i \in 0 .. n |-> g[i]]
    BY <1>3 DEF RowOf
  <1>12. g = [i \in 0 .. n |-> IF i = 0 THEN NoGap ELSE GapStep(s, air, covered, g[i - 1], i)]
    BY <1>10, <1>11
  <1> QED
    BY <1>1, <1>12 DEF IsGaps

\* The longest gap is right for the tally of all samples.
LEMMA LongestGapIs ==
    ASSUME NEW m, NEW s \in Seq(Samples), NEW air \in [DOMAIN s -> BOOLEAN], NEW f,
           Tallied(m, s, air, f), NEW covered, covered = Explained(m, s, air, Len(s))
    PROVE  \E acc : /\ LongestGap(s, air, covered) = acc.best
                    /\ GapRight(m, s, air, f[Len(s)], acc, Len(s))
  <1>1. GapTo(s, air, covered) = CHOOSE g : IsGaps(s, air, covered, g)
    BY DEF GapTo, IsGaps
  <1>2. PICK g : g = GapTo(s, air, covered) /\ IsGaps(s, air, covered, g)
    BY <1>1, GapsExist
  <1>3. \A i \in 0 .. Len(s) :
            g[i] = IF i = 0 THEN NoGap ELSE GapStep(s, air, covered, g[i - 1], i)
    BY <1>2 DEF IsGaps
  <1>4a. PICK n \in Nat : n = Len(s)
    OBVIOUS
  <1>4b. PICK P : P = RightAt(m, s, air, f)
    OBVIOUS
  <1>4. n = Len(s) /\ P = RightAt(m, s, air, f)
    BY <1>4a, <1>4b
  <1>5. \A i \in 0 .. n : P[i] = {acc \in Gaps : GapRight(m, s, air, f[i], acc, i)}
    BY <1>4 DEF RightAt
  <1>6. g[0] \in P[0]
    <2>1. 0 \in 0 .. n
      OBVIOUS
    <2>2. g[0] = NoGap /\ GapRight(m, s, air, f[0], NoGap, 0)
      BY <1>3, <1>4, <2>1, NoGapRight DEF Tallied
    <2>3. NoGap \in Gaps
      BY <2>2 DEF GapRight
    <2> QED
      BY <1>5, <2>1, <2>2, <2>3
  <1>7. ASSUME NEW i \in 1 .. n, g[i - 1] \in P[i - 1] PROVE g[i] \in P[i]
    <2>1. i - 1 \in 0 .. n /\ i \in 0 .. n /\ i # 0 /\ i \in 1 .. Len(s)
      BY <1>4
    <2>2. PICK acc, new : acc = g[i - 1] /\ new = g[i]
      OBVIOUS
    <2>3. GapRight(m, s, air, f[i - 1], acc, i - 1)
      BY <1>5, <1>7, <2>1, <2>2
    <2>4. new = GapStep(s, air, covered, acc, i)
      BY <1>3, <1>4, <2>1, <2>2
    <2>5. GapRight(m, s, air, f[i], new, i)
      BY <2>1, <2>3, <2>4, GapsStay
    <2>6. new \in Gaps
      BY <2>5 DEF GapRight
    <2> QED
      BY <1>5, <2>1, <2>2, <2>5, <2>6
  <1>8. \A i \in 0 .. n : g[i] \in P[i]
    BY <1>6, <1>7, HoldsAlong
  <1>9. PICK acc : acc = g[n]
    OBVIOUS
  <1>10. GapRight(m, s, air, f[n], acc, n)
    <2>1. n \in 0 .. n
      OBVIOUS
    <2> QED
      BY <1>5, <1>8, <1>9, <2>1
  <1>11. LongestGap(s, air, covered) = acc.best
    BY <1>2, <1>4, <1>9 DEF LongestGap
  <1> QED
    BY <1>4, <1>10, <1>11

-----------------------------------------------------------------------------
(* What holds of one coverage row, made from samples s.                    *)
RowAddsUp(m) ==
    /\ m.total = m.air + m.grounded
    /\ m.any = m.grid + m.free + m.item + m.baked
    /\ m.grounded = m.any + m.terrain + m.lost
RowGap(m, s, air) ==
    /\ m.gap <= m.lost /\ m.gapM <= m.lostM /\ m.gapMs <= m.lostMs
    /\ m.gap > 0 => \E i \in DOMAIN s : \A j \in i .. i + m.gap - 1 :
                       j \in DOMAIN s /\ ~air[j] /\ ~OnGround(s[j])
RowCells(m) == m.cells \in Seq(Lattice) /\ m.terrain = Len(m.cells)

LEMMA MeasuresAre ==
    ASSUME NEW map, NEW c, c.samples \in Seq(Samples),
           NEW m, m = ComputeCoverage(map, c)
    PROVE  /\ RowAddsUp(m) /\ RowGap(m, c.samples, ClassifyAirborne(c.samples))
           /\ RowCells(m)
  <1>1. PICK s, air : s = c.samples /\ air = ClassifyAirborne(s)
    OBVIOUS
  <1>2. s \in Seq(Samples) /\ air \in [DOMAIN s -> BOOLEAN]
    BY <1>1, AirborneIs
  <1>3. PICK f : /\ f = TallyTo(map, s, air)
                 /\ f[0] = NoTally
                 /\ \A i \in 1 .. Len(s) : f[i] = Tally(map, s, air, f[i - 1], i)
                 /\ \A i \in 0 .. Len(s) : Counted(map, s, air, f[i], i)
    BY <1>2, TallyToIs
  <1>4. PICK a, n : a = f[n] /\ n = Len(s) /\ n \in Nat
    BY <1>2
  <1>5. Counted(map, s, air, a, n)
    <2>1. n \in 0 .. Len(s)
      BY <1>4
    <2> QED
      BY <1>3, <1>4, <2>1
  <1>6. PICK covered : covered = a.covered
    OBVIOUS
  <1>7. covered = Explained(map, s, air, Len(s))
    BY <1>4, <1>5, <1>6 DEF Counted
  <1>8. PICK acc : /\ LongestGap(s, air, covered) = acc.best
                   /\ GapRight(map, s, air, a, acc, n)
    <2>1. Tallied(map, s, air, f)
      BY <1>3 DEF Tallied
    <2> QED
      BY <1>2, <1>4, <1>7, <2>1, LongestGapIs
  <1>9. PICK gap : gap = acc.best
    OBVIOUS
  <1>10. m = Measures(c, air, a)
    BY <1>1, <1>3, <1>4 DEF ComputeCoverage, MeasuresWith
  <1>11. /\ m.total = n /\ m.air = a.air /\ m.grounded = a.grounded /\ m.grid = a.grid
         /\ m.free = a.free /\ m.item = a.item /\ m.baked = a.baked
         /\ m.any = Cardinality(a.covered)
         /\ m.lost = a.lost /\ m.lostM = a.lostM /\ m.lostMs = a.lostMs
         /\ m.gap = gap[1] /\ m.gapM = gap[2] /\ m.gapMs = gap[3]
         /\ m.terrain = Len(a.terrain) /\ m.cells = a.terrain
    BY <1>1, <1>4, <1>6, <1>8, <1>9, <1>10 DEF Measures
  <1>12. RowAddsUp(m)
    BY <1>5, <1>11 DEF Counted, Balanced, RowAddsUp
  <1>13. RowCells(m)
    <2>1. a.terrain \in Seq(Lattice)
      BY <1>5 DEF Counted, Tallies
    <2> QED
      BY <1>11, <2>1 DEF RowCells
  <1>14. RowGap(m, s, air)
    <2>1. gap \in Triples /\ Within(gap, a)
      BY <1>8, <1>9 DEF GapRight, Gaps
    <2>2. PICK g1 \in Nat : gap[1] = g1
      BY <2>1, TripleIs
    <2>3. m.gap <= m.lost /\ m.gapM <= m.lostM /\ m.gapMs <= m.lostMs
      BY <1>11, <2>1 DEF Within
    <2>4. PICK e \in 0 .. n : RunTo(map, s, air, e, g1)
      BY <1>8, <1>9, <2>2 DEF GapRight
    <2>5. ASSUME g1 > 0
          PROVE  \E i \in DOMAIN s : \A j \in i .. i + g1 - 1 :
                       j \in DOMAIN s /\ ~air[j] /\ ~OnGround(s[j])
      <3>1. DOMAIN s = 1 .. n
        BY <1>2, <1>4
      <3>2. PICK i \in Int : i = e - g1 + 1
        OBVIOUS
      <3>3. g1 <= e /\ e \in Int /\ e <= n
        BY <2>4 DEF RunTo
      <3>4. i \in 1 .. n
        BY <1>4, <2>5, <3>2, <3>3
      <3>5. ASSUME NEW j \in i .. i + g1 - 1
            PROVE  j \in 1 .. n /\ Missing(map, s, air, j)
        <4>1. j \in Int /\ i <= j /\ j <= i + g1 - 1
          OBVIOUS
        <4>2. j \in 1 .. n /\ e - g1 < j /\ j <= e
          BY <1>4, <3>2, <3>3, <4>1
        <4> QED
          BY <1>4, <2>4, <4>2 DEF RunTo
      <3> QED
        BY <3>1, <3>4, <3>5 DEF Missing
    <2>6. m.gap = g1
      BY <1>11, <2>2
    <2> QED
      BY <2>3, <2>5, <2>6 DEF RowGap
  <1> QED
    BY <1>1, <1>12, <1>13, <1>14
-----------------------------------------------------------------------------
(* The state's rows, and the terrain cells of the row stored last.         *)
RowRight(k, m) ==
    /\ k.tele \in DOMAIN Captures
    /\ RowAddsUp(m)
    /\ RowGap(m, Captures[k.tele].samples, ClassifyAirborne(Captures[k.tele].samples))
    /\ RowCells(m)
RowsRight(cv) == \A k \in DOMAIN cv : RowRight(k, cv[k])
CellCounts(m) == [c \in TerrainCells(m) |-> Cardinality({i \in DOMAIN m.cells : m.cells[i] = c})]
TerrainRight(cv, te) == DOMAIN cv # {} => \E k \in DOMAIN cv : te = CellCounts(cv[k])

CoverageInv ==
    /\ capture = "none" \/ capture \in DOMAIN Captures
    /\ RowsRight(cov)
    /\ TerrainRight(cov, terrain)

\* A row's terrain cells hold as many samples as the row counts.
LEMMA CellsAddUp ==
    ASSUME NEW m, RowCells(m), NEW te, te = CellCounts(m)
    PROVE  DOMAIN te = TerrainCells(m) /\ m.terrain = SumOver(te, DOMAIN te)
  <1>1. PICK cells, n : cells = m.cells /\ n = Len(cells)
    OBVIOUS
  <1>2. cells \in Seq(Lattice) /\ n \in Nat /\ m.terrain = n /\ DOMAIN cells = 1 .. n
    BY <1>1 DEF RowCells
  <1>3. PICK D : D = 1 .. n
    OBVIOUS
  <1>4. IsFiniteSet(D) /\ Cardinality(D) = n
    BY <1>2, <1>3, FS_Interval
  <1>5. PICK S : S = TerrainCells(m)
    OBVIOUS
  <1>6. S = {cells[i] : i \in D}
    BY <1>1, <1>2, <1>3, <1>5 DEF TerrainCells
  <1>7. IsFiniteSet(S)
    BY <1>4, <1>6, ValuesFinite
  <1>8. DOMAIN te = S
    BY <1>5 DEF CellCounts
  <1>9. \A x \in S : te[x] = Cardinality(ClassOf(D, cells, x))
    BY <1>1, <1>2, <1>3, <1>5 DEF CellCounts, ClassOf
  <1>10. SumOver(te, S) = Cardinality({i \in D : cells[i] \in S})
    BY <1>4, <1>7, <1>9, SumOverCounts
  <1>11. {i \in D : cells[i] \in S} = D
    BY <1>6
  <1> QED
    BY <1>2, <1>4, <1>5, <1>8, <1>10, <1>11

LEMMA CoverageInit == DriveInit => CoverageInv
  BY DEF DriveInit, CoverageInv, RowsRight, TerrainRight

LEMMA CoverageStored == CoverageInv /\ StoreCoverage => CoverageInv'
  <1> SUFFICES ASSUME CoverageInv, StoreCoverage PROVE CoverageInv'
    OBVIOUS
  <1>1. PICK withBaked \in BOOLEAN :
            Persist([tele |-> capture, baked |-> withBaked],
                    ComputeCoverage(MapWith(withBaked), Captures[capture]))
    BY DEF StoreCoverage
  <1>2. PICK key, map, c : /\ key = [tele |-> capture, baked |-> withBaked]
                           /\ map = MapWith(withBaked) /\ c = Captures[capture]
    OBVIOUS
  <1>3. PICK m : m = ComputeCoverage(map, c)
    OBVIOUS
  <1>4. Persist(key, m)
    BY <1>1, <1>2, <1>3
  <1>5. capture \in DOMAIN Captures /\ capture' = capture
    BY DEF CoverageInv, StoreCoverage
  <1>6. c.samples \in Seq(Samples)
    BY <1>2, <1>5, CaptureAssumption DEF Samples
  <1>7. RowRight(key, m)
    <2>1. /\ RowAddsUp(m) /\ RowGap(m, c.samples, ClassifyAirborne(c.samples))
          /\ RowCells(m)
      BY <1>3, <1>6, MeasuresAre
    <2>2. key.tele = capture
      BY <1>2
    <2> QED
      BY <1>2, <1>5, <2>1, <2>2 DEF RowRight
  <1>8. /\ DOMAIN cov' = DOMAIN cov \cup {key}
        /\ \A k \in DOMAIN cov \cup {key} : cov'[k] = IF k = key THEN m ELSE cov[k]
    BY <1>4 DEF Persist
  <1>9. RowsRight(cov')
    <2>1. RowsRight(cov)
      BY DEF CoverageInv
    <2> QED
      BY <1>7, <1>8, <2>1 DEF RowsRight
  <1>10. TerrainRight(cov', terrain')
    <2>1. terrain' = CellCounts(m)
      BY <1>4 DEF Persist, CellCounts
    <2>2. key \in DOMAIN cov' /\ cov'[key] = m
      BY <1>8
    <2> QED
      BY <2>1, <2>2 DEF TerrainRight
  <1> QED
    BY <1>5, <1>9, <1>10 DEF CoverageInv

LEMMA CoverageStep == CoverageInv /\ [DriveNext]_driveVars => CoverageInv'
  <1> SUFFICES ASSUME CoverageInv, [DriveNext]_driveVars PROVE CoverageInv'
    OBVIOUS
  <1>1. CASE UNCHANGED <<cov, terrain, capture>>
    BY <1>1 DEF CoverageInv
  <1>2. CASE IngestDirectory
    BY <1>2 DEF IngestDirectory, CoverageInv
  <1>3. CASE StoreCoverage
    BY <1>3, CoverageStored
  <1>4. CASE DriveBegin \/ IngestMapItems \/ IngestBakedBlocks
    BY <1>1, <1>4 DEF DriveBegin, IngestMapItems, IngestBakedBlocks
  <1>5. CASE ExtractStart \/ ExtractEnd \/ ExtractOpen
    BY <1>1, <1>5 DEF ExtractStart, ExtractEnd, ExtractOpen
  <1>6. CASE ExtractColumn \/ ExtractSave
    BY <1>1, <1>6 DEF ExtractColumn, ExtractSave
  <1>7. CASE UNCHANGED driveVars
    BY <1>1, <1>7 DEF driveVars
  <1> QED
    BY <1>2, <1>3, <1>4, <1>5, <1>6, <1>7 DEF DriveNext

LEMMA CoverageFollows == CoverageInv => CoverageSound
  <1> SUFFICES ASSUME CoverageInv PROVE CoverageSound
    OBVIOUS
  <1>1. RowsRight(cov) /\ TerrainRight(cov, terrain)
    BY DEF CoverageInv
  <1>2. CountsAddUp
    BY <1>1 DEF RowsRight, RowRight, RowAddsUp, CountsAddUp
  <1>3. GapIsARun
    BY <1>1 DEF RowsRight, RowRight, RowGap, GapIsARun
  <1>4. TerrainOfOneRow
    <2> SUFFICES ASSUME DOMAIN cov # {}
                 PROVE  \E k \in DOMAIN cov :
                           /\ DOMAIN terrain = TerrainCells(cov[k])
                           /\ cov[k].terrain = SumOver(terrain, DOMAIN terrain)
      BY DEF TerrainOfOneRow
    <2>1. PICK k \in DOMAIN cov : terrain = CellCounts(cov[k])
      BY <1>1 DEF TerrainRight
    <2>2. PICK m : m = cov[k]
      OBVIOUS
    <2>3. RowCells(m)
      BY <1>1, <2>2 DEF RowsRight, RowRight
    <2> QED
      BY <2>1, <2>2, <2>3, CellsAddUp
  <1> QED
    BY <1>2, <1>3, <1>4 DEF CoverageSound

(* Every coverage row counts each sample once, its longest gap is one run  *)
(* of samples the unmatched totals hold, and the terrain cells on record   *)
(* are one row's (compute_coverage and persist), for any map and captures. *)
THEOREM CoverageAddsUp == DriveInit /\ [][DriveNext]_driveVars => []CoverageSound
  <1>1. DriveInit => CoverageInv
    BY CoverageInit
  <1>2. CoverageInv /\ [DriveNext]_driveVars => CoverageInv'
    BY CoverageStep
  <1>3. CoverageInv => CoverageSound
    BY CoverageFollows
  <1> QED
    BY <1>1, <1>2, <1>3, PTL

-----------------------------------------------------------------------------
(* The driven path: the candidates of a sample.                            *)

LEMMA IdsOf ==
    ASSUME NEW ps \in Seq(Placement), NEW I, I \subseteq DOMAIN ps, NEW cap,
           NEW own, own = Picked(ps, I), cap \in Nat, cap <= Len(own)
    PROVE  [i \in 1 .. cap |-> own[i].id] \in Seq(Nat)
  <1>1. own \in Seq(Placement)
    BY PickedMembers
  <1>2. \A i \in 1 .. cap : own[i] \in Placement
    BY <1>1
  <1>3. \A i \in 1 .. cap : own[i].id \in Nat
    BY <1>2 DEF Placement
  <1> QED
    BY <1>3

LEMMA BucketIs ==
    ASSUME NEW ps \in Seq(Placement), NEW c
    PROVE  Bucket(ps, c) \in Seq(Nat)
  <1>1. PICK I : I = {i \in DOMAIN ps : c \in GridFootprintCells(ps[i])}
    OBVIOUS
  <1>2. PICK own : own = Picked(ps, I)
    OBVIOUS
  <1>3. own \in Seq(Placement) /\ Len(own) \in Nat
    BY <1>1, <1>2, PickedMembers
  <1>4. PICK n, T : n = Len(own) /\ T = {n, MaxPerCell}
    OBVIOUS
  <1>5. T \subseteq Int /\ T # {} /\ n \in T
    BY <1>3, <1>4, MatcherAssumption
  <1>6. IsFiniteSet(T)
    <2>1. IsFiniteSet({}) /\ IsFiniteSet({} \cup {n}) /\ IsFiniteSet(({} \cup {n}) \cup {MaxPerCell})
      BY FS_EmptySet, FS_AddElement
    <2>2. T = ({} \cup {n}) \cup {MaxPerCell}
      BY <1>4
    <2> QED
      BY <2>1, <2>2
  <1>7. PICK m : m = Smallest(T)
    OBVIOUS
  <1>8. m \in T /\ m <= n
    BY <1>5, <1>6, <1>7, SmallestIs
  <1>9. m \in Nat
    BY <1>3, <1>4, <1>8, MatcherAssumption
  <1>10. [i \in 1 .. m |-> own[i].id] \in Seq(Nat)
    <2>1. I \subseteq DOMAIN ps /\ m <= Len(own)
      BY <1>1, <1>4, <1>8
    <2> QED
      BY <1>2, <1>9, <2>1, IdsOf
  <1>11. Bucket(ps, c) = [i \in 1 .. m |-> own[i].id]
    BY <1>1, <1>2, <1>4, <1>7 DEF Bucket
  <1> QED
    BY <1>10, <1>11

LEMMA FreeIs ==
    ASSUME NEW ps \in Seq(Placement), NEW q
    PROVE  FreeCandidates(ps, q) \in Seq(Nat)
  <1>1. PICK I : I = {i \in DOMAIN ps : ps[i].free /\ BoxContains(ps[i], q)}
    OBVIOUS
  <1>2. PICK own : own = Picked(ps, I)
    OBVIOUS
  <1>3. own \in Seq(Placement) /\ Len(own) \in Nat
    BY <1>1, <1>2, PickedMembers
  <1>4. PICK n : n = Len(own)
    OBVIOUS
  <1>5. n \in Nat /\ n <= Len(own) /\ DOMAIN own = 1 .. n
    <2>1. DOMAIN own = 1 .. Len(own)
      BY <1>3
    <2> QED
      BY <1>3, <1>4, <2>1
  <1>6. [i \in 1 .. n |-> own[i].id] \in Seq(Nat)
    BY <1>1, <1>2, <1>5, IdsOf
  <1>7. FreeCandidates(ps, q) = [i \in 1 .. n |-> own[i].id]
    BY <1>1, <1>2, <1>5 DEF FreeCandidates
  <1> QED
    BY <1>6, <1>7

\* A point with a block under it has a candidate.
LEMMA PointIs ==
    ASSUME NEW ps \in Seq(Placement), NEW q
    PROVE  \E cands \in Seq(Nat) :
              /\ cands = PointCandidates(ps, q)
              /\ (\E k \in DOMAIN RowTolerance : GridHit(ps, q, RowTolerance[k]))
                     \/ FreeHit(ps, q) => \E x \in Nat : Has(cands, x)
  <1>1. PICK free : free = FreeCandidates(ps, q)
    OBVIOUS
  <1>2. PICK rows : rows = [k \in DOMAIN RowTolerance |-> GridCandidates(ps, q, RowTolerance[k])]
    OBVIOUS
  <1>3. DOMAIN RowTolerance = 1 .. 2
    BY DEF RowTolerance
  <1>4. rows \in Seq(Seq(Nat)) /\ Len(rows) = 2
    <2>1. \A k \in 1 .. 2 : rows[k] \in Seq(Nat)
      BY <1>2, <1>3, BucketIs DEF GridCandidates
    <2>2. rows = [k \in 1 .. 2 |-> rows[k]]
      BY <1>2, <1>3
    <2> QED
      BY <2>1, <2>2
  <1>5. PICK grid : grid = Joined(rows)
    OBVIOUS
  <1>6. grid \in Seq(Nat) /\ free \in Seq(Nat)
    BY <1>1, <1>4, <1>5, JoinedMembers, FreeIs
  <1>7. PICK cands : cands = grid \o free
    OBVIOUS
  <1>8. /\ cands \in Seq(Nat) /\ Len(cands) = Len(grid) + Len(free)
    BY <1>6, <1>7, ConcatProperties
  <1>9. cands = PointCandidates(ps, q)
    BY <1>1, <1>2, <1>5, <1>7 DEF PointCandidates
  <1>10. ASSUME NEW k \in DOMAIN RowTolerance, GridHit(ps, q, RowTolerance[k])
         PROVE  Len(grid) > 0
    <2>1. rows[k] # << >> /\ k \in 1 .. 2 /\ rows[k] \in Seq(Nat)
      BY <1>2, <1>3, <1>4, <1>10 DEF GridHit
    <2>2. PICK x : x = rows[k][1]
      OBVIOUS
    <2>3. x \in Nat /\ Has(rows[k], x)
      BY <2>1, <2>2, EmptySeq DEF Has
    <2>4. k \in 1 .. Len(rows)
      BY <1>4, <2>1
    <2>5. Has(grid, x)
      BY <1>4, <1>5, <2>3, <2>4, JoinedHas
    <2>6. PICK i \in DOMAIN grid : grid[i] = x
      BY <2>5 DEF Has
    <2> QED
      BY <1>6, <2>6
  <1>11. ASSUME FreeHit(ps, q) PROVE Len(free) > 0
    BY <1>1, <1>6, <1>11, EmptySeq DEF FreeHit
  <1>12. ASSUME Len(grid) > 0 \/ Len(free) > 0
         PROVE  \E x \in Nat : Has(cands, x)
    <2>1. Len(cands) > 0
      BY <1>6, <1>8, <1>12
    <2>2. 1 \in DOMAIN cands /\ cands[1] \in Nat
      BY <1>8, <2>1
    <2> QED
      BY <2>2 DEF Has
  <1> QED
    BY <1>8, <1>9, <1>10, <1>11, <1>12

\* The first of equal members is kept.
LEMMA DistinctHas ==
    ASSUME NEW X, NEW s \in Seq(X), NEW x, Has(s, x)
    PROVE  Has(Distinct(s), x)
  <1>1. PICK T : T = {i \in DOMAIN s : s[i] = x}
    OBVIOUS
  <1>2. T # {} /\ T \subseteq Nat /\ DOMAIN s = 1 .. Len(s)
    BY <1>1 DEF Has
  <1>3. PICK i \in T : \A j \in T : i <= j
    BY <1>2, LeastNat
  <1>4. PICK I : I = {k \in DOMAIN s : \A j \in 1 .. k - 1 : s[j] # s[k]}
    OBVIOUS
  <1>5. i \in I
    <2>1. i \in DOMAIN s /\ s[i] = x
      BY <1>1
    <2>2. ASSUME NEW j \in 1 .. i - 1 PROVE s[j] # s[i]
      <3>1. j \in DOMAIN s /\ j < i
        BY <1>2, <2>1
      <3>2. j \notin T
        BY <1>2, <1>3, <3>1
      <3> QED
        BY <1>1, <2>1, <3>1, <3>2
    <2> QED
      BY <1>4, <2>1, <2>2
  <1>6. I \subseteq DOMAIN s /\ Distinct(s) = Picked(s, I)
    BY <1>4 DEF Distinct
  <1>7. /\ DOMAIN Picked(s, I) = 1 .. Cardinality(I)
        /\ \A k \in I : \E n \in 1 .. Cardinality(I) : Picked(s, I)[n] = s[k]
    BY <1>6, PickedMembers
  <1> QED
    BY <1>1, <1>5, <1>6, <1>7 DEF Has

LEMMA DistinctIs ==
    ASSUME NEW X, NEW s \in Seq(X)
    PROVE  Distinct(s) \in Seq(X)
  <1>1. PICK I : I = {k \in DOMAIN s : \A j \in 1 .. k - 1 : s[j] # s[k]}
    OBVIOUS
  <1>2. I \subseteq DOMAIN s /\ Distinct(s) = Picked(s, I)
    BY <1>1 DEF Distinct
  <1> QED
    BY <1>2, PickedMembers

\* A row that starts with p.
StartsWith(f, p) == \E n \in Nat : DOMAIN f = 1 .. n + 1 /\ f[1] = p

LEMMA HeadFirst ==
    ASSUME NEW X, NEW p \in X, NEW r \in Seq(X)
    PROVE  StartsWith(<<p>> \o r, p) /\ StartsWith(<<p>>, p)
  <1>1. PICK one : one = <<p>>
    OBVIOUS
  <1>2. one \in Seq(X) /\ Len(one) = 1 /\ one[1] = p /\ DOMAIN one = 1 .. 0 + 1
    BY <1>1
  <1>3. PICK n \in Nat : n = Len(r)
    OBVIOUS
  <1>4. PICK f : f = one \o r
    OBVIOUS
  <1>5. f \in Seq(X) /\ Len(f) = 1 + n
    <2>1. one \in Seq(X) /\ r \in Seq(X)
      BY <1>2
    <2>2. f \in Seq(X) /\ Len(f) = Len(one) + Len(r)
      BY <1>4, <2>1, ConcatProperties
    <2> QED
      BY <1>2, <1>3, <2>2
  <1>6. DOMAIN f = 1 .. n + 1
    BY <1>5
  <1>7. f[1] = one[1]
    <2>1. 1 \in 1 .. Len(one) + Len(r) /\ 1 <= Len(one)
      BY <1>2, <1>3
    <2> QED
      BY <1>2, <1>3, <1>4, <2>1, ConcatProperties
  <1> QED
    BY <1>1, <1>2, <1>4, <1>6, <1>7 DEF StartsWith

\* The points of a sweep are a row that starts at the sample.
LEMMA SweptFrom ==
    ASSUME NEW a \in Lattice, NEW b \in Lattice
    PROVE  StartsWith(SweptPoints(a, b), Point(a))
  <1>1. PICK d : d = Minus(b, a)
    OBVIOUS
  <1>2. PICK sq : sq = d[1] * d[1] + d[2] * d[2] + d[3] * d[3]
    OBVIOUS
  <1>3. d[1] \in Int /\ d[2] \in Int /\ d[3] \in Int
    BY <1>1 DEF Minus, Lattice
  <1>4. sq \in Nat
    <2>1. \A x \in Int : x * x \in Nat
      OBVIOUS
    <2>2. d[1] * d[1] \in Nat /\ d[2] * d[2] \in Nat /\ d[3] * d[3] \in Nat
      BY <1>3, <2>1
    <2> QED
      BY <1>2, <2>2
  <1>5. PICK long : long = Abs(d[1]) + Abs(d[2]) + Abs(d[3])
    OBVIOUS
  <1>6. long \in Nat
    <2>1. \A x \in Int : Abs(x) \in Nat
      BY DEF Abs
    <2>2. Abs(d[1]) \in Nat /\ Abs(d[2]) \in Nat /\ Abs(d[3]) \in Nat
      BY <1>3, <2>1
    <2> QED
      BY <1>5, <2>2
  <1>7. PICK K : K = {k \in 0 .. long : k * k * SweepStep * SweepStep <= sq}
    OBVIOUS
  <1>8. PICK n : n = Largest(K)
    OBVIOUS
  <1>9. n \in Nat
    <2>1. K \subseteq 0 .. long
      BY <1>7
    <2>2. 0 \in K
      BY <1>4, <1>6, <1>7 DEF SweepStep
    <2>3. IsFiniteSet(0 .. long)
      BY <1>6, FS_Interval
    <2>4. IsFiniteSet(K) /\ K \subseteq Int /\ K # {}
      <3>1. PICK D : D = 0 .. long
        OBVIOUS
      <3>2. K \in SUBSET D /\ IsFiniteSet(D)
        BY <2>1, <2>3, <3>1
      <3>3. IsFiniteSet(K)
        BY <3>2, FS_Subset
      <3> QED
        BY <1>6, <2>1, <2>2, <3>3
    <2>5. n \in K
      BY <1>8, <2>4, LargestIs
    <2> QED
      BY <1>6, <2>1, <2>5
  <1> DEFINE At(k) == <<a[1] * (n + 1) + d[1] * k, a[2] * (n + 1) + d[2] * k,
                        a[3] * (n + 1) + d[3] * k, n + 1>>
             rest == [k \in 1 .. n |-> At(k)]
             X == {Point(a)} \cup {At(k) : k \in 1 .. n}
  <1>10. PICK Y : Y = X
    OBVIOUS
  <1>11. rest \in Seq(Y) /\ Point(a) \in Y
    BY <1>9, <1>10
  <1>12. SweptPoints(a, b) = IF sq > SweepStep * SweepStep THEN <<Point(a)>> \o rest
                             ELSE <<Point(a)>>
    BY <1>1, <1>2, <1>5, <1>7, <1>8 DEF SweptPoints
  <1> HIDE DEF rest, X, At
  <1>13. StartsWith(<<Point(a)>> \o rest, Point(a)) /\ StartsWith(<<Point(a)>>, Point(a))
    BY <1>11, HeadFirst
  <1> QED
    BY <1>12, <1>13

\* A candidate at the sample itself is a candidate of the sweep.
LEMMA SweptIs ==
    ASSUME NEW ps \in Seq(Placement), NEW s \in Seq(Samples), NEW i \in 1 .. Len(s)
    PROVE  /\ SweptCandidates(ps, s, i) \in Seq(Nat)
           /\ \A x \in Nat : Has(PointCandidates(ps, Point(s[i].at)), x)
                                 => Has(SweptCandidates(ps, s, i), x)
  <1>1. PICK points : points = IF i < Len(s) THEN SweptPoints(s[i].at, s[i + 1].at)
                               ELSE <<Point(s[i].at)>>
    OBVIOUS
  <1>2. PICK n \in Nat : DOMAIN points = 1 .. n + 1 /\ points[1] = Point(s[i].at)
    <2>1. s[i] \in Samples
      OBVIOUS
    <2>2. s[i].at \in Lattice
      BY <2>1 DEF Samples
    <2>3. ASSUME i < Len(s) PROVE StartsWith(points, Point(s[i].at))
      <3>1. s[i + 1] \in Samples
        BY <2>3
      <3>2. s[i + 1].at \in Lattice
        BY <3>1 DEF Samples
      <3>3. PICK a, b : a = s[i].at /\ b = s[i + 1].at
        OBVIOUS
      <3>4. StartsWith(SweptPoints(a, b), Point(a))
        BY <2>2, <3>2, <3>3, SweptFrom
      <3>5. points = SweptPoints(a, b)
        BY <1>1, <2>3, <3>3
      <3> QED
        BY <3>3, <3>4, <3>5
    <2>4. ASSUME ~(i < Len(s)) PROVE StartsWith(points, Point(s[i].at))
      <3>1. PICK p : p = Point(s[i].at)
        OBVIOUS
      <3>2. points = <<p>>
        BY <1>1, <2>4, <3>1
      <3>3. PICK X : X = {p}
        OBVIOUS
      <3>4. p \in X /\ << >> \in Seq(X)
        BY <3>3
      <3> QED
        BY <3>1, <3>2, <3>4, HeadFirst
    <2>5. StartsWith(points, Point(s[i].at))
      BY <2>3, <2>4
    <2> QED
      BY <2>5 DEF StartsWith
  <1>3. PICK ss : ss = [k \in DOMAIN points |-> PointCandidates(ps, points[k])]
    OBVIOUS
  <1>4. ss \in Seq(Seq(Nat)) /\ Len(ss) = n + 1
    <2>1. \A k \in 1 .. n + 1 : ss[k] \in Seq(Nat)
      <3> SUFFICES ASSUME NEW k \in 1 .. n + 1 PROVE ss[k] \in Seq(Nat)
        OBVIOUS
      <3>1. PICK q : q = points[k]
        OBVIOUS
      <3>2. PointCandidates(ps, q) \in Seq(Nat)
        BY PointIs
      <3> QED
        BY <1>2, <1>3, <3>1, <3>2
    <2>2. ss = [k \in 1 .. n + 1 |-> ss[k]]
      BY <1>2, <1>3
    <2> QED
      BY <2>1, <2>2
  <1>5. PICK all : all = Joined(ss)
    OBVIOUS
  <1>6. all \in Seq(Nat)
    BY <1>4, <1>5, JoinedMembers
  <1>7. SweptCandidates(ps, s, i) = Distinct(all)
    BY <1>1, <1>3, <1>5 DEF SweptCandidates
  <1>8. Distinct(all) \in Seq(Nat)
    BY <1>6, DistinctIs
  <1>9. ASSUME NEW x \in Nat, Has(PointCandidates(ps, Point(s[i].at)), x)
        PROVE  Has(Distinct(all), x)
    <2>1. 1 \in 1 .. Len(ss) /\ ss[1] = PointCandidates(ps, Point(s[i].at))
      BY <1>2, <1>3, <1>4
    <2>2. Has(ss[1], x)
      BY <1>9, <2>1
    <2>3. Has(all, x)
      BY <1>4, <1>5, <2>1, <2>2, JoinedHas
    <2> QED
      BY <1>6, <2>3, DistinctHas
  <1> QED
    BY <1>7, <1>8, <1>9

\* The states of each step: never none, and every candidate of the sweep.
LEMMA StatesAre ==
    ASSUME NEW ps \in Seq(Placement), NEW s \in Seq(Samples)
    PROVE  \E steps : /\ steps = StepStates(ps, s)
                      /\ DOMAIN steps = 1 .. Len(s)
                      /\ \A i \in 1 .. Len(s) :
                            /\ steps[i] \in Seq(Int) /\ steps[i] # << >>
                            /\ \A x \in Nat : Has(SweptCandidates(ps, s, i), x) => Has(steps[i], x)
  <1>1. PICK steps : steps = StepStates(ps, s)
    OBVIOUS
  <1>2. DOMAIN steps = 1 .. Len(s)
    BY <1>1 DEF StepStates
  <1>3. ASSUME NEW i \in 1 .. Len(s)
        PROVE  /\ steps[i] \in Seq(Int) /\ steps[i] # << >>
               /\ \A x \in Nat : Has(SweptCandidates(ps, s, i), x) => Has(steps[i], x)
    <2>1. PICK cands, none : /\ cands = SweptCandidates(ps, s, i)
                             /\ none = (IF ClassifyAirborne(s)[i] THEN Airborne ELSE OffSurface)
      OBVIOUS
    <2>2. steps[i] = Append(cands, none)
      BY <1>1, <2>1 DEF StepStates
    <2>3. cands \in Seq(Nat) /\ none \in Int
      BY <2>1, SweptIs DEF Airborne, OffSurface
    <2>4. cands \in Seq(Int)
      BY <2>3
    <2>5. /\ steps[i] \in Seq(Int) /\ Len(steps[i]) = Len(cands) + 1
          /\ \A j \in 1 .. Len(cands) : steps[i][j] = cands[j]
      BY <2>2, <2>3, <2>4, AppendProperties
    <2>6. steps[i] # << >>
      BY <2>4, <2>5, EmptySeq
    <2>7. \A j \in DOMAIN cands : j \in DOMAIN steps[i] /\ steps[i][j] = cands[j]
      <3>1. PICK n \in Nat : n = Len(cands) /\ DOMAIN cands = 1 .. n
        BY <2>4
      <3>2. DOMAIN steps[i] = 1 .. n + 1
        BY <2>5, <3>1
      <3> QED
        BY <2>5, <3>1, <3>2
    <2> QED
      BY <2>1, <2>5, <2>6, <2>7 DEF Has
  <1> QED
    BY <1>1, <1>2, <1>3

-----------------------------------------------------------------------------
(* The search: its columns hold the least cost of a sequence that ends in  *)
(* each state, and the trail back is a sequence of that cost.              *)

LEMMA CostsNat ==
    ASSUME NEW adj, NEW a, NEW b, NEW states
    PROVE  Transition(adj, a, b) \in Nat /\ Emission(states, b) \in Nat
  <1>1. Transition(adj, a, b) \in Nat
    BY DEF Transition, CostStay, CostAdjacent, CostStateChange, CostTeleport
  <1>2. Emission(states, b) \in Nat
    BY DEF Emission, CostIgnoreCandidate
  <1> QED
    BY <1>1, <1>2

LEMMA StepCostNat ==
    ASSUME NEW adj, NEW steps, NEW p, NEW i
    PROVE  StepCost(adj, steps, p, i) \in Nat
  <1>1. PICK e \in Nat, t \in Nat : /\ e = Emission(steps[i], p[i])
                                    /\ t = Transition(adj, p[i - 1], p[i])
    BY CostsNat
  <1>2. StepCost(adj, steps, p, i) = e + (IF i = 1 THEN 0 ELSE t)
    BY <1>1 DEF StepCost
  <1> QED
    BY <1>2

LEMMA ArgMinIs ==
    ASSUME NEW n \in Nat \ {0}, NEW s, DOMAIN s = 1 .. n, \A j \in 1 .. n : s[j] \in Nat
    PROVE  ArgMin(s) \in 1 .. n /\ \A j \in 1 .. n : s[ArgMin(s)] <= s[j]
  <1>1. PICK T : T = {s[j] : j \in 1 .. n}
    OBVIOUS
  <1>2. T \subseteq Nat /\ s[1] \in T
    BY <1>1
  <1>3. PICK v \in T : \A w \in T : v <= w
    BY <1>2, LeastNat
  <1>4. PICK I : I = {j \in 1 .. n : s[j] = v}
    OBVIOUS
  <1>5. I \subseteq Nat /\ I # {}
    BY <1>1, <1>4
  <1>6. PICK i \in I : \A j \in I : i <= j
    BY <1>5, LeastNat
  <1>7. i \in 1 .. n /\ s[i] = v
    BY <1>4
  <1>8. \A j \in 1 .. n : s[i] <= s[j]
    BY <1>1, <1>3, <1>7
  <1>9. ASSUME NEW j \in 1 .. i - 1 PROVE s[j] > s[i]
    <2>1. j \in 1 .. n /\ j < i /\ s[j] \in Nat /\ s[i] \in Nat
      BY <1>7
    <2>2. j \notin I
      <3>1. ASSUME j \in I PROVE FALSE
        <4>1. i <= j
          BY <1>6, <3>1
        <4> QED
          BY <1>7, <2>1, <4>1
      <3> QED
        BY <3>1
    <2>3. s[j] # s[i] /\ s[i] <= s[j]
      BY <1>4, <1>7, <1>8, <2>1, <2>2
    <2> QED
      BY <2>1, <2>3
  <1>10. \E k \in DOMAIN s : /\ \A j \in DOMAIN s : s[k] <= s[j]
                             /\ \A j \in 1 .. k - 1 : s[j] > s[k]
    BY <1>7, <1>8, <1>9
  <1> QED
    BY <1>10 DEF ArgMin

\* The states of every step: never none.
Filled(steps) == \A i \in 1 .. Len(steps) : steps[i] \in Seq(Int) /\ steps[i] # << >>
\* g adds up what p costs, up to its step c.
CostsAlong(adj, steps, p, c, g) ==
    g[0] = 0 /\ \A i \in 1 .. c : g[i] = g[i - 1] + StepCost(adj, steps, p, i)
\* p is a sequence of states, up to its step c.
Chosen(steps, p, c) == \A i \in 1 .. c : Has(steps[i], p[i])
\* Every sequence that ends in a state costs what the column says, or more.
Lower(adj, steps, c, costs) ==
    \A p, g, k : (/\ Chosen(steps, p, c) /\ CostsAlong(adj, steps, p, c, g)
                  /\ k \in DOMAIN steps[c] /\ p[c] = steps[c][k])
                      => costs[k] <= g[c]
\* The trail back from a state costs what the column says.
Trail(steps, back, c, ix, p) ==
    /\ \A i \in 1 .. c : ix[i] \in DOMAIN steps[i] /\ p[i] = steps[i][ix[i]]
    /\ \A i \in 1 .. c - 1 : ix[i] = back[i][ix[i + 1]]
Exact(adj, steps, c, costs, back) ==
    \A ix, p, g : Trail(steps, back, c, ix, p) /\ CostsAlong(adj, steps, p, c, g)
                      => costs[ix[c]] = g[c]
ColumnsRight(adj, steps, c, costs, back) ==
    /\ steps \in Seq(Seq(Int)) /\ Filled(steps) /\ c \in 1 .. Len(steps)
    /\ costs \in Seq(Nat) /\ Len(costs) = Len(steps[c])
    /\ back \in Seq(Seq(Nat)) /\ Len(back) = c - 1
    /\ \A i \in 1 .. c - 1 : \A k \in DOMAIN steps[i + 1] : back[i][k] \in DOMAIN steps[i]
    /\ Lower(adj, steps, c, costs) /\ Exact(adj, steps, c, costs, back)

LEMMA CostsAlongNat ==
    ASSUME NEW adj, NEW steps, NEW p, NEW c \in Nat, NEW g, CostsAlong(adj, steps, p, c, g)
    PROVE  \A i \in 0 .. c : g[i] \in Nat
  <1>1. PICK P : P = [i \in 0 .. c |-> Nat]
    OBVIOUS
  <1>2. g[0] \in P[0]
    BY <1>1 DEF CostsAlong
  <1>3. \A i \in 1 .. c : g[i - 1] \in P[i - 1] => g[i] \in P[i]
    BY <1>1, StepCostNat DEF CostsAlong
  <1>4. \A i \in 0 .. c : g[i] \in P[i]
    BY <1>2, <1>3, HoldsAlong
  <1> QED
    BY <1>1, <1>4

LEMMA ColumnsFirst ==
    ASSUME NEW adj, NEW steps \in Seq(Seq(Int)), Filled(steps), Len(steps) >= 1
    PROVE  ColumnsRight(adj, steps, 1, FirstColumn(steps[1]), << >>)
  <1>1. PICK states, costs : states = steps[1] /\ costs = FirstColumn(states)
    OBVIOUS
  <1>2. states \in Seq(Int)
    BY <1>1 DEF Filled
  <1>3. /\ \A k \in DOMAIN states : costs[k] = Emission(states, states[k])
        /\ DOMAIN costs = 1 .. Len(states)
    BY <1>1, <1>2 DEF FirstColumn
  <1>4. costs \in Seq(Nat) /\ Len(costs) = Len(states)
    <2>1. \A k \in 1 .. Len(states) : costs[k] \in Nat
      <3>1. \A x : Emission(states, x) \in Nat
        BY CostsNat
      <3>2. DOMAIN states = 1 .. Len(states)
        BY <1>2
      <3> QED
        BY <1>3, <3>1, <3>2
    <2>2. costs = [k \in 1 .. Len(states) |-> costs[k]]
      BY <1>1, <1>2, <1>3 DEF FirstColumn
    <2> QED
      BY <1>2, <2>1, <2>2
  <1>5. ASSUME NEW p, NEW g, CostsAlong(adj, steps, p, 1, g) PROVE g[1] = Emission(states, p[1])
    <2>1. PICK e \in Nat : e = Emission(states, p[1])
      BY CostsNat
    <2>2. StepCost(adj, steps, p, 1) = e + 0
      BY <1>1, <2>1 DEF StepCost
    <2>3. g[1] = g[0] + StepCost(adj, steps, p, 1) /\ g[0] = 0
      BY <1>5 DEF CostsAlong
    <2> QED
      BY <2>1, <2>2, <2>3
  <1>6. Lower(adj, steps, 1, costs)
    <2>1. PICK c : c = 1
      OBVIOUS
    <2>2. ASSUME NEW p, NEW g, NEW k, CostsAlong(adj, steps, p, c, g),
                 k \in DOMAIN steps[c], p[c] = steps[c][k]
          PROVE  costs[k] <= g[c]
      <3>1. PICK e \in Nat : e = Emission(states, p[1])
        BY CostsNat
      <3>2. costs[k] = e
        BY <1>1, <1>3, <2>1, <2>2, <3>1
      <3>3. g[1] = e
        BY <1>5, <2>1, <2>2, <3>1
      <3> QED
        BY <2>1, <3>2, <3>3
    <2>3. Lower(adj, steps, c, costs)
      BY <2>2 DEF Lower
    <2> QED
      BY <2>1, <2>3
  <1>7. Exact(adj, steps, 1, costs, << >>)
    <2> SUFFICES ASSUME NEW ix, NEW p, NEW g, Trail(steps, << >>, 1, ix, p),
                        CostsAlong(adj, steps, p, 1, g)
                 PROVE  costs[ix[1]] = g[1]
      BY DEF Exact
    <2>1. ix[1] \in DOMAIN states /\ p[1] = states[ix[1]]
      BY <1>1 DEF Trail
    <2> QED
      BY <1>3, <1>5, <2>1
  <1> QED
    BY <1>1, <1>4, <1>6, <1>7 DEF ColumnsRight

\* What a column's entry is, and that no predecessor does better.
EntryIs(adj, before, after, costs, x, k) ==
    /\ x.back \in 1 .. Len(before) /\ x.cost \in Nat
    /\ x.cost = costs[x.back] + Transition(adj, before[x.back], after[k]) + Emission(after, after[k])
    /\ \A j \in 1 .. Len(before) :
          x.cost <= costs[j] + Transition(adj, before[j], after[k]) + Emission(after, after[k])

LEMMA EntryOf ==
    ASSUME NEW adj, NEW before \in Seq(Int), NEW after \in Seq(Int), before # << >>,
           NEW costs \in Seq(Nat), Len(costs) = Len(before), NEW k \in 1 .. Len(after),
           NEW nc, nc = NextColumn(adj, before, costs, after)
    PROVE  EntryIs(adj, before, after, costs, nc[k], k)
  <1>1. PICK n \in Nat : n = Len(before) /\ n # 0
    BY EmptySeq
  <1>2. PICK via : via = [j \in DOMAIN before |-> costs[j] + Transition(adj, before[j], after[k])]
    OBVIOUS
  <1>3. \A j \in 1 .. n : costs[j] \in Nat
    BY <1>1
  <1>4. \A j \in 1 .. n : Transition(adj, before[j], after[k]) \in Nat
    BY CostsNat
  <1>5. DOMAIN via = 1 .. n
    BY <1>1, <1>2
  <1>6. ASSUME NEW j \in 1 .. n
        PROVE  via[j] = costs[j] + Transition(adj, before[j], after[k]) /\ via[j] \in Nat
    <2>1. PICK x \in Nat, y \in Nat : x = costs[j] /\ y = Transition(adj, before[j], after[k])
      BY <1>3, <1>4
    <2>2. DOMAIN before = 1 .. n
      BY <1>1
    <2>3. via[j] = costs[j] + Transition(adj, before[j], after[k])
      BY <1>2, <2>2
    <2>4. via[j] = x + y
      BY <1>2, <2>1, <2>2
    <2>5. via[j] \in Nat
      BY <2>4
    <2> QED
      BY <2>3, <2>5
  <1>7. PICK b : b = ArgMin(via)
    OBVIOUS
  <1>8. b \in 1 .. n /\ \A j \in 1 .. n : via[b] <= via[j]
    BY <1>1, <1>5, <1>6, <1>7, ArgMinIs
  <1>9. PICK e \in Nat : e = Emission(after, after[k])
    BY CostsNat
  <1>10. nc[k] = [cost |-> via[b] + e, back |-> b]
    <2>1. DOMAIN after = 1 .. Len(after)
      OBVIOUS
    <2> QED
      BY <1>2, <1>7, <1>9, <2>1 DEF NextColumn
  <1>11. nc[k].back = b /\ nc[k].cost = via[b] + e
    BY <1>10
  <1>12. nc[k].cost \in Nat
    <2>1. PICK v \in Nat : v = via[b]
      BY <1>6, <1>8
    <2> QED
      BY <1>11, <2>1
  <1>13. nc[k].cost = costs[b] + Transition(adj, before[b], after[k]) + e
    BY <1>6, <1>8, <1>11
  <1>14. ASSUME NEW j \in 1 .. n
         PROVE  nc[k].cost <= costs[j] + Transition(adj, before[j], after[k]) + e
    <2>1. PICK v \in Nat, w \in Nat : v = via[b] /\ w = via[j]
      BY <1>6, <1>8
    <2>2. v <= w
      BY <1>8, <2>1
    <2>3. nc[k].cost = v + e /\ costs[j] + Transition(adj, before[j], after[k]) = w
      BY <1>6, <1>11, <2>1
    <2> QED
      BY <2>2, <2>3
  <1> QED
    BY <1>1, <1>8, <1>9, <1>11, <1>12, <1>13, <1>14 DEF EntryIs

\* One more step of a sequence.
LEMMA CostsOneMore ==
    ASSUME NEW adj, NEW steps, NEW p, NEW c \in Nat \ {0}, NEW g,
           CostsAlong(adj, steps, p, c + 1, g)
    PROVE  /\ CostsAlong(adj, steps, p, c, g) /\ g[c] \in Nat
           /\ g[c + 1] = g[c] + Transition(adj, p[c], p[c + 1]) + Emission(steps[c + 1], p[c + 1])
  <1>1. CostsAlong(adj, steps, p, c, g)
    BY DEF CostsAlong
  <1>2. g[c] \in Nat
    BY <1>1, CostsAlongNat
  <1>3. g[c + 1] = g[c] + StepCost(adj, steps, p, c + 1)
    <2>1. c + 1 \in 1 .. c + 1 /\ c + 1 - 1 = c
      OBVIOUS
    <2> QED
      BY <2>1 DEF CostsAlong
  <1>4. PICK e \in Nat, t \in Nat : e = Emission(steps[c + 1], p[c + 1])
                                    /\ t = Transition(adj, p[c], p[c + 1])
    BY CostsNat
  <1>5. StepCost(adj, steps, p, c + 1) = e + t
    <2>1. c + 1 # 1 /\ c + 1 - 1 = c
      OBVIOUS
    <2> QED
      BY <1>4, <2>1 DEF StepCost
  <1>6. g[c + 1] = g[c] + t + e
    BY <1>2, <1>3, <1>4, <1>5
  <1> QED
    BY <1>1, <1>2, <1>4, <1>6

LEMMA ColumnsNext ==
    ASSUME NEW adj, NEW steps, NEW c, NEW costs, NEW back, ColumnsRight(adj, steps, c, costs, back),
           c < Len(steps), NEW nc, nc = NextColumn(adj, steps[c], costs, steps[c + 1])
    PROVE  ColumnsRight(adj, steps, c + 1, [k \in DOMAIN nc |-> nc[k].cost],
                   Append(back, [k \in DOMAIN nc |-> nc[k].back]))
  <1>1. /\ steps \in Seq(Seq(Int)) /\ Filled(steps) /\ c \in 1 .. Len(steps)
        /\ costs \in Seq(Nat) /\ Len(costs) = Len(steps[c])
        /\ back \in Seq(Seq(Nat)) /\ Len(back) = c - 1
        /\ \A i \in 1 .. c - 1 : \A k \in DOMAIN steps[i + 1] : back[i][k] \in DOMAIN steps[i]
    BY DEF ColumnsRight
  <1>2. Lower(adj, steps, c, costs) /\ Exact(adj, steps, c, costs, back)
    BY DEF ColumnsRight
  <1>3. c \in Nat \ {0} /\ c + 1 \in 1 .. Len(steps) /\ c + 1 - 1 = c
    BY <1>1
  <1>4. PICK before, after : before = steps[c] /\ after = steps[c + 1]
    OBVIOUS
  <1>5. before \in Seq(Int) /\ after \in Seq(Int) /\ before # << >> /\ Len(costs) = Len(before)
    BY <1>1, <1>3, <1>4 DEF Filled
  <1>6. DOMAIN nc = 1 .. Len(after) /\ DOMAIN before = 1 .. Len(before)
        /\ DOMAIN after = 1 .. Len(after) /\ Len(after) \in Nat
    BY <1>4, <1>5 DEF NextColumn
  <1>7. \A k \in 1 .. Len(after) : EntryIs(adj, before, after, costs, nc[k], k)
    BY <1>1, <1>4, <1>5, EntryOf
  <1>8. PICK row, r : /\ row = [k \in DOMAIN nc |-> nc[k].cost]
                      /\ r = [k \in DOMAIN nc |-> nc[k].back]
    OBVIOUS
  <1>9. \A k \in 1 .. Len(after) : row[k] = nc[k].cost /\ r[k] = nc[k].back
    BY <1>6, <1>8
  <1>10. \A k \in 1 .. Len(after) : row[k] \in Nat /\ r[k] \in 1 .. Len(before) /\ r[k] \in Nat
    <2> SUFFICES ASSUME NEW k \in 1 .. Len(after)
                 PROVE  row[k] \in Nat /\ r[k] \in 1 .. Len(before) /\ r[k] \in Nat
      OBVIOUS
    <2>1. nc[k].cost \in Nat /\ nc[k].back \in 1 .. Len(before)
      BY <1>7 DEF EntryIs
    <2>2. Len(before) \in Nat
      BY <1>5
    <2> QED
      BY <1>9, <2>1, <2>2
  <1>11. row \in Seq(Nat) /\ Len(row) = Len(after) /\ r \in Seq(Nat)
    <2>1. row = [k \in 1 .. Len(after) |-> row[k]] /\ r = [k \in 1 .. Len(after) |-> r[k]]
      BY <1>6, <1>8
    <2> QED
      BY <1>6, <1>10, <2>1
  <1>12. PICK more : more = Append(back, r)
    OBVIOUS
  <1>13. /\ more \in Seq(Seq(Nat)) /\ Len(more) = c /\ more[c] = r
         /\ \A i \in 1 .. c - 1 : more[i] = back[i]
    <2>1. PICK S : S = Seq(Nat)
      OBVIOUS
    <2>2. back \in Seq(S) /\ r \in S
      BY <1>1, <1>11, <2>1
    <2>3. /\ more \in Seq(S) /\ Len(more) = Len(back) + 1 /\ more[Len(back) + 1] = r
          /\ \A i \in 1 .. Len(back) : more[i] = back[i]
      BY <1>12, <2>2, AppendProperties
    <2>4. Len(back) + 1 = c
      BY <1>1
    <2> QED
      BY <1>1, <2>1, <2>3, <2>4
  <1>14. \A i \in 1 .. c : \A k \in DOMAIN steps[i + 1] : more[i][k] \in DOMAIN steps[i]
    <2> SUFFICES ASSUME NEW i \in 1 .. c, NEW k \in DOMAIN steps[i + 1]
                 PROVE  more[i][k] \in DOMAIN steps[i]
      OBVIOUS
    <2>1. CASE i = c
      BY <1>4, <1>6, <1>10, <1>13, <2>1
    <2>2. CASE i # c
      <3>1. i \in 1 .. c - 1
        BY <1>3, <2>2
      <3> QED
        BY <1>1, <1>13, <3>1
    <2> QED
      BY <2>1, <2>2
  <1>15. PICK d : d = c + 1
    OBVIOUS
  <1>16. Lower(adj, steps, d, row)
    <2>1. ASSUME NEW p, NEW g, NEW k, Chosen(steps, p, d), CostsAlong(adj, steps, p, d, g),
                 k \in DOMAIN steps[d], p[d] = steps[d][k]
          PROVE  row[k] <= g[d]
      <3>1. Chosen(steps, p, c) /\ Has(steps[c], p[c])
        BY <1>3, <1>15, <2>1 DEF Chosen
      <3>2. PICK j \in DOMAIN before : before[j] = p[c]
        BY <1>4, <3>1 DEF Has
      <3>3. /\ CostsAlong(adj, steps, p, c, g) /\ g[c] \in Nat
            /\ g[d] = g[c] + Transition(adj, p[c], p[d]) + Emission(after, p[d])
        BY <1>3, <1>4, <1>15, <2>1, CostsOneMore
      <3>4. costs[j] <= g[c]
        BY <1>2, <1>4, <3>1, <3>2, <3>3 DEF Lower
      <3>5. costs[j] \in Nat /\ j \in 1 .. Len(before) /\ k \in 1 .. Len(after)
        <4>1. j \in 1 .. Len(before)
          BY <1>6, <3>2
        <4>2. costs[j] \in Nat
          <5>1. j \in 1 .. Len(costs)
            BY <1>5, <4>1
          <5>2. costs \in Seq(Nat)
            BY <1>1
          <5> QED
            BY <5>1, <5>2
        <4>3. steps[d] = after
          BY <1>4, <1>15
        <4> QED
          BY <1>6, <2>1, <4>1, <4>2, <4>3
      <3>6. p[d] = after[k]
        BY <1>4, <1>15, <2>1
      <3>7. PICK t \in Nat, e \in Nat : t = Transition(adj, p[c], p[d]) /\ e = Emission(after, p[d])
        BY CostsNat
      <3>8. nc[k].cost <= costs[j] + t + e
        BY <1>7, <3>2, <3>5, <3>6, <3>7 DEF EntryIs
      <3>9. row[k] = nc[k].cost /\ row[k] \in Nat
        BY <1>9, <1>10, <3>5
      <3>10. g[d] = g[c] + t + e
        BY <3>3, <3>7
      <3>11. PICK u \in Nat, w \in Nat, z \in Nat : u = costs[j] /\ w = g[c] /\ z = nc[k].cost
        BY <3>3, <3>5, <3>9
      <3>12. z <= u + t + e /\ u <= w
        BY <3>4, <3>8, <3>11
      <3>13. z <= w + t + e
        BY <3>12
      <3> QED
        BY <3>9, <3>10, <3>11, <3>13
    <2> QED
      BY <2>1 DEF Lower
  <1>17. Exact(adj, steps, d, row, more)
    <2>1. ASSUME NEW ix, NEW p, NEW g, Trail(steps, more, d, ix, p),
                 CostsAlong(adj, steps, p, d, g)
          PROVE  row[ix[d]] = g[d]
      <3>1. Trail(steps, back, c, ix, p)
        <4>1. /\ \A i \in 1 .. d : ix[i] \in DOMAIN steps[i] /\ p[i] = steps[i][ix[i]]
              /\ \A i \in 1 .. d - 1 : ix[i] = more[i][ix[i + 1]]
          BY <2>1 DEF Trail
        <4>2. (\A i \in 1 .. c : i \in 1 .. d) /\ (\A i \in 1 .. c - 1 : i \in 1 .. d - 1)
          BY <1>3, <1>15
        <4>3. \A i \in 1 .. c - 1 : ix[i] = back[i][ix[i + 1]]
          BY <1>13, <4>1, <4>2
        <4> QED
          BY <4>1, <4>2, <4>3 DEF Trail
      <3>2. PICK k, j : k = ix[d] /\ j = ix[c]
        OBVIOUS
      <3>3. k \in DOMAIN after /\ p[d] = after[k] /\ j \in DOMAIN before /\ p[c] = before[j]
        BY <1>3, <1>4, <1>15, <2>1, <3>2 DEF Trail
      <3>4. j = r[k]
        <4>1. \A i \in 1 .. d - 1 : ix[i] = more[i][ix[i + 1]]
          BY <2>1 DEF Trail
        <4>2. c \in 1 .. d - 1
          BY <1>3, <1>15
        <4>3. ix[c] = more[c][ix[c + 1]]
          BY <4>1, <4>2
        <4> QED
          BY <1>13, <1>15, <3>2, <4>3
      <3>5. /\ CostsAlong(adj, steps, p, c, g) /\ g[c] \in Nat
            /\ g[d] = g[c] + Transition(adj, p[c], p[d]) + Emission(after, p[d])
        BY <1>3, <1>4, <1>15, <2>1, CostsOneMore
      <3>6. costs[j] = g[c]
        BY <1>2, <3>1, <3>2, <3>5 DEF Exact
      <3>7. k \in 1 .. Len(after) /\ j = nc[k].back
        BY <1>6, <1>9, <3>3, <3>4
      <3>8. nc[k].cost = costs[j] + Transition(adj, before[j], after[k]) + Emission(after, after[k])
        BY <1>7, <3>7 DEF EntryIs
      <3>9. row[k] = nc[k].cost
        BY <1>9, <3>7
      <3> QED
        BY <3>2, <3>3, <3>5, <3>6, <3>8, <3>9
    <2> QED
      BY <2>1 DEF Exact
  <1>18. Len(steps[d]) = Len(row) /\ d \in 1 .. Len(steps) /\ d - 1 = c
    BY <1>3, <1>4, <1>11, <1>15
  <1>19. ColumnsRight(adj, steps, d, row, more)
    BY <1>1, <1>11, <1>13, <1>14, <1>16, <1>17, <1>18 DEF ColumnsRight
  <1> QED
    BY <1>8, <1>12, <1>15, <1>19

\* The trail back from the last column's least.
LEMMA BacktraceIs ==
    ASSUME NEW adj, NEW steps, NEW n, NEW costs, NEW back, ColumnsRight(adj, steps, n, costs, back),
           n = Len(steps), NEW path, path = Backtrace(steps, costs, back)
    PROVE  /\ n \in Nat \ {0} /\ DOMAIN path = 1 .. n
           /\ path \in Seq(Int) /\ Len(path) = n
           /\ \E ix : Trail(steps, back, n, ix, path) /\ ix[n] = ArgMin(costs)
           /\ ArgMin(costs) \in DOMAIN steps[n]
           /\ \A k \in DOMAIN steps[n] : costs[ArgMin(costs)] <= costs[k]
  <1>1. /\ steps \in Seq(Seq(Int)) /\ Filled(steps) /\ n \in 1 .. Len(steps)
        /\ costs \in Seq(Nat) /\ Len(costs) = Len(steps[n])
        /\ \A i \in 1 .. n - 1 : \A k \in DOMAIN steps[i + 1] : back[i][k] \in DOMAIN steps[i]
    BY DEF ColumnsRight
  <1>2. n \in Nat \ {0} /\ n - 1 \in Nat
    BY <1>1
  <1>3. PICK x0 : x0 = ArgMin(costs)
    OBVIOUS
  <1>4. PICK K \in Nat : K = Len(steps[n]) /\ K # 0 /\ DOMAIN steps[n] = 1 .. K
    <2>1. PICK last : last = steps[n]
      OBVIOUS
    <2>2. last \in Seq(Int) /\ last # << >>
      BY <1>1, <2>1 DEF Filled
    <2>3. Len(last) \in Nat /\ Len(last) # 0 /\ DOMAIN last = 1 .. Len(last)
      BY <2>2, EmptySeq
    <2> QED
      BY <2>1, <2>3
  <1>5. x0 \in 1 .. K /\ \A k \in 1 .. K : costs[x0] <= costs[k]
    <2>1. DOMAIN costs = 1 .. K /\ \A k \in 1 .. K : costs[k] \in Nat
      BY <1>1, <1>4
    <2> QED
      BY <1>3, <1>4, <2>1, ArgMinIs
  <1>6. PICK step : step = [k \in 1 .. n - 1 |-> back[n - k]]
    OBVIOUS
  <1>7. PICK g : RowOf(x0, step, n - 1, g)
    BY <1>2, RowsExist
  <1>8. g = [k \in 0 .. n - 1 |-> IF k = 0 THEN x0 ELSE step[k][g[k - 1]]]
    BY <1>7 DEF RowOf
  <1> DEFINE Is(a) == a = [k \in 0 .. n - 1 |-> IF k = 0 THEN x0 ELSE back[n - k][a[k - 1]]]
             at == CHOOSE a : Is(a)
  <1>9. Is(g)
    <2>1. \A k \in 0 .. n - 1 : k # 0 => k \in 1 .. n - 1
      BY <1>2
    <2>2. \A k \in 1 .. n - 1 : step[k] = back[n - k]
      BY <1>6
    <2>3. \A k \in 0 .. n - 1 : (IF k = 0 THEN x0 ELSE step[k][g[k - 1]])
                                 = (IF k = 0 THEN x0 ELSE back[n - k][g[k - 1]])
      BY <2>1, <2>2
    <2> QED
      BY <1>8, <2>3
  <1>10. Is(at)
    <2> HIDE DEF Is
    <2> QED
      BY <1>9
  <1>11. path = [i \in 1 .. n |-> steps[i][at[n - i]]]
    BY <1>3 DEF Backtrace
  <1>12. PICK a : a = at
    OBVIOUS
  <1>13. a = [k \in 0 .. n - 1 |-> IF k = 0 THEN x0 ELSE back[n - k][a[k - 1]]]
    <2>1. Is(a)
      <3> HIDE DEF Is, at
      <3> QED
        BY <1>10, <1>12
    <2> QED
      BY <2>1
  <1>14. path = [i \in 1 .. n |-> steps[i][a[n - i]]]
    BY <1>11, <1>12
  <1> HIDE DEF Is, at
  <1>15. a[0] = x0
    BY <1>2, <1>13
  <1>16. ASSUME NEW k \in 1 .. n - 1 PROVE a[k] = back[n - k][a[k - 1]]
    <2>1. k \in 0 .. n - 1 /\ k # 0
      BY <1>2
    <2> QED
      BY <1>13, <2>1
  <1>17. PICK ix : ix = [i \in 1 .. n |-> a[n - i]]
    OBVIOUS
  <1>18. \A k \in 0 .. n - 1 : a[k] \in DOMAIN steps[n - k]
    <2>1. PICK P : P = [k \in 0 .. n - 1 |-> DOMAIN steps[n - k]]
      OBVIOUS
    <2>2. \A k \in 0 .. n - 1 : P[k] = DOMAIN steps[n - k]
      BY <2>1
    <2>3. a[0] \in P[0]
      <3>1. P[0] = DOMAIN steps[n]
        BY <1>2, <2>2
      <3> QED
        BY <1>4, <1>5, <1>15, <3>1
    <2>4. ASSUME NEW k \in 1 .. n - 1, a[k - 1] \in P[k - 1] PROVE a[k] \in P[k]
      <3>1. /\ k - 1 \in 0 .. n - 1 /\ k \in 0 .. n - 1 /\ n - k \in 1 .. n - 1
            /\ n - (k - 1) = (n - k) + 1
        BY <1>2
      <3>2. a[k - 1] \in DOMAIN steps[(n - k) + 1]
        BY <2>2, <2>4, <3>1
      <3>3. back[n - k][a[k - 1]] \in DOMAIN steps[n - k]
        BY <1>1, <3>1, <3>2
      <3> QED
        BY <1>16, <2>2, <3>1, <3>3
    <2>5. \A k \in 0 .. n - 1 : a[k] \in P[k]
      BY <1>2, <2>3, <2>4, HoldsAlong
    <2> QED
      BY <2>2, <2>5
  <1>19. ASSUME NEW i \in 1 .. n
         PROVE  ix[i] \in DOMAIN steps[i] /\ path[i] = steps[i][ix[i]]
    <2>1. n - i \in 0 .. n - 1 /\ n - (n - i) = i
      BY <1>2
    <2>2. ix[i] = a[n - i]
      BY <1>17
    <2>3. a[n - i] \in DOMAIN steps[n - (n - i)]
      BY <1>18, <2>1
    <2> QED
      BY <1>14, <2>1, <2>2, <2>3
  <1>20. ASSUME NEW i \in 1 .. n - 1
         PROVE  ix[i] = back[i][ix[i + 1]]
    <2>1. /\ n - i \in 1 .. n - 1 /\ n - (n - i) = i /\ i \in 1 .. n /\ i + 1 \in 1 .. n
          /\ n - (i + 1) = n - i - 1
      BY <1>2
    <2>2. ix[i] = a[n - i] /\ ix[i + 1] = a[n - i - 1]
      BY <1>17, <2>1
    <2>3. a[n - i] = back[n - (n - i)][a[n - i - 1]]
      BY <1>16, <2>1
    <2> QED
      BY <2>1, <2>2, <2>3
  <1>21. ix[n] = x0
    <2>1. n \in 1 .. n /\ n - n = 0
      BY <1>2
    <2> QED
      BY <1>15, <1>17, <2>1
  <1>22. Trail(steps, back, n, ix, path) /\ ix[n] = ArgMin(costs)
    BY <1>3, <1>19, <1>20, <1>21 DEF Trail
  <1>23. ArgMin(costs) \in DOMAIN steps[n] /\ \A k \in DOMAIN steps[n] : costs[ArgMin(costs)] <= costs[k]
    BY <1>3, <1>4, <1>5
  <1>24. DOMAIN path = 1 .. n
    BY <1>14
  <1>25. path \in Seq(Int) /\ Len(path) = n
    <2>1. ASSUME NEW i \in 1 .. n PROVE path[i] \in Int
      <3>1. i \in 1 .. Len(steps)
        BY <1>1
      <3>2. PICK here : here = steps[i]
        OBVIOUS
      <3>3. here \in Seq(Int) /\ ix[i] \in DOMAIN here /\ path[i] = here[ix[i]]
        <4>1. here \in Seq(Int)
          BY <1>1, <3>1, <3>2
        <4> QED
          BY <1>19, <3>2, <4>1
      <3> QED
        BY <3>3
    <2>2. path = [i \in 1 .. n |-> path[i]]
      BY <1>14
    <2> QED
      BY <1>2, <2>1, <2>2
  <1> QED
    BY <1>2, <1>22, <1>23, <1>24, <1>25

LEMMA PathCostIs ==
    ASSUME NEW adj, NEW steps, NEW n \in Nat, NEW p, DOMAIN p = 1 .. n
    PROVE  \E g : CostsAlong(adj, steps, p, n, g) /\ PathCost(adj, steps, p) = g[n]
  <1>1. PICK s : s = [i \in DOMAIN p |-> StepCost(adj, steps, p, i)]
    OBVIOUS
  <1>2. s \in Seq(Nat) /\ Len(s) = n
    <2>1. \A i \in 1 .. n : s[i] \in Nat
      BY <1>1, StepCostNat
    <2>2. s = [i \in 1 .. n |-> s[i]]
      BY <1>1
    <2> QED
      BY <2>1, <2>2
  <1>3. PICK g : /\ Summed(s) = g[Len(s)] /\ g[0] = 0
                 /\ \A i \in 1 .. Len(s) : g[i] = g[i - 1] + s[i]
    BY <1>2, SummedIs
  <1>4. \A i \in 1 .. n : g[i] = g[i - 1] + StepCost(adj, steps, p, i)
    BY <1>1, <1>2, <1>3
  <1>5. PathCost(adj, steps, p) = g[n]
    BY <1>1, <1>2, <1>3 DEF PathCost
  <1>6. CostsAlong(adj, steps, p, n, g)
    BY <1>3, <1>4 DEF CostsAlong
  <1> QED
    BY <1>5, <1>6

\* The sequences of states up to a step, and each with one more state.
PathsTo(steps, i) == {p \in Seq(Int) : Len(p) = i /\ Chosen(steps, p, i)}
OneLonger(S, states) == UNION {{Append(p, x) : x \in Range(states)} : p \in S}

LEMMA ExtendedIs ==
    ASSUME NEW steps \in Seq(Seq(Int)), NEW i \in 1 .. Len(steps),
           NEW S, S \subseteq PathsTo(steps, i - 1)
    PROVE  OneLonger(S, steps[i]) \subseteq PathsTo(steps, i)
  <1> SUFFICES ASSUME NEW q \in OneLonger(S, steps[i]) PROVE q \in PathsTo(steps, i)
    OBVIOUS
  <1>1. PICK p \in S : q \in {Append(p, x) : x \in Range(steps[i])}
    BY DEF OneLonger
  <1>2. PICK x \in Range(steps[i]) : q = Append(p, x)
    BY <1>1
  <1>3. p \in Seq(Int) /\ Len(p) = i - 1 /\ Chosen(steps, p, i - 1)
    BY DEF PathsTo
  <1>4. x \in Int /\ Has(steps[i], x)
    <2>1. PICK k \in DOMAIN steps[i] : x = steps[i][k]
      BY DEF Range
    <2>2. steps[i] \in Seq(Int)
      OBVIOUS
    <2> QED
      BY <2>1, <2>2 DEF Has
  <1>5. /\ q \in Seq(Int) /\ Len(q) = Len(p) + 1 /\ q[Len(p) + 1] = x
        /\ \A j \in 1 .. Len(p) : q[j] = p[j]
    BY <1>2, <1>3, <1>4, AppendProperties
  <1>6. i \in Nat \ {0} /\ Len(p) + 1 = i
    BY <1>3
  <1>7. Len(q) = i /\ q[i] = x /\ \A j \in 1 .. i - 1 : q[j] = p[j]
    BY <1>3, <1>5, <1>6
  <1>8. Chosen(steps, q, i)
    <2> SUFFICES ASSUME NEW j \in 1 .. i PROVE Has(steps[j], q[j])
      BY DEF Chosen
    <2>1. CASE j = i
      BY <1>4, <1>7, <2>1
    <2>2. CASE j # i
      <3>1. j \in 1 .. i - 1
        BY <1>6, <2>2
      <3> QED
        BY <1>3, <1>7, <3>1 DEF Chosen
    <2> QED
      BY <2>1, <2>2
  <1> QED
    BY <1>5, <1>7, <1>8 DEF PathsTo

LEMMA AllPathsAre ==
    ASSUME NEW steps \in Seq(Seq(Int))
    PROVE  AllPaths(steps) \subseteq PathsTo(steps, Len(steps))
  <1>1. PICK n \in Nat : n = Len(steps)
    OBVIOUS
  <1>2. PICK X : X = SUBSET Seq(Int)
    OBVIOUS
  <1>3. PICK step : step = [i \in 1 .. n |-> [S \in X |-> OneLonger(S, steps[i])]]
    OBVIOUS
  <1>4. PICK P : P = [i \in 0 .. n |-> SUBSET PathsTo(steps, i)]
    OBVIOUS
  <1>5. \A i \in 0 .. n : P[i] = SUBSET PathsTo(steps, i)
    BY <1>4
  <1>6. {<< >>} \in P[0]
    <2>1. << >> \in Seq(Int) /\ Len(<< >>) = 0
      OBVIOUS
    <2>2. Chosen(steps, << >>, 0)
      BY DEF Chosen
    <2>3. << >> \in PathsTo(steps, 0)
      BY <2>1, <2>2, Zenon DEF PathsTo
    <2>4. 0 \in 0 .. n
      OBVIOUS
    <2>5. P[0] = SUBSET PathsTo(steps, 0)
      BY <1>5, <2>4
    <2> QED
      BY <2>3, <2>5
  <1>7. ASSUME NEW i \in 1 .. n, NEW S \in P[i - 1]
        PROVE  S \in X /\ OneLonger(S, steps[i]) \in P[i]
    <2>1. i \in 1 .. Len(steps) /\ i - 1 \in 0 .. n /\ i \in 0 .. n
      BY <1>1
    <2>2. S \subseteq PathsTo(steps, i - 1)
      BY <1>5, <1>7, <2>1
    <2>3. S \in X
      BY <1>2, <2>2 DEF PathsTo
    <2>4. OneLonger(S, steps[i]) \subseteq PathsTo(steps, i)
      BY <2>1, <2>2, ExtendedIs
    <2> QED
      BY <1>5, <2>1, <2>3, <2>4
  <1>8. PICK x0 : x0 = {<< >>}
    OBVIOUS
  <1>9. PICK g : RowOf(x0, step, n, g)
    BY RowsExist
  <1>10. g = [i \in 0 .. n |-> IF i = 0 THEN x0 ELSE step[i][g[i - 1]]]
    BY <1>9 DEF RowOf
  <1>11. g[0] = x0 /\ \A i \in 1 .. n : g[i] = step[i][g[i - 1]]
    <2>1. 0 \in 0 .. n /\ \A i \in 1 .. n : i \in 0 .. n /\ i # 0
      OBVIOUS
    <2> QED
      BY <1>10, <2>1
  <1>12. ASSUME NEW i \in 1 .. n, NEW S \in P[i - 1]
         PROVE  step[i][S] = OneLonger(S, steps[i])
    BY <1>3, <1>7, <1>12
  <1>13. \A i \in 0 .. n : g[i] \in P[i]
    <2>1. ASSUME NEW i \in 1 .. n, g[i - 1] \in P[i - 1] PROVE g[i] \in P[i]
      BY <1>7, <1>11, <1>12, <2>1
    <2>2. g[0] \in P[0]
      BY <1>6, <1>8, <1>11
    <2> QED
      BY <2>1, <2>2, HoldsAlong
  <1> DEFINE Is(a) == a = [i \in 0 .. n |-> IF i = 0 THEN {<< >>}
                              ELSE UNION {{Append(p, x) : x \in Range(steps[i])} : p \in a[i - 1]}]
             up == CHOOSE a : Is(a)
  <1>14. Is(g)
    <2>1. \A i \in 0 .. n : (IF i = 0 THEN x0 ELSE step[i][g[i - 1]])
                            = (IF i = 0 THEN {<< >>} ELSE OneLonger(g[i - 1], steps[i]))
      <3> SUFFICES ASSUME NEW i \in 0 .. n, i # 0
                   PROVE  step[i][g[i - 1]] = OneLonger(g[i - 1], steps[i])
        BY <1>8
      <3>1. i \in 1 .. n /\ i - 1 \in 0 .. n
        OBVIOUS
      <3>2. g[i - 1] \in P[i - 1]
        BY <1>13, <3>1
      <3> QED
        BY <1>12, <3>1, <3>2
    <2>2. g = [i \in 0 .. n |-> IF i = 0 THEN {<< >>} ELSE OneLonger(g[i - 1], steps[i])]
      BY <1>10, <2>1
    <2> QED
      BY <2>2, Zenon DEF OneLonger
  <1>15. Is(up)
    <2> HIDE DEF Is
    <2> QED
      BY <1>14
  <1>16. AllPaths(steps) = up[n]
    BY <1>1, Zenon DEF AllPaths
  <1>17. PICK a : a = up
    OBVIOUS
  <1>18. a = [i \in 0 .. n |-> IF i = 0 THEN {<< >>} ELSE OneLonger(a[i - 1], steps[i])]
    <2>1. Is(a)
      <3> HIDE DEF Is, up
      <3> QED
        BY <1>15, <1>17
    <2> QED
      BY <2>1, Zenon DEF OneLonger
  <1> HIDE DEF Is, up
  <1>19. a[0] = {<< >>} /\ \A i \in 1 .. n : a[i] = OneLonger(a[i - 1], steps[i])
    <2>1. 0 \in 0 .. n /\ \A i \in 1 .. n : i \in 0 .. n /\ i # 0
      OBVIOUS
    <2> QED
      BY <1>18, <2>1
  <1>20. \A i \in 0 .. n : a[i] \in P[i]
    <2>1. ASSUME NEW i \in 1 .. n, a[i - 1] \in P[i - 1] PROVE a[i] \in P[i]
      BY <1>7, <1>19, <2>1
    <2>2. a[0] \in P[0]
      BY <1>6, <1>19
    <2> QED
      BY <2>1, <2>2, HoldsAlong
  <1>21. n \in 0 .. n
    OBVIOUS
  <1> QED
    BY <1>1, <1>5, <1>16, <1>17, <1>20, <1>21

\* The path the search returns costs no more than any other.
Best(adj, steps, path) ==
    \A f \in AllPaths(steps) : PathCost(adj, steps, path) <= PathCost(adj, steps, f)

LEMMA BacktraceIsBest ==
    ASSUME NEW adj, NEW steps, NEW n, NEW costs, NEW back, ColumnsRight(adj, steps, n, costs, back),
           n = Len(steps)
    PROVE  Best(adj, steps, Backtrace(steps, costs, back))
  <1>1. PICK path : path = Backtrace(steps, costs, back)
    OBVIOUS
  <1>2. /\ n \in Nat \ {0} /\ DOMAIN path = 1 .. n
        /\ \E ix : Trail(steps, back, n, ix, path) /\ ix[n] = ArgMin(costs)
        /\ ArgMin(costs) \in DOMAIN steps[n]
        /\ \A k \in DOMAIN steps[n] : costs[ArgMin(costs)] <= costs[k]
    BY <1>1, BacktraceIs
  <1>3. PICK b : b = ArgMin(costs)
    OBVIOUS
  <1>4. PICK ix : Trail(steps, back, n, ix, path) /\ ix[n] = b
    BY <1>2, <1>3
  <1>5. /\ steps \in Seq(Seq(Int)) /\ Lower(adj, steps, n, costs)
        /\ Exact(adj, steps, n, costs, back)
        /\ costs \in Seq(Nat) /\ Len(costs) = Len(steps[n])
    BY DEF ColumnsRight
  <1>6. PICK g : CostsAlong(adj, steps, path, n, g) /\ PathCost(adj, steps, path) = g[n]
    BY <1>2, PathCostIs
  <1>7. PathCost(adj, steps, path) = costs[b]
    BY <1>4, <1>5, <1>6 DEF Exact
  <1>8. ASSUME NEW f \in AllPaths(steps)
        PROVE  costs[b] <= PathCost(adj, steps, f)
    <2>1. f \in Seq(Int) /\ Len(f) = n /\ Chosen(steps, f, n)
      BY <1>5, AllPathsAre DEF PathsTo
    <2>2. DOMAIN f = 1 .. n /\ n \in 1 .. n
      BY <1>2, <2>1
    <2>3. PICK h : CostsAlong(adj, steps, f, n, h) /\ PathCost(adj, steps, f) = h[n]
      BY <1>2, <2>2, PathCostIs
    <2>4. PICK k \in DOMAIN steps[n] : steps[n][k] = f[n]
      BY <2>1, <2>2 DEF Chosen, Has
    <2>5. costs[k] <= h[n]
      BY <1>5, <2>1, <2>3, <2>4 DEF Lower
    <2>6. costs[b] <= costs[k]
      BY <1>2, <1>3, <2>4
    <2>7. h[n] \in Nat
      BY <1>2, <2>3, CostsAlongNat
    <2>8. costs[b] \in Nat /\ costs[k] \in Nat
      <3>1. PICK last : last = steps[n]
        OBVIOUS
      <3>2. n \in 1 .. Len(steps)
        BY <1>2
      <3>3. last \in Seq(Int)
        BY <1>5, <3>1, <3>2
      <3>4. DOMAIN last = 1 .. Len(costs)
        BY <1>5, <3>1, <3>3
      <3>5. b \in 1 .. Len(costs) /\ k \in 1 .. Len(costs)
        BY <1>2, <1>3, <2>4, <3>1, <3>4
      <3> QED
        BY <1>5, <3>5
    <2> QED
      BY <2>3, <2>5, <2>6, <2>7, <2>8
  <1> QED
    BY <1>1, <1>7, <1>8 DEF Best

-----------------------------------------------------------------------------
(* The candidates and the coverage stage.                                  *)

CoveredHave(ps, s, steps) ==
    \A i \in DOMAIN s : Source([placements |-> ps, items |-> {}, baked |-> {}], Point(s[i].at)) # {}
                            => \E x \in Range(steps[i]) : x \notin NoBlock

LEMMA CoveredIs ==
    ASSUME NEW ps \in Seq(Placement), NEW s \in Seq(Samples), NEW steps, steps = StepStates(ps, s)
    PROVE  CoveredHave(ps, s, steps)
  <1> SUFFICES ASSUME NEW i \in DOMAIN s,
                      Source([placements |-> ps, items |-> {}, baked |-> {}], Point(s[i].at)) # {}
               PROVE  \E x \in Range(steps[i]) : x \notin NoBlock
    BY DEF CoveredHave
  <1>1. PICK q, map : q = Point(s[i].at) /\ map = [placements |-> ps, items |-> {}, baked |-> {}]
    OBVIOUS
  <1>2. map.placements = ps /\ LoadItemCells(map.items) = {} /\ LoadBakedCells(map.baked) = {}
    BY <1>1 DEF LoadItemCells, LoadBakedCells
  <1>3. (\E k \in DOMAIN RowTolerance : GridHit(ps, q, RowTolerance[k])) \/ FreeHit(ps, q)
    BY <1>1, <1>2 DEF Source
  <1>4. PICK cands \in Seq(Nat) :
              /\ cands = PointCandidates(ps, q)
              /\ (\E k \in DOMAIN RowTolerance : GridHit(ps, q, RowTolerance[k]))
                     \/ FreeHit(ps, q) => \E x \in Nat : Has(cands, x)
    BY PointIs
  <1>5. PICK x \in Nat : Has(PointCandidates(ps, q), x)
    BY <1>3, <1>4
  <1>6. i \in 1 .. Len(s)
    OBVIOUS
  <1>7. Has(SweptCandidates(ps, s, i), x)
    BY <1>1, <1>5, <1>6, SweptIs
  <1>8. Has(steps[i], x)
    BY <1>6, <1>7, StatesAre
  <1>9. x \in Range(steps[i])
    BY <1>8 DEF Has, Range
  <1>10. x \notin NoBlock
    BY DEF NoBlock, Airborne, OffSurface
  <1> QED
    BY <1>9, <1>10

-----------------------------------------------------------------------------
(* The visits of a path: its runs of one state.                            *)

StartsOf(path, n) == {i \in 1 .. n : i = 1 \/ path[i - 1] # path[i]}
Tiling(v, path, n, m) ==
    /\ m \in Nat /\ m >= 1 /\ DOMAIN v = 1 .. m
    /\ \A k \in 1 .. m : v[k].first \in 1 .. n /\ v[k].last \in 1 .. n
    /\ \A k \in 1 .. m - 1 : v[k + 1].first = v[k].last + 1 /\ v[k + 1].state # v[k].state
    /\ \A k, l \in 1 .. m : k < l => v[k].last < v[l].first
    /\ \A i \in 1 .. n : \E k \in 1 .. m : v[k].first <= i /\ i <= v[k].last

\* Between two starts the state does not change.
LEMMA SameUpTo ==
    ASSUME NEW path, NEW n \in Nat, NEW a \in 1 .. n, NEW b \in 1 .. n, a <= b,
           \A j \in StartsOf(path, n) : ~(a < j /\ j <= b)
    PROVE  path[b] = path[a]
  <1>1. PICK T : T = {j \in a .. b : path[j] # path[a]}
    OBVIOUS
  <1>2. CASE T = {}
    BY <1>1, <1>2
  <1>3. CASE T # {}
    <2>1. T \subseteq Nat
      BY <1>1
    <2>2. PICK j \in T : \A i \in T : j <= i
      BY <1>3, <2>1, LeastNat
    <2>3. j \in a .. b /\ path[j] # path[a]
      BY <1>1, <2>2
    <2>4. j # a /\ j - 1 \in a .. b /\ ~(j <= j - 1) /\ j \in 1 .. n /\ a < j
      BY <2>3
    <2>5. path[j - 1] = path[a]
      BY <1>1, <2>2, <2>4
    <2>6. j \in StartsOf(path, n)
      BY <2>3, <2>4, <2>5 DEF StartsOf
    <2> QED
      BY <2>3, <2>4, <2>6
  <1> QED
    BY <1>2, <1>3

LEMMA VisitsAre ==
    ASSUME NEW n \in Nat \ {0}, NEW path \in Seq(Int), Len(path) = n
    PROVE  \E m : Tiling(Visits(path), path, n, m)
  <1>1. PICK S : S = StartsOf(path, n)
    OBVIOUS
  <1>2. S \subseteq 1 .. n /\ 1 \in S
    BY <1>1 DEF StartsOf
  <1>3. IsFiniteSet(S) /\ S \subseteq Int
    <2>1. PICK D : D = 1 .. n
      OBVIOUS
    <2>2. IsFiniteSet(D) /\ S \in SUBSET D
      BY <1>2, <2>1, FS_Interval
    <2>3. IsFiniteSet(S)
      BY <2>2, FS_Subset
    <2> QED
      BY <1>2, <2>3
  <1>4. PICK starts, m : starts = Ascending(S) /\ m = Cardinality(S)
    OBVIOUS
  <1>5. /\ starts \in Seq(S) /\ Len(starts) = m /\ DOMAIN starts = 1 .. m /\ m \in Nat
        /\ \A k \in 1 .. m : starts[k] \in S
        /\ \A k, l \in 1 .. m : k < l <=> starts[k] < starts[l]
        /\ \A x \in S : \E k \in 1 .. m : starts[k] = x
    BY <1>3, <1>4, AscendingSorts
  <1>6. \A k \in 1 .. m : starts[k] \in 1 .. n
    BY <1>2, <1>5
  <1>7. m >= 1 /\ starts[1] = 1
    <2>1. PICK k \in 1 .. m : starts[k] = 1
      BY <1>2, <1>5
    <2>2. 1 \in 1 .. m /\ m >= 1
      BY <1>5, <2>1
    <2>3. ~(1 < k)
      <3>1. ASSUME 1 < k PROVE FALSE
        <4>1. starts[1] < starts[k] /\ starts[1] \in 1 .. n
          BY <1>5, <1>6, <2>2, <3>1
        <4> QED
          BY <2>1, <4>1
      <3> QED
        BY <3>1
    <2>4. k = 1
      BY <2>3
    <2> QED
      BY <2>1, <2>2, <2>4
  <1>8. PICK v : v = Visits(path)
    OBVIOUS
  <1>9. v = [k \in 1 .. m |->
                [state |-> path[starts[k]], first |-> starts[k],
                 last |-> IF k = m THEN n ELSE starts[k + 1] - 1]]
    <2>1. {i \in DOMAIN path : i = 1 \/ path[i - 1] # path[i]} = S
      BY <1>1 DEF StartsOf
    <2>2. v = [k \in DOMAIN starts |->
                  [state |-> path[starts[k]], first |-> starts[k],
                   last |-> IF k = Len(starts) THEN Len(path) ELSE starts[k + 1] - 1]]
      BY <1>4, <1>8, <2>1 DEF Visits
    <2> QED
      BY <1>5, <2>2
  <1>10. /\ DOMAIN v = 1 .. m
         /\ \A k \in 1 .. m : v[k].state = path[starts[k]] /\ v[k].first = starts[k]
    BY <1>9
  <1>11. v[m].last = n
    BY <1>5, <1>7, <1>9
  <1>12. \A k \in 1 .. m - 1 : v[k].last = starts[k + 1] - 1
    <2> SUFFICES ASSUME NEW k \in 1 .. m - 1 PROVE v[k].last = starts[k + 1] - 1
      OBVIOUS
    <2>1. k \in 1 .. m /\ k # m
      BY <1>5
    <2> QED
      BY <1>9, <2>1
  <1>13. ASSUME NEW k \in 1 .. m - 1
         PROVE  /\ k \in 1 .. m /\ k + 1 \in 1 .. m /\ k < k + 1
                /\ starts[k] \in 1 .. n /\ starts[k + 1] \in 1 .. n /\ starts[k] < starts[k + 1]
    <2>1. k \in 1 .. m /\ k + 1 \in 1 .. m /\ k < k + 1
      BY <1>5
    <2> QED
      BY <1>5, <1>6, <2>1
  <1>14. ASSUME NEW k \in 1 .. m PROVE v[k].last \in 1 .. n
    <2>1. CASE k = m
      BY <1>11, <2>1
    <2>2. CASE k # m
      <3>1. k \in 1 .. m - 1
        BY <1>5, <2>2
      <3>2. v[k].last = starts[k + 1] - 1 /\ starts[k] \in 1 .. n /\ starts[k + 1] \in 1 .. n
            /\ starts[k] < starts[k + 1]
        BY <1>12, <1>13, <3>1
      <3> QED
        BY <3>2
    <2> QED
      BY <2>1, <2>2
  <1>15. ASSUME NEW k \in 1 .. m - 1
         PROVE  v[k + 1].first = v[k].last + 1 /\ v[k + 1].state # v[k].state
    <2>1. PICK a, b : a = starts[k] /\ b = starts[k + 1]
      OBVIOUS
    <2>2. a \in 1 .. n /\ b \in 1 .. n /\ a < b /\ k \in 1 .. m /\ k + 1 \in 1 .. m
      BY <1>13, <2>1
    <2>3. v[k + 1].first = b /\ v[k].last = b - 1 /\ v[k + 1].state = path[b] /\ v[k].state = path[a]
      BY <1>10, <1>12, <2>1, <2>2
    <2>4. b \in S /\ b # 1
      BY <1>5, <2>1, <2>2
    <2>5. path[b - 1] # path[b]
      BY <1>1, <2>4 DEF StartsOf
    <2>6. ASSUME NEW j \in S PROVE ~(a < j /\ j <= b - 1)
      <3>1. PICK l \in 1 .. m : starts[l] = j
        BY <1>5
      <3>2. ASSUME a < j, j <= b - 1 PROVE FALSE
        <4>1. j < b
          BY <1>2, <2>2, <3>2
        <4>2. k < l /\ l < k + 1
          BY <1>5, <2>1, <2>2, <3>1, <3>2, <4>1
        <4> QED
          BY <2>2, <3>1, <4>2
      <3> QED
        BY <3>2
    <2>7. b - 1 \in 1 .. n /\ a <= b - 1
      BY <2>2
    <2>8. path[b - 1] = path[a]
      BY <1>1, <2>2, <2>6, <2>7, SameUpTo
    <2> QED
      BY <2>2, <2>3, <2>5, <2>8
  <1>16. ASSUME NEW k \in 1 .. m, NEW l \in 1 .. m, k < l PROVE v[k].last < v[l].first
    <2>1. k \in 1 .. m - 1 /\ k + 1 <= l
      BY <1>5, <1>16
    <2>2. k + 1 \in 1 .. m /\ starts[k + 1] \in 1 .. n /\ starts[l] \in 1 .. n
      BY <1>6, <1>13, <2>1
    <2>3. starts[k + 1] <= starts[l]
      <3>1. CASE k + 1 = l
        BY <2>2, <3>1
      <3>2. CASE k + 1 # l
        <4>1. k + 1 < l
          BY <2>1, <3>2
        <4>2. starts[k + 1] < starts[l]
          BY <1>5, <2>2, <4>1
        <4> QED
          BY <2>2, <4>2
      <3> QED
        BY <3>1, <3>2
    <2> QED
      BY <1>10, <1>12, <2>1, <2>2, <2>3
  <1>17. ASSUME NEW i \in 1 .. n PROVE \E k \in 1 .. m : v[k].first <= i /\ i <= v[k].last
    <2>1. PICK T : T = {k \in 1 .. m : starts[k] <= i}
      OBVIOUS
    <2>2. 1 \in T /\ T \subseteq 1 .. m
      BY <1>7, <1>5, <2>1
    <2>3. IsFiniteSet(T) /\ T \subseteq Int /\ T # {}
      <3>1. PICK D : D = 1 .. m
        OBVIOUS
      <3>2. IsFiniteSet(D) /\ T \in SUBSET D
        BY <1>5, <2>2, <3>1, FS_Interval
      <3>3. IsFiniteSet(T)
        BY <3>2, FS_Subset
      <3> QED
        BY <2>2, <3>3
    <2>4. PICK k \in T : \A j \in T : k >= j
      BY <2>3, Extremes
    <2>5. k \in 1 .. m /\ starts[k] <= i
      BY <2>1
    <2>6. CASE k = m
      BY <1>10, <1>11, <2>5, <2>6
    <2>7. CASE k # m
      <3>1. k \in 1 .. m - 1
        BY <1>5, <2>5, <2>7
      <3>2. k + 1 \in 1 .. m /\ starts[k + 1] \in 1 .. n
        BY <1>13, <3>1
      <3>3. ~(starts[k + 1] <= i)
        BY <2>1, <2>4, <2>5, <3>2
      <3>4. i <= v[k].last
        BY <1>12, <3>1, <3>2, <3>3
      <3> QED
        BY <1>10, <2>5, <3>4
    <2> QED
      BY <2>6, <2>7
  <1>18. \A k \in 1 .. m : v[k].first \in 1 .. n /\ v[k].last \in 1 .. n
    BY <1>6, <1>10, <1>14
  <1>19. Tiling(v, path, n, m)
    BY <1>5, <1>7, <1>10, <1>15, <1>16, <1>17, <1>18 DEF Tiling
  <1> QED
    BY <1>8, <1>19

\* The visits are those of one path over one capture.
VisitsFrom(vs) ==
    vs # {} =>
        \E c \in DOMAIN Captures, path \in Seq(Int) : \E r :
            /\ Len(path) = Len(Captures[c].samples) /\ Len(path) >= 1
            /\ vs = {[run |-> r, k |-> k, visit |-> Visits(path)[k]] : k \in DOMAIN Visits(path)}

LEMMA VisitsFollow ==
    ASSUME VisitsFrom(visits)
    PROVE  VisitsTile
  <1> SUFFICES ASSUME visits # {}
               PROVE  /\ \E c \in DOMAIN Captures :
                            UNION {v.visit.first .. v.visit.last : v \in visits}
                               = DOMAIN Captures[c].samples
                      /\ \A v, w \in visits :
                            /\ v # w => v.visit.last < w.visit.first \/ w.visit.last < v.visit.first
                            /\ w.k = v.k + 1 => /\ w.visit.first = v.visit.last + 1
                                                /\ w.visit.state # v.visit.state
    BY DEF VisitsTile
  <1>0. PICK c \in DOMAIN Captures, path \in Seq(Int) : \E r :
            /\ Len(path) = Len(Captures[c].samples) /\ Len(path) >= 1
            /\ visits = {[run |-> r, k |-> k, visit |-> Visits(path)[k]] : k \in DOMAIN Visits(path)}
    BY DEF VisitsFrom
  <1>1. PICK r :
            /\ Len(path) = Len(Captures[c].samples) /\ Len(path) >= 1
            /\ visits = {[run |-> r, k |-> k, visit |-> Visits(path)[k]] : k \in DOMAIN Visits(path)}
    BY <1>0
  <1>2. PICK n \in Nat \ {0} : n = Len(path)
    BY <1>1
  <1>3. PICK f : f = Visits(path)
    OBVIOUS
  <1>4. PICK m : Tiling(f, path, n, m)
    BY <1>2, <1>3, VisitsAre
  <1>5. m \in Nat /\ DOMAIN f = 1 .. m
    BY <1>4 DEF Tiling
  <1>6. ASSUME NEW v \in visits
        PROVE  \E k \in 1 .. m : v.k = k /\ v.visit = f[k] /\ v = [run |-> r, k |-> k, visit |-> f[k]]
    BY <1>1, <1>3, <1>5
  <1>7. UNION {v.visit.first .. v.visit.last : v \in visits} = 1 .. n
    <2>1. ASSUME NEW v \in visits, NEW i \in v.visit.first .. v.visit.last PROVE i \in 1 .. n
      <3>1. PICK k \in 1 .. m : v.visit = f[k]
        BY <1>6
      <3>2. f[k].first \in 1 .. n /\ f[k].last \in 1 .. n
        BY <1>4 DEF Tiling
      <3> QED
        BY <2>1, <3>1, <3>2
    <2>2. ASSUME NEW i \in 1 .. n
          PROVE  \E v \in visits : i \in v.visit.first .. v.visit.last
      <3>1. PICK k \in 1 .. m : f[k].first <= i /\ i <= f[k].last
        BY <1>4 DEF Tiling
      <3>2. f[k].first \in 1 .. n /\ f[k].last \in 1 .. n
        BY <1>4 DEF Tiling
      <3>3. PICK v : v = [run |-> r, k |-> k, visit |-> f[k]]
        OBVIOUS
      <3>4. v \in visits
        BY <1>1, <1>3, <1>5, <3>3
      <3>5. v.visit = f[k]
        BY <3>3
      <3>6. i \in v.visit.first .. v.visit.last
        BY <3>1, <3>2, <3>5
      <3> QED
        BY <3>4, <3>6
    <2> QED
      BY <2>1, <2>2
  <1>8. DOMAIN Captures[c].samples = 1 .. n
    BY <1>1, <1>2, CaptureAssumption
  <1>9. ASSUME NEW v \in visits, NEW w \in visits
        PROVE  /\ v # w => v.visit.last < w.visit.first \/ w.visit.last < v.visit.first
               /\ w.k = v.k + 1 => /\ w.visit.first = v.visit.last + 1
                                   /\ w.visit.state # v.visit.state
    <2>1. PICK k \in 1 .. m : v.k = k /\ v.visit = f[k] /\ v = [run |-> r, k |-> k, visit |-> f[k]]
      BY <1>6
    <2>2. PICK l \in 1 .. m : w.k = l /\ w.visit = f[l] /\ w = [run |-> r, k |-> l, visit |-> f[l]]
      BY <1>6
    <2>3. ASSUME v # w PROVE f[k].last < f[l].first \/ f[l].last < f[k].first
      <3>1. k < l \/ l < k
        BY <1>5, <2>1, <2>2, <2>3
      <3> QED
        BY <1>4, <3>1 DEF Tiling
    <2>4. ASSUME l = k + 1 PROVE f[l].first = f[k].last + 1 /\ f[l].state # f[k].state
      <3>1. k \in 1 .. m - 1
        BY <1>5, <2>4
      <3> QED
        BY <1>4, <2>4, <3>1 DEF Tiling
    <2> QED
      BY <2>1, <2>2, <2>3, <2>4
  <1> QED
    BY <1>7, <1>8, <1>9

LEMMA StepsAre ==
    ASSUME NEW ps \in Seq(Placement), NEW s \in Seq(Samples), NEW steps, steps = StepStates(ps, s)
    PROVE  steps \in Seq(Seq(Int)) /\ Filled(steps) /\ Len(steps) = Len(s)
  <1>1. /\ DOMAIN steps = 1 .. Len(s)
        /\ \A i \in 1 .. Len(s) : steps[i] \in Seq(Int) /\ steps[i] # << >>
    BY StatesAre
  <1>2. steps = [i \in 1 .. Len(s) |-> steps[i]]
    BY <1>1 DEF StepStates
  <1>3. Len(s) \in Nat
    OBVIOUS
  <1>4. steps \in Seq(Seq(Int)) /\ Len(steps) = Len(s)
    BY <1>1, <1>2, <1>3
  <1> QED
    BY <1>1, <1>4 DEF Filled

-----------------------------------------------------------------------------
(* The invariant of the extraction.                                        *)

JobShape(j) ==
    j = [pc |-> j.pc, queue |-> j.queue, id |-> j.id, adj |-> j.adj, steps |-> j.steps,
         col |-> j.col, costs |-> j.costs, back |-> j.back, path |-> j.path]
\* The file read is the whole one, and its layout is the map's.
Opened(j, ps) ==
    j.col # 0 => /\ j.id \in DOMAIN Captures /\ IsTelemetry(Captures[j.id]) /\ ps # << >>
                 /\ j.steps = StepStates(ps, Captures[j.id].samples)
JobRight(j, ps) ==
    /\ JobShape(j) /\ j.pc \in {"idle", "next", "search"}
    /\ j.pc = "search" => ColumnsRight(j.adj, j.steps, j.col, j.costs, j.back)
    /\ j.path # << >> => Best(j.adj, j.steps, j.path)
    /\ Opened(j, ps)
\* The map is read before a capture is, and a capture before its coverage.
InOrder ==
    /\ layout \in Seq(Placement)
    /\ capture # "none" => /\ layout # << >> /\ capture \in DOMAIN Captures
                           /\ IsTelemetry(Captures[capture])
    /\ job.pc # "idle" \/ DOMAIN cov # {} => capture # "none"
SearchInv == InOrder /\ JobRight(job, layout) /\ VisitsFrom(visits)

LEMMA SamplesOf ==
    ASSUME NEW c \in DOMAIN Captures, IsTelemetry(Captures[c])
    PROVE  Captures[c].samples \in Seq(Samples) /\ Len(Captures[c].samples) >= 1
  <1>1. Captures[c].samples \in Seq(Samples) /\ Captures[c].samples # << >>
    BY CaptureAssumption DEF Samples, IsTelemetry
  <1> QED
    BY <1>1, EmptySeq

LEMMA SearchInit == DriveInit => SearchInv
  <1> SUFFICES ASSUME DriveInit PROVE SearchInv
    OBVIOUS
  <1>1. layout \in Seq(Placement) /\ DOMAIN cov = {} /\ job.pc = "idle" /\ capture = "none"
    BY DEF DriveInit, NoJob
  <1>2. job.path = << >> /\ job.col = 0 /\ JobShape(job)
    BY DEF DriveInit, NoJob, JobShape
  <1>3. VisitsFrom(visits)
    BY DEF DriveInit, VisitsFrom
  <1> QED
    BY <1>1, <1>2, <1>3 DEF SearchInv, InOrder, JobRight, Opened

LEMMA SearchOpened == SearchInv /\ ExtractOpen => SearchInv'
  <1> SUFFICES ASSUME SearchInv, ExtractOpen PROVE SearchInv'
    OBVIOUS
  <1>1. /\ layout \in Seq(Placement) /\ layout # << >> /\ capture # "none"
        /\ capture \in DOMAIN Captures /\ IsTelemetry(Captures[capture])
    BY DEF SearchInv, InOrder, ExtractOpen
  <1>2. PICK s, steps : s = Captures[capture].samples /\ steps = StepStates(layout, s)
    OBVIOUS
  <1>3. s \in Seq(Samples) /\ Len(s) >= 1
    BY <1>1, <1>2, SamplesOf
  <1>4. steps \in Seq(Seq(Int)) /\ Filled(steps) /\ Len(steps) >= 1
    BY <1>1, <1>2, <1>3, StepsAre
  <1>5. job' = [NoJob EXCEPT !.pc = "search", !.queue = job.queue - 1, !.id = capture,
                             !.adj = Adjacency(layout), !.steps = steps, !.col = 1,
                             !.costs = FirstColumn(steps[1])]
    BY <1>2 DEF ExtractOpen
  <1>6. job' = [pc |-> "search", queue |-> job.queue - 1, id |-> capture,
                adj |-> Adjacency(layout), steps |-> steps, col |-> 1,
                costs |-> FirstColumn(steps[1]), back |-> << >>, path |-> << >>]
    BY <1>5 DEF NoJob
  <1>7. /\ job'.pc = "search" /\ job'.id = capture /\ job'.steps = steps /\ job'.col = 1
        /\ job'.costs = FirstColumn(steps[1]) /\ job'.back = << >> /\ job'.path = << >>
    BY <1>6
  <1>8. JobShape(job')
    BY <1>6, Zenon DEF JobShape
  <1>9. ColumnsRight(job'.adj, job'.steps, job'.col, job'.costs, job'.back)
    <2>1. ColumnsRight(job'.adj, steps, 1, FirstColumn(steps[1]), << >>)
      BY <1>4, ColumnsFirst
    <2> QED
      BY <1>7, <2>1
  <1>10. Opened(job', layout)
    BY <1>1, <1>2, <1>7 DEF Opened
  <1>11. UNCHANGED <<layout, capture, cov, visits>>
    BY DEF ExtractOpen
  <1>12. InOrder'
    BY <1>1, <1>11 DEF InOrder
  <1>13. JobRight(job', layout')
    BY <1>7, <1>8, <1>9, <1>10, <1>11 DEF JobRight
  <1> QED
    BY <1>11, <1>12, <1>13 DEF SearchInv

LEMMA SearchExtended == SearchInv /\ ExtractColumn => SearchInv'
  <1> SUFFICES ASSUME SearchInv, ExtractColumn PROVE SearchInv'
    OBVIOUS
  <1>1. /\ job.pc = "search" /\ job.col < Len(job.steps) /\ JobShape(job)
        /\ ColumnsRight(job.adj, job.steps, job.col, job.costs, job.back)
        /\ job.path # << >> => Best(job.adj, job.steps, job.path)
        /\ Opened(job, layout)
    BY DEF SearchInv, JobRight, ExtractColumn
  <1>2. PICK nc : nc = NextColumn(job.adj, job.steps[job.col], job.costs, job.steps[job.col + 1])
    OBVIOUS
  <1>3. PICK costs, row : /\ costs = [k \in DOMAIN nc |-> nc[k].cost]
                          /\ row = [k \in DOMAIN nc |-> nc[k].back]
    OBVIOUS
  <1>4. job' = [job EXCEPT !.col = @ + 1, !.costs = costs, !.back = Append(@, row)]
    BY <1>2, <1>3 DEF ExtractColumn
  <1>5. job' = [pc |-> job.pc, queue |-> job.queue, id |-> job.id, adj |-> job.adj,
                steps |-> job.steps, col |-> job.col + 1, costs |-> costs,
                back |-> Append(job.back, row), path |-> job.path]
    BY <1>1, <1>4 DEF JobShape
  <1>6. /\ job'.pc = "search" /\ job'.id = job.id /\ job'.adj = job.adj
        /\ job'.steps = job.steps /\ job'.col = job.col + 1 /\ job'.costs = costs
        /\ job'.back = Append(job.back, row) /\ job'.path = job.path
    BY <1>1, <1>5
  <1>7. JobShape(job')
    BY <1>5, Zenon DEF JobShape
  <1>8. ColumnsRight(job'.adj, job'.steps, job'.col, job'.costs, job'.back)
    <2>1. PICK adj, steps, c, before, back : /\ adj = job.adj /\ steps = job.steps /\ c = job.col
                                             /\ before = job.costs /\ back = job.back
      OBVIOUS
    <2>2. ColumnsRight(adj, steps, c, before, back) /\ c < Len(steps)
      BY <1>1, <2>1
    <2>3. nc = NextColumn(adj, steps[c], before, steps[c + 1])
      BY <1>2, <2>1
    <2>4. ColumnsRight(adj, steps, c + 1, costs, Append(back, row))
      BY <1>3, <2>2, <2>3, ColumnsNext
    <2> QED
      BY <1>6, <2>1, <2>4
  <1>9. job.col # 0
    BY <1>1 DEF ColumnsRight
  <1>10. Opened(job', layout)
    BY <1>1, <1>6, <1>9 DEF Opened
  <1>11. UNCHANGED <<layout, capture, cov, visits>>
    BY DEF ExtractColumn
  <1>12. InOrder'
    BY <1>1, <1>6, <1>11 DEF SearchInv, InOrder
  <1>13. JobRight(job', layout')
    BY <1>1, <1>6, <1>7, <1>8, <1>10, <1>11 DEF JobRight
  <1> QED
    BY <1>11, <1>12, <1>13 DEF SearchInv

LEMMA SearchSaved == SearchInv /\ ExtractSave => SearchInv'
  <1> SUFFICES ASSUME SearchInv, ExtractSave PROVE SearchInv'
    OBVIOUS
  <1>1. /\ job.pc = "search" /\ job.col = Len(job.steps) /\ JobShape(job)
        /\ ColumnsRight(job.adj, job.steps, job.col, job.costs, job.back)
        /\ Opened(job, layout)
    BY DEF SearchInv, JobRight, ExtractSave
  <1>2. PICK adj, steps, n, costs, back : /\ adj = job.adj /\ steps = job.steps /\ n = job.col
                                          /\ costs = job.costs /\ back = job.back
    OBVIOUS
  <1>3. PICK path : path = Backtrace(steps, costs, back)
    OBVIOUS
  <1>4. ColumnsRight(adj, steps, n, costs, back) /\ n = Len(steps)
    BY <1>1, <1>2
  <1>5. n \in Nat \ {0} /\ path \in Seq(Int) /\ Len(path) = n
    BY <1>3, <1>4, BacktraceIs
  <1>6. Best(adj, steps, path)
    BY <1>3, <1>4, BacktraceIsBest
  <1>7. ReplaceVisits(Visits(path)) /\ job' = [job EXCEPT !.pc = "next", !.path = path]
    BY <1>2, <1>3 DEF ExtractSave
  <1>8. job' = [pc |-> "next", queue |-> job.queue, id |-> job.id, adj |-> job.adj,
                steps |-> job.steps, col |-> job.col, costs |-> job.costs,
                back |-> job.back, path |-> path]
    BY <1>1, <1>7 DEF JobShape
  <1>9. /\ job'.pc = "next" /\ job'.id = job.id /\ job'.adj = adj /\ job'.steps = steps
        /\ job'.col = n /\ job'.path = path
    BY <1>2, <1>8
  <1>10. JobShape(job')
    BY <1>8, Zenon DEF JobShape
  <1>11. /\ job.id \in DOMAIN Captures /\ IsTelemetry(Captures[job.id]) /\ layout # << >>
         /\ steps = StepStates(layout, Captures[job.id].samples)
    BY <1>1, <1>2, <1>5 DEF Opened
  <1>12. Opened(job', layout)
    BY <1>9, <1>11 DEF Opened
  <1>13. UNCHANGED <<layout, capture, cov>>
    BY DEF ExtractSave
  <1>14. InOrder'
    BY <1>1, <1>13 DEF SearchInv, InOrder
  <1>15. JobRight(job', layout')
    BY <1>6, <1>9, <1>10, <1>12, <1>13 DEF JobRight
  <1>16. VisitsFrom(visits')
    <2>1. PICK s : s = Captures[job.id].samples
      OBVIOUS
    <2>2. s \in Seq(Samples) /\ Len(s) >= 1
      BY <1>11, <2>1, SamplesOf
    <2>3. Len(steps) = Len(s)
      <3>1. layout \in Seq(Placement)
        BY DEF SearchInv, InOrder
      <3> QED
        BY <1>11, <2>1, <2>2, <3>1, StepsAre
    <2>4. Len(path) = Len(Captures[job.id].samples) /\ Len(path) >= 1
      BY <1>4, <1>5, <2>1, <2>2, <2>3
    <2>5. PICK r : r = <<ran, job.queue>>
      OBVIOUS
    <2>6. visits' = {[run |-> r, k |-> k, visit |-> Visits(path)[k]] : k \in DOMAIN Visits(path)}
      BY <1>7, <2>5 DEF ReplaceVisits
    <2>7. \E q : /\ Len(path) = Len(Captures[job.id].samples) /\ Len(path) >= 1
                 /\ visits' = {[run |-> q, k |-> k, visit |-> Visits(path)[k]] :
                                  k \in DOMAIN Visits(path)}
      BY <2>4, <2>6
    <2>8. PICK c : c = job.id
      OBVIOUS
    <2> QED
      BY <1>5, <1>11, <2>7, <2>8 DEF VisitsFrom
  <1> QED
    BY <1>14, <1>15, <1>16 DEF SearchInv

LEMMA SearchStep == SearchInv /\ [DriveNext]_driveVars => SearchInv'
  <1> SUFFICES ASSUME SearchInv, [DriveNext]_driveVars PROVE SearchInv'
    OBVIOUS
  <1> USE DEF SearchInv
  <1>1. ASSUME UNCHANGED <<layout, capture, cov, job, visits>> PROVE SearchInv'
    BY <1>1 DEF InOrder, JobRight, Opened
  <1>2. CASE DriveBegin
    <2>1. layout = << >> /\ layout' \in Layouts /\ UNCHANGED <<capture, cov, visits, job>>
      BY <1>2 DEF DriveBegin
    <2>2. capture = "none" /\ job.col = 0
      BY <2>1 DEF InOrder, JobRight, Opened
    <2>3. InOrder'
      BY <2>1, <2>2, LayoutAssumption DEF InOrder
    <2>4. JobRight(job', layout')
      BY <2>1, <2>2 DEF JobRight, Opened
    <2> QED
      BY <2>1, <2>3, <2>4
  <1>3. CASE IngestDirectory
    <2>1. PICK c \in DOMAIN Captures : IsTelemetry(Captures[c]) /\ capture' = c
      BY <1>3 DEF IngestDirectory
    <2>2. layout # << >> /\ UNCHANGED <<layout, cov, visits, job>>
      BY <1>3 DEF IngestDirectory
    <2>3. capture' # "none"
      BY <2>1, CaptureAssumption
    <2>4. InOrder'
      BY <2>1, <2>2, <2>3 DEF InOrder
    <2> QED
      BY <2>2, <2>4 DEF JobRight, Opened
  <1>4. CASE IngestMapItems \/ IngestBakedBlocks
    BY <1>1, <1>4 DEF IngestMapItems, IngestBakedBlocks
  <1>5. CASE StoreCoverage
    <2>1. capture # "none" /\ UNCHANGED <<layout, capture, visits, job>>
      BY <1>5 DEF StoreCoverage
    <2>2. InOrder'
      BY <2>1 DEF InOrder
    <2> QED
      BY <2>1, <2>2 DEF JobRight, Opened
  <1>6. CASE ExtractStart
    <2>1. job.pc = "idle" /\ UNCHANGED <<layout, capture, cov, visits>>
      BY <1>6 DEF ExtractStart
    <2>0. PICK redo \in BOOLEAN : \E rows :
              /\ rows = {k \in DOMAIN cov : Passes(cov[k]) /\ (redo \/ visits = {})}
              /\ job' = [NoJob EXCEPT !.pc = IF rows = {} THEN "idle" ELSE "next",
                                      !.queue = Cardinality(rows)]
      BY <1>6 DEF ExtractStart
    <2>2. PICK rows :
              /\ rows = {k \in DOMAIN cov : Passes(cov[k]) /\ (redo \/ visits = {})}
              /\ job' = [NoJob EXCEPT !.pc = IF rows = {} THEN "idle" ELSE "next",
                                      !.queue = Cardinality(rows)]
      BY <2>0
    <2>3. job' = [pc |-> IF rows = {} THEN "idle" ELSE "next", queue |-> Cardinality(rows),
                  id |-> "none", adj |-> {}, steps |-> << >>, col |-> 0, costs |-> << >>,
                  back |-> << >>, path |-> << >>]
      BY <2>2 DEF NoJob
    <2>4. /\ job'.pc = IF rows = {} THEN "idle" ELSE "next"
          /\ job'.col = 0 /\ job'.path = << >>
      BY <2>3
    <2>5. JobShape(job')
      BY <2>3, Zenon DEF JobShape
    <2>6. JobRight(job', layout')
      BY <2>4, <2>5 DEF JobRight, Opened
    <2>7. rows # {} => DOMAIN cov # {}
      BY <2>2
    <2>8. InOrder'
      BY <2>1, <2>4, <2>7 DEF InOrder
    <2> QED
      BY <2>1, <2>6, <2>8
  <1>7. CASE ExtractEnd
    <2>1. job' = NoJob /\ UNCHANGED <<layout, capture, cov, visits>>
      BY <1>7 DEF ExtractEnd
    <2>2. job'.pc = "idle" /\ job'.col = 0 /\ job'.path = << >> /\ JobShape(job')
      BY <2>1 DEF NoJob, JobShape
    <2>3. InOrder' /\ JobRight(job', layout')
      BY <2>1, <2>2 DEF InOrder, JobRight, Opened
    <2> QED
      BY <2>1, <2>3
  <1>8. CASE ExtractOpen
    BY <1>8, SearchOpened
  <1>9. CASE ExtractColumn
    BY <1>9, SearchExtended
  <1>10. CASE ExtractSave
    BY <1>10, SearchSaved
  <1>11. CASE UNCHANGED driveVars
    BY <1>1, <1>11 DEF driveVars
  <1> QED
    BY <1>2, <1>3, <1>4, <1>5, <1>6, <1>7, <1>8, <1>9, <1>10, <1>11 DEF DriveNext

LEMMA SearchFollows == SearchInv => DrivenPathSound
  <1> SUFFICES ASSUME SearchInv PROVE DrivenPathSound
    OBVIOUS
  <1>1. BestSequence
    BY DEF SearchInv, JobRight, Best, BestSequence
  <1>2. CoveredHasCandidate
    <2> SUFFICES ASSUME job.col = 1
                 PROVE  CoveredHave(layout, Captures[job.id].samples, job.steps)
      BY DEF CoveredHasCandidate, CoveredHave
    <2>1. /\ job.id \in DOMAIN Captures /\ IsTelemetry(Captures[job.id])
          /\ job.steps = StepStates(layout, Captures[job.id].samples)
      BY DEF SearchInv, JobRight, Opened
    <2>2. layout \in Seq(Placement) /\ Captures[job.id].samples \in Seq(Samples)
      BY <2>1, SamplesOf DEF SearchInv, InOrder
    <2> QED
      BY <2>1, <2>2, CoveredIs
  <1>3. VisitsTile
    BY VisitsFollow DEF SearchInv
  <1> QED
    BY <1>1, <1>2, <1>3 DEF DrivenPathSound, PathIsBest

(* What the telemetry stages derive from a capture is right, in every reachable state: the *)
(* path is the best there is, a covered sample has its block among the candidates, and the *)
(* visits tile the samples (extract_driven_path).                                          *)
THEOREM DrivenPathIsBest == DriveInit /\ [][DriveNext]_driveVars => []DrivenPathSound
  <1>1. DriveInit => SearchInv
    BY SearchInit
  <1>2. SearchInv /\ [DriveNext]_driveVars => SearchInv'
    BY SearchStep
  <1>3. SearchInv => DrivenPathSound
    BY SearchFollows
  <1> QED
    BY <1>1, <1>2, <1>3, PTL

-----------------------------------------------------------------------------
(* Tables of counts *)

\* Finitely many rows, each of which counts something.
IsTable(t) == /\ IsFiniteSet(DOMAIN t)
              /\ \A k \in DOMAIN t : t[k].n \in Nat \ {0}

LEMMA RowCountIs ==
    ASSUME NEW t, IsTable(t)
    PROVE  \A k : /\ RowCount(t, k) \in Nat
                  /\ RowCount(t, k) > 0 <=> k \in DOMAIN t
                  /\ k \in DOMAIN t => RowCount(t, k) = t[k].n
  BY DEF IsTable, RowCount

LEMMA NoRowsTable == IsTable(NoRows) /\ DOMAIN NoRows = {}
  <1>1. DOMAIN NoRows = {}
    BY DEF NoRows
  <1> QED
    BY <1>1, FS_EmptySet DEF IsTable

LEMMA UpsertTable ==
    ASSUME NEW s, IsTable(s), NEW t, IsTable(t)
    PROVE  /\ IsTable(Upsert(s, t)) /\ DOMAIN Upsert(s, t) = DOMAIN s \cup DOMAIN t
           /\ \A k : RowCount(Upsert(s, t), k) = RowCount(s, k) + RowCount(t, k)
  <1>1. PICK u : u = Upsert(s, t)
    OBVIOUS
  <1>2. DOMAIN u = DOMAIN s \cup DOMAIN t
    BY <1>1 DEF Upsert
  <1>3. \A k \in DOMAIN u : u[k].n = RowCount(s, k) + RowCount(t, k)
    <2> SUFFICES ASSUME NEW k \in DOMAIN u PROVE u[k].n = RowCount(s, k) + RowCount(t, k)
      OBVIOUS
    <2>1. PICK x, y : /\ x = (IF k \in DOMAIN s THEN s[k] ELSE [n |-> 0, maps |-> 0])
                      /\ y = (IF k \in DOMAIN t THEN t[k] ELSE [n |-> 0, maps |-> 0])
      OBVIOUS
    <2>2. u[k] = [n |-> x.n + y.n, maps |-> x.maps + y.maps]
      BY <1>1, <1>2, <2>1 DEF Upsert
    <2>3. x.n = RowCount(s, k) /\ y.n = RowCount(t, k)
      BY <2>1 DEF RowCount
    <2> QED
      BY <2>2, <2>3
  <1>4. IsFiniteSet(DOMAIN u)
    BY <1>2, FS_Union DEF IsTable
  <1>5. \A k \in DOMAIN u : u[k].n \in Nat \ {0}
    BY <1>2, <1>3, RowCountIs
  <1>6. ASSUME NEW k PROVE RowCount(u, k) = RowCount(s, k) + RowCount(t, k)
    <2>1. CASE k \in DOMAIN u
      BY <1>3, <2>1 DEF RowCount
    <2>2. CASE k \notin DOMAIN u
      BY <1>2, <2>2 DEF RowCount
    <2> QED
      BY <2>1, <2>2
  <1> QED
    BY <1>1, <1>2, <1>4, <1>5, <1>6 DEF IsTable

\* A part of a table's rows.
LEMMA PartTable ==
    ASSUME NEW t, IsTable(t), NEW K \in SUBSET DOMAIN t
    PROVE  /\ IsTable([k \in K |-> t[k]])
           /\ \A k : RowCount([k2 \in K |-> t[k2]], k) <= RowCount(t, k)
  <1>1. PICK u : u = [k \in K |-> t[k]]
    OBVIOUS
  <1>2. DOMAIN u = K /\ \A k \in K : u[k] = t[k]
    BY <1>1
  <1>3. IsTable(u)
    BY <1>2, FS_Subset DEF IsTable
  <1>4. \A k : RowCount(u, k) <= RowCount(t, k)
    BY <1>2, RowCountIs DEF RowCount
  <1> QED
    BY <1>1, <1>3, <1>4

LEMMA TotalIs ==
    ASSUME NEW t, IsTable(t), NEW K, IsFiniteSet(K)
    PROVE  /\ TotalOf(t, K) \in Nat
           /\ \A k \in K : RowCount(t, k) <= TotalOf(t, K)
  <1>1. PICK f : f = [k \in K |-> RowCount(t, k)]
    OBVIOUS
  <1>2. \A k \in K : f[k] = RowCount(t, k) /\ f[k] \in Nat
    BY <1>1, RowCountIs
  <1>3. SumOver(f, K) \in Nat /\ \A k \in K : SumOver(f, K) >= f[k]
    BY <1>2, SumOverNat
  <1> QED
    BY <1>1, <1>2, <1>3 DEF TotalOf

-----------------------------------------------------------------------------
(* Pairs cover triples *)

\* The two pairs in a triple, and the triples of a table with a given one.
PairIn(t, e) == IF e = "head" THEN <<t[1], t[2], t[3]>> ELSE <<t[1], t[3], t[4]>>
WithPair(t, q, e) == {k \in DOMAIN t : PairIn(k, e) = q}
\* No pair is counted less often than the triples it is in.
Covers(p, t, e) == \A q : TotalOf(t, WithPair(t, q, e)) <= RowCount(p, q)

LEMMA CoversMore ==
    ASSUME NEW p, IsTable(p), NEW t, IsTable(t), NEW p2, IsTable(p2), NEW t2, IsTable(t2),
           NEW e, Covers(p, t, e),
           \A k : RowCount(p, k) <= RowCount(p2, k), \A k : RowCount(t2, k) <= RowCount(t, k)
    PROVE  Covers(p2, t2, e)
  <1> SUFFICES ASSUME NEW q PROVE TotalOf(t2, WithPair(t2, q, e)) <= RowCount(p2, q)
    BY DEF Covers
  <1>1. DOMAIN t2 \subseteq DOMAIN t
    <2> SUFFICES ASSUME NEW k \in DOMAIN t2 PROVE k \in DOMAIN t
      OBVIOUS
    <2>1. /\ RowCount(t2, k) \in Nat /\ RowCount(t2, k) > 0 /\ RowCount(t, k) \in Nat
          /\ RowCount(t2, k) <= RowCount(t, k)
      BY RowCountIs
    <2>2. RowCount(t, k) > 0
      BY <2>1
    <2> QED
      BY <2>2, RowCountIs
  <1>2. PICK A, B : A = WithPair(t, q, e) /\ B = WithPair(t2, q, e)
    OBVIOUS
  <1>3. B \subseteq A /\ IsFiniteSet(A) /\ IsFiniteSet(B)
    BY <1>1, <1>2, FS_Subset DEF WithPair, IsTable
  <1>4. PICK f, g : f = [k \in A |-> RowCount(t, k)] /\ g = [k \in B |-> RowCount(t2, k)]
    OBVIOUS
  <1>5. /\ \A k \in B : g[k] \in Nat /\ g[k] <= f[k]
        /\ \A k \in A : f[k] \in Nat
    BY <1>3, <1>4, RowCountIs
  <1>6. SumOver(g, B) <= SumOver(f, A)
    BY <1>3, <1>5, SumGrows
  <1>7. SumOver(g, B) \in Nat /\ SumOver(f, A) \in Nat
    BY <1>3, <1>5, SumOverNat
  <1>8. SumOver(f, A) <= RowCount(p, q)
    BY <1>2, <1>4 DEF Covers, TotalOf
  <1>9. RowCount(p, q) <= RowCount(p2, q) /\ RowCount(p, q) \in Nat /\ RowCount(p2, q) \in Nat
    BY RowCountIs
  <1>10. TotalOf(t2, B) = SumOver(g, B)
    BY <1>4 DEF TotalOf
  <1> QED
    BY <1>2, <1>6, <1>7, <1>8, <1>9, <1>10

LEMMA CoversBoth ==
    ASSUME NEW p, IsTable(p), NEW t, IsTable(t), NEW p2, IsTable(p2), NEW t2, IsTable(t2),
           NEW e, Covers(p, t, e), Covers(p2, t2, e)
    PROVE  Covers(Upsert(p, p2), Upsert(t, t2), e)
  <1>1. PICK u, v : u = Upsert(t, t2) /\ v = Upsert(p, p2)
    OBVIOUS
  <1>2. /\ IsTable(u) /\ DOMAIN u = DOMAIN t \cup DOMAIN t2
        /\ \A k : RowCount(u, k) = RowCount(t, k) + RowCount(t2, k)
        /\ \A k : RowCount(v, k) = RowCount(p, k) + RowCount(p2, k)
    BY <1>1, UpsertTable
  <1> SUFFICES ASSUME NEW q PROVE TotalOf(u, WithPair(u, q, e)) <= RowCount(v, q)
    BY <1>1 DEF Covers
  <1>3. PICK K, A, B : K = WithPair(u, q, e) /\ A = WithPair(t, q, e) /\ B = WithPair(t2, q, e)
    OBVIOUS
  <1>4. IsFiniteSet(K) /\ A \subseteq K /\ B \subseteq K
    BY <1>2, <1>3, FS_Subset DEF WithPair, IsTable
  <1>5. (\A k \in K \ A : k \notin DOMAIN t) /\ (\A k \in K \ B : k \notin DOMAIN t2)
    BY <1>3 DEF WithPair
  <1>6. PICK f, g, h : /\ f = [k \in K |-> RowCount(t, k)] /\ g = [k \in K |-> RowCount(t2, k)]
                       /\ h = [k \in K |-> RowCount(u, k)]
    OBVIOUS
  <1>7. \A k \in K : f[k] \in Nat /\ g[k] \in Nat /\ h[k] = f[k] + g[k]
    BY <1>2, <1>6, RowCountIs
  <1>8. SumOver(h, K) = SumOver(f, K) + SumOver(g, K)
    BY <1>4, <1>7, SumAdds
  <1>9. SumOver(f, K) = TotalOf(t, A)
    <2>1. PICK r : r = [k \in A |-> RowCount(t, k)]
      OBVIOUS
    <2>2. (\A k \in A : r[k] = f[k]) /\ (\A k \in K \ A : f[k] = 0)
      BY <1>4, <1>5, <1>6, <2>1 DEF RowCount
    <2>3. SumOver(f, K) = SumOver(r, A)
      BY <1>4, <1>7, <2>2, SumOfPart
    <2> QED
      BY <2>1, <2>3 DEF TotalOf
  <1>10. SumOver(g, K) = TotalOf(t2, B)
    <2>1. PICK r : r = [k \in B |-> RowCount(t2, k)]
      OBVIOUS
    <2>2. (\A k \in B : r[k] = g[k]) /\ (\A k \in K \ B : g[k] = 0)
      BY <1>4, <1>5, <1>6, <2>1 DEF RowCount
    <2>3. SumOver(g, K) = SumOver(r, B)
      BY <1>4, <1>7, <2>2, SumOfPart
    <2> QED
      BY <2>1, <2>3 DEF TotalOf
  <1>11. TotalOf(u, K) = SumOver(h, K)
    BY <1>6 DEF TotalOf
  <1>12. TotalOf(t, A) <= RowCount(p, q) /\ TotalOf(t2, B) <= RowCount(p2, q)
    BY <1>3 DEF Covers
  <1>13. TotalOf(t, A) \in Nat /\ TotalOf(t2, B) \in Nat /\ RowCount(p, q) \in Nat /\ RowCount(p2, q) \in Nat
    BY <1>4, FS_Subset, TotalIs, RowCountIs
  <1>14. TotalOf(u, K) = TotalOf(t, A) + TotalOf(t2, B)
    BY <1>8, <1>9, <1>10, <1>11
  <1>15. RowCount(v, q) = RowCount(p, q) + RowCount(p2, q)
    BY <1>2
  <1> QED
    BY <1>3, <1>12, <1>13, <1>14, <1>15

LEMMA CounterIs ==
    ASSUME NEW f, IsFiniteSet(DOMAIN f)
    PROVE  /\ IsTable(Counter(f))
           /\ \A k : RowCount(Counter(f), k) = Cardinality(ClassOf(DOMAIN f, f, k))
           /\ DOMAIN Counter(f) = {f[x] : x \in DOMAIN f}
  <1>1. PICK D, t : D = DOMAIN f /\ t = Counter(f)
    OBVIOUS
  <1>2. DOMAIN t = {f[x] : x \in D}
    BY <1>1 DEF Counter
  <1>3. \A k \in DOMAIN t : t[k].n = Cardinality(ClassOf(D, f, k))
    BY <1>1, <1>2 DEF Counter, ClassOf
  <1>4. IsFiniteSet(DOMAIN t)
    BY <1>1, <1>2, ValuesFinite
  <1>5. \A k : IsFiniteSet(ClassOf(D, f, k))
    BY <1>1, FS_Subset DEF ClassOf
  <1>6. \A k : Cardinality(ClassOf(D, f, k)) \in Nat
               /\ (Cardinality(ClassOf(D, f, k)) = 0 <=> ClassOf(D, f, k) = {})
    BY <1>5, FS_CardinalityType, FS_EmptySet
  <1>7. \A k : k \in DOMAIN t <=> ClassOf(D, f, k) # {}
    BY <1>2 DEF ClassOf
  <1>8. IsTable(t)
    BY <1>3, <1>4, <1>6, <1>7 DEF IsTable
  <1>9. ASSUME NEW k PROVE RowCount(t, k) = Cardinality(ClassOf(D, f, k))
    BY <1>3, <1>6, <1>7 DEF RowCount
  <1> QED
    BY <1>1, <1>2, <1>8, <1>9

\* A pair that goes with every triple, each its own, is counted as often.
LEMMA CounterCovers ==
    ASSUME NEW f, IsFiniteSet(DOMAIN f), NEW g, IsFiniteSet(DOMAIN g), NEW e,
           NEW sh \in Injection(DOMAIN f, DOMAIN g),
           \A w \in DOMAIN f : PairIn(f[w], e) = g[sh[w]]
    PROVE  Covers(Counter(g), Counter(f), e)
  <1> SUFFICES ASSUME NEW q PROVE TotalOf(Counter(f), WithPair(Counter(f), q, e)) <= RowCount(Counter(g), q)
    BY DEF Covers
  <1>1. PICK t, K, D : t = Counter(f) /\ K = WithPair(t, q, e) /\ D = DOMAIN f
    OBVIOUS
  <1>2. /\ IsTable(t) /\ DOMAIN t = {f[x] : x \in D}
        /\ \A k : RowCount(t, k) = Cardinality(ClassOf(D, f, k))
    BY <1>1, CounterIs
  <1>3. IsFiniteSet(K)
    BY <1>1, <1>2, FS_Subset DEF WithPair, IsTable
  <1>4. PICK h : h = [k \in K |-> RowCount(t, k)]
    OBVIOUS
  <1>5. \A k \in K : h[k] = Cardinality(ClassOf(D, f, k))
    BY <1>2, <1>4
  <1>6. SumOver(h, K) = Cardinality({w \in D : f[w] \in K})
    BY <1>1, <1>3, <1>5, SumOverCounts
  <1>7. PICK W, C : W = {w \in D : f[w] \in K} /\ C = ClassOf(DOMAIN g, g, q)
    OBVIOUS
  <1>8. PICK s : s = [w \in W |-> sh[w]]
    OBVIOUS
  <1>9. s \in Injection(W, C)
    <2>1. sh \in [D -> DOMAIN g] /\ \A a, b \in D : sh[a] = sh[b] => a = b
      BY <1>1 DEF Injection, IsInjective
    <2>2. \A w \in W : w \in D /\ sh[w] \in C
      BY <1>1, <1>7, <2>1 DEF WithPair, ClassOf
    <2>3. s \in [W -> C] /\ \A a, b \in W : s[a] = s[b] => a = b
      BY <1>8, <2>1, <2>2
    <2> QED
      BY <2>3 DEF Injection, IsInjective
  <1>10. IsFiniteSet(C)
    BY <1>7, FS_Subset DEF ClassOf
  <1>11. Cardinality(W) <= Cardinality(C)
    BY <1>9, <1>10, FS_Injection
  <1>12. RowCount(Counter(g), q) = Cardinality(C)
    BY <1>7, CounterIs
  <1> QED
    BY <1>1, <1>4, <1>6, <1>7, <1>11, <1>12 DEF TotalOf

-----------------------------------------------------------------------------
(* The windows of a map *)

CorrTypes ==
    /\ DOMAIN corr = DOMAIN PathVersions
    /\ \A m \in DOMAIN PathVersions : corr[m] \in Seq(Seq(Lattice))
PathWindows(m, n, p) == {p} \X (1 .. Len(corr[m][p]) - n + 1)
Known(m, c) == c \in DOMAIN FetchBlocksByCell(m)

LEMMA WindowIs ==
    ASSUME CorrTypes, NEW m \in DOMAIN PathVersions, NEW n \in Nat \ {0}
    PROVE  /\ IsFiniteSet(Windows(m, n))
           /\ \A w : w \in Windows(m, n) <=>
                 \E p \in DOMAIN corr[m], i \in Nat \ {0} :
                     /\ w = <<p, i>> /\ Len(corr[m][p]) \in Nat /\ i + n - 1 <= Len(corr[m][p])
                     /\ \A j \in 0 .. n - 1 : Known(m, corr[m][p][i + j])
  <1>1. corr[m] \in Seq(Seq(Lattice))
    BY DEF CorrTypes
  <1>2. PICK L \in Nat : L = Len(corr[m])
    BY <1>1
  <1>3. DOMAIN corr[m] = 1 .. L /\ \A p \in 1 .. L : Len(corr[m][p]) \in Nat
    <2>1. DOMAIN corr[m] = 1 .. L
      BY <1>1, <1>2
    <2>2. \A p \in 1 .. L : corr[m][p] \in Seq(Lattice)
      BY <1>1, <1>2
    <2> QED
      BY <2>1, <2>2
  <1>4. PICK ps : ps = [p \in 1 .. L |-> PathWindows(m, n, p)]
    OBVIOUS
  <1>5. PICK U : U = {ps[p] : p \in 1 .. L}
    OBVIOUS
  <1>6. IsFiniteSet(U)
    <2>1. IsFiniteSet(1 .. L)
      BY FS_Interval
    <2> QED
      BY <1>5, <2>1, ValuesFinite
  <1>7. \A T \in U : IsFiniteSet(T)
    <2> SUFFICES ASSUME NEW p \in 1 .. L PROVE IsFiniteSet(PathWindows(m, n, p))
      BY <1>4, <1>5
    <2>0. PICK l \in Nat : l = Len(corr[m][p])
      BY <1>3
    <2>1. PICK k \in Int : k = l - n + 1
      OBVIOUS
    <2>2. IsFiniteSet({p})
      BY FS_Singleton
    <2>3. IsFiniteSet(1 .. k)
      BY FS_Interval, 1 \in Int
    <2> QED
      BY <2>0, <2>1, <2>2, <2>3, FS_Product DEF PathWindows
  <1>8. UNION U = UNION {{p} \X (1 .. Len(corr[m][p]) - n + 1) : p \in DOMAIN corr[m]}
    BY <1>3, <1>4, <1>5 DEF PathWindows
  <1>9. Windows(m, n) = {w \in UNION U : \A j \in 0 .. n - 1 : Known(m, corr[m][w[1]][w[2] + j])}
    BY <1>8 DEF Windows, Known
  <1>10. IsFiniteSet(Windows(m, n))
    BY <1>6, <1>7, <1>9, FS_UNION, FS_Subset
  <1>11. ASSUME NEW w
         PROVE  w \in UNION U <=> \E p \in 1 .. L, i \in Nat \ {0} :
                                     w = <<p, i>> /\ i + n - 1 <= Len(corr[m][p])
    <2>1. w \in UNION U <=> \E p \in 1 .. L : w \in {p} \X (1 .. Len(corr[m][p]) - n + 1)
      BY <1>4, <1>5 DEF PathWindows
    <2>2. ASSUME NEW p \in 1 .. L
          PROVE  w \in {p} \X (1 .. Len(corr[m][p]) - n + 1)
                     <=> \E i \in Nat \ {0} : w = <<p, i>> /\ i + n - 1 <= Len(corr[m][p])
      <3>1. PICK k \in Nat : k = Len(corr[m][p])
        BY <1>3
      <3>2. \A i : i \in 1 .. k - n + 1 <=> i \in Nat \ {0} /\ i + n - 1 <= k
        BY <3>1
      <3> QED
        BY <3>1, <3>2
    <2> QED
      BY <2>1, <2>2
  <1>12. ASSUME NEW w
         PROVE  w \in Windows(m, n) <=>
                 \E p \in DOMAIN corr[m], i \in Nat \ {0} :
                     /\ w = <<p, i>> /\ Len(corr[m][p]) \in Nat /\ i + n - 1 <= Len(corr[m][p])
                     /\ \A j \in 0 .. n - 1 : Known(m, corr[m][p][i + j])
    <2>1. \A p, i : w = <<p, i>> => w[1] = p /\ w[2] = i
      OBVIOUS
    <2>2. w \in Windows(m, n) <=> w \in UNION U /\ \A j \in 0 .. n - 1 : Known(m, corr[m][w[1]][w[2] + j])
      BY <1>9
    <2>3. ASSUME w \in Windows(m, n)
          PROVE  \E p \in DOMAIN corr[m], i \in Nat \ {0} :
                     /\ w = <<p, i>> /\ Len(corr[m][p]) \in Nat /\ i + n - 1 <= Len(corr[m][p])
                     /\ \A j \in 0 .. n - 1 : Known(m, corr[m][p][i + j])
      <3>1. PICK p \in 1 .. L, i \in Nat \ {0} : w = <<p, i>> /\ i + n - 1 <= Len(corr[m][p])
        BY <1>11, <2>2, <2>3
      <3>2. w[1] = p /\ w[2] = i
        BY <2>1, <3>1
      <3>3. \A j \in 0 .. n - 1 : Known(m, corr[m][p][i + j])
        BY <2>2, <2>3, <3>2
      <3>4. p \in DOMAIN corr[m] /\ Len(corr[m][p]) \in Nat
        BY <1>3
      <3> QED
        BY <3>1, <3>3, <3>4
    <2>4. ASSUME NEW p \in DOMAIN corr[m], NEW i \in Nat \ {0},
                 w = <<p, i>> /\ Len(corr[m][p]) \in Nat /\ i + n - 1 <= Len(corr[m][p]),
                 \A j \in 0 .. n - 1 : Known(m, corr[m][p][i + j])
          PROVE  w \in Windows(m, n)
      <3>1. p \in 1 .. L
        BY <1>3
      <3>2. w \in UNION U
        BY <1>11, <2>4, <3>1
      <3>3. w[1] = p /\ w[2] = i
        BY <2>1, <2>4
      <3> QED
        BY <2>2, <2>4, <3>2, <3>3
    <2> QED
      BY <2>3, <2>4
  <1> QED
    BY <1>10, <1>12

LEMMA WindowKeyIs ==
    ASSUME NEW m, NEW p, NEW i \in Nat \ {0}, NEW at, at = FetchBlocksByCell(m)
    PROVE  /\ WindowKey(m, <<p, i>>, 2)
                  = <<Environment[m], at[corr[m][p][i]], at[corr[m][p][i + 1]]>>
           /\ WindowKey(m, <<p, i>>, 3)
                  = <<Environment[m], at[corr[m][p][i]], at[corr[m][p][i + 1]], at[corr[m][p][i + 2]]>>
  <1> DEFINE w == <<p, i>>
  <1>1. w[1] = p /\ w[2] = i
    OBVIOUS
  <1> HIDE DEF w
  <1>2. /\ WindowKey(m, w, 2) = [k \in 1 .. 3 |-> IF k = 1 THEN Environment[m]
                                                  ELSE at[corr[m][p][i + k - 2]]]
        /\ WindowKey(m, w, 3) = [k \in 1 .. 4 |-> IF k = 1 THEN Environment[m]
                                                  ELSE at[corr[m][p][i + k - 2]]]
    BY <1>1 DEF WindowKey
  <1>3. i + 2 - 2 = i /\ i + 3 - 2 = i + 1 /\ i + 4 - 2 = i + 2
    OBVIOUS
  <1>4. PICK a, b, c : a = at[corr[m][p][i]] /\ b = at[corr[m][p][i + 1]] /\ c = at[corr[m][p][i + 2]]
    OBVIOUS
  <1>5. WindowKey(m, w, 2) = <<Environment[m], a, b>>
    <2>1. WindowKey(m, w, 2) = [k \in 1 .. 3 |-> IF k = 1 THEN Environment[m] ELSE IF k = 2 THEN a ELSE b]
      BY <1>2, <1>3, <1>4
    <2> QED
      BY <2>1
  <1>6. WindowKey(m, w, 3) = <<Environment[m], a, b, c>>
    <2>1. WindowKey(m, w, 3) = [k \in 1 .. 4 |-> IF k = 1 THEN Environment[m] ELSE IF k = 2 THEN a
                                                ELSE IF k = 3 THEN b ELSE c]
      BY <1>2, <1>3, <1>4
    <2> QED
      BY <2>1
  <1> QED
    BY <1>4, <1>5, <1>6 DEF w

LEMMA MapCovers ==
    ASSUME CorrTypes, NEW m \in DOMAIN PathVersions, NEW e \in {"head", "tail"}
    PROVE  /\ IsTable(ExtractPairCounts(m)) /\ IsTable(ExtractTripleCounts(m))
           /\ Covers(ExtractPairCounts(m), ExtractTripleCounts(m), e)
  <1>1. PICK A, B : A = Windows(m, 3) /\ B = Windows(m, 2)
    OBVIOUS
  <1>2. PICK f, g : f = [w \in A |-> WindowKey(m, w, 3)] /\ g = [w \in B |-> WindowKey(m, w, 2)]
    OBVIOUS
  <1>3. /\ IsFiniteSet(A) /\ DOMAIN f = A /\ IsFiniteSet(B) /\ DOMAIN g = B
        /\ ExtractTripleCounts(m) = Counter(f) /\ ExtractPairCounts(m) = Counter(g)
    BY <1>1, <1>2, WindowIs DEF ExtractPairCounts, ExtractTripleCounts, CountsOf
  <1>4. PICK d \in {0, 1} : d = IF e = "head" THEN 0 ELSE 1
    OBVIOUS
  <1>5. PICK sh : sh = [w \in A |-> <<w[1], w[2] + d>>]
    OBVIOUS
  <1>6. \A w \in A : \E p \in DOMAIN corr[m], i \in Nat \ {0} :
              /\ w = <<p, i>> /\ Len(corr[m][p]) \in Nat /\ i + 2 <= Len(corr[m][p])
              /\ \A j \in 0 .. 2 : Known(m, corr[m][p][i + j])
    <2> SUFFICES ASSUME NEW w \in A
                 PROVE  \E p \in DOMAIN corr[m], i \in Nat \ {0} :
              /\ w = <<p, i>> /\ Len(corr[m][p]) \in Nat /\ i + 2 <= Len(corr[m][p])
              /\ \A j \in 0 .. 2 : Known(m, corr[m][p][i + j])
      OBVIOUS
    <2>1. PICK n \in Nat \ {0} : n = 3
      OBVIOUS
    <2>2. PICK p \in DOMAIN corr[m], i \in Nat \ {0} :
                     /\ w = <<p, i>> /\ Len(corr[m][p]) \in Nat /\ i + n - 1 <= Len(corr[m][p])
                     /\ \A j \in 0 .. n - 1 : Known(m, corr[m][p][i + j])
      BY <1>1, <2>1, WindowIs
    <2>3. i + n - 1 = i + 2 /\ n - 1 = 2
      BY <2>1
    <2> QED
      BY <2>2, <2>3
  <1>7. \A w : (\E p \in DOMAIN corr[m], i \in Nat \ {0} :
              /\ w = <<p, i>> /\ Len(corr[m][p]) \in Nat /\ i + 1 <= Len(corr[m][p])
              /\ \A j \in 0 .. 1 : Known(m, corr[m][p][i + j])) => w \in B
    <2>1. \A k \in Nat : k + 2 - 1 = k + 1
      OBVIOUS
    <2>2. 2 - 1 = 1 /\ 2 \in Nat \ {0}
      OBVIOUS
    <2> QED
      BY <1>1, <2>1, <2>2, WindowIs
  <1>8. ASSUME NEW w \in A
        PROVE  sh[w] \in B /\ PairIn(f[w], e) = g[sh[w]] /\ w = <<w[1], w[2]>> /\ w[2] \in Nat
    <2>1. PICK p \in DOMAIN corr[m], i \in Nat \ {0} :
              /\ w = <<p, i>> /\ Len(corr[m][p]) \in Nat /\ i + 2 <= Len(corr[m][p])
              /\ \A j \in 0 .. 2 : Known(m, corr[m][p][i + j])
      BY <1>6
    <2>2. PICK k \in Nat \ {0} : k = i + d
      OBVIOUS
    <2>3. sh[w] = <<p, k>>
      BY <1>5, <2>1, <2>2
    <2>4. k + 1 <= Len(corr[m][p]) /\ \A j \in 0 .. 1 : k + j = i + (d + j) /\ d + j \in 0 .. 2
      BY <2>1, <2>2
    <2>5. \A j \in 0 .. 1 : Known(m, corr[m][p][k + j])
      BY <2>1, <2>4
    <2>6. sh[w] \in B
      BY <1>7, <2>1, <2>3, <2>4, <2>5
    <2>7. PICK at : at = FetchBlocksByCell(m)
      OBVIOUS
    <2>8. f[w] = <<Environment[m], at[corr[m][p][i]], at[corr[m][p][i + 1]], at[corr[m][p][i + 2]]>>
      <3>1. f[w] = WindowKey(m, <<p, i>>, 3)
        BY <1>2, <2>1
      <3>2. i \in Nat \ {0}
        OBVIOUS
      <3>3. WindowKey(m, <<p, i>>, 3)
                = <<Environment[m], at[corr[m][p][i]], at[corr[m][p][i + 1]], at[corr[m][p][i + 2]]>>
        BY ONLY <2>7, <3>2, WindowKeyIs
      <3> QED
        BY <3>1, <3>3
    <2>9. g[sh[w]] = <<Environment[m], at[corr[m][p][k]], at[corr[m][p][k + 1]]>>
      <3>1. g[sh[w]] = WindowKey(m, <<p, k>>, 2)
        BY <1>2, <2>3, <2>6
      <3>2. k \in Nat \ {0}
        OBVIOUS
      <3>3. WindowKey(m, <<p, k>>, 2)
                = <<Environment[m], at[corr[m][p][k]], at[corr[m][p][k + 1]]>>
        BY ONLY <2>7, <3>2, WindowKeyIs
      <3> QED
        BY <3>1, <3>3
    <2>10. PairIn(f[w], e) = g[sh[w]]
      <3>1. CASE e = "head"
        <4>1. k = i
          BY <1>4, <2>2, <3>1
        <4> QED
          BY <2>8, <2>9, <3>1, <4>1 DEF PairIn
      <3>2. CASE e = "tail"
        <4>1. k = i + 1 /\ k + 1 = i + 2
          BY <1>4, <2>2, <3>2
        <4> QED
          BY <2>8, <2>9, <3>2, <4>1 DEF PairIn
      <3> QED
        BY <3>1, <3>2
    <2> QED
      BY <2>1, <2>6, <2>10
  <1>9. sh \in Injection(A, B)
    <2>1. sh \in [A -> B]
      BY <1>5, <1>8
    <2>2. ASSUME NEW a \in A, NEW b \in A, sh[a] = sh[b] PROVE a = b
      <3>1. <<a[1], a[2] + d>> = <<b[1], b[2] + d>>
        BY <1>5, <2>2
      <3>2. a[2] \in Nat /\ b[2] \in Nat /\ a = <<a[1], a[2]>> /\ b = <<b[1], b[2]>>
        BY <1>8
      <3>3. a[1] = b[1] /\ a[2] + d = b[2] + d
        BY <3>1
      <3> QED
        BY <3>2, <3>3
    <2> QED
      BY <2>1, <2>2 DEF Injection, IsInjective
  <1>10. Covers(Counter(g), Counter(f), e)
    BY <1>3, <1>8, <1>9, CounterCovers
  <1>11. IsTable(Counter(f)) /\ IsTable(Counter(g))
    BY <1>3, CounterIs
  <1> QED
    BY <1>3, <1>10, <1>11

-----------------------------------------------------------------------------
(* Scores *)

LEMMA GeometryBounded == \A a, b : GeometryScore(a, b) \in 0 .. 20
  <1> SUFFICES ASSUME NEW a, NEW b PROVE GeometryScore(a, b) \in 0 .. 20
    OBVIOUS
  <1>1. PICK ga, gb : ga = Geometry[a] /\ gb = Geometry[b]
    OBVIOUS
  <1>2. PICK n \in Int :
            n = 8 + (IF ga.surface # "" /\ ga.surface = gb.surface THEN 5 ELSE 0)
                  + (IF <<ga.shape, gb.shape>> \in ShapeCompatiblePairs THEN 6 ELSE 0)
                  - (IF ga.deco \/ gb.deco THEN 7 ELSE 0)
                  - (IF "unknown" \in {ga.shape, gb.shape} THEN 2 ELSE 0)
    <2>1. PICK p \in Int : p = IF ga.surface # "" /\ ga.surface = gb.surface THEN 5 ELSE 0
      <3>1. 5 \in Int /\ 0 \in Int
        OBVIOUS
      <3> QED
        BY <3>1, Zenon
    <2>2. PICK q \in Int : q = IF <<ga.shape, gb.shape>> \in ShapeCompatiblePairs THEN 6 ELSE 0
      OBVIOUS
    <2>3. PICK r \in Int : r = IF ga.deco \/ gb.deco THEN 7 ELSE 0
      OBVIOUS
    <2>4. PICK s \in Int : s = IF "unknown" \in {ga.shape, gb.shape} THEN 2 ELSE 0
      OBVIOUS
    <2>5. 8 + p + q - r - s \in Int
      OBVIOUS
    <2> QED
      BY <2>1, <2>2, <2>3, <2>4, <2>5
  <1>3. GeometryScore(a, b) = IF {a, b} \cap DOMAIN Geometry = {} THEN 0
            ELSE IF {a, b} \subseteq {a, b} \cap DOMAIN Geometry
                 THEN (IF n < 0 THEN 0 ELSE IF n > 20 THEN 20 ELSE n) ELSE 3
    BY <1>1, <1>2 DEF GeometryScore
  <1> QED
    BY <1>3

Score(s) ==
    s.num \in Nat /\ s.den \in Nat \ {0} /\ s.num <= 400 * s.den

LEMMA Scaled ==
    ASSUME NEW x \in Nat, NEW y \in Nat, NEW z \in Nat, x <= y
    PROVE  x * z \in Nat /\ y * z \in Nat /\ x * z <= y * z
  <1>1. PICK d \in Nat : d = y - x
    OBVIOUS
  <1>2. y = x + d
    BY <1>1
  <1>3. (x + d) * z = x * z + d * z
    OBVIOUS
  <1>4. d * z \in Nat /\ x * z \in Nat
    OBVIOUS
  <1> QED
    BY <1>2, <1>3, <1>4

LEMMA PairScored ==
    ASSUME IsTable(pairs)
    PROVE  \A key : Score(ScorePair(key))
  <1> SUFFICES ASSUME NEW key PROVE Score(ScorePair(key))
    OBVIOUS
  <1>1. PICK K : K = {k \in DOMAIN pairs : k[1] = key[1] /\ k[2] = key[2]}
    OBVIOUS
  <1>2. IsFiniteSet(K)
    BY <1>1, FS_Subset DEF IsTable
  <1>3. PICK c, t : c = RowCount(pairs, key) /\ t = TotalOf(pairs, K)
    OBVIOUS
  <1>4. c \in Nat /\ t \in Nat /\ c <= t
    <2>1. c \in Nat /\ (c > 0 <=> key \in DOMAIN pairs)
      BY <1>3, RowCountIs
    <2>2. t \in Nat /\ \A k \in K : RowCount(pairs, k) <= t
      BY <1>2, <1>3, TotalIs
    <2>3. key \in DOMAIN pairs => c <= t
      BY <1>1, <1>3, <2>2
    <2> QED
      BY <2>1, <2>2, <2>3
  <1>5. PICK g \in Nat : g = 9 * GeometryScore(key[2], key[3]) /\ g <= 180
    <2>1. GeometryScore(key[2], key[3]) \in 0 .. 20
      BY GeometryBounded
    <2> QED
      BY <2>1
  <1>6. PICK s : s = ScorePair(key)
    OBVIOUS
  <1>7. s = IF t = 0 THEN [num |-> g, den |-> 1] ELSE [num |-> 220 * c + g * t, den |-> t]
    BY <1>1, <1>3, <1>5, <1>6 DEF ScorePair, FetchPattern
  <1>8. CASE t = 0
    BY <1>5, <1>6, <1>7, <1>8 DEF Score
  <1>9. CASE t # 0
    <2>1. s.num = 220 * c + g * t /\ s.den = t
      BY <1>7, <1>9
    <2>2. g * t \in Nat /\ g * t <= 180 * t
      BY <1>4, <1>5, Scaled
    <2>3. 220 * c + g * t \in Nat /\ 220 * c + g * t <= 400 * t
      BY <1>4, <2>2
    <2> QED
      BY <1>4, <1>6, <1>9, <2>1, <2>3 DEF Score
  <1> QED
    BY <1>8, <1>9

\* The sum of n scores.
SumBounded(t) == /\ t = [num |-> t.num, den |-> t.den, n |-> t.n]
                 /\ t.num \in Nat /\ t.den \in Nat \ {0} /\ t.n \in Nat
                 /\ t.num <= 400 * (t.den * t.n)

LEMMA AddBounded ==
    ASSUME NEW t, SumBounded(t), NEW s, Score(s)
    PROVE  SumBounded(AddScore(t, s))
  <1>1. PICK a \in Nat, b \in Nat, n \in Nat : a = t.num /\ b = t.den /\ n = t.n /\ b # 0
    BY DEF SumBounded
  <1>2. PICK c \in Nat, d \in Nat : c = s.num /\ d = s.den /\ d # 0 /\ c <= 400 * d
    BY DEF Score
  <1>3. AddScore(t, s) = [num |-> a * d + c * b, den |-> b * d, n |-> n + 1]
    BY <1>1, <1>2 DEF AddScore
  <1>4. a <= 400 * (b * n)
    BY <1>1 DEF SumBounded
  <1>5. b * n \in Nat /\ b * d \in Nat /\ b * d # 0
    BY <1>1, <1>2
  <1>6. a * d \in Nat /\ a * d <= (400 * (b * n)) * d
    <2>1. 400 * (b * n) \in Nat
      BY <1>5
    <2> QED
      BY <1>4, <2>1, Scaled
  <1>7. c * b \in Nat /\ c * b <= (400 * d) * b
    <2>1. 400 * d \in Nat
      OBVIOUS
    <2> QED
      BY <1>2, <2>1, Scaled
  <1>8. (400 * (b * n)) * d + (400 * d) * b = 400 * ((b * d) * (n + 1))
    OBVIOUS
  <1>9. (400 * (b * n)) * d \in Nat /\ (400 * d) * b \in Nat
    BY <1>5
  <1>10. a * d + c * b \in Nat /\ a * d + c * b <= 400 * ((b * d) * (n + 1))
    BY <1>6, <1>7, <1>8, <1>9
  <1> QED
    BY <1>3, <1>5, <1>10 DEF SumBounded

\* A score in [0, 1], or none where no two neighbours of the path are known.
PathScoreOk(m, p, s) ==
    /\ s.num \in 0 .. 400 * s.den
    /\ Windows(m, 2) \cap ({p} \X Nat) = {} => s = Null

LEMMA PathScored ==
    ASSUME CorrTypes, IsTable(pairs), NEW m \in DOMAIN PathVersions, NEW p \in DOMAIN corr[m]
    PROVE  PathScoreOk(m, p, ScoreCorridorPath(m, p))
  <1>1. PICK L \in Nat : L = Len(corr[m][p])
    <2>1. corr[m][p] \in Seq(Lattice)
      BY DEF CorrTypes
    <2> QED
      BY <2>1
  <1>2. PICK ws, x0 : ws = Windows(m, 2) /\ x0 = [num |-> 0, den |-> 1, n |-> 0]
    OBVIOUS
  <1>3. PICK sc : sc = [i \in 1 .. L |-> ScorePair(WindowKey(m, <<p, i>>, 2))]
    OBVIOUS
  <1>4. \A i \in 1 .. L : Score(sc[i])
    BY <1>3, PairScored
  <1>5. PICK R : R = [num : Nat, den : Nat, n : Nat]
    OBVIOUS
  <1>6. PICK step : step = [i \in 1 .. L |-> [t \in R |->
                               IF <<p, i>> \in ws THEN AddScore(t, sc[i]) ELSE t]]
    OBVIOUS
  <1> DEFINE Up(g) == g = [i \in 0 .. L |-> IF i = 0 THEN x0
                              ELSE IF <<p, i>> \in ws THEN AddScore(g[i - 1], sc[i]) ELSE g[i - 1]]
             Fine(t) == SumBounded(t) /\ (ws \cap ({p} \X Nat) = {} => t.n = 0)
  <1>7. Fine(x0) /\ x0 \in R
    BY <1>2, <1>5 DEF SumBounded
  <1>8. ASSUME NEW t \in R, Fine(t), NEW i \in 1 .. L, <<p, i>> \in ws
        PROVE  Fine(AddScore(t, sc[i])) /\ AddScore(t, sc[i]) \in R
    <2>1. SumBounded(AddScore(t, sc[i]))
      BY <1>4, <1>8, AddBounded
    <2>2. AddScore(t, sc[i]) \in R
      BY <1>5, <2>1 DEF SumBounded
    <2>3. ws \cap ({p} \X Nat) # {}
      BY <1>8
    <2> QED
      BY <2>1, <2>2, <2>3
  <1>9. PICK P : P = [i \in 0 .. L |-> {t \in R : Fine(t)}]
    OBVIOUS
  <1> HIDE DEF Fine
  <1>10. PICK g : RowOf(x0, step, L, g)
    BY RowsExist
  <1>11. \A i \in 0 .. L : g[i] = IF i = 0 THEN x0 ELSE step[i][g[i - 1]]
    BY <1>10 DEF RowOf
  <1>12. g[0] \in P[0]
    BY <1>1, <1>7, <1>9, <1>11
  <1>13. ASSUME NEW i \in 1 .. L, g[i - 1] \in P[i - 1]
         PROVE  /\ g[i] = IF <<p, i>> \in ws THEN AddScore(g[i - 1], sc[i]) ELSE g[i - 1]
                /\ g[i] \in P[i]
    <2>1. i - 1 \in 0 .. L /\ i \in 0 .. L /\ i # 0
      BY <1>1
    <2>2. PICK t : t = g[i - 1]
      OBVIOUS
    <2>3. t \in R /\ Fine(t)
      BY <1>9, <1>13, <2>1, <2>2
    <2>4. g[i] = step[i][t]
      BY <1>11, <2>1, <2>2
    <2>5. g[i] = IF <<p, i>> \in ws THEN AddScore(t, sc[i]) ELSE t
      BY <1>6, <2>3, <2>4
    <2>6. g[i] \in R /\ Fine(g[i])
      BY <1>8, <2>3, <2>5
    <2> QED
      BY <1>9, <2>1, <2>2, <2>5, <2>6
  <1>14. \A i \in 0 .. L : g[i] \in P[i]
    BY <1>1, <1>12, <1>13, HoldsAlong
  <1>15. Up(g)
    <2>1. g = [i \in 0 .. L |-> g[i]]
      BY <1>10 DEF RowOf
    <2>2. \A i \in 0 .. L : g[i] = IF i = 0 THEN x0
                              ELSE IF <<p, i>> \in ws THEN AddScore(g[i - 1], sc[i]) ELSE g[i - 1]
      <3> SUFFICES ASSUME NEW i \in 0 .. L
                   PROVE  g[i] = IF i = 0 THEN x0
                              ELSE IF <<p, i>> \in ws THEN AddScore(g[i - 1], sc[i]) ELSE g[i - 1]
        OBVIOUS
      <3>1. CASE i = 0
        BY <1>11, <3>1
      <3>2. CASE i # 0
        <4>1. i \in 1 .. L /\ i - 1 \in 0 .. L
          BY <1>1, <3>2
        <4> QED
          BY <1>13, <1>14, <3>2, <4>1
      <3> QED
        BY <3>1, <3>2
    <2> QED
      BY <2>1, <2>2
  <1> DEFINE u == CHOOSE h : Up(h)
  <1>16. Up(u)
    BY <1>15
  <1> DEFINE Before(i) == IF <<p, i>> \in ws THEN AddScore(u[i - 1], sc[i]) ELSE u[i - 1]
  <1>17. \A i \in 0 .. L : u[i] = IF i = 0 THEN x0 ELSE Before(i)
    BY <1>16
  <1>18. PICK up : up = u
    OBVIOUS
  <1>19. \A i \in 0 .. L : up[i] = IF i = 0 THEN x0
                              ELSE IF <<p, i>> \in ws THEN AddScore(up[i - 1], sc[i]) ELSE up[i - 1]
    BY <1>17, <1>18
  <1>20. ScoreCorridorPath(m, p) = IF up[L].n = 0 THEN Null
                                   ELSE [num |-> up[L].num, den |-> up[L].den * up[L].n]
    <2>1. \A i \in 1 .. L : sc[i] = ScorePair(WindowKey(m, <<p, i>>, 2))
      BY <1>3
    <2> DEFINE v == CHOOSE h : h = [i \in 0 .. Len(corr[m][p]) |->
                       IF i = 0 THEN [num |-> 0, den |-> 1, n |-> 0]
                       ELSE IF <<p, i>> \in Windows(m, 2)
                            THEN AddScore(h[i - 1], ScorePair(WindowKey(m, <<p, i>>, 2)))
                            ELSE h[i - 1]]
    <2>2. ASSUME NEW h
          PROVE  Up(h) <=> h = [i \in 0 .. Len(corr[m][p]) |->
                       IF i = 0 THEN [num |-> 0, den |-> 1, n |-> 0]
                       ELSE IF <<p, i>> \in Windows(m, 2)
                            THEN AddScore(h[i - 1], ScorePair(WindowKey(m, <<p, i>>, 2)))
                            ELSE h[i - 1]]
      <3>1. PICK f1 : f1 = [i \in 0 .. L |-> IF i = 0 THEN x0
                              ELSE IF <<p, i>> \in ws THEN AddScore(h[i - 1], sc[i]) ELSE h[i - 1]]
        OBVIOUS
      <3>2. PICK f2 : f2 = [i \in 0 .. Len(corr[m][p]) |->
                       IF i = 0 THEN [num |-> 0, den |-> 1, n |-> 0]
                       ELSE IF <<p, i>> \in Windows(m, 2)
                            THEN AddScore(h[i - 1], ScorePair(WindowKey(m, <<p, i>>, 2)))
                            ELSE h[i - 1]]
        OBVIOUS
      <3>3. \A i \in 0 .. L : i # 0 => i \in 1 .. L
        BY <1>1
      <3>4. \A i \in 0 .. L : f1[i] = f2[i]
        BY <1>1, <1>2, <2>1, <3>1, <3>2, <3>3
      <3>5. f1 = f2
        BY <1>1, <3>1, <3>2, <3>4
      <3> QED
        BY <3>1, <3>2, <3>5
    <2>3. v = u
      BY <2>2
    <2>4. ScoreCorridorPath(m, p) = LET all == v[Len(corr[m][p])]
                                    IN  IF all.n = 0 THEN Null
                                        ELSE [num |-> all.num, den |-> all.den * all.n]
      BY DEF ScoreCorridorPath
    <2> QED
      BY <1>1, <1>18, <2>3, <2>4
  <1>21. up[L] \in P[L]
    <2>1. up[0] \in P[0]
      <3>1. 0 \in 0 .. L
        BY <1>1
      <3>2. up[0] = x0
        BY <1>19, <3>1
      <3> QED
        BY <1>7, <1>9, <3>1, <3>2
    <2>2. ASSUME NEW i \in 1 .. L, up[i - 1] \in P[i - 1] PROVE up[i] \in P[i]
      <3>1. i - 1 \in 0 .. L /\ i \in 0 .. L /\ i # 0
        BY <1>1
      <3>2. PICK t : t = up[i - 1]
        OBVIOUS
      <3>3. t \in R /\ Fine(t)
        BY <1>9, <2>2, <3>1, <3>2
      <3>4. up[i] = IF <<p, i>> \in ws THEN AddScore(t, sc[i]) ELSE t
        BY <1>19, <3>1, <3>2
      <3>5. up[i] \in R /\ Fine(up[i])
        BY <1>8, <3>3, <3>4
      <3> QED
        BY <1>9, <3>1, <3>5
    <2>3. \A i \in 0 .. L : up[i] \in P[i]
      BY <1>1, <2>1, <2>2, HoldsAlong
    <2> QED
      BY <1>1, <2>3
  <1>22. PICK t : t = up[L]
    OBVIOUS
  <1>23. SumBounded(t) /\ (ws \cap ({p} \X Nat) = {} => t.n = 0)
    BY <1>1, <1>9, <1>21, <1>22 DEF Fine
  <1>24. PICK a \in Nat, b \in Nat, n \in Nat : a = t.num /\ b = t.den /\ n = t.n
    BY <1>23 DEF SumBounded
  <1>25. PICK s : s = ScoreCorridorPath(m, p)
    OBVIOUS
  <1>26. s.num \in 0 .. 400 * s.den
    <2>1. CASE n = 0
      <3>1. s = [num |-> 0, den |-> 0]
        BY <1>20, <1>22, <1>24, <1>25, <2>1 DEF Null
      <3> QED
        BY <3>1
    <2>2. CASE n # 0
      <3>1. s.num = a /\ s.den = b * n
        BY <1>20, <1>22, <1>24, <1>25, <2>2
      <3>2. a <= 400 * (b * n) /\ b * n \in Nat
        BY <1>23, <1>24 DEF SumBounded
      <3> QED
        BY <3>1, <3>2
    <2> QED
      BY <2>1, <2>2
  <1>27. ws \cap ({p} \X Nat) = {} => s = Null
    BY <1>20, <1>22, <1>23, <1>25
  <1> QED
    BY <1>2, <1>25, <1>26, <1>27 DEF PathScoreOk

-----------------------------------------------------------------------------
(* Faces that meet *)

\* A row's key, and that of the same meetings seen from the other side.
IsFaceKey(k) == k = <<k[1], k[2], k[3], k[4], k[5]>> /\ k[5] \in 0 .. 3
Mirrored(k) == <<k[1], k[3], k[2], k[4], (4 - k[5]) % 4>>
Mutual(t) == \A k \in DOMAIN t : /\ IsFaceKey(k) /\ Mirrored(k) \in DOMAIN t
                                 /\ t[Mirrored(k)] = t[k]

LEMMA MirroredIs ==
    ASSUME NEW k, IsFaceKey(k)
    PROVE  IsFaceKey(Mirrored(k)) /\ Mirrored(Mirrored(k)) = k
  <1>1. PICK a, b, c, d, q : q \in 0 .. 3 /\ k = <<a, b, c, d, q>>
    BY DEF IsFaceKey
  <1>2. PICK r : r = (4 - q) % 4
    OBVIOUS
  <1>3. r \in 0 .. 3 /\ (4 - r) % 4 = q
    BY <1>1, <1>2
  <1>4. Mirrored(k) = <<a, c, b, d, r>>
    BY <1>1, <1>2 DEF Mirrored
  <1>5. Mirrored(<<a, c, b, d, r>>) = <<a, b, c, d, q>>
    BY <1>3 DEF Mirrored
  <1>6. IsFaceKey(<<a, c, b, d, r>>)
    BY <1>3 DEF IsFaceKey
  <1> QED
    BY <1>1, <1>4, <1>5, <1>6

LEMMA UpsertMutual ==
    ASSUME NEW s, Mutual(s), NEW t, Mutual(t)
    PROVE  Mutual(Upsert(s, t))
  <1> DEFINE row(u, k) == IF k \in DOMAIN u THEN u[k] ELSE [n |-> 0, maps |-> 0]
  <1>1. PICK u : u = Upsert(s, t)
    OBVIOUS
  <1>2. DOMAIN u = DOMAIN s \cup DOMAIN t
    BY <1>1 DEF Upsert
  <1>3. \A k \in DOMAIN u : u[k] = [n |-> row(s, k).n + row(t, k).n,
                                    maps |-> row(s, k).maps + row(t, k).maps]
    BY <1>1, <1>2 DEF Upsert
  <1>4. ASSUME NEW k, IsFaceKey(k), NEW v, Mutual(v)
        PROVE  row(v, Mirrored(k)) = row(v, k) /\ (k \in DOMAIN v => Mirrored(k) \in DOMAIN v)
    <2>1. IsFaceKey(Mirrored(k)) /\ Mirrored(Mirrored(k)) = k
      BY <1>4, MirroredIs
    <2>2. Mirrored(k) \in DOMAIN v => k \in DOMAIN v
      BY <1>4, <2>1 DEF Mutual
    <2>3. k \in DOMAIN v => Mirrored(k) \in DOMAIN v /\ v[Mirrored(k)] = v[k]
      BY <1>4 DEF Mutual
    <2> QED
      BY <2>2, <2>3
  <1>5. ASSUME NEW k \in DOMAIN u
        PROVE  IsFaceKey(k) /\ Mirrored(k) \in DOMAIN u /\ u[Mirrored(k)] = u[k]
    <2>1. IsFaceKey(k)
      BY <1>2 DEF Mutual
    <2>2. Mirrored(k) \in DOMAIN u
      BY <1>2, <1>4, <2>1
    <2>3. row(s, Mirrored(k)) = row(s, k) /\ row(t, Mirrored(k)) = row(t, k)
      BY <1>4, <2>1
    <2>4. u[Mirrored(k)] = [n |-> row(s, Mirrored(k)).n + row(t, Mirrored(k)).n,
                            maps |-> row(s, Mirrored(k)).maps + row(t, Mirrored(k)).maps]
      BY <1>3, <2>2
    <2> HIDE DEF row
    <2>5. u[Mirrored(k)] = u[k]
      BY <1>3, <2>3, <2>4
    <2> QED
      BY <2>1, <2>2, <2>5
  <1> QED
    BY <1>1, <1>5 DEF Mutual

\* What meets what, counted from both sides.
LEMMA CounterMutual ==
    ASSUME NEW f, NEW D, D = DOMAIN f, IsFiniteSet(D), NEW opp \in [D -> D],
           \A w \in D : /\ opp[opp[w]] = w /\ IsFaceKey(f[w])
                        /\ f[opp[w]] = Mirrored(f[w])
    PROVE  Mutual(Counter(f))
  <1>1. PICK t : t = Counter(f)
    OBVIOUS
  <1>2. DOMAIN t = {f[x] : x \in D}
    BY <1>1 DEF Counter
  <1>3. \A k \in DOMAIN t : t[k] = [n |-> Cardinality(ClassOf(D, f, k)), maps |-> 1]
    BY <1>1, <1>2 DEF Counter, ClassOf
  <1>4. \A k : IsFiniteSet(ClassOf(D, f, k)) /\ Cardinality(ClassOf(D, f, k)) \in Nat
    BY FS_Subset, FS_CardinalityType DEF ClassOf
  <1>5. ASSUME NEW k, IsFaceKey(k)
        PROVE  Cardinality(ClassOf(D, f, k)) <= Cardinality(ClassOf(D, f, Mirrored(k)))
    <2>1. PICK A, B : A = ClassOf(D, f, k) /\ B = ClassOf(D, f, Mirrored(k))
      OBVIOUS
    <2>2. PICK s : s = [w \in A |-> opp[w]]
      OBVIOUS
    <2>3. \A w \in A : w \in D /\ s[w] = opp[w] /\ opp[w] \in B
      BY <2>1, <2>2 DEF ClassOf
    <2>4. s \in [A -> B] /\ \A a, b \in A : s[a] = s[b] => a = b
      BY <2>2, <2>3
    <2>5. s \in Injection(A, B)
      BY <2>4 DEF Injection, IsInjective
    <2> QED
      BY <1>4, <2>1, <2>5, FS_Injection
  <1>6. ASSUME NEW k \in DOMAIN t
        PROVE  IsFaceKey(k) /\ Mirrored(k) \in DOMAIN t /\ t[Mirrored(k)] = t[k]
    <2>1. PICK w \in D : k = f[w]
      BY <1>2
    <2>2. IsFaceKey(k) /\ Mirrored(k) = f[opp[w]] /\ opp[w] \in D
      BY <2>1
    <2>3. Mirrored(k) \in DOMAIN t
      BY <1>2, <2>2
    <2>4. PICK j : j = Mirrored(k)
      OBVIOUS
    <2>5. IsFaceKey(j) /\ Mirrored(j) = k
      BY <2>2, <2>4, MirroredIs
    <2>6. PICK x, y \in Nat : x = Cardinality(ClassOf(D, f, k)) /\ y = Cardinality(ClassOf(D, f, j))
      BY <1>4
    <2>7. x <= y /\ y <= x
      BY <1>5, <2>2, <2>4, <2>5, <2>6
    <2>8. x = y
      BY <2>7
    <2>9. t[j] = t[k]
      BY <1>3, <2>3, <2>4, <2>6, <2>8
    <2> QED
      BY <2>2, <2>3, <2>4, <2>9
  <1> QED
    BY <1>1, <1>6 DEF Mutual

\* Faces of cells of the world.
WorldFaces == Lattice \X (0 .. 3)

LEMMA AcrossTwice ==
    ASSUME NEW w \in WorldFaces
    PROVE  Across(w) \in WorldFaces /\ Across(Across(w)) = w
  <1>1. PICK x, y, z \in Int, f \in 0 .. 3 : w = <<<<x, y, z>>, f>>
    BY CellParts DEF WorldFaces
  <1>2. PICK g \in 0 .. 3 : g = OppositeFace(f)
    BY DEF OppositeFace
  <1>3. OppositeFace(g) = f
    BY <1>2 DEF OppositeFace
  <1>4. PICK a, b, c \in Int : /\ FaceDeltas[f] = <<a, b, c>>
                               /\ FaceDeltas[g] = <<-a, -b, -c>>
    <2>1. /\ FaceDeltas[0] = <<0, 0, 1>> /\ FaceDeltas[1] = <<-1, 0, 0>>
          /\ FaceDeltas[2] = <<0, 0, -1>> /\ FaceDeltas[3] = <<1, 0, 0>>
      BY DEF FaceDeltas
    <2>2. CASE f = 0
      <3>1. g = 2
        BY <1>2, <2>2 DEF OppositeFace
      <3>2. PICK a, b, c \in Int : a = 0 /\ b = 0 /\ c = 1
        OBVIOUS
      <3> QED
        BY <2>1, <2>2, <3>1, <3>2
    <2>3. CASE f = 1
      <3>1. g = 3
        BY <1>2, <2>3 DEF OppositeFace
      <3>2. PICK a, b, c \in Int : a = -1 /\ b = 0 /\ c = 0
        OBVIOUS
      <3> QED
        BY <2>1, <2>3, <3>1, <3>2
    <2>4. CASE f = 2
      <3>1. g = 0
        BY <1>2, <2>4 DEF OppositeFace
      <3>2. PICK a, b, c \in Int : a = 0 /\ b = 0 /\ c = -1
        OBVIOUS
      <3> QED
        BY <2>1, <2>4, <3>1, <3>2
    <2>5. CASE f = 3
      <3>1. g = 1
        BY <1>2, <2>5 DEF OppositeFace
      <3>2. PICK a, b, c \in Int : a = 1 /\ b = 0 /\ c = 0
        OBVIOUS
      <3> QED
        BY <2>1, <2>5, <3>1, <3>2
    <2> QED
      BY <2>2, <2>3, <2>4, <2>5
  <1>5. Across(w) = <<<<x + a, y + b, z + c>>, g>>
    BY <1>1, <1>2, <1>4 DEF Across, Plus
  <1>6. Across(<<<<x + a, y + b, z + c>>, g>>) = <<<<(x + a) + (-a), (y + b) + (-b), (z + c) + (-c)>>, f>>
    BY <1>3, <1>4 DEF Across, Plus
  <1>7. (x + a) + (-a) = x /\ (y + b) + (-b) = y /\ (z + c) + (-c) = z
    OBVIOUS
  <1>8. <<x + a, y + b, z + c>> \in Lattice
    BY CellParts
  <1> QED
    BY <1>1, <1>5, <1>6, <1>7, <1>8 DEF WorldFaces

LEMMA PortsPlaced ==
    ASSUME NEW b, NEW rot \in Int
    PROVE  /\ IsFiniteSet(PortIndex(b, rot))
           /\ \A p \in PortIndex(b, rot) : p.cell \in Lattice /\ p.face \in 0 .. 3
  <1>1. CASE b \notin DOMAIN Catalogue \/ Catalogue[b].ground.units = {}
    <2>1. PortIndex(b, rot) = {}
      BY <1>1 DEF PortIndex
    <2> QED
      BY <2>1, FS_EmptySet
  <1>2. CASE b \in DOMAIN Catalogue /\ Catalogue[b].ground.units # {}
    <2>1. PICK s, Q : s = Catalogue[b].ground.size /\ Q = Catalogue[b].ports
      OBVIOUS
    <2>2. /\ s \in Lattice /\ IsFiniteSet(Q)
          /\ \A p \in Q : p.cell \in Lattice /\ p.face \in 0 .. 3
      BY <1>2, <2>1, GridAssumption DEF Anchored
    <2>3. PICK f : f = [p \in Q |-> [cell |-> RotateOffset(p.cell, rot, s),
                                     face |-> RotateFace(p.face, rot), clip |-> p.clip]]
      OBVIOUS
    <2>4. PortIndex(b, rot) = {f[p] : p \in Q}
      BY <1>2, <2>1, <2>3 DEF PortIndex
    <2>5. \A p \in Q : f[p].cell \in Lattice /\ f[p].face \in 0 .. 3
      <3> SUFFICES ASSUME NEW p \in Q PROVE f[p].cell \in Lattice /\ f[p].face \in 0 .. 3
        OBVIOUS
      <3>1. PICK v \in Lattice, q \in 0 .. 3 : v = p.cell /\ q = p.face
        BY <2>2
      <3>2. RotateOffset(v, rot, s) \in Lattice
        BY <2>2, OffsetTurns
      <3>3. RotateFace(q, rot) \in 0 .. 3
        <4>1. PICK d \in Int : d = q + rot
          OBVIOUS
        <4>2. d % 4 \in 0 .. 3
          OBVIOUS
        <4> QED
          BY <4>1, <4>2 DEF RotateFace
      <3>4. f[p].cell = RotateOffset(v, rot, s) /\ f[p].face = RotateFace(q, rot)
        BY <2>3, <3>1
      <3> QED
        BY <3>2, <3>3, <3>4
    <2>6. IsFiniteSet({f[p] : p \in Q})
      BY <2>2, ValuesFinite
    <2> QED
      BY <2>4, <2>5, <2>6
  <1> QED
    BY <1>1, <1>2

LEMMA OpenIs ==
    ASSUME NEW m \in DOMAIN PathVersions
    PROVE  /\ IsFiniteSet(DOMAIN OpenPorts(m)) /\ DOMAIN OpenPorts(m) \subseteq WorldFaces
           /\ \A w \in DOMAIN OpenPorts(m) : OpenPorts(m)[w].rot \in Int
  <1> DEFINE S == Placed[m]
             at(i) == {<<Plus(S[i].cell, p.cell), p.face>> : p \in PortIndex(S[i].block, S[i].rot)}
             at0(i) == {<<Plus(Placed[m][i].cell, p.cell), p.face>> :
                      p \in PortIndex(Placed[m][i].block, Placed[m][i].rot)}
             places == UNION {at(i) : i \in DOMAIN S}
             last(w) == Largest({i \in DOMAIN S : w \in at(i)})
  <1>1. S \in Seq([block : STRING, rot : Int, cell : Lattice])
    BY StatisticsAssumption
  <1>2. PICK n \in Nat : n = Len(S)
    BY <1>1
  <1>3. DOMAIN S = 1 .. n
    BY <1>1, <1>2
  <1>4. \A i \in 1 .. n : S[i].rot \in Int /\ S[i].cell \in Lattice
    <2> SUFFICES ASSUME NEW i \in 1 .. n PROVE S[i].rot \in Int /\ S[i].cell \in Lattice
      OBVIOUS
    <2>1. PICK R : R = [block : STRING, rot : Int, cell : Lattice]
      OBVIOUS
    <2>2. S[i] \in R
      <3> HIDE DEF S
      <3>1. S \in Seq(R) /\ i \in 1 .. Len(S)
        BY <1>1, <1>2, <2>1
      <3> QED
        BY ONLY <3>1
    <2>3. S[i] \in [block : STRING, rot : Int, cell : Lattice]
      BY <2>1, <2>2
    <2> QED
      BY <2>3
  <1> HIDE DEF S
  <1>5. ASSUME NEW i \in 1 .. n PROVE IsFiniteSet(at(i)) /\ at(i) \subseteq WorldFaces
    <2>1. PICK I, c : I = PortIndex(S[i].block, S[i].rot) /\ c = S[i].cell
      OBVIOUS
    <2>2. IsFiniteSet(I) /\ c \in Lattice /\ \A p \in I : p.cell \in Lattice /\ p.face \in 0 .. 3
      BY <1>4, <2>1, PortsPlaced
    <2>3. PICK f : f = [p \in I |-> <<Plus(c, p.cell), p.face>>]
      OBVIOUS
    <2>4. at(i) = {f[p] : p \in I}
      BY <2>1, <2>3
    <2>5. IsFiniteSet(at(i))
      <3>1. IsFiniteSet({f[p] : p \in I})
        BY <2>2, ValuesFinite
      <3> QED
        BY <2>4, <3>1
    <2>6. \A p \in I : f[p] \in WorldFaces
      <3> SUFFICES ASSUME NEW p \in I PROVE f[p] \in WorldFaces
        OBVIOUS
      <3>1. Plus(c, p.cell) \in Lattice
        BY <2>2, VectorSums
      <3> QED
        BY <2>2, <2>3, <3>1 DEF WorldFaces
    <2> QED
      BY <2>4, <2>5, <2>6
  <1>6. PICK ats : ats = [i \in 1 .. n |-> at(i)]
    OBVIOUS
  <1>7. places = UNION {ats[i] : i \in 1 .. n}
    BY <1>3, <1>6
  <1>8. IsFiniteSet(1 .. n)
    BY FS_Interval
  <1>9. IsFiniteSet(places)
    <2>1. IsFiniteSet({ats[i] : i \in 1 .. n})
      BY <1>8, ValuesFinite
    <2>2. \A T \in {ats[i] : i \in 1 .. n} : IsFiniteSet(T)
      BY <1>5, <1>6
    <2> QED
      BY <1>7, <2>1, <2>2, FS_UNION
  <1>10. places \subseteq WorldFaces
    BY <1>5, <1>6, <1>7
  <1>11. ASSUME NEW w \in places PROVE S[last(w)].rot \in Int
    <2>1. PICK T : T = {i \in DOMAIN S : w \in at(i)}
      OBVIOUS
    <2>2. T \subseteq 1 .. n /\ T # {}
      BY <1>3, <2>1
    <2>3. IsFiniteSet(T) /\ T \subseteq Int
      <3>1. IsFiniteSet(T)
        BY <1>8, <2>2, FS_Subset
      <3>2. 1 .. n \subseteq Int
        OBVIOUS
      <3> QED
        BY <2>2, <3>1, <3>2
    <2>4. Largest(T) \in T
      BY <2>2, <2>3, LargestIs
    <2> QED
      BY <1>4, <2>1, <2>2, <2>4
  <1>12. PICK open : open = OpenPorts(m)
    OBVIOUS
  <1>13. DOMAIN open = places
    BY <1>12 DEF OpenPorts, S
  <1>14. \A w \in places : open[w].rot = S[last(w)].rot
    BY <1>12 DEF OpenPorts, S
  <1> HIDE DEF places, last
  <1> QED
    BY <1>9, <1>10, <1>11, <1>12, <1>13, <1>14

LEMMA RotationsMirror ==
    ASSUME NEW a \in Int, NEW b \in Int
    PROVE  (b - a) % 4 \in 0 .. 3 /\ (a - b) % 4 = (4 - ((b - a) % 4)) % 4
  <1>1. PICK d \in Int : d = b - a
    OBVIOUS
  <1>2. a - b = -d
    BY <1>1
  <1>3. d % 4 \in 0 .. 3 /\ (-d) % 4 = (4 - (d % 4)) % 4
    OBVIOUS
  <1> QED
    BY <1>1, <1>2, <1>3

\* Two ports that meet are met by each other.
LEMMA FacesMeet ==
    ASSUME NEW m \in DOMAIN PathVersions
    PROVE  Mutual(FaceCountsOf(m))
  <1>1. PICK open : open = OpenPorts(m)
    OBVIOUS
  <1>2. /\ IsFiniteSet(DOMAIN open) /\ DOMAIN open \subseteq WorldFaces
        /\ \A w \in DOMAIN open : open[w].rot \in Int
    BY <1>1, OpenIs
  <1>3. PICK D : D = {w \in DOMAIN open : /\ Across(w) \in DOMAIN open
                                          /\ open[Across(w)].clip = open[w].clip}
    OBVIOUS
  <1>4. PICK f, opp : f = [w \in D |-> FaceKey(m, open, w)] /\ opp = [w \in D |-> Across(w)]
    OBVIOUS
  <1>5. FaceCountsOf(m) = Counter(f)
    BY <1>1, <1>3, <1>4 DEF FaceCountsOf
  <1>6. IsFiniteSet(D) /\ D = DOMAIN f
    BY <1>2, <1>3, <1>4, FS_Subset
  <1>7. ASSUME NEW w \in D
        PROVE  /\ opp[w] \in D /\ opp[opp[w]] = w /\ IsFaceKey(f[w])
               /\ f[opp[w]] = Mirrored(f[w])
    <2>1. PICK v : v = Across(w)
      OBVIOUS
    <2>2. w \in WorldFaces /\ v \in DOMAIN open /\ w \in DOMAIN open /\ open[v].clip = open[w].clip
      BY <1>2, <1>3, <2>1
    <2>3. Across(v) = w
      BY <2>1, <2>2, AcrossTwice
    <2>4. v \in D /\ opp[w] = v /\ opp[v] = w
      BY <1>3, <1>4, <2>1, <2>2, <2>3
    <2>5. PICK x, y, c, p, q :
              /\ x = open[w].block /\ y = open[v].block /\ c = open[w].clip
              /\ p = open[w].rot /\ q = open[v].rot
      OBVIOUS
    <2>50. p \in Int /\ q \in Int
      BY <1>2, <2>2, <2>5
    <2>6. f[w] = <<Environment[m], x, y, c, (q - p) % 4>>
      BY <1>4, <2>1, <2>5 DEF FaceKey
    <2>7. f[v] = <<Environment[m], y, x, c, (p - q) % 4>>
      BY <1>4, <2>2, <2>3, <2>4, <2>5 DEF FaceKey
    <2>8. PICK d \in 0 .. 3 : d = (q - p) % 4 /\ (p - q) % 4 = (4 - d) % 4
      BY <2>50, RotationsMirror
    <2>9. IsFaceKey(f[w]) /\ f[v] = Mirrored(f[w])
      BY <2>6, <2>7, <2>8 DEF IsFaceKey, Mirrored
    <2> QED
      BY <2>4, <2>9
  <1>8. opp \in [D -> D]
    BY <1>4, <1>7
  <1>9. Mutual(Counter(f))
    BY <1>6, <1>7, <1>8, CounterMutual
  <1> QED
    BY <1>5, <1>9

FacesUpTo(cs, n, g) == g = [i \in 0 .. n |-> IF i = 0 THEN NoRows ELSE Upsert(g[i - 1], cs[i])]

LEMMA FacesAddUp ==
    ASSUME NEW cs, NEW n \in Nat
    PROVE  \E g : FacesUpTo(cs, n, g)
  <1> DEFINE T == {k \in Nat : ~ \E g : FacesUpTo(cs, k, g)}
  <1> SUFFICES ASSUME T # {} PROVE FALSE
    OBVIOUS
  <1>1. PICK k \in T : \A m \in T : k <= m
    BY LeastNat
  <1>2. k # 0
    <2> DEFINE g == [i \in 0 .. 0 |-> NoRows]
    <2>1. g = [i \in 0 .. 0 |-> IF i = 0 THEN NoRows ELSE Upsert(g[i - 1], cs[i])]
      OBVIOUS
    <2> HIDE DEF g
    <2>2. FacesUpTo(cs, 0, g)
      BY <2>1 DEF FacesUpTo
    <2> QED
      BY <1>1, <2>2
  <1>3. k - 1 \in Nat /\ k - 1 \notin T
    BY <1>1, <1>2
  <1>4. PICK g : FacesUpTo(cs, k - 1, g)
    BY <1>3
  <1> DEFINE h == [i \in 0 .. k |-> IF i < k THEN g[i] ELSE Upsert(g[k - 1], cs[k])]
  <1>5. \A i \in 0 .. k - 1 : g[i] = IF i = 0 THEN NoRows ELSE Upsert(g[i - 1], cs[i])
    BY <1>4 DEF FacesUpTo
  <1>6. (\A i \in 0 .. k - 1 : h[i] = g[i]) /\ h[k] = Upsert(g[k - 1], cs[k])
    <2>1. k \in 0 .. k /\ ~(k < k) /\ \A i \in 0 .. k - 1 : i \in 0 .. k /\ i < k
      BY <1>3
    <2> QED
      BY <2>1
  <1>7. ASSUME NEW i \in 0 .. k
        PROVE  h[i] = IF i = 0 THEN NoRows ELSE Upsert(h[i - 1], cs[i])
    <2> HIDE DEF h
    <2>1. CASE i < k
      <3>1. i \in 0 .. k - 1 /\ (i # 0 => i - 1 \in 0 .. k - 1)
        BY <1>3, <2>1
      <3> QED
        BY <1>5, <1>6, <3>1
    <2>2. CASE i = k
      <3>1. k - 1 \in 0 .. k - 1 /\ k # 0
        BY <1>2, <1>3
      <3> QED
        BY <1>6, <2>2, <3>1
    <2> QED
      BY <1>3, <2>1, <2>2
  <1>8. h = [i \in 0 .. k |-> IF i = 0 THEN NoRows ELSE Upsert(h[i - 1], cs[i])]
    BY <1>7
  <1> HIDE DEF h
  <1> QED
    BY <1>1, <1>8 DEF FacesUpTo

LEMMA FaceCountsMutual == Mutual(FaceCounts)
  <1>1. StatMaps \in Seq(DOMAIN PathVersions)
    BY StatisticsAssumption
  <1>2. PICK L \in Nat : L = Len(StatMaps)
    BY <1>1
  <1>3. \A i \in 1 .. L : StatMaps[i] \in DOMAIN PathVersions
    BY <1>1, <1>2
  <1>4. PICK cs : cs = [i \in 1 .. L |-> FaceCountsOf(StatMaps[i])]
    OBVIOUS
  <1>5. \A i \in 1 .. L : Mutual(cs[i])
    BY <1>3, <1>4, FacesMeet
  <1>6. ASSUME NEW g
        PROVE  FacesUpTo(cs, L, g) <=> g = [i \in 0 .. Len(StatMaps) |->
                  IF i = 0 THEN NoRows ELSE Upsert(g[i - 1], FaceCountsOf(StatMaps[i]))]
    <2>1. PICK a, b : /\ a = [i \in 0 .. L |-> IF i = 0 THEN NoRows ELSE Upsert(g[i - 1], cs[i])]
                      /\ b = [i \in 0 .. Len(StatMaps) |->
                                 IF i = 0 THEN NoRows ELSE Upsert(g[i - 1], FaceCountsOf(StatMaps[i]))]
      OBVIOUS
    <2>2. \A i \in 0 .. L : i # 0 => i \in 1 .. L
      OBVIOUS
    <2>3. \A i \in 0 .. L : a[i] = b[i]
      BY <1>2, <1>4, <2>1, <2>2
    <2>4. a = b
      BY <1>2, <2>1, <2>3
    <2> QED
      BY <2>1, <2>4 DEF FacesUpTo
  <1>7. FaceCounts = (CHOOSE g : FacesUpTo(cs, L, g))[L]
    <2>1. FaceCounts = (CHOOSE g : g = [i \in 0 .. Len(StatMaps) |->
                  IF i = 0 THEN NoRows ELSE Upsert(g[i - 1], FaceCountsOf(StatMaps[i]))])[L]
      BY <1>2 DEF FaceCounts
    <2>2. (CHOOSE g : FacesUpTo(cs, L, g)) = CHOOSE g : g = [i \in 0 .. Len(StatMaps) |->
                  IF i = 0 THEN NoRows ELSE Upsert(g[i - 1], FaceCountsOf(StatMaps[i]))]
      BY <1>6
    <2> QED
      BY <2>1, <2>2
  <1>8. PICK g : FacesUpTo(cs, L, g) /\ FaceCounts = g[L]
    BY <1>7, FacesAddUp
  <1>9. \A i \in 0 .. L : g[i] = IF i = 0 THEN NoRows ELSE Upsert(g[i - 1], cs[i])
    BY <1>8 DEF FacesUpTo
  <1>10. PICK T : T = {i \in 0 .. L : ~Mutual(g[i])}
    OBVIOUS
  <1>11. T = {}
    <2> SUFFICES ASSUME T # {} PROVE FALSE
      OBVIOUS
    <2>1. T \subseteq Nat
      BY <1>10
    <2>2. PICK i \in T : \A k \in T : i <= k
      BY <2>1, LeastNat
    <2>3. i \in 0 .. L /\ ~Mutual(g[i])
      BY <1>10
    <2>4. i # 0
      <3>1. Mutual(NoRows)
        BY NoRowsTable DEF Mutual
      <3> QED
        BY <1>9, <2>3, <3>1
    <2>5. i - 1 \in 0 .. L /\ i \in 1 .. L /\ i - 1 \notin T
      BY <2>2, <2>3, <2>4
    <2>6. Mutual(g[i - 1]) /\ Mutual(cs[i])
      BY <1>5, <1>10, <2>5
    <2>7. Mutual(Upsert(g[i - 1], cs[i]))
      BY <2>6, UpsertMutual
    <2> QED
      BY <1>9, <2>3, <2>4, <2>7
  <1>12. L \in 0 .. L
    OBVIOUS
  <1> QED
    BY <1>8, <1>10, <1>11, <1>12

-----------------------------------------------------------------------------
(* The tables, whatever fails *)

Cover(p, t) == Covers(p, t, "head") /\ Covers(p, t, "tail")

LEMMA CoverRules ==
    /\ \A p : IsTable(p) => Cover(p, NoRows)
    /\ \A p, t, p2, t2 : IsTable(p) /\ IsTable(t) /\ IsTable(p2) /\ IsTable(t2) =>
          /\ Cover(p, t) => Cover(Upsert(p, p2), t)
          /\ Cover(p, t) /\ Cover(p2, t2) => Cover(Upsert(p, p2), Upsert(t, t2))
  <1>1. ASSUME NEW p, IsTable(p) PROVE Cover(p, NoRows)
    <2>1. ASSUME NEW e, NEW q PROVE TotalOf(NoRows, WithPair(NoRows, q, e)) <= RowCount(p, q)
      <3>1. PICK K : K = WithPair(NoRows, q, e) /\ K = {}
        BY NoRowsTable DEF WithPair
      <3>2. PICK f : f = [k \in K |-> RowCount(NoRows, k)]
        OBVIOUS
      <3>3. SumOver(f, {}) = 0
        <4>1. PICK g : SumOver(f, {}) = g[{}] /\ Sums(f, {}, g)
          BY FS_EmptySet, SumOverIs
        <4> QED
          BY <4>1 DEF Sums
      <3> QED
        BY <1>1, <3>1, <3>2, <3>3, RowCountIs DEF TotalOf
    <2> QED
      BY <2>1 DEF Cover, Covers
  <1>2. ASSUME NEW p, NEW t, NEW p2, NEW t2, IsTable(p), IsTable(t), IsTable(p2), IsTable(t2), NEW e,
               Covers(p, t, e)
        PROVE  /\ Covers(Upsert(p, p2), t, e)
               /\ Covers(p2, t2, e) => Covers(Upsert(p, p2), Upsert(t, t2), e)
    <2>1. PICK u : u = Upsert(p, p2)
      OBVIOUS
    <2>2. IsTable(u) /\ \A k : RowCount(u, k) = RowCount(p, k) + RowCount(p2, k)
      BY <1>2, <2>1, UpsertTable
    <2>3. \A k : RowCount(p, k) <= RowCount(u, k)
      <3>1. \A k : RowCount(p, k) \in Nat /\ RowCount(p2, k) \in Nat
        BY <1>2, RowCountIs
      <3> QED
        BY <2>2, <3>1
    <2>4. \A k : RowCount(t, k) <= RowCount(t, k)
      BY <1>2, RowCountIs
    <2>5. Covers(u, t, e)
      BY <1>2, <2>2, <2>3, <2>4, CoversMore
    <2>6. Covers(p2, t2, e) => Covers(Upsert(p, p2), Upsert(t, t2), e)
      BY <1>2, CoversBoth
    <2> QED
      BY <2>1, <2>5, <2>6
  <1> QED
    BY <1>1, <1>2 DEF Cover

\* Of the triples of a map, only some rows were written.
LEMMA CoverPart ==
    ASSUME NEW p, IsTable(p), NEW t, IsTable(t), NEW c, IsTable(c), NEW K \in SUBSET DOMAIN c,
           Cover(p, Upsert(t, c))
    PROVE  Cover(p, Upsert(t, [k \in K |-> c[k]]))
  <1>1. PICK d : d = [k \in K |-> c[k]]
    OBVIOUS
  <1>2. IsTable(d) /\ \A k : RowCount(d, k) <= RowCount(c, k)
    BY <1>1, PartTable
  <1>3. PICK u, v : u = Upsert(t, c) /\ v = Upsert(t, d)
    OBVIOUS
  <1>4. /\ IsTable(u) /\ IsTable(v)
        /\ \A k : RowCount(u, k) = RowCount(t, k) + RowCount(c, k)
        /\ \A k : RowCount(v, k) = RowCount(t, k) + RowCount(d, k)
    BY <1>2, <1>3, UpsertTable
  <1>5. \A k : RowCount(v, k) <= RowCount(u, k) /\ RowCount(p, k) <= RowCount(p, k)
    <2>1. \A k : /\ RowCount(t, k) \in Nat /\ RowCount(c, k) \in Nat /\ RowCount(d, k) \in Nat
                 /\ RowCount(p, k) \in Nat
      BY <1>2, RowCountIs
    <2> QED
      BY <1>2, <1>4, <2>1
  <1>6. \A e : Covers(p, u, e) => Covers(p, v, e)
    BY <1>4, <1>5, CoversMore
  <1> QED
    BY <1>1, <1>3, <1>6 DEF Cover

LEMMA TargetMaps ==
    ASSUME NEW t \in Targets
    PROVE  t \in Seq(DOMAIN PathVersions) /\ WithPaths(t) \in Seq(DOMAIN PathVersions)
  <1>1. StatMaps \in Seq(DOMAIN PathVersions)
    BY StatisticsAssumption
  <1>2. \A s \in Seq(DOMAIN PathVersions) : WithPaths(s) \in Seq(DOMAIN PathVersions)
    <2> SUFFICES ASSUME NEW s \in Seq(DOMAIN PathVersions) PROVE WithPaths(s) \in Seq(DOMAIN PathVersions)
      OBVIOUS
    <2>1. PICK I : I = {i \in DOMAIN s : corr[s[i]] # <<>>} /\ I \subseteq DOMAIN s
      OBVIOUS
    <2>2. Picked(s, I) \in Seq(DOMAIN PathVersions)
      BY <2>1, PickedMembers
    <2> QED
      BY <2>1, <2>2 DEF WithPaths
  <1>3. t \in Seq(DOMAIN PathVersions)
    <2>1. CASE \E i \in DOMAIN StatMaps : t = <<StatMaps[i]>>
      BY <1>1, <2>1
    <2>2. CASE \E n \in 1 .. Len(MapsWithPaths) : t = SubSeq(MapsWithPaths, 1, n)
      <3>1. PICK s \in Seq(DOMAIN PathVersions) : s = MapsWithPaths
        BY <1>1, <1>2 DEF MapsWithPaths
      <3>2. PICK n \in 1 .. Len(s) : t = SubSeq(s, 1, n)
        BY <2>2, <3>1
      <3> QED
        BY <3>1, <3>2
    <2> QED
      BY <2>1, <2>2 DEF Targets
  <1> QED
    BY <1>2, <1>3

StatTyped ==
    /\ mining = [at |-> mining.at, todo |-> mining.todo, both |-> mining.both,
                 pairs |-> mining.pairs, triples |-> mining.triples]
    /\ mining.todo \in Seq(DOMAIN PathVersions)
    /\ IsTable(mining.pairs) /\ IsTable(mining.triples) /\ IsTable(pairs) /\ IsTable(triples)
    /\ CorrTypes
\* What is committed is covered, unless a reset has emptied one table only.  What the run
\* sees is, too; while a map's triples wait, so are they.
TablesCover ==
    /\ torn \/ mining.at = "truncate triples" \/ Cover(pairs, triples)
    /\ mining.at = "pairs" => torn \/ Cover(mining.pairs, mining.triples)
    /\ mining.at = "triples" =>
          /\ mining.todo # <<>>
          /\ torn \/ Cover(mining.pairs,
                           Upsert(mining.triples, ExtractTripleCounts(Head(mining.todo))))
ScoresOk ==
    /\ DOMAIN seqScore = DOMAIN PathVersions
    /\ \A m \in DOMAIN PathVersions : \A p \in DOMAIN seqScore[m] :
          PathScoreOk(m, p, seqScore[m][p])
StatInv == StatTyped /\ TablesCover /\ ScoresOk /\ Mutual(faces)

LEMMA StatStarts == StatInit => StatInv
  <1> SUFFICES ASSUME StatInit PROVE StatInv
    OBVIOUS
  <1>1. IsTable(NoRows) /\ Cover(NoRows, NoRows) /\ Mutual(NoRows)
    BY NoRowsTable, CoverRules DEF Mutual
  <1>2. <<>> \in Seq(DOMAIN PathVersions) /\ <<>> \in Seq(Seq(Lattice))
    OBVIOUS
  <1>3. StatTyped
    BY <1>1, <1>2 DEF StatInit, StatTyped, Resting, CorrTypes
  <1>4. TablesCover
    BY <1>1 DEF StatInit, TablesCover, Resting
  <1>5. ScoresOk
    BY DEF StatInit, ScoresOk
  <1> QED
    BY <1>1, <1>3, <1>4, <1>5 DEF StatInit, StatInv

\* The corridors and their scores stay.
LEMMA ScoresStay ==
    ASSUME ScoresOk, CorrTypes, UNCHANGED <<corr, seqScore>>
    PROVE  ScoresOk' /\ CorrTypes'
  <1>1. \A m, p, s : PathScoreOk(m, p, s)' <=> PathScoreOk(m, p, s')
    BY DEF PathScoreOk, Windows
  <1> QED
    BY <1>1 DEF ScoresOk, CorrTypes, PathScoreOk, Windows

LEMMA CountsStay ==
    ASSUME corr' = corr
    PROVE  \A m : ExtractTripleCounts(m)' = ExtractTripleCounts(m)
  BY DEF ExtractTripleCounts, CountsOf, Windows, WindowKey

\* A command that starts or ends.
LEMMA BeginKeeps ==
    ASSUME StatInv, NEW at, at \notin {"triples", "truncate triples"},
           NEW todo \in Seq(DOMAIN PathVersions), NEW both, Begin(at, todo, both),
           mining.at = "idle", UNCHANGED <<pairs, triples, faces, corr, seqScore, torn>>
    PROVE  StatInv'
  <1>1. ScoresOk' /\ CorrTypes'
    BY ScoresStay DEF StatInv, StatTyped
  <1>2. StatTyped'
    BY <1>1 DEF StatInv, StatTyped, Begin
  <1>3. torn \/ Cover(pairs, triples)
    BY DEF StatInv, TablesCover
  <1>4. TablesCover'
    BY <1>3 DEF TablesCover, Begin, Cover, Covers, TotalOf, WithPair, RowCount
  <1> QED
    BY <1>1, <1>2, <1>4 DEF StatInv, Mutual

LEMMA StartsKeep ==
    ASSUME StatInv, BuildBlockTransitionCounts \/ BuildFaceTransitions \/ ScoreAllCorridors
    PROVE  StatInv'
  <1>1. \A t \in Targets : t \in Seq(DOMAIN PathVersions) /\ WithPaths(t) \in Seq(DOMAIN PathVersions)
    BY TargetMaps
  <1>2. CASE BuildBlockTransitionCounts
    <2>1. PICK t \in Targets, both \in BOOLEAN, at \in {"pairs", "truncate pairs"} : Begin(at, t, both)
      BY <1>2 DEF BuildBlockTransitionCounts
    <2>2. at \notin {"triples", "truncate triples"} /\ t \in Seq(DOMAIN PathVersions)
      BY <1>1, <2>1
    <2>3. mining.at = "idle" /\ UNCHANGED <<pairs, triples, faces, corr, seqScore, torn>>
      BY <1>2 DEF BuildBlockTransitionCounts, Started
    <2> QED
      BY <2>1, <2>2, <2>3, BeginKeeps
  <1>3. CASE BuildFaceTransitions
    <2>1. PICK at \in {"faces", "truncate faces"} : Begin(at, <<>>, FALSE)
      BY <1>3 DEF BuildFaceTransitions
    <2>2. at \notin {"triples", "truncate triples"}
      BY <2>1
    <2>3. <<>> \in Seq(DOMAIN PathVersions)
      BY EmptySeq
    <2>4. mining.at = "idle" /\ UNCHANGED <<pairs, triples, faces, corr, seqScore, torn>>
      BY <1>3 DEF BuildFaceTransitions, Started
    <2> QED
      BY <2>1, <2>2, <2>3, <2>4, BeginKeeps
  <1>4. CASE ScoreAllCorridors
    <2>1. PICK t \in Targets : Begin("score", WithPaths(t), FALSE)
      BY <1>4 DEF ScoreAllCorridors
    <2>2. WithPaths(t) \in Seq(DOMAIN PathVersions)
      BY <1>1, <2>1
    <2>3. mining.at = "idle" /\ UNCHANGED <<pairs, triples, faces, corr, seqScore, torn>>
      BY <1>4 DEF ScoreAllCorridors, Started
    <2>4. "score" \notin {"triples", "truncate triples"}
      OBVIOUS
    <2> QED
      BY <2>1, <2>2, <2>3, <2>4, BeginKeeps
  <1> QED
    BY <1>2, <1>3, <1>4

LEMMA TruncatesKeep ==
    ASSUME StatInv, TruncatePairs \/ TruncateTriples
    PROVE  StatInv'
  <1>1. UNCHANGED <<corr, seqScore, faces>>
    BY DEF TruncatePairs, TruncateTriples
  <1>2. ScoresOk' /\ CorrTypes' /\ Mutual(faces)'
    BY <1>1, ScoresStay DEF StatInv, StatTyped, Mutual
  <1>3. IsTable(NoRows)
    BY NoRowsTable
  <1>4. PICK a, s, b, p, t : /\ mining = [at |-> a, todo |-> s, both |-> b, pairs |-> p, triples |-> t]
                             /\ s \in Seq(DOMAIN PathVersions) /\ IsTable(p) /\ IsTable(t)
    BY DEF StatInv, StatTyped
  <1>5. IsTable(pairs) /\ IsTable(triples)
    BY DEF StatInv, StatTyped
  <1>6. CASE TruncatePairs
    <2>1. mining' = [at |-> "truncate triples", todo |-> s, both |-> b, pairs |-> NoRows, triples |-> t]
      BY <1>4, <1>6 DEF TruncatePairs
    <2>2. pairs' = NoRows /\ triples' = triples
      BY <1>6 DEF TruncatePairs
    <2>3. StatTyped'
      BY <1>2, <1>3, <1>4, <1>5, <2>1, <2>2 DEF StatTyped
    <2>4. TablesCover'
      BY <2>1 DEF TablesCover
    <2> QED
      BY <1>2, <2>3, <2>4 DEF StatInv
  <1>7. CASE TruncateTriples
    <2>1. mining' = [at |-> "pairs", todo |-> s, both |-> b, pairs |-> p, triples |-> NoRows]
      BY <1>4, <1>7 DEF TruncateTriples
    <2>2. pairs' = pairs /\ triples' = NoRows
      BY <1>7 DEF TruncateTriples
    <2>3. StatTyped'
      BY <1>2, <1>3, <1>4, <1>5, <2>1, <2>2 DEF StatTyped
    <2>4. Cover(pairs, NoRows) /\ Cover(p, NoRows)
      BY <1>4, <1>5, CoverRules
    <2>5. PICK q : q = NoRows
      OBVIOUS
    <2>6. TablesCover'
      <3>1. mining'.at = "pairs" /\ mining'.pairs = p /\ mining'.triples = NoRows
        BY <2>1
      <3>2. Cover(pairs', triples') /\ Cover(mining'.pairs, mining'.triples)
        BY <2>2, <2>4, <3>1
      <3> QED
        BY <3>1, <3>2 DEF TablesCover, Cover, Covers, TotalOf, WithPair, RowCount
    <2> QED
      BY <1>2, <2>3, <2>6 DEF StatInv
  <1> QED
    BY <1>6, <1>7

\* One map is done, or its pairs are: the run and what it commits stay covered.
LEMMA MinesOn ==
    ASSUME StatInv, UNCHANGED <<corr, seqScore, faces, torn>>,
           mining.at \in {"pairs", "triples"},
           NEW s \in Seq(DOMAIN PathVersions), NEW b, NEW p, IsTable(p), NEW t, IsTable(t),
           \/ mining' = [at |-> "pairs", todo |-> s, both |-> b, pairs |-> p, triples |-> t]
              /\ (torn \/ Cover(p, t))
           \/ mining' = [at |-> "triples", todo |-> s, both |-> b, pairs |-> p, triples |-> t]
              /\ s # <<>> /\ (torn \/ Cover(p, Upsert(t, ExtractTripleCounts(Head(s))))),
           \/ UNCHANGED <<pairs, triples>>
           \/ pairs' = p /\ triples' = t /\ (torn \/ Cover(p, t))
    PROVE  StatInv'
  <1>1. ScoresOk' /\ CorrTypes' /\ Mutual(faces)'
    BY ScoresStay DEF StatInv, StatTyped, Mutual
  <1>2. StatTyped'
    BY <1>1 DEF StatInv, StatTyped
  <1>3. torn \/ Cover(pairs, triples)
    BY DEF StatInv, TablesCover
  <1>4. torn \/ Cover(pairs', triples')
    BY <1>3
  <1>5. mining'.at = "pairs" => torn \/ Cover(mining'.pairs, mining'.triples)
    OBVIOUS
  <1>6. mining'.at = "triples" =>
          /\ mining'.todo # <<>>
          /\ torn \/ Cover(mining'.pairs, Upsert(mining'.triples, ExtractTripleCounts(Head(mining'.todo))))
    OBVIOUS
  <1>7. \A m : ExtractTripleCounts(m)' = ExtractTripleCounts(m)
    BY CountsStay
  <1>8. Cover(pairs, triples)' <=> Cover(pairs', triples')
    BY DEF Cover, Covers, TotalOf, WithPair, RowCount
  <1>9. Cover(mining.pairs, mining.triples)' <=> Cover(mining'.pairs, mining'.triples)
    BY DEF Cover, Covers, TotalOf, WithPair, RowCount
  <1>10. Cover(mining.pairs, Upsert(mining.triples, ExtractTripleCounts(Head(mining.todo))))'
           <=> Cover(mining'.pairs, Upsert(mining'.triples, ExtractTripleCounts(Head(mining'.todo))))
    <2>1. ExtractTripleCounts(Head(mining.todo))' = ExtractTripleCounts(Head(mining'.todo))
      BY <1>7 DEF ExtractTripleCounts, CountsOf, Windows, WindowKey
    <2> QED
      BY <2>1 DEF Cover, Covers, TotalOf, WithPair, RowCount, Upsert
  <1>11. TablesCover'
    BY <1>4, <1>5, <1>6, <1>8, <1>9, <1>10 DEF TablesCover
  <1> QED
    BY <1>1, <1>2, <1>11 DEF StatInv

LEMMA MineParts ==
    ASSUME StatInv, mining.at \in {"pairs", "triples"}, mining.todo # <<>>
    PROVE  \E a, s, b, p, t, c, d :
              /\ mining = [at |-> a, todo |-> s, both |-> b, pairs |-> p, triples |-> t]
              /\ s \in Seq(DOMAIN PathVersions) /\ Tail(s) \in Seq(DOMAIN PathVersions)
              /\ c = ExtractPairCounts(Head(s)) /\ d = ExtractTripleCounts(Head(s))
              /\ IsTable(p) /\ IsTable(t) /\ IsTable(c) /\ IsTable(d) /\ Cover(c, d)
              /\ IsTable(Upsert(p, c)) /\ IsTable(Upsert(t, d))
              /\ torn \/ Cover(pairs, triples)
              /\ a = "pairs" => torn \/ Cover(p, t)
              /\ a = "triples" => torn \/ Cover(p, Upsert(t, d))
  <1>1. PICK a, s, b, p, t : /\ mining = [at |-> a, todo |-> s, both |-> b, pairs |-> p, triples |-> t]
                             /\ s \in Seq(DOMAIN PathVersions) /\ IsTable(p) /\ IsTable(t)
    BY DEF StatInv, StatTyped
  <1>2. s # <<>> /\ Tail(s) \in Seq(DOMAIN PathVersions) /\ Head(s) \in DOMAIN PathVersions
    BY <1>1
  <1>3. PICK c, d : c = ExtractPairCounts(Head(s)) /\ d = ExtractTripleCounts(Head(s))
    OBVIOUS
  <1>4. IsTable(c) /\ IsTable(d) /\ Cover(c, d)
    BY <1>2, <1>3, MapCovers DEF StatInv, StatTyped, Cover
  <1>5. IsTable(Upsert(p, c)) /\ IsTable(Upsert(t, d))
    BY <1>1, <1>4, UpsertTable
  <1>6. /\ torn \/ Cover(pairs, triples)
        /\ a = "pairs" => torn \/ Cover(p, t)
        /\ a = "triples" => torn \/ Cover(p, Upsert(t, d))
    BY <1>1, <1>3 DEF StatInv, TablesCover
  <1> QED
    BY <1>1, <1>2, <1>3, <1>4, <1>5, <1>6

LEMMA PairsKeep ==
    ASSUME StatInv, PersistPairCounts
    PROVE  StatInv'
  <1>1. mining.at = "pairs" /\ mining.todo # <<>> /\ UNCHANGED <<corr, seqScore, faces, torn>>
    BY DEF PersistPairCounts
  <1>2. PICK a, s, b, p, t, c, d :
              /\ mining = [at |-> a, todo |-> s, both |-> b, pairs |-> p, triples |-> t]
              /\ s \in Seq(DOMAIN PathVersions) /\ Tail(s) \in Seq(DOMAIN PathVersions)
              /\ c = ExtractPairCounts(Head(s)) /\ d = ExtractTripleCounts(Head(s))
              /\ IsTable(p) /\ IsTable(t) /\ IsTable(c) /\ IsTable(d) /\ Cover(c, d)
              /\ IsTable(Upsert(p, c)) /\ IsTable(Upsert(t, d))
              /\ torn \/ Cover(pairs, triples)
              /\ a = "pairs" => torn \/ Cover(p, t)
              /\ a = "triples" => torn \/ Cover(p, Upsert(t, d))
    BY <1>1, MineParts
  <1>3. PICK q : q = Upsert(p, c)
    OBVIOUS
  <1>4. IsTable(q) /\ (torn \/ Cover(q, t)) /\ (torn \/ Cover(q, Upsert(t, d)))
    <2>1. torn \/ Cover(p, t)
      BY <1>1, <1>2
    <2> QED
      BY <1>2, <1>3, <2>1, CoverRules
  <1>5. PICK view : view = [mining EXCEPT !.pairs = q]
    OBVIOUS
  <1>6. view = [at |-> "pairs", todo |-> s, both |-> b, pairs |-> q, triples |-> t]
    BY <1>1, <1>2, <1>5
  <1>7. /\ mining' = IF b THEN [view EXCEPT !.at = "triples"] ELSE NextMap(view)
        /\ UNCHANGED <<pairs, triples>> \/ (pairs' = q /\ triples' = t)
    BY <1>2, <1>3, <1>5, <1>6 DEF PersistPairCounts
  <1>8. \/ mining' = [at |-> "pairs", todo |-> Tail(s), both |-> b, pairs |-> q, triples |-> t]
        \/ mining' = [at |-> "triples", todo |-> s, both |-> b, pairs |-> q, triples |-> t]
    BY <1>6, <1>7 DEF NextMap
  <1>9. s # <<>>
    BY <1>1, <1>2
  <1>10. torn \/ Cover(q, Upsert(t, ExtractTripleCounts(Head(s))))
    BY <1>2, <1>4
  <1>11. CASE mining' = [at |-> "pairs", todo |-> Tail(s), both |-> b, pairs |-> q, triples |-> t]
    BY <1>1, <1>2, <1>4, <1>7, <1>11, MinesOn
  <1>12. CASE mining' = [at |-> "triples", todo |-> s, both |-> b, pairs |-> q, triples |-> t]
    BY <1>1, <1>2, <1>4, <1>7, <1>9, <1>10, <1>12, MinesOn
  <1> QED
    BY <1>8, <1>11, <1>12

LEMMA TriplesKeep ==
    ASSUME StatInv, PersistTripleCounts
    PROVE  StatInv'
  <1>1. mining.at = "triples" /\ mining.todo # <<>> /\ UNCHANGED <<corr, seqScore, faces, torn>>
    BY DEF PersistTripleCounts, StatInv, TablesCover
  <1>2. PICK a, s, b, p, t, c, d :
              /\ mining = [at |-> a, todo |-> s, both |-> b, pairs |-> p, triples |-> t]
              /\ s \in Seq(DOMAIN PathVersions) /\ Tail(s) \in Seq(DOMAIN PathVersions)
              /\ c = ExtractPairCounts(Head(s)) /\ d = ExtractTripleCounts(Head(s))
              /\ IsTable(p) /\ IsTable(t) /\ IsTable(c) /\ IsTable(d) /\ Cover(c, d)
              /\ IsTable(Upsert(p, c)) /\ IsTable(Upsert(t, d))
              /\ torn \/ Cover(pairs, triples)
              /\ a = "pairs" => torn \/ Cover(p, t)
              /\ a = "triples" => torn \/ Cover(p, Upsert(t, d))
    BY <1>1, MineParts
  <1>3. PICK u : u = Upsert(t, d)
    OBVIOUS
  <1>4. IsTable(u) /\ (torn \/ Cover(p, u))
    BY <1>1, <1>2, <1>3
  <1>5. PICK view : view = [mining EXCEPT !.triples = u]
    OBVIOUS
  <1>6. view = [at |-> "triples", todo |-> s, both |-> b, pairs |-> p, triples |-> u]
    BY <1>1, <1>2, <1>5
  <1>7. /\ mining' = NextMap(view)
        /\ UNCHANGED <<pairs, triples>> \/ (pairs' = p /\ triples' = u)
    BY <1>2, <1>3, <1>5, <1>6 DEF PersistTripleCounts
  <1>8. mining' = [at |-> "pairs", todo |-> Tail(s), both |-> b, pairs |-> p, triples |-> u]
    BY <1>6, <1>7 DEF NextMap
  <1> QED
    BY <1>1, <1>2, <1>4, <1>7, <1>8, MinesOn

LEMMA FailureKeeps ==
    ASSUME StatInv, MapFails
    PROVE  StatInv'
  <1>1. /\ mining.at \in {"pairs", "triples"} /\ mining.todo # <<>>
        /\ UNCHANGED <<corr, seqScore, faces, torn>> /\ UNCHANGED <<pairs, triples>>
    BY DEF MapFails
  <1>2. PICK a, s, b, p, t, c, d :
              /\ mining = [at |-> a, todo |-> s, both |-> b, pairs |-> p, triples |-> t]
              /\ s \in Seq(DOMAIN PathVersions) /\ Tail(s) \in Seq(DOMAIN PathVersions)
              /\ c = ExtractPairCounts(Head(s)) /\ d = ExtractTripleCounts(Head(s))
              /\ IsTable(p) /\ IsTable(t) /\ IsTable(c) /\ IsTable(d) /\ Cover(c, d)
              /\ IsTable(Upsert(p, c)) /\ IsTable(Upsert(t, d))
              /\ torn \/ Cover(pairs, triples)
              /\ a = "pairs" => torn \/ Cover(p, t)
              /\ a = "triples" => torn \/ Cover(p, Upsert(t, d))
    BY <1>1, MineParts
  <1>3. IsTable(pairs) /\ IsTable(triples)
    BY DEF StatInv, StatTyped
  <1>4. CASE mining' = NextMap([mining EXCEPT !.pairs = pairs, !.triples = triples])
    <2>1. mining' = [at |-> "pairs", todo |-> Tail(s), both |-> b, pairs |-> pairs, triples |-> triples]
      BY <1>2, <1>4 DEF NextMap
    <2> QED
      BY <1>1, <1>2, <1>3, <2>1, MinesOn
  <1>5. CASE mining.at = "pairs" /\ \E K \in SUBSET DOMAIN c :
                 mining' = NextMap([mining EXCEPT ![mining.at] = Upsert(@, [k \in K |-> c[k]])])
    <2>1. PICK K \in SUBSET DOMAIN c :
                 mining' = NextMap([mining EXCEPT ![mining.at] = Upsert(@, [k \in K |-> c[k]])])
      BY <1>5
    <2>2. PICK e, q : e = [k \in K |-> c[k]] /\ q = Upsert(p, e)
      OBVIOUS
    <2>3. IsTable(e) /\ IsTable(q)
      BY <1>2, <2>2, PartTable, UpsertTable
    <2>4. torn \/ Cover(q, t)
      BY <1>2, <1>5, <2>2, <2>3, CoverRules
    <2>5. mining' = NextMap([mining EXCEPT !["pairs"] = q])
      <3>1. mining.at = "pairs" /\ mining[mining.at] = p
        BY <1>2, <1>5
      <3>2. mining' = NextMap([mining EXCEPT ![mining.at] = Upsert(mining[mining.at], e)])
        BY <2>1, <2>2
      <3>3. mining' = NextMap([mining EXCEPT ![mining.at] = q])
        BY <2>2, <3>1, <3>2
      <3> QED
        BY ONLY <3>1, <3>3
    <2>6. mining' = [at |-> "pairs", todo |-> Tail(s), both |-> b, pairs |-> q, triples |-> t]
      BY <1>2, <2>5 DEF NextMap
    <2> QED
      BY <1>1, <1>2, <2>3, <2>4, <2>6, MinesOn
  <1>6. CASE mining.at = "triples" /\ \E K \in SUBSET DOMAIN d :
                 mining' = NextMap([mining EXCEPT ![mining.at] = Upsert(@, [k \in K |-> d[k]])])
    <2>1. PICK K \in SUBSET DOMAIN d :
                 mining' = NextMap([mining EXCEPT ![mining.at] = Upsert(@, [k \in K |-> d[k]])])
      BY <1>6
    <2>2. PICK e, u : e = [k \in K |-> d[k]] /\ u = Upsert(t, e)
      OBVIOUS
    <2>3. IsTable(e) /\ IsTable(u)
      BY <1>2, <2>2, PartTable, UpsertTable
    <2>4. torn \/ Cover(p, u)
      BY <1>2, <1>6, <2>2, CoverPart
    <2>5. mining' = NextMap([mining EXCEPT !["triples"] = u])
      <3>1. mining.at = "triples" /\ mining[mining.at] = t
        BY <1>2, <1>6
      <3>2. mining' = NextMap([mining EXCEPT ![mining.at] = Upsert(mining[mining.at], e)])
        BY <2>1, <2>2
      <3>3. mining' = NextMap([mining EXCEPT ![mining.at] = u])
        BY <2>2, <3>1, <3>2
      <3> QED
        BY ONLY <3>1, <3>3
    <2>6. mining' = [at |-> "pairs", todo |-> Tail(s), both |-> b, pairs |-> p, triples |-> u]
      BY <1>2, <2>5 DEF NextMap
    <2> QED
      BY <1>1, <1>2, <2>3, <2>4, <2>6, MinesOn
  <1>7. \/ mining' = NextMap([mining EXCEPT !.pairs = pairs, !.triples = triples])
        \/ mining.at = "pairs" /\ \E K \in SUBSET DOMAIN c :
                 mining' = NextMap([mining EXCEPT ![mining.at] = Upsert(@, [k \in K |-> c[k]])])
        \/ mining.at = "triples" /\ \E K \in SUBSET DOMAIN d :
                 mining' = NextMap([mining EXCEPT ![mining.at] = Upsert(@, [k \in K |-> d[k]])])
    <2>1. mining.todo = s
      BY <1>2
    <2>2. PICK x : x = IF mining.at = "pairs" THEN ExtractPairCounts(Head(mining.todo))
                       ELSE ExtractTripleCounts(Head(mining.todo))
      OBVIOUS
    <2>3. \/ mining' = NextMap([mining EXCEPT !.pairs = pairs, !.triples = triples])
          \/ \E K \in SUBSET DOMAIN x :
                 mining' = NextMap([mining EXCEPT ![mining.at] = Upsert(@, [k \in K |-> x[k]])])
      BY <2>2, Zenon DEF MapFails
    <2>4. CASE mining.at = "pairs"
      <3>1. x = c
        BY <1>2, <2>1, <2>2, <2>4
      <3> QED
        BY <2>3, <2>4, <3>1, Zenon
    <2>5. CASE mining.at = "triples"
      <3>1. x = d
        BY <1>2, <2>1, <2>2, <2>5
      <3> QED
        BY <2>3, <2>5, <3>1, Zenon
    <2> QED
      BY <1>1, <2>4, <2>5
  <1> QED
    BY <1>4, <1>5, <1>6, <1>7

\* Commands that leave the pairs and triples alone.
LEMMA CoverStays ==
    ASSUME StatInv, UNCHANGED <<pairs, triples>>,
           torn' \/ (~torn /\ mining.at # "truncate triples"),
           mining'.at \notin {"pairs", "triples"}
    PROVE  TablesCover'
  <1>1. torn \/ mining.at = "truncate triples" \/ Cover(pairs, triples)
    BY DEF StatInv, TablesCover
  <1>2. Cover(pairs, triples)' <=> Cover(pairs, triples)
    BY DEF Cover, Covers, TotalOf, WithPair, RowCount
  <1> QED
    BY <1>1, <1>2 DEF TablesCover

LEMMA Rested ==
    ASSUME StatInv
    PROVE  /\ Resting.at = "idle" /\ Resting.todo \in Seq(DOMAIN PathVersions)
           /\ Resting = [at |-> Resting.at, todo |-> Resting.todo, both |-> Resting.both,
                         pairs |-> Resting.pairs, triples |-> Resting.triples]
           /\ IsTable(Resting.pairs) /\ IsTable(Resting.triples)
  <1>1. IsTable(NoRows)
    BY NoRowsTable
  <1>2. <<>> \in Seq(DOMAIN PathVersions)
    OBVIOUS
  <1> QED
    BY <1>1, <1>2 DEF Resting

LEMMA EndsKeep ==
    ASSUME StatInv, EndBuild \/ KillBuild
    PROVE  StatInv'
  <1>1. mining' = Resting /\ UNCHANGED <<pairs, triples, faces, corr, seqScore>>
    BY DEF EndBuild, KillBuild
  <1>2. ScoresOk' /\ CorrTypes' /\ Mutual(faces)'
    BY <1>1, ScoresStay DEF StatInv, StatTyped, Mutual
  <1>3. StatTyped'
    BY <1>1, <1>2, Rested DEF StatInv, StatTyped
  <1>4. torn' \/ (~torn /\ mining.at # "truncate triples")
    BY DEF EndBuild, KillBuild
  <1>5. TablesCover'
    BY <1>1, <1>4, Rested, CoverStays
  <1> QED
    BY <1>2, <1>3, <1>5 DEF StatInv

LEMMA FaceTablesKeep ==
    ASSUME StatInv, ResetFaceTransitions \/ UpsertFaces
    PROVE  StatInv'
  <1>1. /\ UNCHANGED <<pairs, triples, corr, seqScore, torn>>
        /\ mining.at # "truncate triples"
    BY DEF ResetFaceTransitions, UpsertFaces
  <1>2. ScoresOk' /\ CorrTypes'
    BY <1>1, ScoresStay DEF StatInv, StatTyped
  <1>3. PICK a, s, b, p, t : /\ mining = [at |-> a, todo |-> s, both |-> b, pairs |-> p, triples |-> t]
                             /\ s \in Seq(DOMAIN PathVersions) /\ IsTable(p) /\ IsTable(t)
    BY DEF StatInv, StatTyped
  <1>4. CASE ResetFaceTransitions
    <2>1. mining' = [at |-> "faces", todo |-> s, both |-> b, pairs |-> p, triples |-> t]
      BY <1>3, <1>4 DEF ResetFaceTransitions
    <2>2. StatTyped'
      BY <1>1, <1>2, <1>3, <2>1 DEF StatInv, StatTyped
    <2>3. TablesCover'
      BY <1>1, <2>1, CoverStays, Zenon
    <2>4. Mutual(faces')
      BY <1>4, NoRowsTable DEF ResetFaceTransitions, Mutual
    <2> QED
      BY <1>2, <2>2, <2>3, <2>4 DEF StatInv, Mutual
  <1>5. CASE UpsertFaces
    <2>1. mining' = Resting /\ faces' = Upsert(faces, FaceCounts)
      BY <1>5 DEF UpsertFaces
    <2>2. StatTyped'
      BY <1>1, <1>2, <2>1, Rested DEF StatInv, StatTyped
    <2>3. TablesCover'
      BY <1>1, <2>1, Rested, CoverStays
    <2>4. Mutual(faces')
      BY <2>1, FaceCountsMutual, UpsertMutual DEF StatInv
    <2> QED
      BY <1>2, <2>2, <2>3, <2>4 DEF StatInv, Mutual
  <1> QED
    BY <1>4, <1>5

LEMMA ScoreMapKeeps ==
    ASSUME StatInv, ScoreMap
    PROVE  StatInv'
  <1>1. /\ UNCHANGED <<pairs, triples, faces, corr, torn>> /\ mining.at = "score"
        /\ mining.todo # <<>> /\ mining' = [mining EXCEPT !.todo = Tail(@)]
    BY DEF ScoreMap
  <1>2. PICK a, s, b, p, t : /\ mining = [at |-> a, todo |-> s, both |-> b, pairs |-> p, triples |-> t]
                             /\ s \in Seq(DOMAIN PathVersions) /\ IsTable(p) /\ IsTable(t)
    BY DEF StatInv, StatTyped
  <1>3. s # <<>> /\ Tail(s) \in Seq(DOMAIN PathVersions)
    BY <1>1, <1>2
  <1>4. PICK m \in DOMAIN PathVersions : m = Head(s)
    BY <1>2, <1>3
  <1>5. mining' = [at |-> "score", todo |-> Tail(s), both |-> b, pairs |-> p, triples |-> t]
    BY <1>1, <1>2
  <1>6. CorrTypes /\ IsTable(pairs) /\ ScoresOk
    BY DEF StatInv, StatTyped
  <1>7. CorrTypes'
    BY <1>1, <1>6 DEF CorrTypes
  <1>8. StatTyped'
    BY <1>1, <1>2, <1>3, <1>5, <1>7 DEF StatInv, StatTyped
  <1>9. TablesCover'
    <2>1. Cover(pairs, triples)' <=> Cover(pairs, triples)
      BY <1>1 DEF Cover, Covers, TotalOf, WithPair, RowCount
    <2> QED
      BY <1>1, <1>5, <2>1 DEF StatInv, TablesCover
  <1>10. PICK row : row = [q \in DOMAIN corr[m] |-> ScoreCorridorPath(m, q)]
    OBVIOUS
  <1>11. seqScore' = [seqScore EXCEPT ![m] = row]
    <2>1. mining.todo = s
      BY <1>2
    <2> QED
      BY <1>4, <1>10, <2>1 DEF ScoreMap
  <1>12. \A q \in DOMAIN corr[m] : PathScoreOk(m, q, ScoreCorridorPath(m, q))
    BY <1>6, PathScored
  <1>13. /\ DOMAIN seqScore' = DOMAIN PathVersions
         /\ \A k \in DOMAIN PathVersions : \A q \in DOMAIN seqScore'[k] :
               PathScoreOk(k, q, seqScore'[k][q])
    <2>1. DOMAIN seqScore = DOMAIN PathVersions
      BY <1>6 DEF ScoresOk
    <2>2. seqScore'[m] = [q \in DOMAIN corr[m] |-> ScoreCorridorPath(m, q)]
      BY <1>11, <1>10, <2>1
    <2>3. \A k \in DOMAIN PathVersions : k # m => seqScore'[k] = seqScore[k]
      BY <1>11, <2>1
    <2> QED
      BY <1>6, <1>11, <1>12, <2>1, <2>2, <2>3 DEF ScoresOk
  <1>14. ScoresOk'
    BY <1>1, <1>13 DEF ScoresOk, PathScoreOk, Windows
  <1>15. Mutual(faces)'
    BY <1>1 DEF StatInv, Mutual
  <1> QED
    BY <1>8, <1>9, <1>14, <1>15 DEF StatInv

LEMMA RebuildKeeps ==
    ASSUME StatInv, RebuildCorridors
    PROVE  StatInv'
  <1>1. UNCHANGED <<mining, pairs, triples, faces, torn>> /\ mining.at = "idle"
    BY DEF RebuildCorridors
  <1>2. PICK m \in DOMAIN corr : \E ps \in PathVersions[m] :
           /\ corr' = [corr EXCEPT ![m] = ps]
           /\ seqScore' = [seqScore EXCEPT ![m] = [p \in DOMAIN ps |-> Null]]
    BY DEF RebuildCorridors
  <1>3. PICK ps \in PathVersions[m] :
           /\ corr' = [corr EXCEPT ![m] = ps]
           /\ seqScore' = [seqScore EXCEPT ![m] = [p \in DOMAIN ps |-> Null]]
    BY <1>2
  <1>4. CorrTypes /\ ScoresOk
    BY DEF StatInv, StatTyped
  <1>5. m \in DOMAIN PathVersions /\ ps \in Seq(Seq(Lattice))
    BY <1>4, StatisticsAssumption DEF CorrTypes
  <1>6. CorrTypes'
    BY <1>3, <1>4, <1>5 DEF CorrTypes
  <1>7. StatTyped'
    BY <1>1, <1>6 DEF StatInv, StatTyped
  <1>8. TablesCover'
    <2>1. Cover(pairs, triples)' <=> Cover(pairs, triples)
      BY <1>1 DEF Cover, Covers, TotalOf, WithPair, RowCount
    <2> QED
      BY <1>1, <2>1 DEF StatInv, TablesCover
  <1>9. \A k \in DOMAIN PathVersions : k # m => Windows(k, 2)' = Windows(k, 2)
    BY <1>3, <1>4 DEF CorrTypes, Windows
  <1>10. ScoresOk'
    <2>1. DOMAIN seqScore = DOMAIN PathVersions
      BY <1>4 DEF ScoresOk
    <2>2. DOMAIN seqScore' = DOMAIN PathVersions
      BY <1>3, <2>1
    <2>3. ASSUME NEW k \in DOMAIN PathVersions, NEW p \in DOMAIN seqScore'[k]
          PROVE  /\ seqScore'[k][p].num \in 0 .. 400 * seqScore'[k][p].den
                 /\ Windows(k, 2)' \cap ({p} \X Nat) = {} => seqScore'[k][p] = Null
      <3>1. CASE k = m
        <4>1. seqScore'[k] = [q \in DOMAIN ps |-> Null]
          BY <1>3, <1>5, <2>1, <3>1
        <4>2. seqScore'[k][p] = Null
          BY <4>1
        <4>3. Null.num = 0 /\ Null.den = 0 /\ 0 \in 0 .. 400 * 0
          BY DEF Null
        <4> QED
          BY <4>2, <4>3
      <3>2. CASE k # m
        <4>1. seqScore'[k] = seqScore[k]
          BY <1>3, <2>1, <3>2
        <4>2. PathScoreOk(k, p, seqScore[k][p])
          BY <1>4, <4>1 DEF ScoresOk
        <4> QED
          BY <1>9, <3>2, <4>1, <4>2 DEF PathScoreOk
      <3> QED
        BY <3>1, <3>2
    <2> QED
      BY <2>2, <2>3 DEF ScoresOk, PathScoreOk, Windows
  <1>11. Mutual(faces)'
    BY <1>1 DEF StatInv, Mutual
  <1> QED
    BY <1>7, <1>8, <1>10, <1>11 DEF StatInv

LEMMA StatSteps == StatInv /\ [StatNext]_statVars => StatInv'
  <1> SUFFICES ASSUME StatInv, [StatNext]_statVars PROVE StatInv'
    OBVIOUS
  <1>1. CASE BuildBlockTransitionCounts \/ BuildFaceTransitions \/ ScoreAllCorridors
    BY <1>1, StartsKeep
  <1>2. CASE TruncatePairs \/ TruncateTriples
    BY <1>2, TruncatesKeep
  <1>3. CASE PersistPairCounts
    BY <1>3, PairsKeep
  <1>4. CASE PersistTripleCounts
    BY <1>4, TriplesKeep
  <1>5. CASE MapFails
    BY <1>5, FailureKeeps
  <1>6. CASE ResetFaceTransitions \/ UpsertFaces
    BY <1>6, FaceTablesKeep
  <1>7. CASE ScoreMap
    BY <1>7, ScoreMapKeeps
  <1>8. CASE EndBuild \/ KillBuild
    BY <1>8, EndsKeep
  <1>9. CASE RebuildCorridors
    BY <1>9, RebuildKeeps
  <1>10. CASE UNCHANGED statVars
    <2>1. UNCHANGED <<mining, pairs, triples, faces, corr, seqScore, torn>>
      BY <1>10 DEF statVars
    <2>2. ScoresOk' /\ CorrTypes'
      BY <2>1, ScoresStay DEF StatInv, StatTyped
    <2>3. StatTyped' /\ Mutual(faces)'
      BY <2>1, <2>2 DEF StatInv, StatTyped, Mutual
    <2>4. TablesCover'
      <3>1. Cover(pairs, triples)' <=> Cover(pairs, triples)
        BY <2>1 DEF Cover, Covers, TotalOf, WithPair, RowCount
      <3>2. Cover(mining.pairs, mining.triples)' <=> Cover(mining.pairs, mining.triples)
        BY <2>1 DEF Cover, Covers, TotalOf, WithPair, RowCount
      <3>3. ExtractTripleCounts(Head(mining.todo))' = ExtractTripleCounts(Head(mining.todo))
        BY <2>1 DEF ExtractTripleCounts, CountsOf, Windows, WindowKey
      <3>4. Cover(mining.pairs, Upsert(mining.triples, ExtractTripleCounts(Head(mining.todo))))'
               <=> Cover(mining.pairs, Upsert(mining.triples, ExtractTripleCounts(Head(mining.todo))))
        BY <2>1, <3>3 DEF Cover, Covers, TotalOf, WithPair, RowCount, Upsert
      <3> QED
        BY <2>1, <3>1, <3>2, <3>4 DEF StatInv, TablesCover
    <2> QED
      BY <2>2, <2>3, <2>4 DEF StatInv
  <1> QED
    BY <1>1, <1>2, <1>3, <1>4, <1>5, <1>6, <1>7, <1>8, <1>9, <1>10 DEF StatNext

LEMMA StatSuffices == StatInv => StatisticsSound
  <1> SUFFICES ASSUME StatInv PROVE StatisticsSound
    OBVIOUS
  <1>0. IsTable(pairs) /\ IsTable(triples)
    BY DEF StatInv, StatTyped
  <1>1. ASSUME Cover(pairs, triples), NEW k \in DOMAIN triples, NEW e \in {"head", "tail"}
        PROVE  /\ PairIn(k, e) \in DOMAIN pairs
               /\ TotalOf(triples, WithPair(triples, PairIn(k, e), e)) <= pairs[PairIn(k, e)].n
    <2>1. PICK q, K : q = PairIn(k, e) /\ K = WithPair(triples, q, e)
      OBVIOUS
    <2>2. TotalOf(triples, K) <= RowCount(pairs, q)
      BY <1>1, <2>1 DEF Cover, Covers
    <2>3. IsFiniteSet(K) /\ k \in K
      BY <1>0, <2>1, FS_Subset DEF WithPair, IsTable
    <2>4. RowCount(triples, k) \in Nat /\ RowCount(triples, k) > 0
      BY <1>0, RowCountIs
    <2>5. TotalOf(triples, K) \in Nat /\ RowCount(triples, k) <= TotalOf(triples, K)
      BY <1>0, <2>3, TotalIs
    <2>6. RowCount(pairs, q) \in Nat /\ RowCount(pairs, q) > 0
      BY <1>0, <2>2, <2>4, <2>5, RowCountIs
    <2>7. q \in DOMAIN pairs /\ RowCount(pairs, q) = pairs[q].n
      BY <1>0, <2>6, RowCountIs
    <2> QED
      BY <2>1, <2>2, <2>7
  <1>2. PairsCoverTriples
    <2> SUFFICES ASSUME ~(torn \/ mining.at = "truncate triples"), NEW k \in DOMAIN triples
                 PROVE  LET from == {t \in DOMAIN triples : <<t[1], t[2], t[3]>> = <<k[1], k[2], k[3]>>}
                            into == {t \in DOMAIN triples : <<t[1], t[3], t[4]>> = <<k[1], k[3], k[4]>>}
                        IN  /\ {<<k[1], k[2], k[3]>>, <<k[1], k[3], k[4]>>} \subseteq DOMAIN pairs
                            /\ TotalOf(triples, from) <= pairs[<<k[1], k[2], k[3]>>].n
                            /\ TotalOf(triples, into) <= pairs[<<k[1], k[3], k[4]>>].n
      BY Zenon DEF PairsCoverTriples
    <2>1. Cover(pairs, triples)
      BY DEF StatInv, TablesCover
    <2>2. PICK a, b : a = <<k[1], k[2], k[3]>> /\ b = <<k[1], k[3], k[4]>>
      OBVIOUS
    <2>3. \A t : PairIn(t, "head") = <<t[1], t[2], t[3]>> /\ PairIn(t, "tail") = <<t[1], t[3], t[4]>>
      BY DEF PairIn
    <2>4. /\ WithPair(triples, a, "head") = {t \in DOMAIN triples : <<t[1], t[2], t[3]>> = a}
          /\ WithPair(triples, b, "tail") = {t \in DOMAIN triples : <<t[1], t[3], t[4]>> = b}
      BY <2>3 DEF WithPair
    <2>5. PairIn(k, "head") = a /\ PairIn(k, "tail") = b
      BY <2>2, <2>3
    <2>6. a \in DOMAIN pairs /\ TotalOf(triples, WithPair(triples, a, "head")) <= pairs[a].n
      BY <1>1, <2>1, <2>5
    <2>7. b \in DOMAIN pairs /\ TotalOf(triples, WithPair(triples, b, "tail")) <= pairs[b].n
      BY <1>1, <2>1, <2>5
    <2> QED
      BY <2>2, <2>4, <2>6, <2>7, Zenon
  <1>3. FacesMutual
    BY DEF StatInv, Mutual, FacesMutual, Mirrored
  <1>4. ScoresInRange
    BY DEF StatInv, ScoresOk, PathScoreOk, ScoresInRange
  <1> QED
    BY <1>2, <1>3, <1>4 DEF StatisticsSound

(* Whatever maps and corridors there are, however the commands are failed  *)
(* or killed, and whichever corridors are rebuilt in between: the pair     *)
(* table covers the triple table (unless a reset was cut between its two   *)
(* TRUNCATEs), a meeting of ports is one from both sides, and a corridor's *)
(* score is a mean in [0, 1] (build_block_transition_counts,               *)
(* build_face_transitions, score_all_corridors).                           *)
THEOREM StatisticsAreSound == StatInit /\ [][StatNext]_statVars => []StatisticsSound
  BY StatStarts, StatSteps, StatSuffices, PTL
=============================================================================
