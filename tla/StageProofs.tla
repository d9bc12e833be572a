---------------------------- MODULE StageProofs ----------------------------
(***************************************************************************)
(* What the stages leave, for any maps, layouts and number of builders.    *)
(***************************************************************************)
EXTENDS CliStages, ConstraintGraph, AiGenerator, RouteGeneration, SequenceTheorems, Orders

-----------------------------------------------------------------------------
(* The constraint graph. *)

Job == [at : {"fetched", "claimed"}, map : GraphMaps, version : Nat, layout : Layouts]
Edge == [observed : Nat, strong : Nat, brokenIn : Nat, replays : {0},
         label : {"valid", "suspicious", "unknown"}]
Merge == [map : GraphMaps, version : Nat, pair : Int \X Int]

GraphTypes ==
    /\ parsed \in [GraphMaps -> [version : Nat, layout : Layouts \cup {<<>>}]]
    /\ builder \in [Builders -> Job \cup {Resting}]
    /\ edges \in [{x.pair : x \in mergedFrom} -> Edge]
    /\ mergedFrom \subseteq Merge
    /\ broken \in Nat

\* What was merged is in the ledger; a claim is won once, and merged once.
Claims ==
    /\ \A x \in mergedFrom : Entry(x) \in ledger
    /\ \A w \in Builders : builder[w] # Resting /\ builder[w].at = "claimed" =>
         /\ Entry(builder[w]) \in ledger
         /\ \A x \in mergedFrom : Entry(x) # Entry(builder[w])
         /\ \A v \in Builders \ {w} : builder[v] # Resting /\ builder[v].at = "claimed"
              => Entry(builder[v]) # Entry(builder[w])

\* The counts of a pair, and the label they give it.
From(p) == {x \in mergedFrom : x.pair = p}
In(p, S) == {x \in From(p) : x.map \in S}
Counts ==
    \A p \in Int \X Int :
        /\ IsFiniteSet(From(p))
        /\ p \in DOMAIN edges =>
             /\ edges[p].observed = Cardinality(From(p))
             /\ edges[p].strong = Cardinality(In(p, StrongMaps))
             /\ edges[p].brokenIn = Cardinality(In(p, BrokenMaps))
             /\ edges[p].label = DeriveValidityLabel(edges[p])

GraphInv == GraphTypes /\ Claims /\ Counts /\ EdgesWereSeen

LEMMA Rest == \A j \in Job : j # Resting
  BY DEF Job, Resting

LEMMA InHand ==
    ASSUME GraphTypes, NEW w \in Builders, builder[w].at \in {"fetched", "claimed"}
    PROVE  builder[w] \in Job
  BY DEF GraphTypes, Resting

\* One builder moves; the rest of its invariant.
Frees(w) == builder' = [builder EXCEPT ![w] = Resting]

LEMMA Fetching ==
    ASSUME GraphInv, NEW w \in Builders, NEW m \in GraphMaps, FetchMap(w, m)
    PROVE  GraphInv'
  <1>1. PICK j : j = [at |-> "fetched", map |-> m, version |-> parsed[m].version,
                      layout |-> parsed[m].layout]
    OBVIOUS
  <1>2. builder' = [builder EXCEPT ![w] = j] /\ UNCHANGED <<parsed, ledger, edges, broken, mergedFrom>>
    BY <1>1 DEF FetchMap
  <1>3. GraphTypes
    BY DEF GraphInv
  <1>4. parsed[m].layout # <<>>
    BY DEF FetchMap, OnGrid
  <1>5. j \in Job /\ j.at = "fetched"
    BY <1>1, <1>3, <1>4 DEF Job, GraphTypes
  <1>6. /\ builder' \in [Builders -> Job \cup {Resting}] /\ builder'[w] = j
        /\ \A v \in Builders : v # w => builder'[v] = builder[v]
    BY <1>2, <1>3, <1>5 DEF GraphTypes
  <1>7. GraphTypes'
    BY <1>2, <1>3, <1>6 DEF GraphTypes
  <1>8. Claims'
    BY <1>2, <1>5, <1>6 DEF GraphInv, Claims, Entry
  <1>9. Counts' /\ EdgesWereSeen'
    BY <1>2 DEF GraphInv, Counts, From, In, EdgesWereSeen
  <1> QED
    BY <1>7, <1>8, <1>9 DEF GraphInv

\* A builder lets go of its map.
LEMMA LettingGo ==
    ASSUME GraphInv, NEW w \in Builders, builder' = [builder EXCEPT ![w] = Resting],
           UNCHANGED <<parsed, ledger, edges, mergedFrom>>, broken' \in Nat
    PROVE  GraphInv'
  <1>1. /\ builder' \in [Builders -> Job \cup {Resting}] /\ builder'[w] = Resting
        /\ \A v \in Builders : v # w => builder'[v] = builder[v]
    BY DEF GraphInv, GraphTypes
  <1>2. GraphTypes'
    BY <1>1 DEF GraphInv, GraphTypes
  <1>3. Claims'
    BY <1>1 DEF GraphInv, Claims, Entry
  <1>4. Counts' /\ EdgesWereSeen'
    BY DEF GraphInv, Counts, From, In, EdgesWereSeen
  <1> QED
    BY <1>2, <1>3, <1>4 DEF GraphInv

LEMMA Claiming ==
    ASSUME GraphInv, NEW w \in Builders, ClaimMap(w)
    PROVE  GraphInv'
  <1>1. PICK j : j = builder[w]
    OBVIOUS
  <1>2. j.at = "fetched" /\ ledger' = ledger \cup {Entry(j)}
        /\ UNCHANGED <<parsed, edges, broken, mergedFrom>>
    BY <1>1 DEF ClaimMap
  <1>3. GraphTypes /\ j \in Job
    BY <1>1, <1>2, InHand DEF GraphInv
  <1>4. CASE Entry(j) \in ledger
    <2>1. ledger' = ledger /\ builder' = [builder EXCEPT ![w] = Resting]
      BY <1>1, <1>2, <1>4 DEF ClaimMap
    <2> QED
      BY <1>2, <1>3, <2>1, LettingGo DEF GraphTypes
  <1>5. CASE Entry(j) \notin ledger
    <2>1. PICK k : k = [j EXCEPT !.at = "claimed"]
      OBVIOUS
    <2>2. builder' = [builder EXCEPT ![w] = k]
      BY <1>1, <1>5, <2>1 DEF ClaimMap
    <2>3. k \in Job /\ k.at = "claimed" /\ k.map = j.map /\ k.version = j.version
      BY <1>3, <2>1 DEF Job
    <2>4. /\ builder' \in [Builders -> Job \cup {Resting}] /\ builder'[w] = k
          /\ \A v \in Builders : v # w => builder'[v] = builder[v]
      BY <1>3, <2>2, <2>3 DEF GraphTypes
    <2>5. GraphTypes'
      BY <1>2, <1>3, <2>4 DEF GraphTypes
    <2>6. PICK e : e = Entry(j)
      OBVIOUS
    <2>7. Entry(k) = e /\ e \notin ledger /\ ledger' = ledger \cup {e}
      BY <1>2, <1>5, <2>3, <2>6 DEF Entry
    <2>8. Claims'
      <3>1. \A x \in mergedFrom : Entry(x) \in ledger
        BY DEF GraphInv, Claims
      <3>2. \A v \in Builders : builder[v] # Resting /\ builder[v].at = "claimed"
              => Entry(builder[v]) \in ledger
        BY DEF GraphInv, Claims
      <3>3. \A v \in Builders : builder'[v] # Resting /\ builder'[v].at = "claimed" =>
              v = w \/ (v # w /\ builder'[v] = builder[v] /\ Entry(builder'[v]) \in ledger)
        BY <2>4, <3>2
      <3>4. \A v \in Builders \ {w} : \A u \in Builders \ {w, v} :
              builder[v] # Resting /\ builder[v].at = "claimed"
              /\ builder[u] # Resting /\ builder[u].at = "claimed"
                => Entry(builder[u]) # Entry(builder[v])
        BY DEF GraphInv, Claims
      <3>5. \A v \in Builders : builder[v] # Resting /\ builder[v].at = "claimed" =>
              \A x \in mergedFrom : Entry(x) # Entry(builder[v])
        BY DEF GraphInv, Claims
      <3>6. \A x \in mergedFrom' : Entry(x) \in ledger'
        BY <1>2, <2>7, <3>1
      <3>7. ASSUME NEW v \in Builders, builder'[v] # Resting, builder'[v].at = "claimed"
            PROVE  /\ Entry(builder'[v]) \in ledger'
                   /\ \A x \in mergedFrom' : Entry(x) # Entry(builder'[v])
                   /\ \A u \in Builders \ {v} : builder'[u] # Resting /\ builder'[u].at = "claimed"
                        => Entry(builder'[u]) # Entry(builder'[v])
        <4>1. CASE v = w
          <5>1. builder'[v] = k /\ \A x \in mergedFrom' : Entry(x) # e
            BY <1>2, <2>4, <2>7, <3>1, <4>1
          <5>2. \A u \in Builders \ {w} : builder'[u] # Resting /\ builder'[u].at = "claimed"
                  => Entry(builder'[u]) # e
            BY <2>7, <3>3
          <5> QED
            BY <2>7, <4>1, <5>1, <5>2
        <4>2. CASE v # w
          <5>1. builder'[v] = builder[v] /\ Entry(builder[v]) \in ledger
            BY <3>3, <3>7, <4>2
          <5>2. ASSUME NEW u \in Builders \ {v}, builder'[u] # Resting, builder'[u].at = "claimed"
                PROVE  Entry(builder'[u]) # Entry(builder[v])
            BY <2>4, <2>7, <3>3, <3>4, <3>7, <4>2, <5>1, <5>2
          <5> QED
            BY <1>2, <2>7, <3>5, <3>7, <5>1, <5>2
        <4> QED
          BY <4>1, <4>2
      <3> QED
        BY <3>6, <3>7 DEF Claims, Entry
    <2>9. Counts' /\ EdgesWereSeen'
      BY <1>2 DEF GraphInv, Counts, From, In, EdgesWereSeen
    <2> QED
      BY <2>5, <2>8, <2>9 DEF GraphInv
  <1> QED
    BY <1>4, <1>5

\* A pair's edge takes one more map.
Zero == [observed |-> 0, strong |-> 0, brokenIn |-> 0, replays |-> 0, label |-> "unknown"]
Raised(old, m) ==
    LET new == [old EXCEPT !.observed = @ + 1, !.strong = @ + One(m \in StrongMaps),
                           !.brokenIn = @ + One(m \in BrokenMaps)]
    IN  [new EXCEPT !.label = DeriveValidityLabel(new)]

LEMMA Raising ==
    ASSUME NEW old \in Edge, NEW m
    PROVE  /\ Raised(old, m) \in Edge
           /\ Raised(old, m).observed = old.observed + 1
           /\ Raised(old, m).strong = old.strong + One(m \in StrongMaps)
           /\ Raised(old, m).brokenIn = old.brokenIn + One(m \in BrokenMaps)
           /\ Raised(old, m).label = DeriveValidityLabel(Raised(old, m))
  <1>1. PICK o : o = old.observed + 1
    OBVIOUS
  <1>2. PICK s : s = old.strong + One(m \in StrongMaps)
    OBVIOUS
  <1>3. PICK b : b = old.brokenIn + One(m \in BrokenMaps)
    OBVIOUS
  <1>4. PICK new : new = [old EXCEPT !.observed = o, !.strong = s, !.brokenIn = b]
    OBVIOUS
  <1>5. o \in Nat /\ s \in Nat /\ b \in Nat
    BY <1>1, <1>2, <1>3 DEF Edge, One
  <1>6. new \in Edge /\ new.observed = o /\ new.strong = s /\ new.brokenIn = b
    BY <1>4, <1>5 DEF Edge
  <1>7. DeriveValidityLabel(new) \in {"valid", "suspicious", "unknown"}
    BY DEF DeriveValidityLabel
  <1>8. PICK e : e = [new EXCEPT !.label = DeriveValidityLabel(new)]
    OBVIOUS
  <1>9. /\ e \in Edge /\ e.observed = o /\ e.strong = s /\ e.brokenIn = b /\ e.replays = new.replays
        /\ e.label = DeriveValidityLabel(new)
    BY <1>6, <1>7, <1>8 DEF Edge
  <1>10. DeriveValidityLabel(e) = DeriveValidityLabel(new)
    BY <1>6, <1>9 DEF DeriveValidityLabel
  <1>11. Raised(old, m) = e
    BY <1>1, <1>2, <1>3, <1>4, <1>8 DEF Raised
  <1> QED
    BY <1>1, <1>2, <1>3, <1>9, <1>10, <1>11

LEMMA ZeroEdge == Zero \in Edge /\ Zero.observed = 0 /\ Zero.strong = 0 /\ Zero.brokenIn = 0
  BY DEF Zero, Edge

\* One more element, counted.
LEMMA OneMore ==
    ASSUME NEW S, IsFiniteSet(S), NEW x, x \notin S, NEW m, NEW T
    PROVE  Cardinality(S \cup (IF m \in T THEN {x} ELSE {})) = Cardinality(S) + One(m \in T)
  <1>1. IsFiniteSet(S \cup {x}) /\ Cardinality(S \cup {x}) = Cardinality(S) + 1
    BY FS_AddElement
  <1>2. Cardinality(S) \in Nat
    BY FS_CardinalityType
  <1>3. CASE m \in T
    BY <1>1, <1>2, <1>3 DEF One
  <1>4. CASE m \notin T
    <2>1. S \cup (IF m \in T THEN {x} ELSE {}) = S
      BY <1>4
    <2> QED
      BY <1>1, <1>2, <1>4, <2>1 DEF One
  <1> QED
    BY <1>3, <1>4

\* Blocks i and j of a layout stand side by side, and are the pair p.
Beside(l, i, j, p) ==
    /\ ~l[i].free /\ ~l[j].free /\ l[i].cell = l[j].cell + 1
    /\ {l[i].key, l[j].key} = {p[1], p[2]}
    /\ \A k \in 1 .. i - 1 : l[k].free \/ l[k].cell # l[i].cell
    /\ \A k \in 1 .. j - 1 : l[k].free \/ l[k].cell # l[j].cell

\* What a layout shows is next to each other in it.
LEMMA Extracted ==
    ASSUME NEW l \in Layouts, NEW p \in ExtractAdjacencies(l)
    PROVE  /\ p \in Int \X Int
           /\ \E i, j \in DOMAIN l : Beside(l, i, j, p)
  <1>1. l \in Seq(Placement)
    BY GraphAssumption
  <1>2. PICK i \in FirstAt(l), j \in FirstAt(l) :
          /\ l[i].cell - l[j].cell \in {1, -1}
          /\ p = OrderPair(l[i].key, l[j].key)
    BY DEF ExtractAdjacencies
  <1>3. DOMAIN l = 1..Len(l) /\ Len(l) \in Nat /\ \A k \in DOMAIN l : l[k] \in Placement
    BY <1>1
  <1>4. ASSUME NEW k \in FirstAt(l)
        PROVE  /\ k \in DOMAIN l /\ ~l[k].free /\ l[k].cell \in Int /\ l[k].key \in Int
               /\ \A n \in 1 .. k - 1 : l[n].free \/ l[n].cell # l[k].cell
    <2>1. k \in DOMAIN l /\ ~l[k].free
      BY DEF FirstAt, OnGrid
    <2>2. l[k].cell \in Int /\ l[k].key \in Int
      BY <1>3, <2>1 DEF Placement
    <2>3. ASSUME NEW n \in 1 .. k - 1, ~l[n].free, l[n].cell = l[k].cell
          PROVE  FALSE
      <3>1. n \in DOMAIN l /\ n < k
        BY <1>3, <2>1
      <3>2. k <= n
        BY <2>3, <3>1 DEF FirstAt, OnGrid
      <3> QED
        BY <1>3, <2>1, <3>1, <3>2
    <2> QED
      BY <2>1, <2>2, <2>3
  <1>5. PICK a \in Int, b \in Int : a = l[i].key /\ b = l[j].key
    BY <1>4
  <1>6. p \in Int \X Int /\ {a, b} = {p[1], p[2]}
    BY <1>2, <1>5 DEF OrderPair
  <1>7. PICK c \in Int, d \in Int : c = l[i].cell /\ d = l[j].cell
    BY <1>4
  <1>8. c = d + 1 \/ d = c + 1
    BY <1>2, <1>7
  <1>9. CASE c = d + 1
    <2>1. {l[i].key, l[j].key} = {p[1], p[2]} /\ l[i].cell = l[j].cell + 1
      BY <1>5, <1>6, <1>7, <1>9
    <2>2. Beside(l, i, j, p)
      BY <1>4, <2>1 DEF Beside
    <2> QED
      BY <1>4, <1>6, <2>2
  <1>10. CASE d = c + 1
    <2>1. {l[j].key, l[i].key} = {p[1], p[2]} /\ l[j].cell = l[i].cell + 1
      BY <1>5, <1>6, <1>7, <1>10
    <2>2. Beside(l, j, i, p)
      BY <1>4, <2>1 DEF Beside
    <2> QED
      BY <1>4, <1>6, <2>2
  <1> QED
    BY <1>8, <1>9, <1>10

LEMMA Merging ==
    ASSUME GraphInv, NEW w \in Builders, MergeGraph(w)
    PROVE  GraphInv'
  <1>1. PICK j : j = builder[w]
    OBVIOUS
  <1>2. PICK pairs : pairs = ExtractAdjacencies(j.layout)
    OBVIOUS
  <1>3. PICK m : m = j.map
    OBVIOUS
  <1>4. PICK v : v = j.version
    OBVIOUS
  <1> DEFINE X(p) == [map |-> m, version |-> v, pair |-> p]
  <1>5. /\ j.at = "claimed" /\ builder' = [builder EXCEPT ![w] = Resting]
        /\ mergedFrom' = mergedFrom \cup {X(p) : p \in pairs}
        /\ edges' = [p \in DOMAIN edges \cup pairs |-> IF p \in pairs THEN Touched(p, m) ELSE edges[p]]
        /\ UNCHANGED <<parsed, ledger, broken>>
    BY <1>1, <1>2, <1>3, <1>4 DEF MergeGraph
  <1>6. GraphTypes /\ j \in Job /\ j # Resting
    BY <1>1, <1>5, InHand, Rest DEF GraphInv
  <1>7. m \in GraphMaps /\ v \in Nat /\ j.layout \in Layouts /\ pairs \subseteq Int \X Int
    BY <1>2, <1>3, <1>4, <1>6, Extracted DEF Job
  <1>8. \A p \in pairs : X(p) \in Merge /\ X(p).pair = p /\ X(p).map = m /\ Entry(X(p)) = Entry(j)
    BY <1>3, <1>4, <1>7 DEF Merge, Entry
  <1>9. /\ Entry(j) \in ledger /\ \A x \in mergedFrom : Entry(x) # Entry(j)
        /\ \A u \in Builders \ {w} : builder[u] # Resting /\ builder[u].at = "claimed"
             => Entry(builder[u]) # Entry(j)
    BY <1>1, <1>5, <1>6 DEF GraphInv, Claims
  <1>10. \A p \in pairs : X(p) \notin mergedFrom
    BY <1>8, <1>9
  <1>11. ASSUME NEW p \in Int \X Int
         PROVE  /\ p \in pairs => From(p)' = From(p) \cup {X(p)}
                /\ p \notin pairs => From(p)' = From(p)
    BY <1>5, <1>8 DEF From
  <1>12. ASSUME NEW p \in Int \X Int, NEW S
         PROVE  /\ p \in pairs => {x \in From(p)' : x.map \in S} = In(p, S) \cup IF m \in S THEN {X(p)} ELSE {}
                /\ p \notin pairs => {x \in From(p)' : x.map \in S} = In(p, S)
    BY <1>8, <1>11 DEF In
  <1> HIDE DEF X
  <1>13. DOMAIN edges = {x.pair : x \in mergedFrom} /\ \A p \in DOMAIN edges : edges[p] \in Edge
    BY <1>6 DEF GraphTypes
  <1>14. ASSUME NEW p \in pairs
         PROVE  /\ Touched(p, m) \in Edge
                /\ Touched(p, m).observed = Cardinality(From(p)) + 1
                /\ Touched(p, m).strong = Cardinality(In(p, StrongMaps)) + One(m \in StrongMaps)
                /\ Touched(p, m).brokenIn = Cardinality(In(p, BrokenMaps)) + One(m \in BrokenMaps)
                /\ Touched(p, m).label = DeriveValidityLabel(Touched(p, m))
    <2>1. PICK old : old = IF p \in DOMAIN edges THEN edges[p] ELSE Zero
      OBVIOUS
    <2>2. Touched(p, m) = Raised(old, m)
      BY <2>1 DEF Touched, Raised, Zero
    <2>3. p \in Int \X Int
      BY <1>7
    <2>4. /\ old \in Edge /\ old.observed = Cardinality(From(p))
          /\ old.strong = Cardinality(In(p, StrongMaps))
          /\ old.brokenIn = Cardinality(In(p, BrokenMaps))
      <3>1. CASE p \in DOMAIN edges
        BY <1>13, <2>1, <2>3, <3>1 DEF GraphInv, Counts
      <3>2. CASE p \notin DOMAIN edges
        <4>1. From(p) = {} /\ In(p, StrongMaps) = {} /\ In(p, BrokenMaps) = {}
          BY <1>13, <3>2 DEF From, In
        <4> QED
          BY <2>1, <3>2, <4>1, ZeroEdge, FS_EmptySet
      <3> QED
        BY <3>1, <3>2
    <2> QED
      BY <2>2, <2>4, Raising
  <1>15. /\ DOMAIN edges' = {x.pair : x \in mergedFrom'}
         /\ \A p \in DOMAIN edges' : edges'[p] = IF p \in pairs THEN Touched(p, m) ELSE edges[p]
    BY <1>5, <1>8, <1>13
  <1>16. GraphTypes'
    <2>1. edges' \in [{x.pair : x \in mergedFrom'} -> Edge]
      BY <1>5, <1>13, <1>14, <1>15
    <2>2. builder' \in [Builders -> Job \cup {Resting}] /\ mergedFrom' \subseteq Merge
      BY <1>5, <1>6, <1>8 DEF GraphTypes
    <2> QED
      BY <1>5, <1>6, <2>1, <2>2 DEF GraphTypes
  <1>17. Claims'
    <2>1. /\ builder'[w] = Resting /\ \A u \in Builders \ {w} : builder'[u] = builder[u]
      BY <1>5, <1>6 DEF GraphTypes
    <2>2. \A x \in mergedFrom' : Entry(x) \in ledger'
      BY <1>5, <1>8, <1>9 DEF GraphInv, Claims
    <2>3. ASSUME NEW u \in Builders, builder'[u] # Resting, builder'[u].at = "claimed"
          PROVE  /\ Entry(builder'[u]) \in ledger'
                 /\ \A x \in mergedFrom' : Entry(x) # Entry(builder'[u])
                 /\ \A t \in Builders \ {u} : builder'[t] # Resting /\ builder'[t].at = "claimed"
                      => Entry(builder'[t]) # Entry(builder'[u])
      <3>1. u # w /\ builder'[u] = builder[u]
        BY <2>1, <2>3
      <3>2. /\ Entry(builder[u]) \in ledger /\ \A x \in mergedFrom : Entry(x) # Entry(builder[u])
            /\ \A t \in Builders \ {u} : builder[t] # Resting /\ builder[t].at = "claimed"
                 => Entry(builder[t]) # Entry(builder[u])
        BY <2>3, <3>1 DEF GraphInv, Claims
      <3>3. Entry(builder[u]) # Entry(j)
        BY <1>9, <2>3, <3>1
      <3>4. \A x \in mergedFrom' : Entry(x) # Entry(builder[u])
        BY <1>5, <1>8, <3>2, <3>3
      <3> QED
        BY <1>5, <2>1, <3>1, <3>2, <3>4
    <2> QED
      BY <2>2, <2>3 DEF Claims
  <1>18. Counts'
    <2>1. ASSUME NEW p \in Int \X Int
          PROVE  /\ IsFiniteSet(From(p)')
                 /\ p \in DOMAIN edges' =>
                      /\ edges'[p].observed = Cardinality(From(p)')
                      /\ edges'[p].strong = Cardinality({x \in From(p)' : x.map \in StrongMaps})
                      /\ edges'[p].brokenIn = Cardinality({x \in From(p)' : x.map \in BrokenMaps})
                      /\ edges'[p].label = DeriveValidityLabel(edges'[p])
      <3>1. IsFiniteSet(From(p))
        BY DEF GraphInv, Counts
      <3>2. /\ IsFiniteSet(In(p, StrongMaps)) /\ IsFiniteSet(In(p, BrokenMaps))
            /\ In(p, StrongMaps) \subseteq From(p) /\ In(p, BrokenMaps) \subseteq From(p)
        <4>1. In(p, StrongMaps) \in SUBSET From(p) /\ In(p, BrokenMaps) \in SUBSET From(p)
          BY DEF In
        <4> QED
          BY <3>1, <4>1, FS_Subset
      <3>3. CASE p \in pairs
        <4>1. X(p) \notin From(p) /\ X(p) \notin In(p, StrongMaps) /\ X(p) \notin In(p, BrokenMaps)
          BY <1>10, <3>2, <3>3 DEF From
        <4>2. IsFiniteSet(From(p) \cup {X(p)}) /\ Cardinality(From(p) \cup {X(p)}) = Cardinality(From(p)) + 1
          BY <3>1, <4>1, FS_AddElement
        <4>3. Cardinality(In(p, StrongMaps) \cup (IF m \in StrongMaps THEN {X(p)} ELSE {}))
                = Cardinality(In(p, StrongMaps)) + One(m \in StrongMaps)
          BY <3>2, <4>1, OneMore
        <4>4. Cardinality(In(p, BrokenMaps) \cup (IF m \in BrokenMaps THEN {X(p)} ELSE {}))
                = Cardinality(In(p, BrokenMaps)) + One(m \in BrokenMaps)
          BY <3>2, <4>1, OneMore
        <4>5. p \in DOMAIN edges' => edges'[p] = Touched(p, m)
          BY <1>15, <3>3
        <4> QED
          BY <1>11, <1>12, <1>14, <3>3, <4>2, <4>3, <4>4, <4>5
      <3>4. CASE p \notin pairs
        <4>1. p \in DOMAIN edges' => p \in DOMAIN edges /\ edges'[p] = edges[p]
          BY <1>5, <3>4
        <4>2. From(p)' = From(p)
          BY <1>11, <3>4
        <4>3. /\ {x \in From(p)' : x.map \in StrongMaps} = In(p, StrongMaps)
              /\ {x \in From(p)' : x.map \in BrokenMaps} = In(p, BrokenMaps)
          BY <1>12, <3>4
        <4>4. p \in DOMAIN edges =>
                /\ edges[p].observed = Cardinality(From(p))
                /\ edges[p].strong = Cardinality(In(p, StrongMaps))
                /\ edges[p].brokenIn = Cardinality(In(p, BrokenMaps))
                /\ edges[p].label = DeriveValidityLabel(edges[p])
          BY DEF GraphInv, Counts
        <4> QED
          BY <3>1, <4>1, <4>2, <4>3, <4>4
      <3> QED
        BY <3>3, <3>4
    <2> QED
      BY <2>1 DEF Counts, In
  <1>19. EdgesWereSeen'
    <2>1. \A p \in pairs : X(p).pair = p
      BY <1>8
    <2>2. ASSUME NEW x \in mergedFrom'
          PROVE  \E l \in Layouts : \E i, k \in DOMAIN l : Beside(l, i, k, x.pair)
      <3>1. CASE x \in mergedFrom
        BY <3>1 DEF GraphInv, EdgesWereSeen, Beside
      <3>2. CASE x \notin mergedFrom
        <4>1. j.layout \in Layouts /\ x.pair \in ExtractAdjacencies(j.layout)
          BY <1>2, <1>5, <1>7, <2>1, <3>2
        <4> QED
          BY <4>1, Extracted
      <3> QED
        BY <3>1, <3>2
    <2> QED
      BY <2>2 DEF EdgesWereSeen, Beside
  <1> QED
    BY <1>16, <1>17, <1>18, <1>19 DEF GraphInv

LEMMA BreakingOff ==
    ASSUME GraphInv, NEW w \in Builders, BreakOff(w)
    PROVE  GraphInv'
  <1>1. broken' \in Nat
    BY DEF BreakOff, GraphInv, GraphTypes
  <1> QED
    BY <1>1, LettingGo DEF BreakOff

LEMMA Reparsing ==
    ASSUME GraphInv, NEW m \in GraphMaps, Reparse(m)
    PROVE  GraphInv'
  <1>1. PICK l \in Layouts : parsed' = [parsed EXCEPT ![m] = [version |-> @.version + 1, layout |-> l]]
    BY DEF Reparse
  <1>2. PICK n : n = parsed[m].version + 1
    OBVIOUS
  <1>3. n \in Nat
    BY <1>2 DEF GraphInv, GraphTypes
  <1>4. PICK r : r = [version |-> n, layout |-> l]
    OBVIOUS
  <1>5. r \in [version : Nat, layout : Layouts \cup {<<>>}]
    BY <1>3, <1>4
  <1>6. parsed' = [parsed EXCEPT ![m] = r]
    BY <1>1, <1>2, <1>4
  <1>7. GraphTypes'
    BY <1>5, <1>6 DEF GraphInv, GraphTypes, Reparse
  <1> QED
    BY <1>7 DEF GraphInv, Claims, Counts, From, In, EdgesWereSeen, Entry, Reparse

LEMMA GraphSteps ==
    ASSUME GraphInv, [GraphNext]_graphVars
    PROVE  GraphInv'
  <1>1. CASE UNCHANGED graphVars
    BY <1>1 DEF graphVars, GraphInv, GraphTypes, Claims, Counts, From, In, EdgesWereSeen, Entry
  <1>2. CASE GraphNext
    BY <1>2, Fetching, Claiming, Merging, BreakingOff, Reparsing DEF GraphNext
  <1> QED
    BY <1>1, <1>2

LEMMA GraphStarts == GraphInit => GraphInv
  <1> SUFFICES ASSUME GraphInit PROVE GraphInv
    OBVIOUS
  <1>1. edges = <<>> /\ mergedFrom = {} /\ DOMAIN edges = {}
    BY DEF GraphInit
  <1>2. edges \in [{x.pair : x \in mergedFrom} -> Edge]
    BY <1>1
  <1>3. GraphTypes
    BY <1>1, <1>2 DEF GraphInit, GraphTypes
  <1>4. Claims /\ EdgesWereSeen
    BY <1>1 DEF GraphInit, Claims, EdgesWereSeen, Resting
  <1>5. Counts
    <2>1. \A p : From(p) = {}
      BY <1>1 DEF From
    <2> QED
      BY <1>1, <2>1, FS_EmptySet DEF Counts
  <1> QED
    BY <1>3, <1>4, <1>5 DEF GraphInv

LEMMA SomeOrNone ==
    ASSUME NEW S, IsFiniteSet(S)
    PROVE  Cardinality(S) \in Nat /\ (Cardinality(S) >= 1 <=> S # {})
  <1>1. Cardinality(S) \in Nat /\ (Cardinality(S) = 0 <=> S = {})
    BY FS_CardinalityType, FS_EmptySet
  <1> QED
    BY <1>1

LEMMA LabelsFollow ==
    ASSUME GraphInv
    PROVE  EdgesSound
  <1>1. ASSUME NEW p \in DOMAIN edges
        PROVE  /\ p \in Int \X Int /\ edges[p] \in Edge
               /\ edges[p].observed = Cardinality(From(p))
               /\ edges[p].strong = Cardinality(In(p, StrongMaps))
               /\ edges[p].brokenIn = Cardinality(In(p, BrokenMaps))
               /\ edges[p].label = DeriveValidityLabel(edges[p])
               /\ edges[p].strong >= 1 <=> In(p, StrongMaps) # {}
               /\ edges[p].brokenIn >= 1 <=> In(p, BrokenMaps) # {}
    <2>1. p \in Int \X Int /\ edges[p] \in Edge
      BY DEF GraphInv, GraphTypes, Merge
    <2>2. /\ IsFiniteSet(From(p))
          /\ edges[p].observed = Cardinality(From(p))
          /\ edges[p].strong = Cardinality(In(p, StrongMaps))
          /\ edges[p].brokenIn = Cardinality(In(p, BrokenMaps))
          /\ edges[p].label = DeriveValidityLabel(edges[p])
      BY <2>1 DEF GraphInv, Counts
    <2>3. In(p, StrongMaps) \in SUBSET From(p) /\ In(p, BrokenMaps) \in SUBSET From(p)
      BY DEF In
    <2>4. IsFiniteSet(In(p, StrongMaps)) /\ IsFiniteSet(In(p, BrokenMaps))
      BY <2>2, <2>3, FS_Subset
    <2> QED
      BY <2>1, <2>2, <2>4, SomeOrNone
  <1>2. CountsAccounted
    BY <1>1 DEF CountsAccounted, From, In
  <1>3. FrequencyIsNotValidity
    <2> SUFFICES ASSUME NEW p \in DOMAIN edges
                 PROVE  LET maps == {x.map : x \in From(p)}
                        IN  /\ edges[p].label = "valid" <=> maps \cap StrongMaps # {}
                            /\ edges[p].label = "suspicious" <=>
                                   maps \cap StrongMaps = {} /\ maps \cap BrokenMaps # {}
      BY DEF FrequencyIsNotValidity, From
    <2> DEFINE maps == {x.map : x \in From(p)}
    <2>1. /\ maps \cap StrongMaps # {} <=> In(p, StrongMaps) # {}
          /\ maps \cap BrokenMaps # {} <=> In(p, BrokenMaps) # {}
      BY DEF In
    <2>2. PICK e : e = edges[p]
      OBVIOUS
    <2>3. /\ e \in Edge /\ e.label = DeriveValidityLabel(e)
          /\ e.strong >= 1 <=> In(p, StrongMaps) # {}
          /\ e.brokenIn >= 1 <=> In(p, BrokenMaps) # {}
      BY <1>1, <2>2
    <2>4. /\ e.label = "valid" <=> e.strong >= 1
          /\ e.label = "suspicious" <=> ~(e.strong >= 1) /\ e.brokenIn >= 1
      <3>1. e.strong \in Nat /\ e.brokenIn \in Nat /\ e.replays = 0
        BY <2>3 DEF Edge
      <3> QED
        BY <2>3, <3>1 DEF DeriveValidityLabel
    <2> QED
      BY <2>1, <2>2, <2>3, <2>4
  <1> QED
    BY <1>2, <1>3 DEF EdgesSound, GraphInv

\* However the builders interleave, break off and meet newer parses, an edge's
\* counts are those of the maps merged into it, each parse once, its label is
\* what they are evidence for, and its blocks stood side by side in a layout
\* (src/constraints/adjacency_graph.py).
THEOREM EdgesAreSound ==
    GraphInit /\ [][GraphNext]_graphVars => [](GraphInv /\ EdgesSound)
  <1>1. GraphInv /\ [GraphNext]_graphVars => GraphInv'
    BY GraphSteps
  <1>2. GraphInv => EdgesSound
    BY LabelsFollow
  <1> QED
    BY <1>1, <1>2, GraphStarts, PTL

-----------------------------------------------------------------------------
(* The commands.  A command that opens a row closes it in its last step,   *)
(* and between the two it only works and writes; no command works twice.   *)

Modelled == <<"model", "connect", "work">>
Shapes ==
    {Recorded, Bare, Exporting, Modelled,
     <<"check", "connect", "snapshot", "open", "work", "close">>,
     <<"check", "connect", "need", "snapshot", "open", "work", "close">>,
     <<"connect", "open", "work", "truncate", "write", "close">>,
     <<"check", "connect", "work">>, <<"need", "connect", "work">>,
     <<"connect", "work", "need", "truncate", "write">>,
     <<"connect", "connect", "connect", "need", "work", "truncate", "write">>,
     <<"connect", "work", "check", "need", "poll">>, <<"check", "need">>,
     <<"connect", "uncached">>}

Opens(s) ==
    /\ \A i \in DOMAIN s : s[i] = "open" =>
          /\ i < Len(s) /\ s[Len(s)] = "close"
          /\ \A j \in DOMAIN s : j > i => s[j] \in {"work", "truncate", "write", "close"}
    /\ \A i, j \in DOMAIN s : s[i] = "work" /\ s[j] = "work" => i = j

Statuses == {"success", "partial", "failed"}
Proper(c) == c.steps \in Shapes /\ \A s \in DOMAIN c.status : c.status[s] \in Statuses

LEMMA ShapesOpen ==
    ASSUME NEW s \in Shapes
    PROVE  Opens(s) /\ s # << >> /\ Len(s) \in Nat /\ DOMAIN s = 1 .. Len(s)
  <1>1. CASE s = Recorded
    BY <1>1 DEF Opens, Recorded
  <1>2. CASE s \in {Bare, <<"check", "need">>, <<"connect", "uncached">>}
    <2>1. CASE s = Bare
      BY <2>1, SMTT(30) DEF Opens, Bare
    <2>2. CASE s = <<"check", "need">>
      BY <2>2, SMTT(30) DEF Opens
    <2>3. CASE s = <<"connect", "uncached">>
      BY <2>3, SMTT(30) DEF Opens
    <2> QED
      BY <1>2, <2>1, <2>2, <2>3
  <1>3. CASE s = Exporting
    BY <1>3 DEF Opens, Exporting
  <1>4. CASE s \in {Modelled, <<"check", "connect", "work">>, <<"need", "connect", "work">>}
    <2>1. CASE s = Modelled
      BY <2>1, SMTT(30) DEF Opens, Modelled
    <2>2. CASE s = <<"check", "connect", "work">>
      BY <2>2, SMTT(30) DEF Opens
    <2>3. CASE s = <<"need", "connect", "work">>
      BY <2>3, SMTT(30) DEF Opens
    <2> QED
      BY <1>4, <2>1, <2>2, <2>3
  <1>5. CASE s = <<"check", "connect", "snapshot", "open", "work", "close">>
    BY <1>5 DEF Opens
  <1>6. CASE s = <<"check", "connect", "need", "snapshot", "open", "work", "close">>
    BY <1>6 DEF Opens
  <1>7. CASE s = <<"connect", "open", "work", "truncate", "write", "close">>
    BY <1>7 DEF Opens
  <1>8. CASE s = <<"connect", "work", "need", "truncate", "write">>
    BY <1>8 DEF Opens
  <1>9. CASE s = <<"connect", "connect", "connect", "need", "work", "truncate", "write">>
    BY <1>9 DEF Opens
  <1>10. CASE s = <<"connect", "work", "check", "need", "poll">>
    BY <1>10 DEF Opens
  <1> QED
    BY <1>1, <1>2, <1>3, <1>4, <1>5, <1>6, <1>7, <1>8, <1>9, <1>10 DEF Shapes

\* What a handler makes of a report.
LEMMA StatusTables ==
    /\ PartialOnErrors \in [Reports -> Statuses]
    /\ IgnoresErrors \in [Reports -> Statuses]
    /\ AlwaysSuccess \in [{r \in Reports : ~r.errors} -> Statuses]
    /\ CmdIngestMaps.status \in [Reports -> Statuses]
    /\ CmdExtractRoute.status \in [Reports -> Statuses]
    /\ \A s \in Reports : s.errors => PartialOnErrors[s] # "success"
  BY DEF PartialOnErrors, IgnoresErrors, AlwaysSuccess, CmdIngestMaps, CmdExtractRoute, Command,
     Statuses

\* The thirteen stages of the script: what each reads and the table it writes.
ReadsOf == <<{"maps"}, {"placements"}, {"graph"}, {"placements"},
             {"placements", "clean", "evidence"}, {"evidence"}, {"placements", "evidence"},
             {"placements", "clean"}, {"replays"}, {"replays"}, {"clean"},
             {"corridors", "support", "weights", "negative"},
             {"corridors", "support", "weights", "negative"}>>
TableOf == <<"placements", "graph", "labels", "evidence", "support", "weights", "negative",
             "corridors", "", "clean", "cohorts", "scores", "learned">>

StageIs(k) ==
    LET c == PipelineStages[k] IN
    /\ c.steps \in {Recorded, Bare, Modelled}
    /\ \A s \in DOMAIN c.status : s \in Reports /\ c.status[s] \in Statuses
                                  /\ (s.errors => c.status[s] # "success")
    /\ c.reads = ReadsOf[k] /\ c.writes = (IF k = 9 THEN {} ELSE {TableOf[k]})
    /\ c.name = "replay-clean" <=> k = 10
    /\ c.name \in TakenOnce => c.steps = Recorded

LEMMA Stages ==
    /\ Len(PipelineStages) = 13
    /\ \A k \in 1 .. 13 : StageIs(k)
  <1>1. Len(PipelineStages) = 13 /\ DOMAIN PipelineStages = 1 .. 13
    BY DEF PipelineStages
  <1>2. /\ \A s \in DOMAIN PartialOnErrors :
              s \in Reports /\ PartialOnErrors[s] \in Statuses
              /\ (s.errors => PartialOnErrors[s] # "success")
        /\ \A s \in DOMAIN AlwaysSuccess :
              s \in Reports /\ AlwaysSuccess[s] \in Statuses
              /\ (s.errors => AlwaysSuccess[s] # "success")
    BY DEF AlwaysSuccess, PartialOnErrors, Statuses
  <1>3. StageIs(1)
    <2>1. PipelineStages[1] = CmdParseMaps
      BY DEF PipelineStages
    <2> QED
      BY <1>2, <2>1 DEF StageIs, CmdParseMaps, Command, ReadsOf, TableOf, TakenOnce
  <1>4. StageIs(2)
    <2>1. PipelineStages[2] = CmdBuildGraph
      BY DEF PipelineStages
    <2> QED
      BY <1>2, <2>1 DEF StageIs, CmdBuildGraph, Command, ReadsOf, TableOf, TakenOnce
  <1>5. StageIs(3)
    <2>1. PipelineStages[3] = CmdLabelTraversability
      BY DEF PipelineStages
    <2> QED
      BY <1>2, <2>1 DEF StageIs, CmdLabelTraversability, Command, ReadsOf, TableOf, TakenOnce
  <1>6. StageIs(4)
    <2>1. PipelineStages[4] = CmdBuildTraversabilityEvidence
      BY DEF PipelineStages
    <2> QED
      BY <1>2, <2>1 DEF StageIs, CmdBuildTraversabilityEvidence, Command, ReadsOf, TableOf, TakenOnce
  <1>7. StageIs(5)
    <2>1. PipelineStages[5] = CmdUpdatePathSupport
      BY DEF PipelineStages
    <2> QED
      BY <1>2, <2>1 DEF StageIs, CmdUpdatePathSupport, Command, ReadsOf, TableOf, TakenOnce
  <1>8. StageIs(6)
    <2>1. PipelineStages[6] = CmdUpdatePatternWeights
      BY DEF PipelineStages
    <2> QED
      BY <1>2, <2>1 DEF StageIs, CmdUpdatePatternWeights, Command, ReadsOf, TableOf, TakenOnce
  <1>9. StageIs(7)
    <2>1. PipelineStages[7] = CmdUpdateNegativeEvidence
      BY DEF PipelineStages
    <2> QED
      BY <1>2, <2>1 DEF StageIs, CmdUpdateNegativeEvidence, Command, ReadsOf, TableOf, TakenOnce
  <1>10. StageIs(8)
    <2>1. PipelineStages[8] = CmdBuildRouteCorridors
      BY DEF PipelineStages
    <2> QED
      BY <1>2, <2>1 DEF StageIs, CmdBuildRouteCorridors, Command, ReadsOf, TableOf, TakenOnce
  <1>11. StageIs(9)
    <2>1. PipelineStages[9] = CmdParseReplays
      BY DEF PipelineStages
    <2> QED
      BY <1>2, <2>1 DEF StageIs, CmdParseReplays, Command, ReadsOf, TableOf, TakenOnce
  <1>12. StageIs(10)
    <2>1. PipelineStages[10] = CmdReplayClean
      BY DEF PipelineStages
    <2> QED
      BY <1>2, <2>1 DEF StageIs, CmdReplayClean, Command, ReadsOf, TableOf, TakenOnce
  <1>13. StageIs(11)
    <2>1. PipelineStages[11] = CmdAssignCohorts
      BY DEF PipelineStages
    <2> QED
      BY <1>2, <2>1 DEF StageIs, CmdAssignCohorts, Command, ReadsOf, TableOf, TakenOnce
  <1>14. StageIs(12)
    <2>1. PipelineStages[12] = CmdScoreRouteCorridors
      BY DEF PipelineStages
    <2> QED
      BY <1>2, <2>1 DEF StageIs, CmdScoreRouteCorridors, Command, ReadsOf, TableOf, TakenOnce
  <1>15. StageIs(13)
    <2>1. PipelineStages[13] = CmdScoreCorridorsLearned
      BY DEF PipelineStages
    <2> QED
      BY <1>2, <2>1 DEF StageIs, CmdScoreCorridorsLearned, Command, ReadsOf, TableOf, Modelled, TakenOnce
  <1> QED
    BY <1>1, <1>3, <1>4, <1>5, <1>6, <1>7, <1>8, <1>9, <1>10, <1>11, <1>12, <1>13, <1>14, <1>15

LEMMA Forms ==
    /\ Recorded \in Shapes /\ Bare \in Shapes /\ Exporting \in Shapes
    /\ <<"check", "connect", "snapshot", "open", "work", "close">> \in Shapes
    /\ <<"check", "connect", "need", "snapshot", "open", "work", "close">> \in Shapes
    /\ <<"connect", "open", "work", "truncate", "write", "close">> \in Shapes
    /\ <<"check", "connect", "work">> \in Shapes /\ <<"need", "connect", "work">> \in Shapes
    /\ <<"connect", "work", "need", "truncate", "write">> \in Shapes
    /\ <<"connect", "connect", "connect", "need", "work", "truncate", "write">> \in Shapes
    /\ <<"connect", "work", "check", "need", "poll">> \in Shapes
    /\ <<"check", "need">> \in Shapes /\ <<"connect", "uncached">> \in Shapes
  BY DEF Shapes

\* A command that is no stage ingests, or writes none of the tables.
HandWrites == {{}, {"maps"}, {"replays"}}
LEMMA Hands ==
    ASSUME NEW c \in Aside
    PROVE  Proper(c) /\ c.writes \in HandWrites /\ c.name \notin TakenOnce
  <1>1. CASE c \in {CmdIngestMaps, CmdIngestReplays, CmdExtractRoute, CmdEvalBenchmark,
                    CmdTrainCorridorRanking}
    BY <1>1, StatusTables, Forms
       DEF Proper, HandWrites, TakenOnce, Command, CmdIngestMaps, CmdIngestReplays, CmdExtractRoute,
           CmdEvalBenchmark, CmdTrainCorridorRanking
  <1>2. CASE c \in {CmdIngestOpenplanetTelemetry, CmdIngestMapItems,
                    CmdExtractDrivenPaths, CmdMineDrivenTransitions,
                    CmdComputeFinishabilityProof}
    BY <1>2, StatusTables, Forms
       DEF Proper, HandWrites, TakenOnce, Command, CmdIngestOpenplanetTelemetry, CmdIngestMapItems,
           CmdExtractDrivenPaths, CmdMineDrivenTransitions, CmdComputeFinishabilityProof
  <1>3. CASE c \in {CmdScoreCorridorSequences, CmdBuildBlockTransitionCounts,
                    CmdBuildFaceTransitions, CmdMinePlacementGrammar,
                    CmdMineRouteSequences}
    BY <1>3, StatusTables, Forms
       DEF Proper, HandWrites, TakenOnce, Command, CmdScoreCorridorSequences,
           CmdBuildBlockTransitionCounts, CmdBuildFaceTransitions,
           CmdMinePlacementGrammar, CmdMineRouteSequences
  <1>4. CASE c \in {CmdMineMacros, CmdMineJumps, CmdBuildBlockGeometry,
                    CmdImportConnectionProbes, CmdExportConstruction}
    BY <1>4, StatusTables, Forms
       DEF Proper, HandWrites, TakenOnce, Command, CmdMineMacros, CmdMineJumps,
           CmdBuildBlockGeometry, CmdImportConnectionProbes, CmdExportConstruction
  <1>5. CASE c \in {CmdExportRouteModel, CmdExportPlacementGrammar, CmdExportFacePriors,
                    CmdDiagnoseCorridorRanking, CmdDiagnoseCorridorDiversity}
    BY <1>5, StatusTables, Forms
       DEF Proper, HandWrites, TakenOnce, Command, CmdExportRouteModel, CmdExportPlacementGrammar,
           CmdExportFacePriors, CmdDiagnoseCorridorRanking, CmdDiagnoseCorridorDiversity
  <1>6. CASE c \in {CmdCompareSnapshots, CmdReportReplayCoverage, CmdEnumerateCorridors,
                    CmdValidateTraversability, CmdGenerateMap}
    BY <1>6, StatusTables, Forms
       DEF Proper, HandWrites, TakenOnce, Command, CmdCompareSnapshots, CmdReportReplayCoverage,
           CmdEnumerateCorridors, CmdValidateTraversability, CmdGenerateMap
  <1>7. CASE c \in {CmdGenerateAiMap, CmdValidateGeneration, CmdEmitGbx}
    BY <1>7, StatusTables, Forms
       DEF Proper, HandWrites, TakenOnce, Command, CmdGenerateAiMap, CmdValidateGeneration,
           CmdEmitGbx
  <1>8. CASE c \in {CmdDiagnoseStrip}
    BY <1>8, StatusTables, Forms
       DEF Proper, HandWrites, TakenOnce, Command, CmdDiagnoseStrip
  <1>9. CASE c \in {CmdTestInGame}
    BY <1>9, StatusTables, Forms
       DEF Proper, HandWrites, TakenOnce, Command, CmdTestInGame
  <1>10. CASE c \in {CmdRemoteTestEnqueue, CmdRemoteTestStatus}
    BY <1>10, StatusTables, Forms
       DEF Proper, HandWrites, TakenOnce, Command, CmdRemoteTestEnqueue, CmdRemoteTestStatus
  <1>11. CASE c \in {CmdComputeTelemetryCoverage, CmdMigrate, CmdNeo4jMigrate}
    BY <1>11, StatusTables, Forms
       DEF Proper, HandWrites, TakenOnce, Command, CmdComputeTelemetryCoverage, CmdMigrate,
           CmdNeo4jMigrate
  <1> QED
    BY <1>1, <1>2, <1>3, <1>4, <1>5, <1>6, <1>7, <1>8, <1>9, <1>10, <1>11 DEF Aside

-----------------------------------------------------------------------------
(* The inductive invariant.                                                *)

ProcRec == [pc : Nat, row : Nat, status : Statuses \cup {"none"}, cmd : ByHand]
RunRec == [stage : {c.name : c \in ByHand}, pass : Nat,
           status : Statuses \cup {"none", "running"}]
PassRec == [maps : 0 .. MaxNews, replays : 0 .. MaxNews, ok : BOOLEAN, redone : BOOLEAN]
Age == [m : -1 .. Ever, r : -1 .. Ever]

\* A command has a row from its open to its close, and a status from its work on.
InStep(p) ==
    LET s == p.cmd.steps IN
    /\ p.pc <= Len(s) + 1
    /\ p.row # 0 => p.pc <= Len(s) /\ \E i \in DOMAIN s : s[i] = "open" /\ i < p.pc
    /\ \A i \in DOMAIN s : /\ s[i] = "open" /\ i < p.pc => p.row # 0
                           /\ s[i] = "work" => (p.status = "none" <=> p.pc <= i)

\* A rebuild by hand is on the record of the last pass.
CliTypes ==
    /\ proc \in ProcRec /\ InStep(proc)
    /\ stageRuns \in Seq(RunRec)
    /\ spent \in [errors : Nat, losses : Nat, runs : Nat]
    /\ fresh \in [Tables -> Age]
    /\ line \in 0 .. 13 /\ passes \in Seq(PassRec) /\ (line > 0 => Len(passes) > 0)
    /\ ~Running => proc = Idle
    /\ Running /\ line > 0 => proc.cmd = PipelineStages[line]
    /\ Running /\ line = 0 /\ passes # << >> /\ Lost(proc.cmd) # {}
          => passes[Len(passes)].redone

\* The running command's row is as it was opened; what a stage leaves behind has a row
\* that says so, or that is still to say so.
RowKept ==
    proc.row # 0 =>
        /\ proc.row \in DOMAIN stageRuns
        /\ stageRuns[proc.row] = [stage |-> proc.cmd.name, pass |-> ThisPass,
                                  status |-> "running"]
OwedKept ==
    \A b \in behind : \E i \in DOMAIN stageRuns :
        /\ stageRuns[i].stage = b.stage /\ stageRuns[i].pass = b.pass
        /\ stageRuns[i].status # "success"
        /\ i = proc.row => proc.status \notin {"success", "none"}
Sound == CliTypes /\ OrphanRowsExplained /\ RowKept /\ OwedKept

\* The raw tables and what is made from one of them alone; only columns a rebuild
\* resets are ever wiped.
Resettable == {"support", "weights", "negative", "scores", "learned"}
Aged ==
    /\ fresh["maps"].m \in 0 .. MaxNews /\ fresh["maps"].r = Ever
    /\ fresh["replays"].m = Ever /\ fresh["replays"].r \in 0 .. MaxNews
    /\ fresh["clean"].m = Ever /\ fresh["cohorts"].m = Ever
    /\ \A t \in Tables \ Resettable : fresh[t].m >= 0 /\ fresh[t].r >= 0
Dated ==
    \A i \in DOMAIN passes : /\ passes[i].maps <= fresh["maps"].m
                             /\ passes[i].replays <= fresh["replays"].r

\* Stage k of the script has done its work, in the pass under way; or the pass is over
\* and was good.
Past(k) == line > k \/ (line = k /\ Running /\ proc.status = "success")
Behind(k) == Past(k) \/ (line = 0 /\ passes[Len(passes)].ok)

Refilled == \A k \in 5 .. 7 : Past(k) => fresh[TableOf[k]].m >= 0
Derivations == 1 .. 12 \ {9}
Ahead ==
    LET n == Len(passes) IN
    n > 0 /\ passes[n].ok /\ ~passes[n].redone =>
        \A k \in Derivations : Behind(k) =>
            /\ fresh[TableOf[k]].m >= passes[n].maps
            /\ n > 1 /\ passes[n - 1].ok => fresh[TableOf[k]].r >= passes[n - 1].replays
Washed ==
    \A i \in DOMAIN passes : passes[i].ok =>
        /\ i < Len(passes) \/ Behind(10) => fresh["clean"].r >= passes[i].replays
        /\ i < Len(passes) \/ Behind(11) => fresh["cohorts"].r >= passes[i].replays

\* A script that got to its end has refilled the columns, and only a rebuild by hand
\* empties them again.
Whole ==
    /\ line > 0 => lineExit = -1
    /\ lineExit = 0 =>
          /\ Len(passes) > 0
          /\ ~passes[Len(passes)].redone => \A k \in 5 .. 7 : fresh[TableOf[k]].m >= 0

\* A pass in which a stage leaves an item behind is not good, or will not be when the
\* stage ends.
Loud ==
    \A b \in behind :
        /\ b.pass \in 0 .. Len(passes)
        /\ b.pass > 0 /\ passes[b.pass].ok =>
              /\ line > 0 /\ b.pass = Len(passes)
              /\ Running /\ proc.status \notin {"success", "none"}

Kept == Aged /\ Dated /\ Refilled /\ Ahead /\ Washed /\ Whole
Held == Kept /\ Loud
CliInv == Sound /\ Held

-----------------------------------------------------------------------------
LEMMA HandOrStage ==
    ASSUME NEW c \in ByHand
    PROVE  c \in Aside \/ \E k \in 1 .. 13 : c = PipelineStages[k]
  <1>1. DOMAIN PipelineStages = 1 .. 13
    BY DEF PipelineStages
  <1> QED
    BY <1>1 DEF ByHand

LEMMA StageByHand ==
    ASSUME NEW k \in 1 .. 13
    PROVE  PipelineStages[k] \in ByHand
  <1>1. DOMAIN PipelineStages = 1 .. 13
    BY DEF PipelineStages
  <1> QED
    BY <1>1 DEF ByHand

LEMMA KnownProper ==
    ASSUME NEW c \in ByHand
    PROVE  Proper(c) /\ Opens(c.steps) /\ DOMAIN c.steps = 1 .. Len(c.steps) /\ Len(c.steps) \in Nat
  <1>1. Proper(c)
    <2>1. CASE c \in Aside
      BY <2>1, Hands
    <2>2. ASSUME NEW k \in 1 .. 13, c = PipelineStages[k] PROVE Proper(c)
      <3>1. StageIs(k)
        BY Stages
      <3>2. /\ c.steps \in {Recorded, Bare, Modelled}
            /\ \A s \in DOMAIN c.status : c.status[s] \in Statuses
        BY <2>2, <3>1, Zenon DEF StageIs
      <3> QED
        BY <3>2 DEF Proper, Shapes
    <2> QED
      BY <2>1, <2>2, HandOrStage
  <1> QED
    BY <1>1, ShapesOpen DEF Proper

\* The stages that take an item once record a row, and say when their work had errors.
LEMMA TakenRecorded ==
    ASSUME NEW c \in ByHand, c.name \in TakenOnce
    PROVE  /\ c.steps = Recorded
           /\ \A s \in DOMAIN c.status : s.errors => c.status[s] \in Statuses \ {"success"}
  <1>1. PICK k \in 1 .. 13 : c = PipelineStages[k]
    BY Hands, HandOrStage
  <1>2. StageIs(k)
    BY Stages
  <1> QED
    BY <1>1, <1>2, Zenon DEF StageIs

LEMMA OldestIs ==
    ASSUME NEW V, V \subseteq -1 .. Ever, V # {}
    PROVE  Oldest(V) \in V /\ \A w \in V : Oldest(V) <= w
  <1>1. Ever \in Nat
    BY StagesAssumption DEF Ever
  <1>2. PICK T : T = {v + 1 : v \in V}
    OBVIOUS
  <1>3. T \subseteq Nat /\ T # {}
    <2>1. \A v \in V : v \in -1 .. Ever
      OBVIOUS
    <2>2. \A v \in V : v + 1 \in Nat
      BY <1>1, <2>1
    <2> QED
      BY <1>2, <2>2
  <1>4. PICK n \in T : \A k \in T : n <= k
    BY <1>3, LeastNat
  <1>5. PICK v \in V : n = v + 1
    BY <1>2
  <1>6. \A w \in V : v <= w
    <2> SUFFICES ASSUME NEW w \in V PROVE v <= w
      OBVIOUS
    <2>1. w + 1 \in T
      BY <1>2
    <2>2. n <= w + 1
      BY <1>4, <2>1
    <2>3. v \in -1 .. Ever /\ w \in -1 .. Ever
      OBVIOUS
    <2> QED
      BY <1>1, <1>5, <2>2, <2>3
  <1>7. \E u \in V : \A w \in V : u <= w
    BY <1>6
  <1> QED
    BY <1>7 DEF Oldest

\* A derived table is no older than a bound all its sources keep.
LEMMA DerivedAge ==
    ASSUME fresh \in [Tables -> Age], NEW S, S \subseteq Tables, S # {}
    PROVE  /\ Derived(S) \in Age
           /\ \A b : (\A t \in S : fresh[t].m >= b) => Derived(S).m >= b
           /\ \A b : (\A t \in S : fresh[t].r >= b) => Derived(S).r >= b
  <1>1. PICK V : V = {fresh[t].m : t \in S}
    OBVIOUS
  <1>2. PICK W : W = {fresh[t].r : t \in S}
    OBVIOUS
  <1>3. V \subseteq -1 .. Ever /\ V # {} /\ W \subseteq -1 .. Ever /\ W # {}
    BY <1>1, <1>2 DEF Age
  <1>4. Oldest(V) \in V /\ Oldest(W) \in W
    BY <1>3, OldestIs
  <1>5. PICK d : d = Derived(S)
    OBVIOUS
  <1>6. d = [m |-> Oldest(V), r |-> Oldest(W)]
    BY <1>1, <1>2, <1>5 DEF Derived
  <1>7. d \in Age
    BY <1>3, <1>4, <1>6 DEF Age
  <1>8. \A b : (\A t \in S : fresh[t].m >= b) => Oldest(V) >= b
    BY <1>1, <1>4
  <1>9. \A b : (\A t \in S : fresh[t].r >= b) => Oldest(W) >= b
    BY <1>2, <1>4
  <1> QED
    BY <1>5, <1>6, <1>7, <1>8, <1>9

\* One row more is unaccounted for, at most.
Left(runs, row) == {i \in DOMAIN runs : runs[i].status = "running" /\ row # i}
LEMMA LeftFinite ==
    ASSUME NEW s \in Seq(RunRec), NEW r
    PROVE  IsFiniteSet(Left(s, r)) /\ Cardinality(Left(s, r)) \in Nat
  <1>1. Left(s, r) \subseteq 1 .. Len(s) /\ Len(s) \in Nat
    BY DEF Left
  <1>2. IsFiniteSet(1 .. Len(s))
    BY <1>1, FS_Interval
  <1>3. IsFiniteSet(Left(s, r))
    BY <1>1, <1>2, FS_Subset
  <1> QED
    BY <1>3, FS_CardinalityType

LEMMA LeftBehind ==
    ASSUME NEW runs \in Seq(RunRec), NEW new \in Seq(RunRec), NEW row, NEW x, NEW y, NEW n \in Nat,
           Cardinality(Left(runs, row)) <= n
    PROVE  /\ Left(new, x) \subseteq Left(runs, row) => Cardinality(Left(new, x)) <= n
           /\ Left(new, x) \subseteq Left(runs, row) \cup {y} => Cardinality(Left(new, x)) <= n + 1
  <1>1. \A s \in Seq(RunRec) : \A r : IsFiniteSet(Left(s, r)) /\ Cardinality(Left(s, r)) \in Nat
    BY LeftFinite
  <1>2. ASSUME Left(new, x) \subseteq Left(runs, row) PROVE Cardinality(Left(new, x)) <= n
    <2>1. Cardinality(Left(new, x)) <= Cardinality(Left(runs, row))
      BY <1>1, <1>2, FS_Subset
    <2> QED
      BY <1>1, <2>1
  <1>3. ASSUME Left(new, x) \subseteq Left(runs, row) \cup {y}
        PROVE  Cardinality(Left(new, x)) <= n + 1
    <2>1. PICK T : T = Left(runs, row) \cup {y}
      OBVIOUS
    <2>2. IsFiniteSet(T) /\ Cardinality(T) \in Nat
          /\ (Cardinality(T) = Cardinality(Left(runs, row))
              \/ Cardinality(T) = Cardinality(Left(runs, row)) + 1)
      BY <1>1, <2>1, FS_AddElement, FS_CardinalityType
    <2>3. Cardinality(Left(new, x)) <= Cardinality(T)
      BY <1>3, <2>1, <2>2, FS_Subset
    <2> QED
      BY <1>1, <2>2, <2>3
  <1> QED
    BY <1>2, <1>3

-----------------------------------------------------------------------------
(* The tables of the stages.                                               *)

LEMMA TableNames ==
    /\ TableOf[1] = "placements" /\ TableOf[2] = "graph" /\ TableOf[3] = "labels"
    /\ TableOf[4] = "evidence" /\ TableOf[5] = "support" /\ TableOf[6] = "weights"
    /\ TableOf[7] = "negative" /\ TableOf[8] = "corridors" /\ TableOf[9] = ""
    /\ TableOf[10] = "clean" /\ TableOf[11] = "cohorts" /\ TableOf[12] = "scores"
    /\ TableOf[13] = "learned"
  BY DEF TableOf

\* A stage reads what earlier stages made, the raw tables, and the cleaned replays.
LEMMA Tabled ==
    /\ \A k \in 1 .. 13 : ReadsOf[k] \subseteq Tables /\ ReadsOf[k] # {}
    /\ \A k \in 1 .. 13 \ {9} : TableOf[k] \in Tables \ {"maps", "replays"}
    /\ \A j, k \in 1 .. 13 \ {9} : TableOf[j] = TableOf[k] => j = k
    /\ \A k \in 1 .. 13 : (TableOf[k] = "clean" <=> k = 10) /\ (TableOf[k] = "cohorts" <=> k = 11)
    /\ \A k \in 1 .. 13 \ {9} : TableOf[k] \notin Resettable \/ k \in 5 .. 7
                              => ReadsOf[k] \cap Resettable = {}
    /\ \A k \in Derivations : \A t \in ReadsOf[k] :
           t \in {"maps", "replays", "clean"} \/ \E j \in Derivations : j < k /\ t = TableOf[j]
  <1>b. /\ ReadsOf[1] = {"maps"}
        /\ ReadsOf[2] = {"placements"}
        /\ ReadsOf[3] = {"graph"}
        /\ ReadsOf[4] = {"placements"}
        /\ ReadsOf[5] = {"placements", "clean", "evidence"}
        /\ ReadsOf[6] = {"evidence"}
        /\ ReadsOf[7] = {"placements", "evidence"}
        /\ ReadsOf[8] = {"placements", "clean"}
        /\ ReadsOf[9] = {"replays"}
        /\ ReadsOf[10] = {"replays"}
        /\ ReadsOf[11] = {"clean"}
        /\ ReadsOf[12] = {"corridors", "support", "weights", "negative"}
        /\ ReadsOf[13] = {"corridors", "support", "weights", "negative"}
    BY DEF ReadsOf
  <1>c. \A k \in 1 .. 13 : \/ k = 1 \/ k = 2 \/ k = 3 \/ k = 4 \/ k = 5 \/ k = 6 \/ k = 7
                         \/ k = 8 \/ k = 9 \/ k = 10 \/ k = 11 \/ k = 12 \/ k = 13
    OBVIOUS
  <1>1. /\ \A k \in 1 .. 13 : ReadsOf[k] \subseteq Tables
        /\ \A k \in 1 .. 13 : ReadsOf[k] # {}
        /\ \A k \in 1 .. 13 \ {9} : TableOf[k] \in Tables \ {"maps", "replays"}
    <2>1. ASSUME NEW k \in 1 .. 13 PROVE ReadsOf[k] \subseteq Tables
      BY <1>b, <1>c DEF Tables
    <2>2. ASSUME NEW k \in 1 .. 13 PROVE ReadsOf[k] # {}
      BY <1>b, <1>c
    <2>3. ASSUME NEW k \in 1 .. 13, k # 9 PROVE TableOf[k] \in Tables \ {"maps", "replays"}
      BY TableNames, <1>c, <2>3 DEF Tables
    <2> QED
      BY <2>1, <2>2, <2>3
  <1>2. \A j, k \in 1 .. 13 \ {9} : TableOf[j] = TableOf[k] => j = k
    <2>1. PICK at : at = [placements |-> 1, graph |-> 2, labels |-> 3, evidence |-> 4, support |-> 5,
                          weights |-> 6, negative |-> 7, corridors |-> 8, clean |-> 10,
                          cohorts |-> 11, scores |-> 12, learned |-> 13]
      OBVIOUS
    <2>2. /\ at["placements"] = 1 /\ at["graph"] = 2 /\ at["labels"] = 3 /\ at["evidence"] = 4
          /\ at["support"] = 5 /\ at["weights"] = 6 /\ at["negative"] = 7 /\ at["corridors"] = 8
          /\ at["clean"] = 10 /\ at["cohorts"] = 11 /\ at["scores"] = 12 /\ at["learned"] = 13
      BY <2>1
    <2>3. \A k \in 1 .. 13 \ {9} : at[TableOf[k]] = k
      <3>1. \A k \in {1, 2, 3, 4, 5, 6} : at[TableOf[k]] = k
        BY TableNames, <2>2, ZenonT(30)
      <3>2. \A k \in {7, 8, 10, 11, 12, 13} : at[TableOf[k]] = k
        BY TableNames, <2>2, ZenonT(30)
      <3> QED
        BY <3>1, <3>2
    <2> QED
      BY <2>3, Zenon
  <1>3. \A k \in 1 .. 13 : (TableOf[k] = "clean" <=> k = 10) /\ (TableOf[k] = "cohorts" <=> k = 11)
    BY TableNames, <1>c
  <1>4. \A k \in 1 .. 13 \ {9} : TableOf[k] \notin Resettable \/ k \in 5 .. 7
                              => ReadsOf[k] \cap Resettable = {}
    <2> SUFFICES ASSUME NEW k \in 1 .. 13 \ {9}, TableOf[k] \notin Resettable \/ k \in 5 .. 7
                 PROVE  ReadsOf[k] \cap Resettable = {}
      OBVIOUS
    <2>1. \/ k = 1 \/ k = 2 \/ k = 3 \/ k = 4 \/ k = 5 \/ k = 6 \/ k = 7
          \/ k = 8 \/ k = 10 \/ k = 11 \/ k = 12 \/ k = 13
      BY <1>c
    <2>2. k # 12 /\ k # 13
      <3>1. TableOf[12] \in Resettable /\ TableOf[13] \in Resettable
        BY TableNames DEF Resettable
      <3>2. 12 \notin 5 .. 7 /\ 13 \notin 5 .. 7
        OBVIOUS
      <3> QED
        BY <3>1, <3>2, Zenon
    <2> QED
      BY <1>b, <2>1, <2>2 DEF Resettable
  <1>5. \A k \in Derivations : \A t \in ReadsOf[k] :
           t \in {"maps", "replays", "clean"} \/ \E j \in Derivations : j < k /\ t = TableOf[j]
    <2> SUFFICES ASSUME NEW k \in Derivations, NEW t \in ReadsOf[k],
                        t \notin {"maps", "replays", "clean"}
                 PROVE  \E j \in Derivations : j < k /\ t = TableOf[j]
      OBVIOUS
    <2>1. \/ t = "placements" /\ k > 1
          \/ t = "graph" /\ k > 2
          \/ t = "evidence" /\ k > 4
          \/ t \in {"support", "weights", "negative", "corridors"} /\ k > 8
      BY <1>b, <1>c DEF Derivations
    <2>2. CASE t = "placements"
      <3>1. 1 \in Derivations /\ 1 < k
        BY <2>1, <2>2 DEF Derivations
      <3> QED
        BY TableNames, <2>2, <3>1, Zenon
    <2>3. CASE t = "graph"
      <3>1. 2 \in Derivations /\ 2 < k
        BY <2>1, <2>3 DEF Derivations
      <3> QED
        BY TableNames, <2>3, <3>1, Zenon
    <2>4. CASE t = "evidence"
      <3>1. 4 \in Derivations /\ 4 < k
        BY <2>1, <2>4 DEF Derivations
      <3> QED
        BY TableNames, <2>4, <3>1, Zenon
    <2>5. CASE t \in {"support", "weights", "negative", "corridors"}
      <3>1. \A j \in 5 .. 8 : j \in Derivations /\ j < k
        BY <2>1, <2>5 DEF Derivations
      <3>2. 5 \in 5 .. 8 /\ 6 \in 5 .. 8 /\ 7 \in 5 .. 8 /\ 8 \in 5 .. 8
        OBVIOUS
      <3> QED
        BY TableNames, <2>5, <3>1, <3>2, Zenon
    <2> QED
      BY <2>1, <2>2, <2>3, <2>4, <2>5
  <1> QED
    BY <1>1, <1>2, <1>3, <1>4, <1>5

\* What a stage's rebuild resets is refilled by stages that follow it.
LEMMA LostLater ==
    ASSUME NEW k \in 1 .. 13
    PROVE  /\ Lost(PipelineStages[k]) \subseteq Resettable
           /\ \A j \in 1 .. k : TableOf[j] \notin Lost(PipelineStages[k])
           /\ k # 4 /\ k # 8 => Lost(PipelineStages[k]) = {}
  <1>1. PICK c : c = PipelineStages[k]
    OBVIOUS
  <1>2. c.writes = (IF k = 9 THEN {} ELSE {TableOf[k]})
    BY <1>1, Stages, Zenon DEF StageIs
  <1>3. /\ TableOf[4] = "evidence" /\ TableOf[8] = "corridors"
        /\ \A j \in 1 .. 4 : TableOf[j] \notin {"support", "weights", "negative"}
        /\ \A j \in 1 .. 8 : TableOf[j] \notin {"scores", "learned"}
    BY DEF TableOf
  <1>4. /\ c.writes = {"evidence"} <=> k = 4
        /\ c.writes = {"corridors"} <=> k = 8
    BY <1>2, <1>3, Tabled
  <1> QED
    BY <1>1, <1>3, <1>4 DEF Lost, Resettable

\* A command that is no stage resets nothing.
LEMMA AsideLosesNothing ==
    ASSUME NEW c \in Aside
    PROVE  Lost(c) = {}
  BY Hands DEF HandWrites, Lost

-----------------------------------------------------------------------------
(* The running command.                                                    *)

LEMMA StepOn ==
    ASSUME CliTypes, Running, proc.pc <= Len(proc.cmd.steps), Kind # "close",
           NEW p \in ProcRec, p.cmd = proc.cmd, p.pc = proc.pc + 1,
           IF Kind = "open" THEN p.row # 0 ELSE p.row = proc.row,
           IF Kind = "work" THEN p.status \in Statuses ELSE p.status = proc.status
    PROVE  InStep(p)
  <1>1. PICK s : s = proc.cmd.steps
    OBVIOUS
  <1>2. PICK pc : pc = proc.pc
    OBVIOUS
  <1>3. Opens(s) /\ DOMAIN s = 1 .. Len(s) /\ Len(s) \in Nat /\ pc \in 1 .. Len(s)
    BY <1>1, <1>2, KnownProper DEF CliTypes, ProcRec, Running
  <1>4. /\ proc.row # 0 => \E i \in DOMAIN s : s[i] = "open" /\ i < pc
        /\ \A i \in DOMAIN s : s[i] = "open" /\ i < pc => proc.row # 0
        /\ \A i \in DOMAIN s : s[i] = "work" => (proc.status = "none" <=> pc <= i)
    BY <1>1, <1>2 DEF CliTypes, InStep
  <1>5. s[pc] # "close" /\ Kind = s[pc]
    BY <1>1, <1>2 DEF Kind
  <1>6. p.row # 0 => pc + 1 <= Len(s) /\ \E i \in DOMAIN s : s[i] = "open" /\ i < pc + 1
    <2>1. CASE s[pc] = "open"
      BY <1>3, <2>1 DEF Opens
    <2>2. CASE proc.row # 0
      BY <1>3, <1>4, <1>5, <2>2 DEF Opens
    <2> QED
      BY <1>5, <2>1, <2>2
  <1>7. ASSUME NEW i \in DOMAIN s, s[i] = "open", i < pc + 1 PROVE p.row # 0
    <2>1. CASE i = pc
      BY <1>5, <1>7, <2>1
    <2>2. CASE i < pc
      BY <1>3, <1>4, <1>5, <1>7, <2>2 DEF Opens
    <2> QED
      BY <1>3, <1>7, <2>1, <2>2
  <1>8. ASSUME NEW i \in DOMAIN s, s[i] = "work" PROVE p.status = "none" <=> pc + 1 <= i
    <2>1. CASE s[pc] = "work"
      <3>1. i = pc
        BY <1>3, <1>8, <2>1 DEF Opens
      <3>2. p.status # "none"
        BY <1>5, <2>1 DEF Statuses
      <3> QED
        BY <1>3, <3>1, <3>2
    <2>2. CASE s[pc] # "work"
      <3>1. i # pc /\ p.status = proc.status
        BY <1>5, <1>8, <2>2
      <3> QED
        BY <1>3, <1>4, <1>8, <3>1
    <2> QED
      BY <2>1, <2>2
  <1> QED
    BY <1>1, <1>2, <1>3, <1>6, <1>7, <1>8 DEF InStep

\* Only its work, its report and its close come after the row is opened.
LEMMA RowOpen ==
    ASSUME CliTypes, Running
    PROVE  /\ proc.pc > Len(proc.cmd.steps) => proc.row = 0
           /\ proc.pc <= Len(proc.cmd.steps) /\ proc.row # 0
                => Kind \in {"work", "truncate", "write", "close"}
           /\ proc.pc > Len(proc.cmd.steps) /\ line > 0 => proc.status # "none"
           /\ AtStep("work") => proc.status = "none"
           /\ AtStep("work") /\ proc.cmd.name \in TakenOnce => proc.row # 0
  <1>1. PICK s : s = proc.cmd.steps
    OBVIOUS
  <1>2. PICK pc : pc = proc.pc
    OBVIOUS
  <1>3. Opens(s) /\ DOMAIN s = 1 .. Len(s) /\ Len(s) \in Nat /\ pc \in Nat /\ pc > 0
        /\ proc.cmd \in ByHand
    BY <1>1, <1>2, KnownProper DEF CliTypes, ProcRec, Running
  <1>4. /\ proc.row # 0 => pc <= Len(s) /\ \E i \in DOMAIN s : s[i] = "open" /\ i < pc
        /\ \A i \in DOMAIN s : s[i] = "open" /\ i < pc => proc.row # 0
        /\ \A i \in DOMAIN s : s[i] = "work" => (proc.status = "none" <=> pc <= i)
    BY <1>1, <1>2 DEF CliTypes, InStep
  <1>5. pc <= Len(s) /\ proc.row # 0 => s[pc] \in {"work", "truncate", "write", "close"}
    BY <1>3, <1>4 DEF Opens
  <1>6. line > 0 => \E i \in DOMAIN s : s[i] = "work"
    <2>1. line > 0 => s \in {Recorded, Bare, Modelled}
      <3> SUFFICES ASSUME line > 0 PROVE s \in {Recorded, Bare, Modelled}
        OBVIOUS
      <3>1. line \in 1 .. 13 /\ proc.cmd = PipelineStages[line]
        BY DEF CliTypes, Running
      <3>2. StageIs(line)
        BY <3>1, Stages
      <3> QED
        BY <1>1, <3>1, <3>2, Zenon DEF StageIs
    <2>2. /\ Recorded[3] = "work" /\ 3 \in DOMAIN Recorded
          /\ Bare[2] = "work" /\ 2 \in DOMAIN Bare
          /\ Modelled[3] = "work" /\ 3 \in DOMAIN Modelled
      BY DEF Recorded, Bare, Modelled
    <2> QED
      BY <2>1, <2>2
  <1>7. pc > Len(s) /\ line > 0 => proc.status # "none"
    BY <1>3, <1>4, <1>6
  <1>8. ASSUME AtStep("work") PROVE /\ proc.status = "none"
                                    /\ proc.cmd.name \in TakenOnce => proc.row # 0
    <2>1. pc \in DOMAIN s /\ s[pc] = "work"
      BY <1>1, <1>2, <1>3, <1>8 DEF AtStep, Kind
    <2>2. proc.status = "none"
      BY <1>3, <1>4, <2>1
    <2>3. ASSUME proc.cmd.name \in TakenOnce PROVE proc.row # 0
      <3>1. s = Recorded
        BY <1>1, <1>3, <2>3, TakenRecorded
      <3>2. pc = 3 /\ 2 \in DOMAIN s /\ s[2] = "open"
        BY <2>1, <3>1 DEF Recorded
      <3> QED
        BY <1>4, <3>2
    <2> QED
      BY <2>2, <2>3
  <1> QED
    BY <1>1, <1>2, <1>3, <1>4, <1>5, <1>7, <1>8 DEF Kind

-----------------------------------------------------------------------------
(* How steps leave the types and the counters.                             *)

SpentRec == [errors : Nat, losses : Nat, runs : Nat]
LEMMA Spending ==
    ASSUME spent \in SpentRec
    PROVE  /\ Error \/ NoFault => spent' \in SpentRec /\ spent'.losses = spent.losses
           /\ Loss => spent' \in SpentRec /\ spent'.losses = spent.losses + 1
  <1>1. ASSUME NoFault PROVE spent' \in SpentRec /\ spent'.losses = spent.losses
    BY <1>1 DEF NoFault
  <1>2. ASSUME Error PROVE spent' \in SpentRec /\ spent'.losses = spent.losses
    BY <1>2 DEF Error, SpentRec
  <1>3. ASSUME Loss PROVE spent' \in SpentRec /\ spent'.losses = spent.losses + 1
    BY <1>3 DEF Loss, SpentRec
  <1> QED
    BY <1>1, <1>2, <1>3

\* A step of the command that does not end it.
LEMMA Onward ==
    ASSUME CliTypes, Running, proc.pc <= Len(proc.cmd.steps), Kind # "close",
           proc' \in ProcRec, proc'.cmd = proc.cmd, proc'.pc = proc.pc + 1,
           IF Kind = "open" THEN proc'.row # 0 ELSE proc'.row = proc.row,
           IF Kind = "work" THEN proc'.status \in Statuses ELSE proc'.status = proc.status,
           UNCHANGED <<line, passes>>,
           stageRuns' \in Seq(RunRec), spent' \in SpentRec, fresh' \in [Tables -> Age]
    PROVE  CliTypes'
  <1>1. InStep(proc')
    <2>1. PICK p : p = proc'
      OBVIOUS
    <2>2. InStep(p)
      BY <2>1, StepOn
    <2> QED
      BY <2>1, <2>2
  <1>2. InStep(proc)'
    BY <1>1 DEF InStep
  <1>3. Running'
    BY DEF Running, CliTypes, ProcRec
  <1>4. Lost(proc.cmd)' = Lost(proc.cmd)
    BY DEF Lost
  <1> QED
    BY <1>2, <1>3, <1>4 DEF CliTypes, SpentRec

LEMMA IdleRests ==
    Idle \in ProcRec /\ InStep(Idle) /\ Idle.pc = 0 /\ Idle.row = 0 /\ Idle.status = "none"
  <1>1. CmdParseMaps \in ByHand
    <2>1. PipelineStages[1] = CmdParseMaps
      BY DEF PipelineStages
    <2> QED
      BY <2>1, StageByHand
  <1>2. DOMAIN CmdParseMaps.steps = 1 .. Len(CmdParseMaps.steps) /\ Len(CmdParseMaps.steps) \in Nat
    BY <1>1, KnownProper
  <1> QED
    BY <1>1, <1>2 DEF Idle, ProcRec, InStep, Statuses

\* How a command's end moves the script on.
LEMMA Exiting ==
    ASSUME CliTypes, Running, NEW rc, Exit(rc)
    PROVE  /\ proc' = Idle /\ passes' \in Seq(PassRec) /\ Len(passes') = Len(passes)
           /\ line = 0 => line' = 0 /\ passes' = passes /\ lineExit' = lineExit
           /\ line > 0 => passes' = [passes EXCEPT ![Len(passes)].ok = @ /\ rc = 0]
           /\ line > 0 => line' = 0 \/ (line' = line + 1 /\ line < 13 /\ lineExit' = lineExit)
           /\ line > 0 /\ line' > 0 => rc = 0 \/ line = 10
           /\ line > 0 /\ line' = 0 => rc # 0 \/ line = 13
           /\ line > 0 /\ line' = 0 => lineExit' = 1 \/ (line = 13 /\ rc = 0)
  <1>1. proc' = Idle
    BY DEF Exit
  <1>2. CASE line = 0
    BY <1>1, <1>2 DEF Exit, CliTypes
  <1>3. CASE line > 0
    <2>1. passes' = [passes EXCEPT ![Len(passes)].ok = @ /\ rc = 0]
      BY <1>3 DEF Exit
    <2>2. passes \in Seq(PassRec) /\ Len(passes) > 0 /\ line \in 1 .. 13
          /\ proc.cmd = PipelineStages[line]
      BY <1>3 DEF CliTypes
    <2>3. passes' \in Seq(PassRec) /\ Len(passes') = Len(passes)
      <3>1. PICK b \in BOOLEAN : b = (passes[Len(passes)].ok /\ rc = 0)
        OBVIOUS
      <3>2. passes[Len(passes)] \in PassRec
        BY <2>2
      <3>3. PICK x : x = [passes[Len(passes)] EXCEPT !.ok = b]
        OBVIOUS
      <3>4. x \in PassRec
        BY <3>2, <3>3 DEF PassRec
      <3>5. passes' = [passes EXCEPT ![Len(passes)] = x]
        BY <2>1, <3>1, <3>3, Zenon
      <3> QED
        BY <2>2, <3>4, <3>5
    <2>4. PICK goOn \in BOOLEAN : goOn = Tolerated(proc.cmd.name, rc)
      BY DEF Tolerated
    <2>5. line' = IF goOn /\ ~(line = Len(PipelineStages)) THEN line + 1 ELSE 0
      BY <1>3, <2>4 DEF Exit
    <2>6. goOn => rc = 0 \/ line = 10
      BY <2>2, <2>4, Stages DEF Tolerated, StageIs
    <2>7. ~goOn => rc # 0
      BY <2>4 DEF Tolerated
    <2>8. lineExit' = CASE ~goOn -> 1
                        [] goOn /\ line = Len(PipelineStages) -> 0
                        [] OTHER -> lineExit
      BY <1>3, <2>4 DEF Exit
    <2>9. /\ ~goOn => lineExit' = 1
          /\ goOn /\ line # Len(PipelineStages) => lineExit' = lineExit
      BY <2>8
    <2> QED
      BY <1>1, <1>3, <2>1, <2>2, <2>3, <2>5, <2>6, <2>7, <2>9, Stages
  <1> QED
    BY <1>2, <1>3 DEF CliTypes

LEMMA ExitTypes ==
    ASSUME CliTypes, Running, NEW rc, Exit(rc), stageRuns' \in Seq(RunRec),
           spent' \in SpentRec, fresh' \in [Tables -> Age]
    PROVE  CliTypes'
  <1>1. /\ proc' = Idle /\ passes' \in Seq(PassRec) /\ Len(passes') = Len(passes)
        /\ line = 0 => line' = 0
        /\ line > 0 => line' = 0 \/ (line' = line + 1 /\ line < 13)
    BY Exiting
  <1>2. InStep(proc)'
    BY <1>1, IdleRests DEF InStep
  <1>3. line' \in 0 .. 13 /\ (line' > 0 => line > 0)
    <2>1. line \in 0 .. 13
      BY DEF CliTypes
    <2> QED
      BY <1>1, <2>1
  <1> QED
    BY <1>1, <1>2, <1>3, IdleRests DEF CliTypes, SpentRec, Running

-----------------------------------------------------------------------------
(* What a command's work leaves in the tables.                             *)

Outcome(s) == fresh' = IF s.errors THEN Part(proc.cmd) ELSE Made(proc.cmd)
Reworked == fresh' \in {fresh, Part(proc.cmd), Made(proc.cmd)}

\* The work of a command that is no stage: an ingest makes a raw table newer, and no
\* other table changes.
LEMMA AsideWork ==
    ASSUME CliTypes, Aged, proc.cmd \in Aside, Reworked
    PROVE  /\ fresh' \in [Tables -> Age]
           /\ \A t \in Tables \ {"maps", "replays"} : fresh'[t] = fresh[t]
           /\ fresh'["maps"].m \in fresh["maps"].m .. MaxNews /\ fresh'["maps"].r = Ever
           /\ fresh'["replays"].m = Ever /\ fresh'["replays"].r \in fresh["replays"].r .. MaxNews
  <1>1. PICK c \in Aside : c = proc.cmd
    OBVIOUS
  <1>2. Lost(c) = {} /\ c.writes \in HandWrites
    BY AsideLosesNothing, Hands
  <1>3. /\ fresh \in [Tables -> Age] /\ "maps" \in Tables /\ "replays" \in Tables
        /\ fresh["maps"].m \in 0 .. MaxNews /\ fresh["maps"].r = Ever
        /\ fresh["replays"].m = Ever /\ fresh["replays"].r \in 0 .. MaxNews
    BY DEF CliTypes, Aged, Tables
  <1>4. \A v \in 0 .. MaxNews : Ingested(v) \in v .. MaxNews
    BY StagesAssumption DEF Ingested
  <1>5. MaxNews \in Nat /\ Ever = MaxNews + 1
    BY StagesAssumption DEF Ever
  <1>6. CASE fresh' \in {fresh, Part(c)}
    <2>1. Part(c) = [t \in Tables |-> fresh[t]]
      BY <1>2 DEF Part, HandWrites
    <2>2. fresh' = fresh
      BY <1>3, <1>6, <2>1
    <2> QED
      BY <1>3, <1>5, <2>2
  <1>7. CASE fresh' = Made(c)
    <2>1. fresh' = [t \in Tables |->
                       CASE t \in Lost(c) -> Wiped
                         [] t \notin c.writes \cup Lost(c) -> fresh[t]
                         [] t \in c.writes /\ t = "maps" ->
                               [m |-> Ingested(fresh[t].m), r |-> Ever]
                         [] t \in c.writes /\ t = "replays" ->
                               [m |-> Ever, r |-> Ingested(fresh[t].r)]
                         [] OTHER -> Derived(c.reads)]
      BY <1>7 DEF Made
    <2>2. PICK g : g = [m |-> Ingested(fresh["maps"].m), r |-> Ever]
      OBVIOUS
    <2>3. PICK h : h = [m |-> Ever, r |-> Ingested(fresh["replays"].r)]
      OBVIOUS
    <2>4. \A t \in Tables : fresh'[t] = (IF c.writes = {"maps"} /\ t = "maps" THEN g
                                         ELSE IF c.writes = {"replays"} /\ t = "replays" THEN h
                                         ELSE fresh[t])
      BY <1>2, <2>1, <2>2, <2>3 DEF HandWrites
    <2>5. /\ g.m \in fresh["maps"].m .. MaxNews /\ g.r = Ever
          /\ h.r \in fresh["replays"].r .. MaxNews /\ h.m = Ever
      BY <1>3, <1>4, <2>2, <2>3
    <2>6. g \in Age /\ h \in Age
      BY <1>3, <1>5, <2>2, <2>3, <2>5 DEF Age
    <2>7. fresh' \in [Tables -> Age]
      <3>1. \A t \in Tables : fresh'[t] \in Age
        BY <1>3, <2>4, <2>6
      <3>2. fresh' = [t \in Tables |-> fresh'[t]]
        BY <2>1
      <3> QED
        BY <3>1, <3>2
    <2> QED
      BY <1>3, <1>5, <2>4, <2>5, <2>7
  <1> QED
    BY <1>1, <1>6, <1>7 DEF Reworked

\* Stage k makes its table anew from what it reads, or in part, and resets what
\* depends on it.
Sources(k) == {ReadsOf[k], ReadsOf[k] \cup {TableOf[k]}}
LEMMA StageWork ==
    ASSUME CliTypes, NEW k \in 1 .. 13, proc.cmd = PipelineStages[k], NEW full \in BOOLEAN,
           fresh' = IF full THEN Made(proc.cmd) ELSE Part(proc.cmd)
    PROVE  /\ fresh' \in [Tables -> Age]
           /\ \E S \in Sources(k) :
                 /\ full => S = ReadsOf[k]
                 /\ \A t \in Tables :
                       fresh'[t] = IF t \in Lost(PipelineStages[k]) THEN Wiped
                                   ELSE IF k # 9 /\ t = TableOf[k] THEN Derived(S)
                                   ELSE fresh[t]
  <1>1. PICK c : c = proc.cmd
    OBVIOUS
  <1>2. c = PipelineStages[k] /\ fresh \in [Tables -> Age]
    BY <1>1 DEF CliTypes
  <1>3. c.reads = ReadsOf[k] /\ c.writes = (IF k = 9 THEN {} ELSE {TableOf[k]})
    BY <1>2, Stages, Zenon DEF StageIs
  <1>4. /\ ReadsOf[k] \subseteq Tables /\ ReadsOf[k] # {}
        /\ k # 9 => TableOf[k] \in Tables \ {"maps", "replays"}
        /\ TableOf[k] \notin Lost(c)
    BY <1>2, Tabled, LostLater
  <1>5. PICK S \in Sources(k) : S = IF full THEN ReadsOf[k] ELSE ReadsOf[k] \cup {TableOf[k]}
    BY DEF Sources
  <1>6. PICK d : d = Derived(S)
    OBVIOUS
  <1>7. Wiped \in Age /\ (k # 9 => d \in Age)
    <2>1. Wiped \in Age
      BY StagesAssumption DEF Wiped, Age, Ever
    <2>2. k # 9 => S \subseteq Tables /\ S # {}
      BY <1>4, <1>5
    <2> QED
      BY <1>2, <1>6, <2>1, <2>2, DerivedAge
  <1>8. DOMAIN fresh' = Tables /\ fresh' = [t \in Tables |-> fresh'[t]]
        /\ \A t \in Tables : fresh'[t] = (IF t \in Lost(c) THEN Wiped
                                          ELSE IF k # 9 /\ t = TableOf[k] THEN d
                                          ELSE fresh[t])
    <2>1. CASE full
      <3>1. Derived(c.reads) = d
        BY <1>3, <1>5, <1>6, <2>1
      <3>2. fresh' = [t \in Tables |->
                         CASE t \in Lost(c) -> Wiped
                           [] t \notin c.writes \cup Lost(c) -> fresh[t]
                           [] t \in c.writes /\ t = "maps" ->
                                 [m |-> Ingested(fresh[t].m), r |-> Ever]
                           [] t \in c.writes /\ t = "replays" ->
                                 [m |-> Ever, r |-> Ingested(fresh[t].r)]
                           [] OTHER -> d]
        BY <1>1, <2>1, <3>1 DEF Made
      <3> QED
        BY <1>3, <1>4, <3>2
    <2>2. CASE ~full
      <3>1. \A t : c.writes = {t} => Derived(c.reads \cup {t}) = Derived(ReadsOf[k] \cup {t})
        BY <1>3
      <3>2. k # 9 => Derived(c.reads \cup {TableOf[k]}) = d
        BY <1>3, <1>5, <1>6, <2>2, <3>1
      <3>3. fresh' = [t \in Tables |->
                         CASE t \in Lost(c) -> Wiped
                           [] t \in c.writes \ {"maps", "replays"} -> Derived(c.reads \cup {t})
                           [] OTHER -> fresh[t]]
        BY <1>1, <2>2 DEF Part
      <3> QED
        BY <1>3, <1>4, <3>2, <3>3
    <2> QED
      BY <2>1, <2>2
  <1>9. fresh' \in [Tables -> Age]
    <2>1. \A t \in Tables : fresh'[t] \in Age
      BY <1>2, <1>7, <1>8
    <2> QED
      BY <1>8, <2>1
  <1> QED
    BY <1>2, <1>5, <1>6, <1>8, <1>9

\* What any command's work does to a table.
LEMMA TableWork ==
    ASSUME CliTypes, Aged, Running, Reworked
    PROVE  /\ fresh' \in [Tables -> Age]
           /\ fresh'["maps"].m \in fresh["maps"].m .. MaxNews /\ fresh'["maps"].r = Ever
           /\ fresh'["replays"].m = Ever /\ fresh'["replays"].r \in fresh["replays"].r .. MaxNews
           /\ \A t \in Tables \ {"maps", "replays"} :
                 \/ fresh'[t] = fresh[t]
                 \/ t \in Lost(proc.cmd) /\ t \in Resettable
                 \/ \E k \in 1 .. 13 \ {9} :
                       /\ t = TableOf[k] /\ proc.cmd = PipelineStages[k]
                       /\ \E S \in Sources(k) : fresh'[t] = Derived(S)
  <1>1. /\ proc.cmd \in ByHand /\ fresh \in [Tables -> Age]
        /\ fresh["maps"].m \in 0 .. MaxNews /\ fresh["maps"].r = Ever
        /\ fresh["replays"].m = Ever /\ fresh["replays"].r \in 0 .. MaxNews
    BY DEF CliTypes, ProcRec, Aged
  <1>2. CASE fresh' = fresh
    BY <1>1, <1>2, StagesAssumption
  <1>3. CASE proc.cmd \in Aside
    BY <1>3, AsideWork
  <1>4. ASSUME NEW k \in 1 .. 13, proc.cmd = PipelineStages[k], fresh' # fresh
        PROVE  /\ fresh' \in [Tables -> Age]
               /\ fresh'["maps"] = fresh["maps"] /\ fresh'["replays"] = fresh["replays"]
               /\ \A t \in Tables \ {"maps", "replays"} :
                     \/ fresh'[t] = fresh[t]
                     \/ t \in Lost(proc.cmd) /\ t \in Resettable
                     \/ /\ k # 9 /\ t = TableOf[k]
                        /\ \E S \in Sources(k) : fresh'[t] = Derived(S)
    <2>1. PICK full \in BOOLEAN : fresh' = IF full THEN Made(proc.cmd) ELSE Part(proc.cmd)
      BY <1>4 DEF Reworked
    <2>2. /\ fresh' \in [Tables -> Age]
          /\ \E S \in Sources(k) :
                \A t \in Tables :
                    fresh'[t] = IF t \in Lost(PipelineStages[k]) THEN Wiped
                                ELSE IF k # 9 /\ t = TableOf[k] THEN Derived(S)
                                ELSE fresh[t]
      BY <1>4, <2>1, StageWork
    <2>3. PICK S \in Sources(k) :
             \A t \in Tables : fresh'[t] = IF t \in Lost(PipelineStages[k]) THEN Wiped
                                           ELSE IF k # 9 /\ t = TableOf[k] THEN Derived(S)
                                           ELSE fresh[t]
      BY <2>2
    <2>4. Lost(PipelineStages[k]) \subseteq Resettable
          /\ (k # 9 => TableOf[k] \notin {"maps", "replays"})
      BY LostLater, Tabled
    <2>5. {"maps", "replays"} \subseteq Tables \ Resettable
      BY DEF Tables, Resettable
    <2> QED
      BY <1>4, <2>2, <2>3, <2>4, <2>5
  <1>5. ASSUME NEW k \in 1 .. 13, proc.cmd = PipelineStages[k], fresh' # fresh
        PROVE  \A t \in Tables \ {"maps", "replays"} :
                     \/ fresh'[t] = fresh[t]
                     \/ t \in Lost(proc.cmd) /\ t \in Resettable
                     \/ \E j \in 1 .. 13 \ {9} :
                           /\ t = TableOf[j] /\ proc.cmd = PipelineStages[j]
                           /\ \E S \in Sources(j) : fresh'[t] = Derived(S)
    BY <1>4, <1>5
  <1>6. ASSUME NEW k \in 1 .. 13, proc.cmd = PipelineStages[k], fresh' # fresh
        PROVE  /\ fresh' \in [Tables -> Age]
               /\ fresh'["maps"].m \in fresh["maps"].m .. MaxNews /\ fresh'["maps"].r = Ever
               /\ fresh'["replays"].m = Ever
               /\ fresh'["replays"].r \in fresh["replays"].r .. MaxNews
    <2>1. /\ fresh' \in [Tables -> Age]
          /\ fresh'["maps"] = fresh["maps"] /\ fresh'["replays"] = fresh["replays"]
      BY <1>4, <1>6
    <2> QED
      BY <1>1, <2>1, StagesAssumption
  <1> QED
    BY <1>1, <1>2, <1>3, <1>5, <1>6, HandOrStage

\* A table made again, whole or in part, is no older than a bound kept by its sources
\* and by itself.
LEMMA NoOlder ==
    ASSUME fresh \in [Tables -> Age], NEW k \in 1 .. 13 \ {9}, NEW S \in Sources(k)
    PROVE  /\ Derived(S) \in Age
           /\ \A b : (\A t \in ReadsOf[k] \cup {TableOf[k]} : fresh[t].m >= b) => Derived(S).m >= b
           /\ \A b : (\A t \in ReadsOf[k] \cup {TableOf[k]} : fresh[t].r >= b) => Derived(S).r >= b
  <1>1. S \subseteq ReadsOf[k] \cup {TableOf[k]} /\ S \subseteq Tables /\ S # {}
    BY Tabled DEF Sources
  <1>2. /\ Derived(S) \in Age
        /\ \A b : (\A t \in S : fresh[t].m >= b) => Derived(S).m >= b
        /\ \A b : (\A t \in S : fresh[t].r >= b) => Derived(S).r >= b
    BY <1>1, DerivedAge
  <1> QED
    BY <1>1, <1>2

\* No command's work takes the cleaned replays and their cohorts back.
LEMMA WorkAges ==
    ASSUME CliTypes, Aged, Dated, Running, Reworked
    PROVE  /\ fresh' \in [Tables -> Age] /\ Aged'
           /\ \A i \in DOMAIN passes :
                 /\ passes[i].maps <= fresh'["maps"].m
                 /\ passes[i].replays <= fresh'["replays"].r
                 /\ fresh["clean"].r >= passes[i].replays
                       => fresh'["clean"].r >= passes[i].replays
                 /\ fresh["clean"].r >= passes[i].replays /\ fresh["cohorts"].r >= passes[i].replays
                       => fresh'["cohorts"].r >= passes[i].replays
  <1>1. /\ fresh' \in [Tables -> Age] /\ fresh \in [Tables -> Age]
        /\ fresh'["maps"].m \in fresh["maps"].m .. MaxNews /\ fresh'["maps"].r = Ever
        /\ fresh'["replays"].m = Ever /\ fresh'["replays"].r \in fresh["replays"].r .. MaxNews
    BY TableWork DEF CliTypes
  <1>2. \A t \in Tables \ {"maps", "replays"} :
           t \notin Resettable =>
              \/ fresh'[t] = fresh[t]
              \/ \E k \in 1 .. 13 \ {9} :
                    /\ t = TableOf[k] /\ \E S \in Sources(k) : fresh'[t] = Derived(S)
    BY TableWork
  <1>3. /\ MaxNews \in Nat /\ Ever = MaxNews + 1
        /\ fresh["maps"].m \in 0 .. MaxNews /\ fresh["replays"].r \in 0 .. MaxNews
        /\ fresh["replays"].m = Ever
    BY StagesAssumption DEF Ever, Aged
  <1>4. fresh'["maps"].m \in 0 .. MaxNews /\ fresh'["replays"].r \in 0 .. MaxNews
    BY <1>1, <1>3
  <1>5. "clean" \in Tables \ ({"maps", "replays"} \cup Resettable)
        /\ "cohorts" \in Tables \ ({"maps", "replays"} \cup Resettable)
    BY DEF Tables, Resettable
  <1>6. /\ ReadsOf[10] \cup {TableOf[10]} = {"replays", "clean"}
        /\ ReadsOf[11] \cup {TableOf[11]} = {"clean", "cohorts"}
    BY DEF ReadsOf, TableOf
  <1>7. \/ fresh'["clean"] = fresh["clean"]
        \/ \E S \in Sources(10) : fresh'["clean"] = Derived(S)
    <2>1. \A k \in 1 .. 13 \ {9} : "clean" = TableOf[k] => k = 10
      BY Tabled
    <2> QED
      BY <1>2, <1>5, <2>1
  <1>8. \/ fresh'["cohorts"] = fresh["cohorts"]
        \/ \E S \in Sources(11) : fresh'["cohorts"] = Derived(S)
    <2>1. \A k \in 1 .. 13 \ {9} : "cohorts" = TableOf[k] => k = 11
      BY Tabled
    <2> QED
      BY <1>2, <1>5, <2>1
  <1>9. /\ \A b : fresh["replays"].m >= b /\ fresh["clean"].m >= b => fresh'["clean"].m >= b
        /\ \A b : fresh["replays"].r >= b /\ fresh["clean"].r >= b => fresh'["clean"].r >= b
    <2>1. CASE fresh'["clean"] = fresh["clean"]
      BY <2>1
    <2>2. ASSUME NEW S \in Sources(10), fresh'["clean"] = Derived(S)
          PROVE  /\ \A b : fresh["replays"].m >= b /\ fresh["clean"].m >= b => fresh'["clean"].m >= b
                 /\ \A b : fresh["replays"].r >= b /\ fresh["clean"].r >= b => fresh'["clean"].r >= b
      <3>1. 10 \in 1 .. 13 \ {9}
        OBVIOUS
      <3> QED
        BY <1>1, <1>6, <2>2, <3>1, NoOlder
    <2> QED
      BY <1>7, <2>1, <2>2
  <1>10. /\ \A b : fresh["clean"].m >= b /\ fresh["cohorts"].m >= b => fresh'["cohorts"].m >= b
         /\ \A b : fresh["clean"].r >= b /\ fresh["cohorts"].r >= b => fresh'["cohorts"].r >= b
    <2>1. CASE fresh'["cohorts"] = fresh["cohorts"]
      BY <2>1
    <2>2. ASSUME NEW S \in Sources(11), fresh'["cohorts"] = Derived(S)
          PROVE  /\ \A b : fresh["clean"].m >= b /\ fresh["cohorts"].m >= b
                              => fresh'["cohorts"].m >= b
                 /\ \A b : fresh["clean"].r >= b /\ fresh["cohorts"].r >= b
                              => fresh'["cohorts"].r >= b
      <3>1. 11 \in 1 .. 13 \ {9}
        OBVIOUS
      <3> QED
        BY <1>1, <1>6, <2>2, <3>1, NoOlder
    <2> QED
      BY <1>8, <2>1, <2>2
  <1>11. fresh'["clean"].m = Ever /\ fresh'["cohorts"].m = Ever
    <2>1. fresh["clean"].m = Ever /\ fresh["cohorts"].m = Ever
      BY DEF Aged
    <2>2. fresh'["clean"].m >= Ever /\ fresh'["cohorts"].m >= Ever
      BY <1>3, <1>9, <1>10, <2>1
    <2>3. fresh'["clean"].m \in -1 .. Ever /\ fresh'["cohorts"].m \in -1 .. Ever
      BY <1>1, <1>5 DEF Age
    <2> QED
      BY <1>3, <2>2, <2>3
  <1>12. \A t \in Tables \ Resettable : fresh'[t].m >= 0 /\ fresh'[t].r >= 0
    <2> SUFFICES ASSUME NEW t \in Tables \ Resettable
                 PROVE  fresh'[t].m >= 0 /\ fresh'[t].r >= 0
      OBVIOUS
    <2>1. CASE t \in {"maps", "replays"}
      BY <1>1, <1>3, <1>4, <2>1
    <2>2. CASE fresh'[t] = fresh[t]
      BY <2>2 DEF Aged
    <2>3. ASSUME NEW k \in 1 .. 13 \ {9}, t = TableOf[k],
                 NEW S \in Sources(k), fresh'[t] = Derived(S)
          PROVE  fresh'[t].m >= 0 /\ fresh'[t].r >= 0
      <3>1. ReadsOf[k] \cap Resettable = {} /\ ReadsOf[k] \subseteq Tables
        BY <2>3, Tabled
      <3>2. \A u \in ReadsOf[k] \cup {TableOf[k]} : fresh[u].m >= 0 /\ fresh[u].r >= 0
        BY <2>3, <3>1 DEF Aged
      <3> QED
        BY <1>1, <2>3, <3>2, NoOlder
    <2> QED
      BY <1>2, <2>1, <2>2, <2>3
  <1>13. ASSUME NEW i \in DOMAIN passes
         PROVE  /\ passes[i].maps <= fresh'["maps"].m
                /\ passes[i].replays <= fresh'["replays"].r
                /\ fresh["clean"].r >= passes[i].replays
                      => fresh'["clean"].r >= passes[i].replays
                /\ fresh["clean"].r >= passes[i].replays /\ fresh["cohorts"].r >= passes[i].replays
                      => fresh'["cohorts"].r >= passes[i].replays
    <2>1. passes[i] \in PassRec
      BY DEF CliTypes
    <2>2. PICK x \in 0 .. MaxNews : x = passes[i].maps
      BY <2>1 DEF PassRec
    <2>3. PICK y \in 0 .. MaxNews : y = passes[i].replays
      BY <2>1 DEF PassRec
    <2>4. x <= fresh["maps"].m /\ y <= fresh["replays"].r
      BY <2>2, <2>3 DEF Dated
    <2>5. x <= fresh'["maps"].m /\ y <= fresh'["replays"].r
      BY <1>1, <1>3, <2>4
    <2>6. fresh["replays"].r >= y
      BY <1>3, <2>4
    <2> QED
      BY <1>9, <1>10, <2>2, <2>3, <2>5, <2>6
  <1> QED
    BY <1>1, <1>4, <1>11, <1>12, <1>13 DEF Aged

-----------------------------------------------------------------------------
(* What a step can be.                                                     *)

Here == [stage |-> proc.cmd.name, pass |-> ThisPass]
Bad == Statuses \ {"success"}

Still ==
    /\ UNCHANGED <<fresh, behind, line, lineExit, passes>>
    /\ Running => Running' /\ proc'.status = proc.status
    /\ ~Running => proc'.status = "none"
Opened ==
    /\ line = 0 /\ ~Running /\ proc'.status = "none"
    /\ UNCHANGED <<fresh, behind, line, lineExit>>
    /\ passes' \in {passes, [passes EXCEPT ![Len(passes)].redone = TRUE]}
Ended ==
    /\ Running
    /\ \E rc \in Nat :
          /\ Exit(rc) /\ (line > 0 /\ rc = 0 => proc.status = "success")
          /\ rc = 0 => fresh' = fresh /\ behind' = behind
          /\ Reworked
          /\ behind' \in {behind, behind \cup {Here}}
Worked ==
    /\ Running /\ Running' /\ UNCHANGED <<line, lineExit, passes>> /\ proc.status = "none"
    /\ \E s \in DOMAIN proc.cmd.status :
          /\ Outcome(s) /\ proc'.status = proc.cmd.status[s] /\ proc'.status \in Statuses
          /\ \/ behind' = behind
             \/ proc'.status \in Bad /\ behind' = behind \cup {Here}
PassSkips ==
    /\ line = 13 /\ line' = 0 /\ lineExit' = 0 /\ ~Running
    /\ UNCHANGED <<fresh, behind, passes, proc>>

Steps == Sound' /\ (Still \/ Opened \/ Ended \/ Worked \/ PassSkips \/ StartPipeline)

LEMMA OrphansKept ==
    ASSUME Sound, CliTypes'
    PROVE  /\ Left(stageRuns', proc'.row) \subseteq Left(stageRuns, proc.row)
                 /\ spent'.losses \in {spent.losses, spent.losses + 1} => OrphanRowsExplained'
           /\ Left(stageRuns', proc'.row) \subseteq Left(stageRuns, proc.row) \cup {proc.row}
                 /\ spent'.losses = spent.losses + 1 => OrphanRowsExplained'
  <1>1. PICK n \in Nat : n = spent.losses
    BY DEF Sound, CliTypes
  <1>2. PICK runs \in Seq(RunRec) : runs = stageRuns
    BY DEF Sound, CliTypes
  <1>3. PICK new \in Seq(RunRec) : new = stageRuns'
    BY DEF CliTypes
  <1>4. PICK x : x = proc'.row
    OBVIOUS
  <1>5. Orphans = Left(runs, proc.row) /\ Orphans' = Left(new, x)
    BY <1>2, <1>3, <1>4 DEF Orphans, Left
  <1>6. Cardinality(Left(runs, proc.row)) <= n
    BY <1>1, <1>5 DEF Sound, OrphanRowsExplained
  <1>7. ASSUME Left(new, x) \subseteq Left(runs, proc.row), spent'.losses \in {n, n + 1}
        PROVE  OrphanRowsExplained'
    <2>1. Cardinality(Left(new, x)) <= n
      BY <1>6, <1>7, LeftBehind
    <2>2. Cardinality(Left(new, x)) \in Nat
      BY <1>1, LeftFinite
    <2> QED
      BY <1>1, <1>5, <1>7, <2>1, <2>2 DEF OrphanRowsExplained
  <1>8. ASSUME Left(new, x) \subseteq Left(runs, proc.row) \cup {proc.row}, spent'.losses = n + 1
        PROVE  OrphanRowsExplained'
    <2>1. Cardinality(Left(new, x)) <= n + 1
      BY <1>6, <1>8, LeftBehind
    <2> QED
      BY <1>1, <1>5, <1>8, <2>1 DEF OrphanRowsExplained
  <1> QED
    BY <1>1, <1>2, <1>3, <1>4, <1>7, <1>8

\* A step that changes no row, and lets no command go on to another row or status.
LEMMA LogKept ==
    ASSUME Sound, UNCHANGED <<stageRuns, behind>>,
           \/ proc'.row = 0
           \/ /\ proc'.row = proc.row /\ proc'.cmd = proc.cmd /\ proc'.status = proc.status
              /\ UNCHANGED <<line, passes>>
    PROVE  RowKept' /\ OwedKept'
  <1>1. UNCHANGED <<line, passes>> => ThisPass' = ThisPass
    BY DEF ThisPass
  <1>2. RowKept'
    BY <1>1 DEF Sound, RowKept
  <1>3. \A i \in DOMAIN stageRuns : i # 0
    BY DEF Sound, CliTypes
  <1>4. OwedKept'
    BY <1>3 DEF Sound, OwedKept
  <1> QED
    BY <1>2, <1>4

\* A step that only goes on.
LEMMA GoesOn ==
    ASSUME Sound, Running, proc.pc <= Len(proc.cmd.steps), Kind \notin {"open", "work", "close"},
           Advance, NoFault, UNCHANGED <<stageRuns, fresh, behind, line, lineExit, passes>>
    PROVE  Steps
  <1>1. proc' = [proc EXCEPT !.pc = @ + 1] /\ proc \in ProcRec
    BY DEF Advance, Sound, CliTypes
  <1>2. /\ proc' \in ProcRec /\ proc'.cmd = proc.cmd /\ proc'.pc = proc.pc + 1
        /\ proc'.row = proc.row /\ proc'.status = proc.status
    BY <1>1 DEF ProcRec
  <1>3. stageRuns' \in Seq(RunRec) /\ fresh' \in [Tables -> Age] /\ spent \in SpentRec
    BY DEF Sound, CliTypes, SpentRec
  <1>4. spent' \in SpentRec /\ spent'.losses = spent.losses
    BY <1>3, Spending
  <1>5. CliTypes'
    BY <1>2, <1>3, <1>4, Onward DEF Sound
  <1>6. Left(stageRuns', proc'.row) \subseteq Left(stageRuns, proc.row)
    BY <1>2
  <1>7. OrphanRowsExplained'
    BY <1>4, <1>5, <1>6, OrphansKept
  <1>8. RowKept' /\ OwedKept'
    BY <1>2, LogKept
  <1>9. Still
    BY <1>1, <1>2 DEF Still, Running, ProcRec
  <1> QED
    BY <1>5, <1>7, <1>8, <1>9 DEF Steps, Sound

\* The rows but the running command's are kept; its own may take its status.
RowsKept ==
    /\ DOMAIN stageRuns' = DOMAIN stageRuns
    /\ \A i \in DOMAIN stageRuns :
          /\ stageRuns'[i].stage = stageRuns[i].stage /\ stageRuns'[i].pass = stageRuns[i].pass
          /\ \/ stageRuns'[i].status = stageRuns[i].status
             \/ i = proc.row /\ stageRuns'[i].status \in {"failed", proc.status}

\* A step that ends the command.
LEMMA Ends ==
    ASSUME Sound, Running, NEW rc \in Nat, Exit(rc), stageRuns' \in Seq(RunRec), RowsKept,
           Reworked, fresh' \in [Tables -> Age],
           rc = 0 => fresh' = fresh /\ behind' = behind,
           \/ behind' = behind
           \/ /\ behind' = behind \cup {Here}
              /\ proc.row # 0 /\ stageRuns'[proc.row].status # "success",
           line > 0 /\ rc = 0 => proc.status = "success",
           \/ Left(stageRuns', 0) \subseteq Left(stageRuns, proc.row) /\ (Error \/ NoFault)
           \/ stageRuns' = stageRuns /\ Loss
    PROVE  Steps
  <1>1. spent \in SpentRec
    BY DEF Sound, CliTypes, SpentRec
  <1>2. spent' \in SpentRec
    BY <1>1, Spending
  <1>3. CliTypes'
    BY <1>2, ExitTypes DEF Sound
  <1>4. proc'.row = 0
    BY IdleRests DEF Exit
  <1>5. OrphanRowsExplained'
    <2>1. CASE Left(stageRuns', 0) \subseteq Left(stageRuns, proc.row) /\ (Error \/ NoFault)
      <3>1. spent'.losses = spent.losses
        BY <1>1, <2>1, Spending
      <3> QED
        BY <1>3, <1>4, <2>1, <3>1, OrphansKept
    <2>2. CASE stageRuns' = stageRuns /\ Loss
      <3>1. spent'.losses = spent.losses + 1
        BY <1>1, <2>2, Spending
      <3>2. Left(stageRuns', proc'.row) \subseteq Left(stageRuns, proc.row) \cup {proc.row}
        BY <1>4, <2>2 DEF Left
      <3> QED
        BY <1>3, <3>1, <3>2, OrphansKept
    <2> QED
      BY <2>1, <2>2
  <1>6. Ended
    BY DEF Ended
  <1>7. RowKept'
    BY <1>4 DEF RowKept
  <1>8. OwedKept'
    <2>1. \A i \in DOMAIN stageRuns : i # proc'.row
      BY <1>4 DEF Sound, CliTypes
    <2>2. ASSUME NEW b \in behind
          PROVE  \E i \in DOMAIN stageRuns' :
                    /\ stageRuns'[i].stage = b.stage /\ stageRuns'[i].pass = b.pass
                    /\ stageRuns'[i].status # "success" /\ i # proc'.row
      <3>1. PICK i \in DOMAIN stageRuns :
                /\ stageRuns[i].stage = b.stage /\ stageRuns[i].pass = b.pass
                /\ stageRuns[i].status # "success"
                /\ i = proc.row => proc.status \notin {"success", "none"}
        BY DEF Sound, OwedKept
      <3>2. stageRuns'[i].status # "success"
        BY <3>1 DEF RowsKept
      <3> QED
        BY <2>1, <3>1, <3>2 DEF RowsKept
    <2>3. ASSUME behind' = behind \cup {Here}, proc.row # 0,
                 stageRuns'[proc.row].status # "success"
          PROVE  \E i \in DOMAIN stageRuns' :
                    /\ stageRuns'[i].stage = Here.stage /\ stageRuns'[i].pass = Here.pass
                    /\ stageRuns'[i].status # "success" /\ i # proc'.row
      <3>1. /\ proc.row \in DOMAIN stageRuns
            /\ stageRuns[proc.row] = [stage |-> proc.cmd.name, pass |-> ThisPass,
                                      status |-> "running"]
        BY <2>3 DEF Sound, RowKept
      <3>2. /\ proc.row \in DOMAIN stageRuns' /\ proc.row # proc'.row
            /\ stageRuns'[proc.row].stage = Here.stage
            /\ stageRuns'[proc.row].pass = Here.pass
        BY <1>4, <2>3, <3>1 DEF RowsKept, Here
      <3> QED
        BY <2>3, <3>2
    <2> QED
      BY <2>2, <2>3 DEF OwedKept
  <1> QED
    BY <1>3, <1>5, <1>6, <1>7, <1>8 DEF Steps, Sound

LEMMA SameRows ==
    ASSUME stageRuns' = stageRuns
    PROVE  RowsKept
  BY DEF RowsKept

\* What is left behind is left by a command whose row is open.
LEMMA LeftOnRow ==
    ASSUME Sound, Running, LeavesBehind
    PROVE  \/ behind' = behind
           \/ /\ behind' = behind \cup {Here} /\ proc.row # 0
              /\ proc.row \in DOMAIN stageRuns /\ stageRuns[proc.row].status = "running"
  <1>1. CASE AtStep("work") /\ proc.cmd.name \in TakenOnce
    <2>1. behind' \in {behind, behind \cup {Here}}
      BY <1>1 DEF LeavesBehind, Here
    <2>2. proc.row # 0
      BY <1>1, RowOpen DEF Sound
    <2> QED
      BY <2>1, <2>2 DEF Sound, RowKept
  <1>2. CASE ~(AtStep("work") /\ proc.cmd.name \in TakenOnce)
    BY <1>2 DEF LeavesBehind
  <1> QED
    BY <1>1, <1>2

LEMMA GateSteps ==
    ASSUME Sound, NEW k \in {"uncached", "poll", "check", "need", "connect", "snapshot"},
           NEW rc \in {1, 2}, Gate(k, rc)
    PROVE  Steps
  <1>1. /\ Running /\ proc.pc <= Len(proc.cmd.steps) /\ Kind = k
        /\ stageRuns' = stageRuns /\ fresh' = fresh /\ behind' = behind
    BY DEF Gate, AtStep
  <1>2. proc.row = 0 /\ stageRuns \in Seq(RunRec) /\ fresh' \in [Tables -> Age]
    BY <1>1, RowOpen DEF Sound, CliTypes
  <1>3. CASE Advance /\ NoFault /\ UNCHANGED <<line, lineExit, passes>>
    BY <1>1, <1>3, GoesOn
  <1>4. CASE Exit(rc) /\ Error
    <2>1. Left(stageRuns', 0) \subseteq Left(stageRuns, proc.row)
      BY <1>1, <1>2
    <2> QED
      BY <1>1, <1>2, <1>4, <2>1, Ends, SameRows DEF Reworked
  <1> QED
    BY <1>3, <1>4 DEF Gate

LEMMA ModelSteps ==
    ASSUME Sound, LoadModelFromReport
    PROVE  Steps
  <1>1. /\ Running /\ proc.pc <= Len(proc.cmd.steps) /\ Kind = "model"
        /\ stageRuns' = stageRuns /\ fresh' = fresh /\ behind' = behind /\ NoFault
    BY DEF LoadModelFromReport, AtStep, NoFault
  <1>2. proc.row = 0 /\ stageRuns \in Seq(RunRec) /\ fresh' \in [Tables -> Age]
    BY <1>1, RowOpen DEF Sound, CliTypes
  <1>3. CASE Advance /\ UNCHANGED <<line, lineExit, passes>>
    BY <1>1, <1>3, GoesOn
  <1>4. CASE Exit(1)
    <2>1. Left(stageRuns', 0) \subseteq Left(stageRuns, proc.row)
      BY <1>1, <1>2
    <2> QED
      BY <1>1, <1>2, <1>4, <2>1, Ends, SameRows DEF Reworked
  <1> QED
    BY <1>3, <1>4 DEF LoadModelFromReport

LEMMA OpenSteps ==
    ASSUME Sound, OpenStageRun
    PROVE  Steps
  <1>1. /\ Running /\ proc.pc <= Len(proc.cmd.steps) /\ Kind = "open"
        /\ UNCHANGED <<fresh, behind, line, lineExit, passes>> /\ NoFault
    BY DEF OpenStageRun, AtStep, NoFault
  <1>2. /\ proc.row = 0 /\ stageRuns \in Seq(RunRec) /\ proc \in ProcRec
        /\ passes \in Seq(PassRec) /\ spent \in SpentRec /\ fresh' \in [Tables -> Age]
    BY <1>1, RowOpen DEF Sound, CliTypes, SpentRec
  <1>3. PICK r : r = [stage |-> proc.cmd.name, pass |-> ThisPass, status |-> "running"]
    OBVIOUS
  <1>4. r \in RunRec /\ stageRuns' = Append(stageRuns, r)
    <2>1. proc.cmd.name \in {c.name : c \in ByHand}
      BY <1>2 DEF ProcRec
    <2>2. ThisPass \in Nat
      BY <1>2 DEF ThisPass
    <2> QED
      BY <1>3, <2>1, <2>2 DEF RunRec, OpenStageRun
  <1>5. proc' = [proc EXCEPT !.pc = @ + 1, !.row = Len(stageRuns) + 1]
    BY DEF OpenStageRun
  <1>6. /\ proc' \in ProcRec /\ proc'.cmd = proc.cmd /\ proc'.pc = proc.pc + 1
        /\ proc'.row = Len(stageRuns) + 1 /\ proc'.status = proc.status
    <2>1. PICK n \in Nat : n = Len(stageRuns) + 1
      BY <1>2
    <2>2. PICK m \in Nat : m = proc.pc + 1
      BY <1>2 DEF ProcRec
    <2>3. proc' = [proc EXCEPT !.pc = m, !.row = n]
      BY <1>5, <2>1, <2>2, Zenon
    <2>4. /\ proc'.pc = m /\ proc'.row = n /\ proc'.status = proc.status /\ proc'.cmd = proc.cmd
          /\ proc' = [pc |-> m, row |-> n, status |-> proc.status, cmd |-> proc.cmd]
      BY <1>2, <2>3 DEF ProcRec
    <2>5. proc.status \in Statuses \cup {"none"} /\ proc.cmd \in ByHand
      BY <1>2 DEF ProcRec
    <2>6. proc' \in ProcRec
      BY <2>1, <2>2, <2>4, <2>5 DEF ProcRec
    <2> QED
      BY <2>1, <2>2, <2>4, <2>6
  <1>7. stageRuns' \in Seq(RunRec)
    BY <1>2, <1>4
  <1>8. spent' \in SpentRec /\ spent'.losses = spent.losses
    BY <1>1, <1>2, Spending
  <1>9. CliTypes'
    <2>1. proc'.row # 0
      BY <1>2, <1>6
    <2> QED
      BY <1>1, <1>2, <1>6, <1>7, <1>8, <2>1, Onward DEF Sound
  <1>10. Left(stageRuns', proc'.row) \subseteq Left(stageRuns, proc.row)
    BY <1>2, <1>4, <1>6 DEF Left
  <1>11. OrphanRowsExplained'
    BY <1>8, <1>9, <1>10, OrphansKept
  <1>12. Still
    BY <1>1, <1>2, <1>6 DEF Still, Running, ProcRec
  <1>13. DOMAIN stageRuns' = 1 .. Len(stageRuns) + 1 /\ stageRuns'[Len(stageRuns) + 1] = r
         /\ \A i \in DOMAIN stageRuns : stageRuns'[i] = stageRuns[i] /\ i # proc'.row
                                        /\ i \in DOMAIN stageRuns'
    BY <1>2, <1>4, <1>6
  <1>14. RowKept'
    <2>1. ThisPass' = ThisPass
      BY <1>1 DEF ThisPass
    <2>2. Len(stageRuns) + 1 \in 1 .. Len(stageRuns) + 1
      BY <1>2
    <2> QED
      BY <1>3, <1>6, <1>13, <2>1, <2>2 DEF RowKept
  <1>15. OwedKept'
    BY <1>1, <1>13 DEF Sound, OwedKept
  <1> QED
    BY <1>9, <1>11, <1>12, <1>14, <1>15 DEF Steps, Sound

LEMMA WriteSteps ==
    ASSUME Sound, TruncateFile \/ WriteFile
    PROVE  Steps
  <1>1. /\ Running /\ proc.pc <= Len(proc.cmd.steps) /\ Kind \in {"truncate", "write"}
        /\ stageRuns' = stageRuns /\ fresh' = fresh /\ behind' = behind
    BY DEF TruncateFile, WriteFile, AtStep
  <1>2. stageRuns \in Seq(RunRec) /\ fresh' \in [Tables -> Age]
    BY <1>1 DEF Sound, CliTypes
  <1>3. CASE Advance /\ NoFault /\ UNCHANGED <<line, lineExit, passes>>
    BY <1>1, <1>3, GoesOn
  <1>4. CASE Exit(1) /\ Loss
    BY <1>1, <1>2, <1>4, Ends, SameRows DEF Reworked
  <1> QED
    BY <1>3, <1>4 DEF TruncateFile, WriteFile

LEMMA RaiseSteps ==
    ASSUME Sound, Held, RaiseWork
    PROVE  Steps
  <1>1. /\ Running /\ Reworked /\ LeavesBehind /\ Error /\ Exit(1)
        /\ stageRuns' = [i \in DOMAIN stageRuns |->
                            IF i = proc.row
                            THEN [stageRuns[i] EXCEPT !.status = "failed"]
                            ELSE stageRuns[i]]
    BY DEF RaiseWork, AtStep, Reworked
  <1>2. stageRuns \in Seq(RunRec)
    BY DEF Sound, CliTypes
  <1>3. \A x \in RunRec : /\ [x EXCEPT !.status = "failed"] \in RunRec
                          /\ [x EXCEPT !.status = "failed"].status = "failed"
                          /\ [x EXCEPT !.status = "failed"].stage = x.stage
                          /\ [x EXCEPT !.status = "failed"].pass = x.pass
    BY DEF RunRec, Statuses
  <1>4. /\ DOMAIN stageRuns' = DOMAIN stageRuns
        /\ \A i \in DOMAIN stageRuns :
              /\ stageRuns'[i] \in RunRec
              /\ stageRuns'[i].status = "running" =>
                    i # proc.row /\ stageRuns[i].status = "running"
              /\ stageRuns'[i].stage = stageRuns[i].stage /\ stageRuns'[i].pass = stageRuns[i].pass
              /\ \/ stageRuns'[i].status = stageRuns[i].status
                 \/ i = proc.row /\ stageRuns'[i].status = "failed"
    <2>1. \A i \in DOMAIN stageRuns : stageRuns[i] \in RunRec
      BY <1>2
    <2> QED
      BY <1>1, <1>3, <2>1
  <1>5. stageRuns' \in Seq(RunRec)
    <2>1. DOMAIN stageRuns' = 1 .. Len(stageRuns) /\ Len(stageRuns) \in Nat
      BY <1>2, <1>4
    <2>2. \A i \in 1 .. Len(stageRuns) : stageRuns'[i] \in RunRec
      BY <1>4, <2>1
    <2>3. stageRuns' = [i \in 1 .. Len(stageRuns) |-> stageRuns'[i]]
      BY <1>1, <1>4, <2>1
    <2> QED
      BY <2>1, <2>2, <2>3
  <1>6. Left(stageRuns', 0) \subseteq Left(stageRuns, proc.row)
    BY <1>4 DEF Left
  <1>7. RowsKept
    BY <1>4 DEF RowsKept
  <1>8. fresh' \in [Tables -> Age]
    BY <1>1, TableWork DEF Sound, Held, Kept
  <1>9. \/ behind' = behind
        \/ /\ behind' = behind \cup {Here}
           /\ proc.row # 0 /\ stageRuns'[proc.row].status # "success"
    BY <1>1, <1>4, LeftOnRow
  <1> QED
    BY <1>1, <1>5, <1>6, <1>7, <1>8, <1>9, Ends

LEMMA CloseSteps ==
    ASSUME Sound, CloseStageRun
    PROVE  Steps
  <1>1. Running /\ fresh' = fresh /\ behind' = behind
    BY DEF CloseStageRun, AtStep
  <1>2. stageRuns \in Seq(RunRec) /\ proc \in ProcRec /\ fresh' \in [Tables -> Age] /\ Reworked
    BY <1>1 DEF Sound, CliTypes, Reworked
  <1>3. CASE Loss /\ UNCHANGED stageRuns /\ Exit(1)
    BY <1>1, <1>2, <1>3, Ends, SameRows
  <1>4. CASE /\ NoFault
             /\ stageRuns' = [stageRuns EXCEPT ![proc.row].status = proc.status]
             /\ Exit(IF proc.status = "success" THEN 0 ELSE 1)
    <2>1. PICK st \in Statuses \cup {"none"} : st = proc.status
      BY <1>2 DEF ProcRec
    <2>2. stageRuns' = [stageRuns EXCEPT ![proc.row].status = st]
      BY <1>4, <2>1
    <2>3. /\ stageRuns' \in Seq(RunRec) /\ RowsKept
          /\ Left(stageRuns', 0) \subseteq Left(stageRuns, proc.row)
      <3>1. CASE proc.row \in DOMAIN stageRuns
        <4>1. PICK x : x = [stageRuns[proc.row] EXCEPT !.status = st]
          OBVIOUS
        <4>2. stageRuns[proc.row] \in RunRec
          BY <1>2, <3>1
        <4>3. /\ x \in RunRec /\ x.status = st /\ st # "running"
              /\ x.stage = stageRuns[proc.row].stage /\ x.pass = stageRuns[proc.row].pass
          BY <2>1, <4>1, <4>2 DEF RunRec, Statuses
        <4>4. stageRuns' = [stageRuns EXCEPT ![proc.row] = x]
          BY <2>2, <4>1, Zenon
        <4>5. stageRuns' \in Seq(RunRec)
          BY <1>2, <3>1, <4>3, <4>4
        <4>6. Left(stageRuns', 0) \subseteq Left(stageRuns, proc.row)
          BY <1>2, <4>3, <4>4 DEF Left
        <4>7. RowsKept
          BY <2>1, <3>1, <4>3, <4>4 DEF RowsKept
        <4> QED
          BY <4>5, <4>6, <4>7
      <3>2. CASE proc.row \notin DOMAIN stageRuns
        <4>1. stageRuns' = stageRuns
          BY <1>2, <2>2, <3>2
        <4> QED
          BY <1>2, <3>2, <4>1, SameRows DEF Left
      <3> QED
        BY <3>1, <3>2
    <2>4. CASE proc.status = "success"
      BY <1>1, <1>2, <1>4, <2>3, <2>4, Ends
    <2>5. CASE proc.status # "success"
      <3>1. Exit(1) /\ 1 # 0 /\ NoFault
        BY <1>4, <2>5
      <3> QED
        BY <1>1, <1>2, <2>3, <3>1, Ends
    <2> QED
      BY <2>4, <2>5
  <1> QED
    BY <1>3, <1>4 DEF CloseStageRun

LEMMA ReturnSteps ==
    ASSUME Sound, ReturnStatus
    PROVE  Steps
  <1>1. /\ Running /\ proc.pc > Len(proc.cmd.steps) /\ NoFault
        /\ fresh' = fresh /\ stageRuns' = stageRuns /\ behind' = behind
        /\ Exit(IF proc.status \in {"success", "none"} THEN 0 ELSE 1)
    BY DEF ReturnStatus
  <1>2. /\ stageRuns \in Seq(RunRec) /\ proc.row = 0 /\ (line > 0 => proc.status # "none")
        /\ fresh' \in [Tables -> Age] /\ Reworked /\ RowsKept
    BY <1>1, RowOpen, SameRows DEF Sound, CliTypes, Reworked
  <1>3. Left(stageRuns', 0) \subseteq Left(stageRuns, proc.row)
    BY <1>1, <1>2
  <1>4. CASE proc.status \in {"success", "none"}
    BY <1>1, <1>2, <1>3, <1>4, Ends
  <1>5. CASE proc.status \notin {"success", "none"}
    BY <1>1, <1>2, <1>3, <1>5, Ends
  <1> QED
    BY <1>4, <1>5

LEMMA KillSteps ==
    ASSUME Sound, Held, KillCommand
    PROVE  Steps
  <1>1. /\ Running /\ Loss /\ Exit(137)
        /\ Reworked /\ stageRuns' = stageRuns
    BY DEF KillCommand, Reworked
  <1>2. stageRuns \in Seq(RunRec)
    BY DEF Sound, CliTypes
  <1>3. fresh' \in [Tables -> Age]
    BY <1>1, TableWork DEF Sound, Held, Kept
  <1>4. \/ behind' = behind
        \/ /\ behind' = behind \cup {Here}
           /\ proc.row # 0 /\ stageRuns'[proc.row].status # "success"
    BY <1>1, LeftOnRow DEF KillCommand
  <1> QED
    BY <1>1, <1>2, <1>3, <1>4, Ends, SameRows

LEMMA WorkSteps ==
    ASSUME Sound, Held, RunWork
    PROVE  Steps
  <1>1. /\ Running /\ proc.pc <= Len(proc.cmd.steps) /\ Kind = "work" /\ AtStep("work")
        /\ stageRuns' = stageRuns /\ line' = line /\ passes' = passes /\ lineExit' = lineExit
    BY DEF RunWork, AtStep
  <1>2. PICK s \in DOMAIN proc.cmd.status :
            /\ IF s.errors THEN Error ELSE NoFault
            /\ proc' = [proc EXCEPT !.pc = @ + 1, !.status = proc.cmd.status[s]]
            /\ Outcome(s)
            /\ IF s.errors THEN LeavesBehind ELSE UNCHANGED behind
    BY Zenon DEF RunWork, Outcome
  <1>3. /\ stageRuns \in Seq(RunRec) /\ proc \in ProcRec /\ spent \in SpentRec
        /\ proc.cmd \in ByHand
    BY DEF Sound, CliTypes, SpentRec, ProcRec
  <1>4. PICK st \in Statuses : st = proc.cmd.status[s]
    BY <1>3, KnownProper DEF Proper
  <1>5. /\ proc' \in ProcRec /\ proc'.cmd = proc.cmd /\ proc'.pc = proc.pc + 1
        /\ proc'.row = proc.row /\ proc'.status = st
    <2>1. PICK m \in Nat : m = proc.pc + 1
      BY <1>3 DEF ProcRec
    <2>2. proc' = [proc EXCEPT !.pc = m, !.status = st]
      BY <1>2, <1>4, <2>1, Zenon
    <2>3. /\ proc'.pc = m /\ proc'.row = proc.row /\ proc'.status = st /\ proc'.cmd = proc.cmd
          /\ proc' = [pc |-> m, row |-> proc.row, status |-> st, cmd |-> proc.cmd]
      BY <1>3, <2>2 DEF ProcRec
    <2>4. proc.row \in Nat /\ proc.cmd \in ByHand
      BY <1>3 DEF ProcRec
    <2>5. proc' \in ProcRec
      BY <2>1, <2>3, <2>4 DEF ProcRec
    <2> QED
      BY <2>1, <2>3, <2>5
  <1>6. fresh' \in [Tables -> Age]
    <2>1. Reworked
      BY <1>2 DEF Outcome, Reworked
    <2> QED
      BY <1>1, <2>1, TableWork DEF Sound, Held, Kept
  <1>7. spent' \in SpentRec /\ spent'.losses = spent.losses
    BY <1>2, <1>3, Spending
  <1>8. CliTypes'
    BY <1>1, <1>3, <1>5, <1>6, <1>7, Onward DEF Sound
  <1>9. Left(stageRuns', proc'.row) \subseteq Left(stageRuns, proc.row)
    BY <1>1, <1>5
  <1>10. OrphanRowsExplained'
    BY <1>7, <1>8, <1>9, OrphansKept
  <1>11. proc.status = "none" /\ (proc.cmd.name \in TakenOnce => proc.row # 0)
    BY <1>1, RowOpen DEF Sound
  <1>12. \/ behind' = behind
         \/ st \in Bad /\ behind' = behind \cup {Here} /\ proc.row # 0
    <2>1. CASE s.errors /\ proc.cmd.name \in TakenOnce
      <3>1. st \in Bad
        BY <1>3, <1>4, <2>1, TakenRecorded DEF Bad
      <3>2. behind' \in {behind, behind \cup {Here}}
        BY <1>1, <1>2, <2>1 DEF LeavesBehind, Here
      <3> QED
        BY <1>11, <2>1, <3>1, <3>2
    <2>2. CASE ~(s.errors /\ proc.cmd.name \in TakenOnce)
      BY <1>2, <2>2 DEF LeavesBehind
    <2> QED
      BY <2>1, <2>2
  <1>13. Worked
    <2>1. Running'
      BY <1>1, <1>3, <1>5 DEF Running, ProcRec
    <2> QED
      BY <1>1, <1>2, <1>4, <1>5, <1>11, <1>12, <2>1 DEF Worked
  <1>14. RowKept'
    <2>1. ThisPass' = ThisPass
      BY <1>1 DEF ThisPass
    <2> QED
      BY <1>1, <1>5, <2>1 DEF Sound, RowKept
  <1>15. OwedKept'
    <2>1. ASSUME NEW b \in behind
          PROVE  \E i \in DOMAIN stageRuns' :
                    /\ stageRuns'[i].stage = b.stage /\ stageRuns'[i].pass = b.pass
                    /\ stageRuns'[i].status # "success"
                    /\ i = proc'.row => proc'.status \notin {"success", "none"}
      BY <1>1, <1>5, <1>11 DEF Sound, OwedKept
    <2>2. ASSUME st \in Bad, proc.row # 0
          PROVE  \E i \in DOMAIN stageRuns' :
                    /\ stageRuns'[i].stage = Here.stage /\ stageRuns'[i].pass = Here.pass
                    /\ stageRuns'[i].status # "success"
                    /\ i = proc'.row => proc'.status \notin {"success", "none"}
      <3>1. /\ proc.row \in DOMAIN stageRuns
            /\ stageRuns[proc.row] = [stage |-> proc.cmd.name, pass |-> ThisPass,
                                      status |-> "running"]
        BY <2>2 DEF Sound, RowKept
      <3>2. st \notin {"success", "none"}
        BY <2>2 DEF Bad, Statuses
      <3> QED
        BY <1>1, <1>5, <3>1, <3>2 DEF Here
    <2> QED
      BY <1>12, <2>1, <2>2 DEF OwedKept
  <1> QED
    BY <1>8, <1>10, <1>13, <1>14, <1>15 DEF Steps, Sound

\* A command starts: none of it has run.
LEMMA Starts ==
    ASSUME Sound, ~Running, NEW c \in ByHand,
           proc' = [pc |-> 1, row |-> 0, status |-> "none", cmd |-> c],
           UNCHANGED <<stageRuns, fresh, behind, line>>, spent' \in SpentRec,
           spent'.losses = spent.losses,
           passes' \in Seq(PassRec), Len(passes') = Len(passes),
           line > 0 => c = PipelineStages[line],
           line = 0 /\ passes' # << >> /\ Lost(c) # {} => passes'[Len(passes')].redone
    PROVE  Sound'
  <1>1. proc = Idle /\ stageRuns \in Seq(RunRec)
    BY DEF Sound, CliTypes
  <1>2. DOMAIN c.steps = 1 .. Len(c.steps) /\ Len(c.steps) \in Nat /\ Opens(c.steps)
    BY KnownProper
  <1>3. proc'.pc = 1 /\ proc'.row = 0 /\ proc'.status = "none" /\ proc'.cmd = c
    OBVIOUS
  <1>4. proc' \in ProcRec /\ InStep(proc')
    <2>1. proc' \in ProcRec
      BY DEF ProcRec
    <2>2. \A i \in DOMAIN c.steps : ~(i < 1) /\ 1 <= i
      BY <1>2
    <2> QED
      BY <1>2, <1>3, <2>1, <2>2 DEF InStep
  <1>5. InStep(proc)' /\ Lost(proc.cmd)' = Lost(c)
    BY <1>3, <1>4 DEF InStep, Lost
  <1>6. CliTypes'
    BY <1>3, <1>4, <1>5 DEF Sound, CliTypes, SpentRec, Running
  <1>7. Left(stageRuns', proc'.row) \subseteq Left(stageRuns, proc.row)
    BY <1>1, IdleRests
  <1>8. OrphanRowsExplained'
    BY <1>6, <1>7, OrphansKept
  <1>9. RowKept' /\ OwedKept'
    BY <1>3, LogKept
  <1> QED
    BY <1>6, <1>8, <1>9 DEF Sound

\* proc keeps.
LEMMA Pauses ==
    ASSUME Sound, UNCHANGED <<proc, stageRuns, behind, spent>>, CliTypes',
           proc.row = 0 \/ UNCHANGED <<line, passes>>
    PROVE  Sound'
  <1>1. OrphanRowsExplained'
    BY DEF Sound, OrphanRowsExplained, Orphans
  <1>2. RowKept' /\ OwedKept'
    BY LogKept
  <1> QED
    BY <1>1, <1>2 DEF Sound

LEMMA ScriptSteps ==
    ASSUME Sound, Held, StartPipeline \/ NextStage \/ RunByHand \/ UNCHANGED cliVars
    PROVE  Steps
  <1>1. spent \in SpentRec /\ line \in 0 .. 13 /\ passes \in Seq(PassRec)
        /\ (~Running => proc.row = 0 /\ proc.status = "none")
    BY IdleRests DEF Sound, CliTypes, SpentRec
  <1>2. CASE StartPipeline
    <2>1. /\ line = 0 /\ line' = 1 /\ ~Running
          /\ UNCHANGED <<proc, stageRuns, fresh, behind, spent>>
      BY <1>2 DEF StartPipeline
    <2>2. PICK x : x = [maps |-> fresh["maps"].m, replays |-> fresh["replays"].r,
                        ok |-> TRUE, redone |-> FALSE]
      OBVIOUS
    <2>3. x \in PassRec /\ passes' = Append(passes, x)
      BY <1>2, <2>2 DEF StartPipeline, PassRec, Held, Kept, Aged
    <2>4. passes' \in Seq(PassRec) /\ Len(passes') > 0
      BY <1>1, <2>3
    <2>5. InStep(proc)' /\ Running' = Running
      BY <2>1 DEF Sound, CliTypes, InStep, Running
    <2>6. CliTypes'
      BY <2>1, <2>4, <2>5 DEF Sound, CliTypes
    <2> QED
      BY <1>1, <1>2, <2>1, <2>6, Pauses DEF Steps
  <1>3. CASE NextStage
    <2>1. ~Running /\ line > 0 /\ UNCHANGED <<stageRuns, fresh, behind, spent>>
      BY <1>3 DEF NextStage
    <2>2. CASE line = Len(PipelineStages) /\ line' = 0 /\ lineExit' = 0
               /\ UNCHANGED <<proc, passes>>
      <3>1. InStep(proc)' /\ Running' = Running
        BY <2>2 DEF Sound, CliTypes, InStep, Running
      <3>2. CliTypes'
        BY <2>1, <2>2, <3>1 DEF Sound, CliTypes
      <3>3. PassSkips
        BY <2>1, <2>2, Stages DEF PassSkips
      <3> QED
        BY <1>1, <2>1, <2>2, <3>2, <3>3, Pauses DEF Steps
    <2>3. CASE /\ proc' = [pc |-> 1, row |-> 0, status |-> "none", cmd |-> PipelineStages[line]]
               /\ UNCHANGED <<line, lineExit, passes>>
      <3>1. line \in 1 .. 13
        BY <1>1, <2>1
      <3>2. PipelineStages[line] \in ByHand
        BY <3>1, StageByHand
      <3>3. spent' \in SpentRec /\ spent'.losses = spent.losses
        BY <1>1, <2>1
      <3>4. Sound'
        BY <1>1, <2>1, <2>3, <3>1, <3>2, <3>3, Starts
      <3>5. Still
        BY <2>1, <2>3 DEF Still
      <3> QED
        BY <3>4, <3>5 DEF Steps
    <2> QED
      BY <1>3, <2>2, <2>3 DEF NextStage
  <1>4. CASE RunByHand
    <2>1. /\ ~Running /\ line = 0 /\ UNCHANGED <<stageRuns, fresh, behind, line, lineExit>>
          /\ spent' = [spent EXCEPT !.runs = @ + 1]
      BY <1>4 DEF RunByHand
    <2>2. PICK c \in ByHand :
             /\ proc' = [pc |-> 1, row |-> 0, status |-> "none", cmd |-> c]
             /\ passes' = IF Lost(c) = {} \/ passes = << >> THEN passes
                          ELSE [passes EXCEPT ![Len(passes)].redone = TRUE]
      BY <1>4 DEF RunByHand
    <2>3. spent' \in SpentRec /\ spent'.losses = spent.losses
      BY <1>1, <2>1 DEF SpentRec
    <2>4. /\ passes' \in Seq(PassRec) /\ Len(passes') = Len(passes)
          /\ passes' # << >> /\ Lost(c) # {} => passes'[Len(passes')].redone
      <3>1. CASE Lost(c) = {} \/ passes = << >>
        BY <1>1, <2>2, <3>1
      <3>2. CASE ~(Lost(c) = {} \/ passes = << >>)
        <4>1. PICK n \in Nat : n = Len(passes)
          BY <1>1
        <4>2. n \in DOMAIN passes /\ passes[n] \in PassRec
          BY <1>1, <3>2, <4>1, EmptySeq
        <4>3. PICK x : x = [passes[n] EXCEPT !.redone = TRUE]
          OBVIOUS
        <4>4. x \in PassRec /\ x.redone
          BY <4>2, <4>3 DEF PassRec
        <4>5. passes' = [passes EXCEPT ![n] = x]
          BY <2>2, <3>2, <4>1, <4>3, Zenon
        <4> QED
          BY <1>1, <4>1, <4>2, <4>4, <4>5
      <3> QED
        BY <3>1, <3>2
    <2>5. Sound'
      <3>1. /\ proc' = [pc |-> 1, row |-> 0, status |-> "none", cmd |-> c]
            /\ UNCHANGED <<stageRuns, fresh, behind, line>> /\ ~Running
        BY <2>1, <2>2
      <3>2. /\ line > 0 => c = PipelineStages[line]
            /\ line = 0 /\ passes' # << >> /\ Lost(c) # {} => passes'[Len(passes')].redone
        BY <2>1, <2>4
      <3> QED
        BY ONLY Sound, <2>3, <2>4, <3>1, <3>2, Starts
    <2>6. Opened
      BY <2>1, <2>2 DEF Opened
    <2> QED
      BY <2>5, <2>6 DEF Steps
  <1>5. CASE UNCHANGED cliVars
    <2>1. UNCHANGED <<proc, stageRuns, fresh, behind, line, lineExit, passes, spent>>
      BY <1>5 DEF cliVars
    <2>2. InStep(proc)' /\ Running' = Running /\ Lost(proc.cmd)' = Lost(proc.cmd)
      BY <2>1 DEF Sound, CliTypes, InStep, Running, Lost
    <2>3. CliTypes'
      BY <2>1, <2>2 DEF Sound, CliTypes
    <2>4. Still
      BY <1>1, <2>1, <2>2 DEF Still
    <2> QED
      BY <2>1, <2>3, <2>4, Pauses DEF Steps
  <1> QED
    BY <1>2, <1>3, <1>4, <1>5

LEMMA StepKinds ==
    ASSUME Sound, Held, [CliNext]_cliVars
    PROVE  Steps
  <1>1. CASE CheckSetup \/ CheckInput \/ ReadUncached \/ PollJob \/ OpenConnection \/ EnsureSnapshot
    BY <1>1, GateSteps DEF CheckSetup, CheckInput, ReadUncached, PollJob, OpenConnection,
       EnsureSnapshot
  <1>2. CASE LoadModelFromReport \/ OpenStageRun \/ RunWork \/ RaiseWork
    BY <1>2, ModelSteps, OpenSteps, WorkSteps, RaiseSteps
  <1>3. CASE TruncateFile \/ WriteFile \/ CloseStageRun \/ ReturnStatus \/ KillCommand
    BY <1>3, WriteSteps, CloseSteps, ReturnSteps, KillSteps
  <1>4. CASE StartPipeline \/ NextStage \/ RunByHand \/ UNCHANGED cliVars
    BY <1>4, ScriptSteps
  <1> QED
    BY <1>1, <1>2, <1>3, <1>4 DEF CliNext, CommandStep

-----------------------------------------------------------------------------
(* The ages of the tables along the steps.                                 *)

LEMMA StillKeeps ==
    ASSUME CliTypes, Held, Still
    PROVE  Held'
  <1>1. fresh' = fresh /\ line' = line /\ passes' = passes /\ behind' = behind
        /\ lineExit' = lineExit
    BY DEF Still
  <1>2. \A k \in 1 .. 13 : Past(k)' => Past(k)
    BY DEF Still, Past
  <1>3. \A k \in 1 .. 13 : Behind(k)' => Behind(k)
    BY <1>1, <1>2 DEF Behind
  <1>4. Aged' /\ Dated'
    BY <1>1 DEF Held, Kept, Aged, Dated
  <1>5. Refilled'
    BY <1>1, <1>2 DEF Held, Kept, Refilled
  <1>6. Ahead'
    BY <1>1, <1>3 DEF Held, Kept, Ahead, Derivations
  <1>7. Washed'
    BY <1>1, <1>3 DEF Held, Kept, Washed
  <1>8. Whole'
    BY <1>1 DEF Held, Kept, Whole
  <1>9. Loud'
    BY <1>1 DEF Held, Loud, Still
  <1> QED
    BY <1>4, <1>5, <1>6, <1>7, <1>8, <1>9 DEF Held, Kept

\* A command started by hand.
LEMMA BegunKeeps ==
    ASSUME CliTypes, Held, Opened
    PROVE  Held'
  <1>1. PICK n \in Nat : n = Len(passes)
    BY DEF CliTypes
  <1>2. passes \in Seq(PassRec) /\ UNCHANGED <<fresh, behind, line, lineExit>> /\ line = 0
    BY DEF CliTypes, Opened
  <1>3. /\ Len(passes') = n /\ DOMAIN passes' = DOMAIN passes
        /\ \A i \in DOMAIN passes : /\ passes'[i].maps = passes[i].maps
                                    /\ passes'[i].replays = passes[i].replays
                                    /\ passes'[i].ok = passes[i].ok
                                    /\ passes[i].redone => passes'[i].redone
    <2>1. CASE passes' = passes
      BY <1>1, <2>1
    <2>2. CASE passes' = [passes EXCEPT ![Len(passes)].redone = TRUE]
      <3>1. PICK x : x = [passes[n] EXCEPT !.redone = TRUE]
        OBVIOUS
      <3>2. passes' = [passes EXCEPT ![n] = x]
        BY <1>1, <2>2, <3>1, Zenon
      <3>3. \A i \in DOMAIN passes : passes[i] \in PassRec
        BY <1>2
      <3>4. n \in DOMAIN passes => /\ x.maps = passes[n].maps /\ x.replays = passes[n].replays
                                   /\ x.ok = passes[n].ok /\ x.redone
        BY <3>1, <3>3 DEF PassRec
      <3> QED
        BY <1>1, <1>2, <3>2, <3>4
    <2> QED
      BY <2>1, <2>2 DEF Opened
  <1>4. DOMAIN passes = 1 .. n
    BY <1>1, <1>2
  <1>5. \A k \in 1 .. 13 : ~Past(k)'
    BY <1>2 DEF Past
  <1>6. n > 0 => \A k \in 1 .. 13 : Behind(k)' => Behind(k)
    BY <1>1, <1>2, <1>3, <1>4, <1>5 DEF Behind
  <1>7. Aged' /\ Dated'
    BY <1>2, <1>3 DEF Held, Kept, Aged, Dated
  <1>8. Refilled'
    BY <1>5 DEF Refilled
  <1>9. Ahead'
    <2> SUFFICES ASSUME n > 0, passes'[n].ok, ~passes'[n].redone, NEW k \in Derivations, Behind(k)'
                 PROVE  /\ fresh[TableOf[k]].m >= passes'[n].maps
                        /\ n > 1 /\ passes'[n - 1].ok => fresh[TableOf[k]].r >= passes'[n - 1].replays
      BY <1>2, <1>3 DEF Ahead
    <2>1. Behind(k) /\ passes[n].ok /\ ~passes[n].redone
      BY <1>3, <1>4, <1>6 DEF Derivations
    <2>2. n \in DOMAIN passes /\ (n > 1 => n - 1 \in DOMAIN passes)
      BY <1>4
    <2> QED
      BY <1>1, <1>3, <2>1, <2>2 DEF Held, Kept, Ahead
  <1>10. Washed'
    <2> SUFFICES ASSUME NEW i \in 1 .. n, passes'[i].ok
                 PROVE  /\ i < n \/ Behind(10)' => fresh["clean"].r >= passes'[i].replays
                        /\ i < n \/ Behind(11)' => fresh["cohorts"].r >= passes'[i].replays
      BY <1>2, <1>3, <1>4 DEF Washed
    <2> QED
      BY <1>1, <1>3, <1>4, <1>6 DEF Held, Kept, Washed
  <1>11. Whole'
    <2>1. lineExit = 0 => n \in DOMAIN passes
      BY <1>1, <1>4 DEF Held, Kept, Whole
    <2> QED
      BY <1>1, <1>2, <1>3, <2>1 DEF Held, Kept, Whole
  <1>12. Loud'
    <2> SUFFICES ASSUME NEW b \in behind
                 PROVE  b.pass \in 0 .. n /\ ~(b.pass > 0 /\ passes'[b.pass].ok)
      BY <1>2, <1>3 DEF Loud
    <2>1. b.pass \in 0 .. n /\ ~(b.pass > 0 /\ passes[b.pass].ok)
      BY <1>1, <1>2 DEF Held, Loud
    <2> QED
      BY <1>3, <1>4, <2>1
  <1> QED
    BY <1>7, <1>8, <1>9, <1>10, <1>11, <1>12 DEF Held, Kept

LEMMA SkipKeeps ==
    ASSUME CliTypes, Held, PassSkips
    PROVE  Held'
  <1>1. /\ fresh' = fresh /\ passes' = passes /\ behind' = behind /\ line = 13 /\ line' = 0
        /\ lineExit' = 0 /\ ~Running /\ Len(passes) > 0
    BY DEF PassSkips, CliTypes
  <1>2. \A k \in 1 .. 12 : ~Past(k)' /\ Past(k) /\ Behind(k)
    BY <1>1 DEF Past, Behind
  <1>3. Aged' /\ Dated'
    BY <1>1 DEF Held, Kept, Aged, Dated
  <1>4. Refilled'
    BY <1>2 DEF Refilled
  <1>5. Ahead'
    BY <1>1, <1>2 DEF Held, Kept, Ahead, Derivations
  <1>6. Washed'
    BY <1>1, <1>2 DEF Held, Kept, Washed
  <1>7. Whole'
    BY <1>1, <1>2 DEF Held, Kept, Whole, Refilled
  <1>8. Loud'
    BY <1>1 DEF Held, Loud
  <1> QED
    BY <1>3, <1>4, <1>5, <1>6, <1>7, <1>8 DEF Held, Kept

\* A pass begins when the one before it, if it was good, has brought the cleaned
\* replays up.
LEMMA BeginKeeps ==
    ASSUME CliTypes, Held, StartPipeline
    PROVE  Held'
  <1>1. PICK n \in Nat : n = Len(passes)
    BY DEF CliTypes
  <1>2. PICK x : x = [maps |-> fresh["maps"].m, replays |-> fresh["replays"].r,
                      ok |-> TRUE, redone |-> FALSE]
    OBVIOUS
  <1>3. /\ passes \in Seq(PassRec) /\ passes' = Append(passes, x) /\ fresh' = fresh
        /\ line = 0 /\ line' = 1 /\ ~Running /\ proc' = proc /\ behind' = behind
        /\ lineExit' = -1
    BY <1>2 DEF StartPipeline, CliTypes
  <1>4. /\ DOMAIN passes' = 1 .. n + 1 /\ Len(passes') = n + 1 /\ passes'[n + 1] = x
        /\ DOMAIN passes = 1 .. n
        /\ \A i \in 1 .. n : passes'[i] = passes[i]
    BY <1>1, <1>3
  <1>5. ~Running'
    BY <1>3 DEF Running
  <1>6. \A k \in 1 .. 13 : ~Past(k)' /\ ~Behind(k)'
    BY <1>3, <1>5 DEF Past, Behind
  <1>7. Aged' /\ Dated'
    <2>1. \A i \in 1 .. n + 1 : passes'[i].maps <= fresh["maps"].m
                               /\ passes'[i].replays <= fresh["replays"].r
      <3>1. x.maps <= fresh["maps"].m /\ x.replays <= fresh["replays"].r
        BY <1>2, StagesAssumption DEF Held, Kept, Aged
      <3> QED
        BY <1>1, <1>4, <3>1 DEF Held, Kept, Dated
    <2> QED
      BY <1>3, <1>4, <2>1 DEF Held, Kept, Aged, Dated
  <1>8. Refilled'
    BY <1>6 DEF Refilled
  <1>9. Ahead'
    BY <1>6, SMTT(30) DEF Ahead, Derivations
  <1>10. Washed'
    <2> SUFFICES ASSUME NEW i \in 1 .. n + 1, passes'[i].ok, i < n + 1
                 PROVE  /\ fresh["clean"].r >= passes[i].replays
                        /\ fresh["cohorts"].r >= passes[i].replays
      BY <1>1, <1>3, <1>4, <1>6 DEF Washed
    <2>1. i \in 1 .. n /\ passes[i].ok
      BY <1>1, <1>4
    <2>2. i < n \/ (Behind(10) /\ Behind(11))
      BY <1>1, <1>3, <2>1 DEF Behind
    <2> QED
      BY <1>1, <1>4, <2>1, <2>2 DEF Held, Kept, Washed
  <1>11. Whole'
    BY <1>3 DEF Whole
  <1>12. Loud'
    <2> SUFFICES ASSUME NEW b \in behind
                 PROVE  b.pass \in 0 .. n + 1 /\ ~(b.pass > 0 /\ passes'[b.pass].ok)
      BY <1>3, <1>4 DEF Loud
    <2>1. b.pass \in 0 .. n /\ ~(b.pass > 0 /\ passes[b.pass].ok)
      BY <1>1, <1>3 DEF Held, Loud
    <2> QED
      BY <1>4, <2>1
  <1> QED
    BY <1>7, <1>8, <1>9, <1>10, <1>11, <1>12 DEF Held, Kept

\* Once the stages before stage k are behind, everything it reads is as new as a good
\* pass asks of what is derived from it.
LEMMA SourcesReady ==
    ASSUME CliTypes, Kept, NEW k \in Derivations, \A j \in Derivations : j < k => Behind(j),
           NEW n \in Nat, n = Len(passes), n > 0, passes[n].ok, ~passes[n].redone,
           NEW t \in ReadsOf[k]
    PROVE  /\ fresh[t].m >= passes[n].maps
           /\ n > 1 /\ passes[n - 1].ok => fresh[t].r >= passes[n - 1].replays
  <1>1. /\ n \in DOMAIN passes /\ (n > 1 => n - 1 \in DOMAIN passes) /\ passes \in Seq(PassRec)
    BY DEF CliTypes
  <1>2. /\ passes[n].maps \in 0 .. MaxNews
        /\ n > 1 => passes[n - 1].replays \in 0 .. MaxNews
    <2>1. passes[n] \in PassRec /\ (n > 1 => passes[n - 1] \in PassRec)
      BY <1>1
    <2> QED
      BY <2>1 DEF PassRec
  <1>4. Ever \in Nat /\ Ever > MaxNews /\ MaxNews \in Nat
    BY StagesAssumption DEF Ever
  <1>5. CASE t = "maps"
    BY <1>1, <1>2, <1>4, <1>5 DEF Kept, Aged, Dated
  <1>6. CASE t = "replays"
    BY <1>1, <1>2, <1>4, <1>6 DEF Kept, Aged, Dated
  <1>7. CASE t = "clean"
    <2>1. fresh["clean"].m = Ever
      BY DEF Kept, Aged
    <2>2. n > 1 /\ passes[n - 1].ok => fresh["clean"].r >= passes[n - 1].replays
      BY <1>1 DEF Kept, Washed
    <2> QED
      BY <1>2, <1>4, <1>7, <2>1, <2>2
  <1>8. ASSUME NEW j \in Derivations, j < k, t = TableOf[j]
        PROVE  /\ fresh[t].m >= passes[n].maps
               /\ n > 1 /\ passes[n - 1].ok => fresh[t].r >= passes[n - 1].replays
    BY <1>1, <1>8 DEF Kept, Ahead
  <1>9. t \in {"maps", "replays", "clean"} \/ \E j \in Derivations : j < k /\ t = TableOf[j]
    BY Tabled
  <1> QED
    BY <1>5, <1>6, <1>7, <1>8, <1>9

\* Work by hand, ended or not: no pass is under way, a stage finds its sources as the
\* last good pass left them, and a rebuild that empties columns is on its record.
LEMMA HandKeeps ==
    ASSUME CliTypes, Kept, Running, line = 0, UNCHANGED <<line, lineExit, passes>>, Reworked
    PROVE  Kept'
  <1>1. PICK n \in Nat : n = Len(passes)
    BY DEF CliTypes
  <1>2. /\ passes \in Seq(PassRec) /\ DOMAIN passes = 1 .. n /\ fresh \in [Tables -> Age]
        /\ Aged /\ Dated /\ proc.cmd \in ByHand
    BY <1>1 DEF Kept, CliTypes, ProcRec
  <1>3. /\ fresh' \in [Tables -> Age] /\ Aged'
        /\ \A i \in DOMAIN passes :
              /\ passes[i].maps <= fresh'["maps"].m
              /\ passes[i].replays <= fresh'["replays"].r
              /\ fresh["clean"].r >= passes[i].replays
                    => fresh'["clean"].r >= passes[i].replays
              /\ fresh["clean"].r >= passes[i].replays /\ fresh["cohorts"].r >= passes[i].replays
                    => fresh'["cohorts"].r >= passes[i].replays
    BY <1>2, WorkAges
  <1>4. Dated'
    BY <1>3 DEF Dated
  <1>5. \A k \in 1 .. 13 : /\ ~Past(k)' /\ ~Past(k) /\ (Behind(k)' <=> Behind(k))
                           /\ Behind(k) <=> passes[n].ok
    BY <1>1 DEF Past, Behind
  <1>6. Refilled'
    BY <1>5 DEF Refilled
  <1>7. Washed'
    <2> SUFFICES ASSUME NEW i \in 1 .. n, passes[i].ok
                 PROVE  /\ i < n \/ Behind(10)' => fresh'["clean"].r >= passes[i].replays
                        /\ i < n \/ Behind(11)' => fresh'["cohorts"].r >= passes[i].replays
      BY <1>1, <1>2 DEF Washed
    <2>1. fresh["clean"].r >= passes[i].replays /\ fresh["cohorts"].r >= passes[i].replays
      <3>1. /\ i < n \/ Behind(10) => fresh["clean"].r >= passes[i].replays
            /\ i < n \/ Behind(11) => fresh["cohorts"].r >= passes[i].replays
        BY <1>1, <1>2 DEF Kept, Washed
      <3>2. i < n \/ i = n
        BY <1>1
      <3>3. i = n => Behind(10) /\ Behind(11)
        BY <1>5
      <3> QED
        BY <3>1, <3>2, <3>3
    <2> QED
      BY <1>2, <1>3, <2>1
  <1>8. n > 0 /\ ~passes[n].redone => Lost(proc.cmd) = {}
    <2>1. n > 0 => passes # << >>
      BY <1>1
    <2> QED
      BY <1>1, <2>1 DEF CliTypes
  <1>9. ASSUME n > 0, ~passes[n].redone, NEW k \in 1 .. 13 \ {9}
        PROVE  \/ fresh'[TableOf[k]] = fresh[TableOf[k]]
               \/ \E S \in Sources(k) : fresh'[TableOf[k]] = Derived(S)
    <2>1. TableOf[k] \in Tables \ {"maps", "replays"}
      BY Tabled
    <2>2. \A j \in 1 .. 13 \ {9} : TableOf[k] = TableOf[j] => j = k
      BY Tabled
    <2> QED
      BY <1>2, <1>8, <1>9, <2>1, <2>2, TableWork
  <1>10. Ahead'
    <2> SUFFICES ASSUME n > 0, passes[n].ok, ~passes[n].redone, NEW k \in Derivations
                 PROVE  /\ fresh'[TableOf[k]].m >= passes[n].maps
                        /\ n > 1 /\ passes[n - 1].ok => fresh'[TableOf[k]].r >= passes[n - 1].replays
      BY <1>1 DEF Ahead
    <2>1. k \in 1 .. 13 \ {9} /\ \A j \in Derivations : Behind(j)
      BY <1>5 DEF Derivations
    <2>2. \A t \in ReadsOf[k] :
            /\ fresh[t].m >= passes[n].maps
            /\ n > 1 /\ passes[n - 1].ok => fresh[t].r >= passes[n - 1].replays
      BY <1>1, <2>1, SourcesReady
    <2>3. /\ fresh[TableOf[k]].m >= passes[n].maps
          /\ n > 1 /\ passes[n - 1].ok => fresh[TableOf[k]].r >= passes[n - 1].replays
      BY <1>1, <2>1 DEF Kept, Ahead
    <2>4. ASSUME NEW S \in Sources(k), fresh'[TableOf[k]] = Derived(S)
          PROVE  /\ fresh'[TableOf[k]].m >= passes[n].maps
                 /\ n > 1 /\ passes[n - 1].ok => fresh'[TableOf[k]].r >= passes[n - 1].replays
      BY <1>2, <2>1, <2>2, <2>3, <2>4, NoOlder
    <2> QED
      BY <1>9, <2>1, <2>3, <2>4
  <1>11. Whole'
    <2> SUFFICES ASSUME lineExit = 0, n > 0, ~passes[n].redone, NEW k \in 5 .. 7
                 PROVE  fresh'[TableOf[k]].m >= 0
      BY <1>1 DEF Kept, Whole
    <2>1. k \in 1 .. 13 \ {9} /\ fresh[TableOf[k]].m >= 0
      BY <1>1 DEF Kept, Whole
    <2>2. ReadsOf[k] \cap Resettable = {} /\ ReadsOf[k] \subseteq Tables
      BY <2>1, Tabled
    <2>3. \A t \in ReadsOf[k] \cup {TableOf[k]} : fresh[t].m >= 0
      BY <1>2, <2>1, <2>2 DEF Aged
    <2>4. ASSUME NEW S \in Sources(k), fresh'[TableOf[k]] = Derived(S)
          PROVE  fresh'[TableOf[k]].m >= 0
      BY <1>2, <2>1, <2>3, <2>4, NoOlder
    <2> QED
      BY <1>9, <2>1, <2>4
  <1> QED
    BY <1>3, <1>4, <1>6, <1>7, <1>10, <1>11 DEF Kept

\* The script goes on after a stage that did its work, or after replay-clean.
LEMMA ScriptEnds ==
    ASSUME CliTypes, Held, Running, line > 0, NEW rc \in Nat, Exit(rc),
           rc = 0 => proc.status = "success", rc = 0 => fresh' = fresh, Reworked
    PROVE  Kept'
  <1>1. PICK n \in Nat : n = Len(passes)
    BY DEF CliTypes
  <1>2. /\ passes \in Seq(PassRec) /\ DOMAIN passes = 1 .. n /\ line \in 1 .. 13 /\ n > 0
        /\ proc.cmd = PipelineStages[line] /\ Aged /\ Dated /\ lineExit = -1
    BY <1>1 DEF CliTypes, Held, Kept, Whole
  <1>3. /\ proc' = Idle /\ Len(passes') = n
        /\ passes' = [passes EXCEPT ![n].ok = @ /\ rc = 0]
        /\ line' = 0 \/ (line' = line + 1 /\ line < 13 /\ lineExit' = lineExit)
        /\ line' > 0 => rc = 0 \/ line = 10
        /\ line' = 0 => rc # 0 \/ line = 13
        /\ line' = 0 => lineExit' = 1 \/ (line = 13 /\ rc = 0)
    BY <1>1, <1>2, Exiting
  <1>4. ~Running'
    BY <1>3, IdleRests DEF Running
  <1>5. /\ DOMAIN passes' = 1 .. n
        /\ \A i \in 1 .. n : /\ passes'[i].maps = passes[i].maps
                             /\ passes'[i].replays = passes[i].replays
                             /\ passes'[i].redone = passes[i].redone
                             /\ passes'[i].ok => passes[i].ok
        /\ passes'[n].ok => rc = 0
    <2>1. PICK b \in BOOLEAN : b = (passes[n].ok /\ rc = 0)
      OBVIOUS
    <2>2. PICK x : x = [passes[n] EXCEPT !.ok = b]
      OBVIOUS
    <2>3. passes' = [passes EXCEPT ![n] = x]
      BY <1>3, <2>1, <2>2, Zenon
    <2>4. n \in DOMAIN passes /\ passes[n] \in PassRec
      BY <1>2
    <2>5. /\ x.maps = passes[n].maps /\ x.replays = passes[n].replays
          /\ x.redone = passes[n].redone /\ x.ok = b
      BY <2>2, <2>4 DEF PassRec
    <2> QED
      BY <1>2, <2>1, <2>3, <2>4, <2>5
  <1>6. /\ Aged'
        /\ \A i \in DOMAIN passes :
              /\ passes[i].maps <= fresh'["maps"].m
              /\ passes[i].replays <= fresh'["replays"].r
              /\ fresh["clean"].r >= passes[i].replays
                    => fresh'["clean"].r >= passes[i].replays
              /\ fresh["clean"].r >= passes[i].replays /\ fresh["cohorts"].r >= passes[i].replays
                    => fresh'["cohorts"].r >= passes[i].replays
    BY <1>2, WorkAges
  <1>7. Dated'
    BY <1>2, <1>5, <1>6 DEF Dated
  <1>8. \A k \in 5 .. 7 : Past(k)' => Past(k) /\ fresh'[TableOf[k]] = fresh[TableOf[k]]
    <2> SUFFICES ASSUME NEW k \in 5 .. 7, Past(k)'
                 PROVE  Past(k) /\ fresh'[TableOf[k]] = fresh[TableOf[k]]
      OBVIOUS
    <2>1. line' = line + 1 /\ line >= k /\ (rc = 0 \/ line = 10)
      BY <1>2, <1>3, <1>4 DEF Past
    <2>2. CASE rc = 0
      <3>1. Running /\ proc.status = "success" /\ fresh' = fresh
        BY <2>2
      <3>2. line > k \/ line = k
        BY <1>2, <2>1
      <3> QED
        BY <3>1, <3>2 DEF Past
    <2>3. CASE line = 10
      <3>1. Lost(proc.cmd) = {}
        BY <1>2, <2>3, LostLater
      <3>2. TableOf[k] \in Tables \ {"maps", "replays"}
        BY Tabled
      <3>3. \A j \in 1 .. 13 \ {9} : TableOf[k] = TableOf[j] => j = k
        BY Tabled
      <3>4. \A j \in 1 .. 13 : PipelineStages[10] = PipelineStages[j] => j = 10
        <4>1. \A j \in 1 .. 13 : PipelineStages[j].name = "replay-clean" <=> j = 10
          BY Stages DEF StageIs
        <4> QED
          BY <4>1
      <3>5. \/ fresh'[TableOf[k]] = fresh[TableOf[k]]
            \/ TableOf[k] \in Lost(proc.cmd)
            \/ \E j \in 1 .. 13 \ {9} : TableOf[k] = TableOf[j] /\ proc.cmd = PipelineStages[j]
        BY <1>2, <3>2, TableWork
      <3>6. \A j \in 1 .. 13 \ {9} : ~(TableOf[k] = TableOf[j] /\ proc.cmd = PipelineStages[j])
        BY <1>2, <2>3, <3>3, <3>4
      <3>7. fresh'[TableOf[k]] = fresh[TableOf[k]]
        BY <3>1, <3>5, <3>6, Zenon
      <3> QED
        BY <2>3, <3>7 DEF Past
    <2> QED
      BY <2>1, <2>2, <2>3
  <1>9. Refilled'
    BY <1>8 DEF Held, Kept, Refilled
  <1>10. passes'[n].ok => /\ fresh' = fresh /\ passes[n].ok
                          /\ \A k \in 1 .. 12 : Behind(k)' => Behind(k)
    <2> SUFFICES ASSUME passes'[n].ok, NEW k \in 1 .. 12, Behind(k)'
                 PROVE  Behind(k)
      BY <1>2, <1>5
    <2>1. rc = 0 /\ proc.status = "success"
      BY <1>5
    <2>2. line >= k
      BY <1>2, <1>3, <1>4, <2>1, SMTT(30) DEF Behind, Past
    <2> QED
      BY <1>2, <2>1, <2>2 DEF Behind, Past
  <1>11. Ahead'
    <2> SUFFICES ASSUME passes'[n].ok, ~passes'[n].redone, NEW k \in Derivations, Behind(k)'
                 PROVE  /\ fresh'[TableOf[k]].m >= passes'[n].maps
                        /\ n > 1 /\ passes'[n - 1].ok => fresh'[TableOf[k]].r >= passes'[n - 1].replays
      BY <1>3 DEF Ahead
    <2>1. Behind(k) /\ passes[n].ok /\ ~passes[n].redone /\ fresh' = fresh
      BY <1>2, <1>5, <1>10 DEF Derivations
    <2>2. n \in 1 .. n /\ (n > 1 => n - 1 \in 1 .. n)
      BY <1>2
    <2>3. /\ fresh[TableOf[k]].m >= passes[n].maps
          /\ n > 1 /\ passes[n - 1].ok => fresh[TableOf[k]].r >= passes[n - 1].replays
      BY <1>1, <1>2, <2>1 DEF Held, Kept, Ahead
    <2> QED
      BY <1>5, <2>1, <2>2, <2>3
  <1>12. Washed'
    <2> SUFFICES ASSUME NEW i \in 1 .. n, passes'[i].ok
                 PROVE  /\ i < n \/ Behind(10)' => fresh'["clean"].r >= passes[i].replays
                        /\ i < n \/ Behind(11)' => fresh'["cohorts"].r >= passes[i].replays
      BY <1>3, <1>5 DEF Washed
    <2>1. passes[i].ok
      BY <1>5
    <2>2. i = n => fresh' = fresh /\ (Behind(10)' => Behind(10)) /\ (Behind(11)' => Behind(11))
      BY <1>10
    <2>3. /\ i < n \/ Behind(10) => fresh["clean"].r >= passes[i].replays
          /\ i < n \/ Behind(11) => fresh["cohorts"].r >= passes[i].replays
      BY <1>1, <1>2, <2>1 DEF Held, Kept, Washed
    <2>4. CASE i = n
      BY <2>2, <2>3, <2>4
    <2>5. CASE i < n
      BY <1>2, <1>6, <2>3, <2>5
    <2> QED
      BY <2>4, <2>5
  <1>13. Whole'
    <2>1. line' > 0 => lineExit' = -1
      BY <1>2, <1>3
    <2>2. lineExit' = 0 => line = 13 /\ rc = 0
      BY <1>2, <1>3
    <2>3. line = 13 /\ rc = 0 => \A k \in 5 .. 7 : fresh'[TableOf[k]].m >= 0
      BY DEF Held, Kept, Refilled, Past
    <2> QED
      BY <1>2, <1>3, <2>1, <2>2, <2>3 DEF Whole
  <1> QED
    BY <1>6, <1>7, <1>9, <1>11, <1>12, <1>13 DEF Kept

\* The command that leaves an item behind ends, and its pass is not good.
LEMMA EndedKeeps ==
    ASSUME CliTypes, Held, Ended
    PROVE  Held'
  <1>1. PICK rc \in Nat :
            /\ Exit(rc) /\ (line > 0 /\ rc = 0 => proc.status = "success")
            /\ rc = 0 => fresh' = fresh /\ behind' = behind
            /\ Reworked
            /\ behind' \in {behind, behind \cup {Here}}
    BY DEF Ended
  <1>2. PICK n \in Nat : n = Len(passes)
    BY DEF CliTypes
  <1>3. /\ Running /\ line \in 0 .. 13 /\ passes \in Seq(PassRec) /\ DOMAIN passes = 1 .. n
        /\ (line > 0 => n > 0)
    BY <1>2 DEF Ended, CliTypes
  <1>4. CASE line = 0
    <2>1. UNCHANGED <<line, lineExit, passes>>
      BY <1>1, <1>3, <1>4, Exiting
    <2>2. Kept'
      BY <1>1, <1>3, <1>4, <2>1, HandKeeps DEF Held
    <2>3. ASSUME NEW b \in behind' PROVE b.pass \in 0 .. n /\ ~(b.pass > 0 /\ passes[b.pass].ok)
      <3>1. CASE b \in behind
        BY <1>2, <1>4, <3>1 DEF Held, Loud
      <3>2. CASE b = Here
        BY <1>4, <3>2 DEF Here, ThisPass
      <3> QED
        BY <1>1, <3>1, <3>2
    <2>4. Loud'
      BY <1>2, <2>1, <2>3 DEF Loud
    <2> QED
      BY <2>2, <2>4 DEF Held
  <1>5. CASE line > 0
    <2>1. Kept'
      BY <1>1, <1>3, <1>5, ScriptEnds
    <2>2. passes' = [passes EXCEPT ![n].ok = @ /\ rc = 0] /\ Len(passes') = n
      BY <1>1, <1>2, <1>3, <1>5, Exiting
    <2>3. \A i \in 1 .. n : passes'[i].ok => passes[i].ok /\ (i = n => rc = 0)
      <3>1. PICK b \in BOOLEAN : b = (passes[n].ok /\ rc = 0)
        OBVIOUS
      <3>2. PICK x : x = [passes[n] EXCEPT !.ok = b]
        OBVIOUS
      <3>3. passes' = [passes EXCEPT ![n] = x]
        BY <2>2, <3>1, <3>2, Zenon
      <3>4. n \in DOMAIN passes /\ passes[n] \in PassRec
        BY <1>3, <1>5
      <3>5. x.ok = b
        BY <3>2, <3>4 DEF PassRec
      <3> QED
        BY <1>3, <3>1, <3>3, <3>4, <3>5
    <2>4. ASSUME NEW b \in behind' PROVE b.pass \in 0 .. n /\ ~(b.pass > 0 /\ passes'[b.pass].ok)
      <3>1. CASE b \in behind
        <4>1. b.pass \in 0 .. n
          BY <1>2, <3>1 DEF Held, Loud
        <4>2. ASSUME b.pass > 0, passes'[b.pass].ok PROVE FALSE
          <5>1. b.pass \in 1 .. n
            BY <4>1, <4>2
          <5>2. passes[b.pass].ok
            BY <2>3, <4>2, <5>1
          <5>3. b.pass = n /\ proc.status # "success"
            BY <1>2, <3>1, <4>2, <5>2 DEF Held, Loud
          <5>4. rc = 0
            BY <2>3, <4>2, <5>1, <5>3
          <5> QED
            BY <1>1, <1>5, <5>3, <5>4
        <4> QED
          BY <4>1, <4>2
      <3>2. CASE b \notin behind
        <4>1. b = Here /\ rc # 0
          BY <1>1, <3>2
        <4>2. b.pass = n
          BY <1>2, <1>5, <4>1 DEF Here, ThisPass
        <4> QED
          BY <1>3, <1>5, <2>3, <4>1, <4>2
      <3> QED
        BY <3>1, <3>2
    <2>5. Loud'
      BY <2>2, <2>4 DEF Loud
    <2> QED
      BY <2>1, <2>5 DEF Held
  <1> QED
    BY <1>3, <1>4, <1>5

\* The work of stage line of the script.
LEMMA StageKeeps ==
    ASSUME CliTypes, Held, Worked, line > 0
    PROVE  Kept'
  <1>1. PICK s \in DOMAIN proc.cmd.status : Outcome(s) /\ proc'.status = proc.cmd.status[s]
    BY DEF Worked
  <1>2. PICK n \in Nat : n = Len(passes)
    BY DEF CliTypes
  <1>3. /\ Running /\ line' = line /\ passes' = passes /\ line \in 1 .. 13 /\ n > 0
        /\ proc.cmd = PipelineStages[line] /\ passes \in Seq(PassRec) /\ fresh \in [Tables -> Age]
        /\ Aged /\ Dated /\ DOMAIN passes = 1 .. n /\ lineExit' = lineExit
    BY <1>2 DEF Worked, CliTypes, Held, Kept
  <1>4. s.errors => proc'.status # "success"
    BY <1>1, <1>3, Stages DEF StageIs
  <1>5. s.errors \in BOOLEAN
    <2>1. s \in Reports
      BY <1>1, <1>3, Stages DEF StageIs
    <2> QED
      BY <2>1 DEF Reports
  <1>6. Reworked
    BY <1>1 DEF Outcome, Reworked
  <1>7. /\ Aged'
        /\ \A i \in DOMAIN passes :
              /\ passes[i].maps <= fresh'["maps"].m
              /\ passes[i].replays <= fresh'["replays"].r
              /\ fresh["clean"].r >= passes[i].replays
                    => fresh'["clean"].r >= passes[i].replays
              /\ fresh["clean"].r >= passes[i].replays /\ fresh["cohorts"].r >= passes[i].replays
                    => fresh'["cohorts"].r >= passes[i].replays
    BY <1>3, <1>6, WorkAges
  <1>8. /\ \A j \in 1 .. 13 : Past(j)' \/ Behind(j)' => j < line \/ (j = line /\ ~s.errors)
        /\ \A j \in 1 .. 13 : j < line => Past(j) /\ Behind(j)
    BY <1>3, <1>4 DEF Past, Behind
  <1>9. PICK S \in Sources(line) :
           /\ ~s.errors => S = ReadsOf[line]
           /\ \A t \in Tables :
                 fresh'[t] = IF t \in Lost(PipelineStages[line]) THEN Wiped
                             ELSE IF line # 9 /\ t = TableOf[line] THEN Derived(S)
                             ELSE fresh[t]
    <2>1. PICK full \in BOOLEAN : full = ~s.errors
      OBVIOUS
    <2>2. fresh' = IF full THEN Made(proc.cmd) ELSE Part(proc.cmd)
      BY <1>1, <2>1 DEF Outcome
    <2>3. \E S \in Sources(line) :
             /\ full => S = ReadsOf[line]
             /\ \A t \in Tables :
                   fresh'[t] = IF t \in Lost(PipelineStages[line]) THEN Wiped
                               ELSE IF line # 9 /\ t = TableOf[line] THEN Derived(S)
                               ELSE fresh[t]
      BY <1>3, <2>2, StageWork
    <2> QED
      BY <2>1, <2>3, Zenon
  <1>10. \A j \in 1 .. line : TableOf[j] \notin Lost(PipelineStages[line])
    BY <1>3, LostLater
  <1>11. \A j \in 1 .. 13 \ {9} : j < line => fresh'[TableOf[j]] = fresh[TableOf[j]]
    <2> SUFFICES ASSUME NEW j \in 1 .. 13 \ {9}, j < line
                 PROVE  fresh'[TableOf[j]] = fresh[TableOf[j]]
      OBVIOUS
    <2>1. TableOf[j] \in Tables /\ (line # 9 => TableOf[j] # TableOf[line])
      BY <1>3, Tabled, SMTT(30)
    <2>2. TableOf[j] \notin Lost(PipelineStages[line])
      BY <1>3, <1>10
    <2> QED
      BY <1>9, <2>1, <2>2
  <1>12. PICK d : d = Derived(ReadsOf[line])
    OBVIOUS
  <1>13. line # 9 /\ ~s.errors => fresh'[TableOf[line]] = d
    <2>1. line # 9 => TableOf[line] \in Tables
      BY <1>3, Tabled
    <2>2. TableOf[line] \notin Lost(PipelineStages[line])
      BY <1>3, <1>10
    <2> QED
      BY <1>9, <1>12, <2>1, <2>2
  <1>14. /\ \A b : (\A t \in ReadsOf[line] : fresh[t].m >= b) => d.m >= b
         /\ \A b : (\A t \in ReadsOf[line] : fresh[t].r >= b) => d.r >= b
    <2>1. ReadsOf[line] \subseteq Tables /\ ReadsOf[line] # {}
      BY <1>3, Tabled
    <2> QED
      BY <1>3, <1>12, <2>1, DerivedAge
  <1>15. Dated'
    BY <1>3, <1>7 DEF Dated
  <1>16. Refilled'
    <2> SUFFICES ASSUME NEW k \in 5 .. 7, Past(k)' PROVE fresh'[TableOf[k]].m >= 0
      BY DEF Refilled
    <2>1. CASE k < line
      <3>1. fresh'[TableOf[k]] = fresh[TableOf[k]] /\ Past(k)
        BY <1>8, <1>11, <2>1
      <3> QED
        BY <3>1 DEF Held, Kept, Refilled
    <2>2. CASE k = line /\ ~s.errors
      <3>1. ReadsOf[line] \cap Resettable = {} /\ ReadsOf[line] \subseteq Tables
        BY <1>3, <2>2, Tabled
      <3>2. \A t \in ReadsOf[line] : fresh[t].m >= 0
        BY <1>3, <3>1 DEF Aged
      <3> QED
        BY <1>13, <1>14, <2>2, <3>2
    <2> QED
      BY <1>8, <2>1, <2>2
  <1>17. Ahead'
    <2> SUFFICES ASSUME passes[n].ok, ~passes[n].redone, NEW k \in Derivations, Behind(k)'
                 PROVE  /\ fresh'[TableOf[k]].m >= passes[n].maps
                        /\ n > 1 /\ passes[n - 1].ok => fresh'[TableOf[k]].r >= passes[n - 1].replays
      BY <1>2, <1>3 DEF Ahead
    <2>1. k \in 1 .. 13 \ {9}
      BY DEF Derivations
    <2>2. CASE k < line
      <3>1. fresh'[TableOf[k]] = fresh[TableOf[k]] /\ Behind(k)
        BY <1>8, <1>11, <2>1, <2>2
      <3> QED
        BY <1>2, <1>3, <3>1 DEF Held, Kept, Ahead
    <2>3. CASE k = line /\ ~s.errors
      <3>1. fresh'[TableOf[k]] = d
        BY <1>13, <2>1, <2>3
      <3>2. \A j \in Derivations : j < k => Behind(j)
        BY <1>8, <2>3 DEF Derivations
      <3>3. \A t \in ReadsOf[k] :
              /\ fresh[t].m >= passes[n].maps
              /\ n > 1 /\ passes[n - 1].ok => fresh[t].r >= passes[n - 1].replays
        BY <1>2, <1>3, <3>2, SourcesReady DEF Held
      <3> QED
        BY <1>14, <2>3, <3>1, <3>3
    <2> QED
      BY <1>8, <2>1, <2>2, <2>3
  <1>18. Washed'
    <2> SUFFICES ASSUME NEW i \in 1 .. n, passes[i].ok
                 PROVE  /\ i < n \/ Behind(10)' => fresh'["clean"].r >= passes[i].replays
                        /\ i < n \/ Behind(11)' => fresh'["cohorts"].r >= passes[i].replays
      BY <1>2, <1>3 DEF Washed
    <2>1. /\ i < n \/ Behind(10) => fresh["clean"].r >= passes[i].replays
          /\ i < n \/ Behind(11) => fresh["cohorts"].r >= passes[i].replays
      BY <1>2, <1>3 DEF Held, Kept, Washed
    <2>2. i < n \/ Behind(10)' => fresh'["clean"].r >= passes[i].replays
      <3>1. CASE i < n \/ line > 10
        BY <1>3, <1>7, <1>8, <2>1, <3>1
      <3>2. CASE line = 10 /\ ~s.errors
        <4>1. ReadsOf[line] = {"replays"} /\ TableOf[line] = "clean"
          BY <3>2 DEF ReadsOf, TableOf
        <4>2. fresh["replays"].r >= passes[i].replays
          <5>1. passes[i] \in PassRec /\ MaxNews \in Nat
            BY <1>3, StagesAssumption
          <5> QED
            BY <1>3, <5>1 DEF Aged, Dated, PassRec
        <4> QED
          BY <1>13, <1>14, <3>2, <4>1, <4>2
      <3> QED
        BY <1>3, <1>8, <3>1, <3>2
    <2>3. i < n \/ Behind(11)' => fresh'["cohorts"].r >= passes[i].replays
      <3>1. CASE i < n
        BY <1>3, <1>7, <2>1, <3>1
      <3>2. CASE line > 11
        <4>1. Behind(10) /\ Behind(11)
          BY <1>3, <1>8, <3>2
        <4> QED
          BY <1>3, <1>7, <2>1, <4>1
      <3>3. CASE line = 11 /\ ~s.errors
        <4>1. ReadsOf[line] = {"clean"} /\ TableOf[line] = "cohorts" /\ Behind(10)
          BY <1>8, <3>3 DEF ReadsOf, TableOf
        <4> QED
          BY <1>13, <1>14, <2>1, <3>3, <4>1
      <3> QED
        BY <1>3, <1>8, <3>1, <3>2, <3>3
    <2> QED
      BY <2>2, <2>3
  <1>19. Whole'
    BY <1>3 DEF Held, Kept, Whole
  <1> QED
    BY <1>7, <1>15, <1>16, <1>17, <1>18, <1>19 DEF Kept

\* What the work leaves behind, its status tells.
LEMMA WorkedKeeps ==
    ASSUME CliTypes, Held, Worked
    PROVE  Held'
  <1>1. PICK s \in DOMAIN proc.cmd.status :
          /\ Outcome(s) /\ proc'.status = proc.cmd.status[s] /\ proc'.status \in Statuses
          /\ \/ behind' = behind
             \/ proc'.status \in Bad /\ behind' = behind \cup {Here}
    BY DEF Worked
  <1>2. /\ Running /\ Running' /\ UNCHANGED <<line, lineExit, passes>> /\ proc.status = "none"
        /\ line \in 0 .. 13 /\ passes \in Seq(PassRec) /\ (line > 0 => Len(passes) > 0)
    BY DEF Worked, CliTypes
  <1>3. Kept'
    <2>1. CASE line = 0
      <3>1. Reworked
        BY <1>1 DEF Outcome, Reworked
      <3> QED
        BY <1>2, <2>1, <3>1, HandKeeps DEF Held
    <2>2. CASE line > 0
      BY <2>2, StageKeeps
    <2> QED
      BY <1>2, <2>1, <2>2
  <1>4. ASSUME NEW b \in behind
        PROVE  b.pass \in 0 .. Len(passes) /\ ~(b.pass > 0 /\ passes[b.pass].ok)
    BY <1>2 DEF Held, Loud
  <1>5. ASSUME proc'.status \in Bad
        PROVE  /\ Here.pass \in 0 .. Len(passes)
               /\ Here.pass > 0 => line > 0 /\ Here.pass = Len(passes)
               /\ proc'.status \notin {"success", "none"}
    <2>1. proc'.status \notin {"success", "none"}
      BY <1>5 DEF Bad, Statuses
    <2>2. Here.pass = IF line > 0 THEN Len(passes) ELSE 0
      BY DEF Here, ThisPass
    <2>3. Len(passes) \in Nat
      BY <1>2
    <2> QED
      BY <1>2, <2>1, <2>2, <2>3
  <1>6. Loud'
    BY <1>1, <1>2, <1>4, <1>5 DEF Loud
  <1> QED
    BY <1>3, <1>6 DEF Held

-----------------------------------------------------------------------------
(* The theorems.                                                           *)

LEMMA CliStarts ==
    ASSUME CliInit
    PROVE  CliInv
  <1>1. /\ proc = Idle /\ stageRuns = << >> /\ passes = << >> /\ line = 0 /\ behind = {}
        /\ lineExit = -1
        /\ spent = [errors |-> 0, losses |-> 0, runs |-> 0]
        /\ fresh = [t \in Tables |->
                        [m |-> IF t \in {"replays", "clean", "cohorts"} THEN Ever ELSE 0,
                         r |-> IF t = "maps" THEN Ever ELSE 0]]
    BY DEF CliInit
  <1>2. MaxNews \in Nat /\ Ever \in Nat
    BY StagesAssumption DEF Ever
  <1>3. fresh \in [Tables -> Age]
    BY <1>1, <1>2 DEF Age
  <1>4. InStep(proc) /\ proc \in ProcRec /\ ~Running /\ proc.row = 0
    BY <1>1, IdleRests DEF Running
  <1>5. CliTypes
    BY <1>1, <1>3, <1>4 DEF CliTypes
  <1>6. OrphanRowsExplained
    <2>1. Orphans = {}
      BY <1>1 DEF Orphans
    <2> QED
      BY <1>1, <2>1, FS_EmptySet DEF OrphanRowsExplained
  <1>7. RowKept /\ OwedKept /\ Loud
    BY <1>1, <1>4 DEF RowKept, OwedKept, Loud
  <1>8. Aged /\ Dated
    BY <1>1, <1>2 DEF Aged, Dated, Tables
  <1>9. Refilled /\ Ahead /\ Washed /\ Whole
    BY <1>1, <1>4 DEF Refilled, Ahead, Washed, Past, Whole
  <1> QED
    BY <1>5, <1>6, <1>7, <1>8, <1>9 DEF CliInv, Sound, Held, Kept

LEMMA CliStepKeeps ==
    ASSUME CliInv, [CliNext]_cliVars
    PROVE  CliInv'
  <1>1. Sound /\ Held /\ CliTypes
    BY DEF CliInv, Sound
  <1>2. Steps
    BY <1>1, StepKinds
  <1>3. Held'
    BY <1>1, <1>2, StillKeeps, BegunKeeps, EndedKeeps, WorkedKeeps, SkipKeeps, BeginKeeps, Zenon
       DEF Steps
  <1> QED
    BY <1>2, <1>3 DEF Steps, CliInv

\* In the script scoring starts when the stages before it are past; by hand, after a
\* script that got to its end, the columns are as it left them.
LEMMA InvScores ==
    ASSUME CliInv
    PROVE  StagesInOrder
  <1>1. CliTypes /\ OrphanRowsExplained /\ OwedKept /\ Aged /\ Refilled /\ Whole
    BY DEF CliInv, Sound, Held, Kept
  <1>2. LeftBehindOnRecord
    BY <1>1 DEF OwedKept, LeftBehindOnRecord
  <1>3. fresh["corridors"].m >= 0
    BY <1>1 DEF Aged, Tables, Resettable
  <1>4. ASSUME \A k \in 5 .. 7 : fresh[TableOf[k]].m >= 0,
               NEW t \in {"support", "weights", "negative", "corridors"}
        PROVE  fresh[t] # Wiped
    <2>1. fresh[TableOf[5]].m >= 0 /\ fresh[TableOf[6]].m >= 0 /\ fresh[TableOf[7]].m >= 0
      BY <1>4
    <2>2. fresh[t].m >= 0
      BY <1>3, <2>1, TableNames
    <2> QED
      BY <2>2 DEF Wiped
  <1>5. ASSUME AtStep("work"), proc.cmd \in {CmdScoreRouteCorridors, CmdScoreCorridorsLearned}
        PROVE  \/ \A t \in {"support", "weights", "negative", "corridors"} : fresh[t] # Wiped
               \/ line = 0 /\ (lineExit # 0 \/ passes[Len(passes)].redone)
    <2>1. Running /\ line \in 0 .. 13
      BY <1>1, <1>5 DEF AtStep, CliTypes
    <2>2. CASE line = 0
      <3>1. lineExit = 0 /\ ~passes[Len(passes)].redone
               => \A k \in 5 .. 7 : fresh[TableOf[k]].m >= 0
        BY <1>1 DEF Whole
      <3> QED
        BY <1>4, <2>2, <3>1
    <2>3. CASE line > 0
      <3>1. proc.cmd = PipelineStages[line] /\ line \in 1 .. 13
        BY <1>1, <2>1, <2>3 DEF CliTypes
      <3>2. proc.cmd.writes \in {{"scores"}, {"learned"}}
        BY <1>5 DEF CmdScoreRouteCorridors, CmdScoreCorridorsLearned, Command
      <3>3. proc.cmd.writes = (IF line = 9 THEN {} ELSE {TableOf[line]})
        <4>1. StageIs(line)
          BY <3>1, Stages
        <4> QED
          BY <3>1, <4>1 DEF StageIs
      <3>4. line > 7
        <4>1. line # 9 /\ TableOf[line] \in {"scores", "learned"}
          BY <3>2, <3>3
        <4>2. \A k \in 1 .. 7 : k = 1 \/ k = 2 \/ k = 3 \/ k = 4 \/ k = 5 \/ k = 6 \/ k = 7
          OBVIOUS
        <4>3. \A k \in 1 .. 7 : TableOf[k] \notin {"scores", "learned"}
          BY <4>2, TableNames, Zenon
        <4> QED
          BY <3>1, <4>1, <4>3
      <3>5. \A k \in 5 .. 7 : fresh[TableOf[k]].m >= 0
        BY <1>1, <3>1, <3>4 DEF Refilled, Past
      <3> QED
        BY <1>4, <3>5
    <2> QED
      BY <2>1, <2>2, <2>3
  <1> QED
    BY <1>1, <1>2, <1>5 DEF StagesInOrder, ScoringSeesWholeEvidence

LEMMA InvFresh ==
    ASSUME CliInv
    PROVE  FreshAfterPasses
  <1>1. CliTypes /\ Aged /\ Dated /\ Ahead /\ Loud
    BY DEF CliInv, Sound, Held, Kept
  <1>2. PICK n \in Nat : n = Len(passes)
    BY <1>1 DEF CliTypes
  <1>3. \A t \in Tables \ {"learned"} :
           t \in {"maps", "replays"} \/ \E k \in Derivations : t = TableOf[k]
    <2>1. \A k \in {1, 2, 3, 4, 5, 6, 7, 8, 10, 11, 12} : k \in Derivations
      BY DEF Derivations
    <2>2. \A t \in {"placements", "graph", "labels", "evidence", "support", "weights"} :
             \E k \in Derivations : t = TableOf[k]
      BY <2>1, TableNames, ZenonT(30)
    <2>3. \A t \in {"negative", "corridors", "clean", "cohorts", "scores"} :
             \E k \in Derivations : t = TableOf[k]
      BY <2>1, TableNames, ZenonT(30)
    <2> QED
      BY <2>2, <2>3 DEF Tables
  <1>4. passes \in Seq(PassRec) /\ DOMAIN passes = 1 .. n
        /\ \A i \in 1 .. n : passes[i].maps \in 0 .. MaxNews /\ passes[i].replays \in 0 .. MaxNews
    <2>1. passes \in Seq(PassRec) /\ DOMAIN passes = 1 .. n
      BY <1>1, <1>2 DEF CliTypes
    <2>2. \A i \in 1 .. n : passes[i] \in PassRec
      BY <2>1
    <2> QED
      BY <2>1, <2>2 DEF PassRec
  <1>5. Ever > MaxNews /\ Ever \in Nat /\ MaxNews \in Nat
    BY StagesAssumption DEF Ever
  <1>6. ASSUME GoodPasses(1), Untouched, NEW t \in Tables \ {"learned"}
        PROVE  fresh[t].m >= passes[n].maps
    <2>1. line = 0 /\ n > 0 /\ passes[n].ok /\ ~passes[n].redone
      BY <1>2, <1>6 DEF GoodPasses, Untouched
    <2>2. CASE t \in {"maps", "replays"}
      <3>1. fresh["maps"].m >= passes[n].maps /\ fresh["replays"].m = Ever
        BY <1>1, <1>4, <2>1 DEF Aged, Dated
      <3> QED
        BY <1>4, <1>5, <2>1, <2>2, <3>1
    <2>3. ASSUME NEW k \in Derivations, t = TableOf[k] PROVE fresh[t].m >= passes[n].maps
      BY <1>1, <1>2, <2>1, <2>3 DEF Ahead, Behind
    <2> QED
      BY <1>3, <2>2, <2>3
  <1>7. ASSUME GoodPasses(2), Untouched, NEW t \in Tables \ {"learned"}
        PROVE  fresh[t].r >= passes[n - 1].replays
    <2>1. line = 0 /\ n > 1 /\ passes[n].ok /\ passes[n - 1].ok /\ ~passes[n].redone
      <3>1. 0 \in 0 .. 2 - 1 /\ 1 \in 0 .. 2 - 1
        OBVIOUS
      <3> QED
        BY <1>2, <1>7, <3>1 DEF GoodPasses, Untouched
    <2>2. CASE t \in {"maps", "replays"}
      <3>1. n - 1 \in 1 .. n
        BY <2>1
      <3>2. fresh["maps"].r = Ever /\ fresh["replays"].r >= passes[n - 1].replays
        BY <1>1, <1>4, <3>1 DEF Aged, Dated
      <3> QED
        BY <1>4, <1>5, <2>2, <3>1, <3>2
    <2>3. ASSUME NEW k \in Derivations, t = TableOf[k] PROVE fresh[t].r >= passes[n - 1].replays
      BY <1>1, <1>2, <2>1, <2>3 DEF Ahead, Behind
    <2> QED
      BY <1>3, <2>2, <2>3
  <1>8. ASSUME GoodPasses(1), NEW b \in behind PROVE b.pass # n
    <2>1. line = 0 /\ n > 0 /\ passes[n].ok
      BY <1>2, <1>8 DEF GoodPasses
    <2> QED
      BY <1>1, <1>2, <2>1 DEF Loud
  <1> QED
    BY <1>2, <1>6, <1>7, <1>8 DEF FreshAfterPasses

\* For any number of ingests, errors, losses, commands by hand and passes: a row left
\* 'running' stands for a kill, a lost connection or an unwritten report; a stage that
\* leaves an item behind for good has a row that does not say success; and scoring,
\* in the script or by hand, meets columns a rebuild has wiped only when the last pass
\* did not get to its end or a rebuild by hand came after it
\* (src/cli/__main__.py, scripts/run_pipeline.sh).
THEOREM StagesAreInOrder ==
    CliInit /\ [][CliNext]_cliVars => []StagesInOrder
  <1>1. CliInit => CliInv
    BY CliStarts
  <1>2. CliInv /\ [CliNext]_cliVars => CliInv'
    BY CliStepKeeps
  <1>3. CliInv => StagesInOrder
    BY InvScores
  <1> QED
    BY <1>1, <1>2, <1>3, PTL

\* A pass whose stages all returned 0 leaves no item behind, and unless evidence or
\* corridors were rebuilt by hand after it, it brings what is made from maps up to the
\* maps it began with, but for items an earlier run had left behind; what is made from
\* replays takes two such passes.  Stages run by hand after it do not undo that
\* (scripts/run_pipeline.sh).
THEOREM FreshAfterGoodPasses ==
    CliInit /\ [][CliNext]_cliVars => []FreshAfterPasses
  <1>1. CliInit => CliInv
    BY CliStarts
  <1>2. CliInv /\ [CliNext]_cliVars => CliInv'
    BY CliStepKeeps
  <1>3. CliInv => FreshAfterPasses
    BY InvFresh
  <1> QED
    BY <1>1, <1>2, <1>3, PTL

-----------------------------------------------------------------------------
(* Block by block synthesis.                                               *)

\* TLC's evaluation order is no part of a value.
LEMMA ValueIs == ASSUME NEW x PROVE Value(x) = x
  BY DEF Value

LEMMA MinOf ==
    ASSUME NEW m \in Int, NEW n \in Int
    PROVE  Min({m, n}) = IF m <= n THEN m ELSE n
  <1>1. PICK k : k = IF m <= n THEN m ELSE n
    OBVIOUS
  <1>2. k \in {m, n} /\ \A y \in {m, n} : k <= y
    BY <1>1
  <1>3. \A x \in {m, n} : (\A y \in {m, n} : x <= y) => x = k
    BY <1>1
  <1> QED
    BY <1>1, <1>2, <1>3 DEF Min

LEMMA MaxOf ==
    ASSUME NEW m \in Int, NEW n \in Int
    PROVE  Max({m, n}) = IF m >= n THEN m ELSE n
  <1>1. PICK k : k = IF m >= n THEN m ELSE n
    OBVIOUS
  <1>2. k \in {m, n} /\ \A y \in {m, n} : k >= y
    BY <1>1
  <1>3. \A x \in {m, n} : (\A y \in {m, n} : x >= y) => x = k
    BY <1>1
  <1> QED
    BY <1>1, <1>2, <1>3 DEF Max

\* The best n positions of a sorted list are positions of it.
LEMMA BestPositions ==
    ASSUME NEW D, D \subseteq Int, IsFiniteSet(D), NEW keys, \A i \in D : keys[i] \in Int,
           NEW n \in Nat
    PROVE  /\ FirstN(Ranked(D, keys), n) \in Seq(D)
           /\ DOMAIN FirstN(Ranked(D, keys), n) = 1 .. Len(FirstN(Ranked(D, keys), n))
  <1>1. PICK neg : neg = [i \in D |-> -keys[i]]
    OBVIOUS
  <1>2. \A i \in D : neg[i] \in Int
    BY <1>1
  <1>3. Ranked(D, keys) = Ordered(D, Stable(D, neg))
    BY <1>1, ValueIs DEF Ranked
  <1>4. IsOrder(Stable(D, neg), D)
    BY <1>2, StableOrders
  <1>5. PICK r : r = Ranked(D, keys)
    OBVIOUS
  <1>6. r \in Seq(D)
    BY <1>3, <1>4, <1>5, OrderedSorts
  <1>7. Len(r) \in Nat
    BY <1>6
  <1>8. Min({n, Len(r)}) \in 0 .. Len(r)
    BY <1>7, MinOf
  <1>9. PICK m \in 0 .. Len(r) : m = Min({n, Len(r)})
    BY <1>8
  <1>10. SubSeq(r, 1, m) \in Seq(D)
    <2>1. \A i \in 1 .. m : r[i] \in D
      BY <1>6, <1>7
    <2> QED
      BY <1>6, <1>7, <2>1, SubSeqProperties
  <1>11. FirstN(Ranked(D, keys), n) = SubSeq(r, 1, m)
    BY <1>5, <1>9 DEF FirstN
  <1>12. \A q \in Seq(D) : DOMAIN q = 1 .. Len(q)
    OBVIOUS
  <1> QED
    BY <1>10, <1>11, <1>12

-----------------------------------------------------------------------------
(* One step. *)

LEMMA StepCells ==
    ASSUME NEW c \in Cells, NEW d
    PROVE  /\ DirectionToward(c, d) \in 0 .. 3
           /\ StepFrom(c, DirectionToward(c, d)) \in Cells
           /\ Chebyshev(c, StepFrom(c, DirectionToward(c, d))) = 1
  <1>1. PICK r : r = DirectionToward(c, d)
    OBVIOUS
  <1>2. r \in 0 .. 3
    BY <1>1 DEF DirectionToward
  <1>3. PICK x \in Int, y \in Int, z \in Int : c = <<x, y, z>>
    BY DEF Cells
  <1>4. DirByRot[r] \in {<<1, 0>>, <<0, 1>>, <<-1, 0>>, <<0, -1>>}
    <2>1. DirByRot[0] = <<1, 0>> /\ DirByRot[1] = <<0, 1>>
      BY DEF DirByRot
    <2>2. DirByRot[2] = <<-1, 0>> /\ DirByRot[3] = <<0, -1>>
      BY DEF DirByRot
    <2>3. r = 0 \/ r = 1 \/ r = 2 \/ r = 3
      BY <1>2
    <2> QED
      BY <2>1, <2>2, <2>3
  <1>5. PICK i \in {-1, 0, 1}, k \in {-1, 0, 1} :
            /\ DirByRot[r] = <<i, k>> /\ Apart(i, 0) + Apart(k, 0) = 1
    <2>1. /\ Apart(0, 0) = 0 /\ Apart(1, 0) = 1 /\ Apart(-1, 0) = 1
          /\ -1 \in {-1, 0, 1} /\ 0 \in {-1, 0, 1} /\ 1 \in {-1, 0, 1}
      BY DEF Apart
    <2>2. CASE DirByRot[r] = <<1, 0>>
      BY <2>1, <2>2
    <2>3. CASE DirByRot[r] = <<0, 1>>
      BY <2>1, <2>3
    <2>4. CASE DirByRot[r] = <<-1, 0>>
      BY <2>1, <2>4
    <2>5. CASE DirByRot[r] = <<0, -1>>
      BY <2>1, <2>5
    <2> QED
      BY <1>4, <2>2, <2>3, <2>4, <2>5
  <1>6. StepFrom(c, r) = <<x + i, y, z + k>>
    BY <1>3, <1>5 DEF StepFrom, Shift
  <1>7. PICK e : e = StepFrom(c, r)
    OBVIOUS
  <1>8. e \in Cells /\ e[1] = x + i /\ e[2] = y /\ e[3] = z + k
    BY <1>6, <1>7 DEF Cells
  <1>9. c[1] = x /\ c[2] = y /\ c[3] = z
    BY <1>3
  <1>10. PICK S : S = {Apart(c[j], e[j]) : j \in 1 .. 3}
    OBVIOUS
  <1>11. \A j \in 1 .. 3 : Apart(c[j], e[j]) \in {0, 1}
    BY <1>5, <1>8, <1>9 DEF Apart
  <1>12. \E j \in 1 .. 3 : Apart(c[j], e[j]) = 1
    BY <1>5, <1>8, <1>9 DEF Apart
  <1>13. 1 \in S /\ \A s \in S : s \in {0, 1}
    BY <1>10, <1>11, <1>12
  <1>14. Max(S) = 1
    <2>1. \A s \in S : 1 >= s
      BY <1>13
    <2>2. \A s \in S : (\A t \in S : s >= t) => s = 1
      BY <1>13
    <2> QED
      BY <1>13, <2>1, <2>2 DEF Max
  <1> QED
    BY <1>1, <1>2, <1>7, <1>8, <1>10, <1>14 DEF Chebyshev

\* A block one cell long takes the cell it stands on, and shadows none.
LEMMA OneCell ==
    ASSUME NEW c, NEW r
    PROVE  FootprintCells(c, r, 1) = {c}
  BY DEF FootprintCells

-----------------------------------------------------------------------------
(* Scores. *)

LEMMA PriorInt == \A given, next : Prior(PairCounts, given, next) \in Int
                                   /\ Prior(TripleCounts, given, next) \in Int
  <1>1. ASSUME NEW counts, IsFiniteSet(DOMAIN counts),
               \A p \in DOMAIN counts : counts[p] \in Nat, NEW given, NEW next
        PROVE  Prior(counts, given, next) \in Int
    <2>1. PICK S : S = {p \in DOMAIN counts : SubSeq(p, 1, Len(given)) = given}
      OBVIOUS
    <2>2. S \subseteq DOMAIN counts
      BY <2>1
    <2>3. IsFiniteSet(S)
      BY <1>1, <2>2, FS_Subset
    <2>4. \A p \in S : counts[p] \in Nat
      BY <1>1, <2>2
    <2>5. SumOver(counts, S) \in Nat
      BY <2>3, <2>4, SumOverNat
    <2>6. PICK t \in Nat : t = SumOver(counts, S)
      BY <2>5
    <2>7. PICK p : p = Append(given, next)
      OBVIOUS
    <2>8. Prior(counts, given, next) =
            IF p \in DOMAIN counts /\ t > 0 THEN (counts[p] * Unit) \div t ELSE 0
      BY <2>1, <2>6, <2>7 DEF Prior
    <2>9. ASSUME p \in DOMAIN counts, t > 0 PROVE (counts[p] * Unit) \div t \in Int
      <3>1. counts[p] * Unit \in Int
        BY <1>1, <2>9 DEF Unit
      <3> QED
        BY <3>1, <2>9
    <2> QED
      BY <2>8, <2>9
  <1> QED
    BY <1>1, AiAssumption

LEMMA SequencePairInt == \A p, n : SequencePairScore(p, n) \in Int
  <1> SUFFICES ASSUME NEW p, NEW n PROVE SequencePairScore(p, n) \in Int
    OBVIOUS
  <1> DEFINE a == ShapeSurface(p)
             b == ShapeSurface(n)
             joined == IF <<a.shape, b.shape>> \in CompatiblePairs THEN 3 ELSE 0
             alike == IF a.surface # "" /\ a.surface = b.surface THEN 3 ELSE 0
  <1>1. joined \in {0, 3} /\ alike \in {0, 3}
    OBVIOUS
  <1>2. /\ (Unit * 3) \div 10 \in Int
        /\ \A x, y \in {0, 3} : (Unit \div 10) * (4 + x + y) \in Int
    BY DEF Unit
  <1>3. SequencePairScore(p, n) \in
           {0, (Unit * 3) \div 10, (Unit \div 10) * (4 + joined + alike)}
    <2>1. CASE a.shape = "" \/ b.shape = ""
      BY <2>1 DEF SequencePairScore
    <2>2. CASE /\ a.shape # "" /\ b.shape # "" 
               /\ "unknown" \in {a.shape, b.shape}
      BY <2>2 DEF SequencePairScore
    <2>3. CASE /\ a.shape # "" /\ b.shape # ""
               /\ "unknown" \notin {a.shape, b.shape}
      BY <2>3 DEF SequencePairScore
    <2> QED
      BY <2>1, <2>2, <2>3
  <1> HIDE DEF joined, alike
  <1> QED
    BY <1>1, <1>2, <1>3

LEMMA ScoreInt ==
    ASSUME NEW beam, Len(beam.blocks) \in Nat, DOMAIN beam.blocks = 1 .. Len(beam.blocks),
           beam.blocks # << >> => Len(beam.blocks) > 0,
           NEW row, row.fx = 1, NEW c, NEW rot, NEW taken
    PROVE  ScoreCandidate(beam, row, c, rot, taken) \in Int
  <1> DEFINE p1 == PrevBlock(beam, 1)
             p2 == PrevBlock(beam, 2)
             pair == IF p1 = "none" THEN 0 ELSE LoadPairPriors(p1, row.name)
             triple == IF "none" \in {p1, p2} THEN 0 ELSE LoadTriplePriors(p2, p1, row.name)
             seq == IF p1 = "none" THEN 0 ELSE SequencePairScore(p1, row.name)
             S == {i \in DOMAIN beam.blocks : beam.blocks[i].name = row.name}
             repeat == IF beam.blocks = << >> THEN 0
                       ELSE (Cardinality(S) * Unit) \div Len(beam.blocks)
             clear == ShadowCellsClear(c, rot, row.fx, taken)
  <1>1. pair \in Int /\ triple \in Int
    BY PriorInt DEF LoadPairPriors, LoadTriplePriors
  <1>2. seq \in Int
    BY SequencePairInt
  <1>3. repeat \in Int
    <2>1. S \subseteq 1 .. Len(beam.blocks)
      OBVIOUS
    <2>2. IsFiniteSet(1 .. Len(beam.blocks))
      <3>1. PICK n \in Nat : n = Len(beam.blocks)
        OBVIOUS
      <3>2. IsFiniteSet(1 .. n)
        BY FS_Interval
      <3> QED
        BY <3>1, <3>2
    <2>3. IsFiniteSet(S)
      BY <2>1, <2>2, FS_Subset
    <2>4. Cardinality(S) \in Nat
      BY <2>3, FS_CardinalityType
    <2> HIDE DEF S
    <2>5. Cardinality(S) * Unit \in Int
      BY <2>4 DEF Unit
    <2>6. CASE beam.blocks = << >>
      BY <2>6
    <2>7. CASE beam.blocks # << >>
      <3>1. Len(beam.blocks) > 0
        BY <2>7
      <3> QED
        BY <2>5, <2>7, <3>1
    <2> QED
      BY <2>6, <2>7
  <1>4. clear = 0
    BY OneCell DEF ShadowCellsClear
  <1>5. ScoreCandidate(beam, row, c, rot, taken) =
            10 * pair + 7 * triple + 5 * Unit + (IF pair > 0 THEN 5 * Unit ELSE 0)
            + 3 * seq - 3 * repeat - 4 * clear
    BY SMTT(20) DEF ScoreCandidate
  <1> HIDE DEF pair, triple, seq, repeat, clear
  <1> QED
    BY <1>1, <1>2, <1>3, <1>4, <1>5 DEF Unit

-----------------------------------------------------------------------------
(* The invariant.  A beam of n blocks fits when it is a path of n cells from *)
(* src, each a step from the one before, none of them taken or used twice. *)

Names == {Rows[i].name : i \in DOMAIN Rows}
Placed == [name : Names, cell : Cells, rot : 0 .. 3]
Beam == [from : {AnchorBlockAt(Src.cell)}, blocks : Seq(Placed), cell : Cells,
         own : SUBSET Cells, sum : Int]

Fits(b, src, occ, n) ==
    /\ Len(b.blocks) = n
    /\ b.cell = IF n = 0 THEN src ELSE b.blocks[n].cell
    /\ \A i \in 1 .. n : b.blocks[i].cell \in b.own
    /\ \A i, j \in 1 .. n : b.blocks[i].cell = b.blocks[j].cell => i = j
    /\ b.own \cap occ = {}
    /\ n > 0 => Chebyshev(src, b.blocks[1].cell) = 1
    /\ \A i \in 2 .. n : Chebyshev(b.blocks[i - 1].cell, b.blocks[i].cell) = 1

AnchorsStand ==
    /\ Len(aiBase.anchors) \in Nat /\ DOMAIN aiBase.anchors = 1 .. Len(aiBase.anchors)
    /\ \A k \in DOMAIN aiBase.anchors :
          aiBase.anchors[k].cell \in Cells /\ aiBase.anchors[k].cell \in occupied
    /\ (aiBase.anchors = << >>) <=> (Len(aiBase.anchors) = 0)

BeamsFit ==
    /\ completed = << >>
    /\ live \in Seq(Beam)
    /\ \A i \in DOMAIN live : Fits(live[i], Src.cell, occupied, layer)
    /\ BeamsMoveTogether
    /\ live # << >> => Walking

RouteHolds(anchors, r, i) ==
    /\ r # << >> /\ r[1] = anchors[i].cell
    /\ \A k \in 2 .. Len(r) : Chebyshev(r[k - 1], r[k]) = 1
    /\ BesideXZ(Last(r), anchors[i + 1].cell)

BuiltRec == built \in [blocks : Seq(Placed), routes : Seq(Seq(Cells)), sum : Int]
InPlace == \A i \in DOMAIN built.blocks : built.blocks[i].cell \in occupied
RoutesHold ==
    \A i \in 1 .. aiAt - 1 :
        i \in DOMAIN built.routes /\ RouteHolds(aiBase.anchors, built.routes[i], i)

BuiltHolds ==
    /\ BuiltRec /\ BlocksApart /\ RoutesHold
    /\ ~outcome.done =>
         InPlace /\ ~outcome.verified /\ (aiAt > 0 => Len(built.routes) = aiAt - 1)
    /\ outcome.verified =>
         aiAt > 0 /\ aiAt = Len(aiBase.anchors) /\ Len(built.routes) = aiAt - 1
    /\ aiAt = 0 => built.blocks = << >> /\ built.routes = << >>

Outcomes == [done : BOOLEAN, verified : BOOLEAN,
             reason : {"none", "empty_corridors", "plain_cp_not_supported_v0",
                       "no_valid_candidates", "beam_exhausted", "confidence_below_floor"}]

Synthesised ==
    /\ AnchorsStand /\ BeamsFit /\ BuiltHolds
    /\ aiAt \in 0 .. Len(aiBase.anchors) /\ width \in Nat /\ layer \in Nat
    /\ outcome \in Outcomes

-----------------------------------------------------------------------------
(* One layer. *)

NextCell(b) == StepFrom(b.cell, DirectionToward(b.cell, Dst.cell))
\* What a beam with these cells becomes.
Child(own, c, n) ==
    {x \in Beam : /\ x.own = own \cup {c} /\ x.cell = c
                  /\ Fits(x, Src.cell, occupied, n + 1)}

LEMMA CatalogueRows ==
    /\ IsFiniteSet(DOMAIN Catalogue) /\ DOMAIN Catalogue \subseteq Int
    /\ \A i \in DOMAIN Catalogue : Catalogue[i].fx = 1 /\ Catalogue[i].name \in Names
  <1>1. PICK I : /\ I \subseteq DOMAIN Rows /\ Catalogue = Picked(Rows, I)
                 /\ \A i \in I : Rows[i].fx = 1
    BY DEF Catalogue, LoadCandidateCatalogue
  <1>2. IsFiniteSet(DOMAIN Rows) /\ DOMAIN Rows \subseteq Int
    BY AiAssumption, FS_Interval
  <1>3. IsFiniteSet(I) /\ I \subseteq Int
    BY <1>1, <1>2, FS_Subset
  <1>4. Cardinality(I) \in Nat /\ \A n \in 1 .. Cardinality(I) : Ascending(I)[n] \in I
    BY <1>3, AscendingSorts
  <1>5. /\ DOMAIN Catalogue = 1 .. Cardinality(I)
        /\ \A n \in 1 .. Cardinality(I) : Catalogue[n] = Rows[Ascending(I)[n]]
    BY <1>1 DEF Picked
  <1>6. IsFiniteSet(1 .. Cardinality(I)) /\ 1 .. Cardinality(I) \subseteq Int
    BY <1>4, FS_Interval
  <1>7. \A n \in DOMAIN Catalogue : Catalogue[n].fx = 1 /\ Catalogue[n].name \in Names
    BY <1>1, <1>4, <1>5 DEF Names
  <1> QED
    BY <1>5, <1>6, <1>7

\* One block more, in a free cell beside the last.
LEMMA OneBlockMore ==
    ASSUME NEW b \in Beam, NEW n \in Nat, NEW src, NEW occ, Fits(b, src, occ, n),
           NEW c \in Cells, c \notin occ \cup b.own, Chebyshev(b.cell, c) = 1,
           NEW p \in Placed, p.cell = c,
           NEW x \in Beam, x.blocks = Append(b.blocks, p), x.cell = c,
           x.own = b.own \cup {c}
    PROVE  Fits(x, src, occ, n + 1)
  <1>1. b.blocks \in Seq(Placed) /\ Len(b.blocks) = n
    BY DEF Beam, Fits
  <1>2. /\ Len(x.blocks) = n + 1 /\ x.blocks[n + 1] = p
        /\ \A i \in 1 .. n : x.blocks[i] = b.blocks[i]
    BY <1>1
  <1>3. \A i \in 1 .. n + 1 : i \in 1 .. n \/ i = n + 1
    OBVIOUS
  <1>4. \A i \in 1 .. n : b.blocks[i].cell \in b.own
    BY DEF Fits
  <1>5. \A i \in 1 .. n + 1 : x.blocks[i].cell \in x.own
    BY <1>2, <1>3, <1>4
  <1>6. \A i, j \in 1 .. n + 1 : x.blocks[i].cell = x.blocks[j].cell => i = j
    <2>1. \A i \in 1 .. n : x.blocks[i].cell # c
      BY <1>2, <1>4
    <2>2. x.blocks[n + 1].cell = c
      BY <1>2
    <2>3. \A i, j \in 1 .. n : x.blocks[i].cell = x.blocks[j].cell => i = j
      BY <1>2 DEF Fits
    <2> QED
      BY <1>3, <2>1, <2>2, <2>3
  <1>7. x.own \cap occ = {}
    BY DEF Fits
  <1>8. Chebyshev(src, x.blocks[1].cell) = 1
    <2>1. CASE n = 0
      BY <2>1, <1>2 DEF Fits
    <2>2. CASE n > 0
      BY <2>2, <1>2 DEF Fits
    <2> QED
      BY <2>1, <2>2
  <1>9. ASSUME NEW i \in 2 .. n + 1
        PROVE  Chebyshev(x.blocks[i - 1].cell, x.blocks[i].cell) = 1
    <2>1. CASE i = n + 1
      <3>1. n # 0 /\ n \in 1 .. n /\ i - 1 = n
        BY <2>1
      <3>2. b.cell = b.blocks[n].cell
        BY <3>1 DEF Fits
      <3> QED
        BY <1>2, <2>1, <3>1, <3>2
    <2>2. CASE i # n + 1
      <3>1. i \in 2 .. n /\ i \in 1 .. n /\ i - 1 \in 1 .. n
        BY <2>2
      <3> QED
        BY <1>2, <3>1 DEF Fits
    <2> QED
      BY <2>1, <2>2
  <1>10. x.cell = x.blocks[n + 1].cell /\ n + 1 # 0
    BY <1>2
  <1> QED
    BY <1>2, <1>5, <1>6, <1>7, <1>8, <1>9, <1>10 DEF Fits

LEMMA Expanding ==
    ASSUME NEW b \in Beam, NEW n \in Nat, Fits(b, Src.cell, occupied, n)
    PROVE  ExpandBeam(b, Dst.cell, Catalogue) \in Seq(Child(b.own, NextCell(b), n))
  <1>1. PICK rot : rot = DirectionToward(b.cell, Dst.cell)
    OBVIOUS
  <1>2. PICK c : c = StepFrom(b.cell, rot)
    OBVIOUS
  <1>3. /\ b.blocks \in Seq(Placed) /\ b.cell \in Cells /\ b.own \in SUBSET Cells
        /\ b.sum \in Int /\ b.from = AnchorBlockAt(Src.cell)
    BY DEF Beam
  <1>4. rot \in 0 .. 3 /\ c \in Cells /\ Chebyshev(b.cell, c) = 1 /\ NextCell(b) = c
    BY <1>1, <1>2, <1>3, StepCells DEF NextCell
  <1>5. PICK scores : scores = [i \in DOMAIN Catalogue |->
                                  ScoreCandidate(b, Catalogue[i], c, rot, Taken(b))]
    OBVIOUS
  <1>6. \A i \in DOMAIN Catalogue : scores[i] \in Int
    <2>1. /\ Len(b.blocks) \in Nat /\ DOMAIN b.blocks = 1 .. Len(b.blocks)
          /\ b.blocks # << >> => Len(b.blocks) > 0
      BY <1>3, EmptySeq
    <2> QED
      BY <1>5, <2>1, CatalogueRows, ScoreInt
  <1>7. PICK best : best = FirstN(Ranked(DOMAIN Catalogue, scores), TopChildren)
    OBVIOUS
  <1>8. best \in Seq(DOMAIN Catalogue) /\ DOMAIN best = 1 .. Len(best) /\ Len(best) \in Nat
    <2>1. TopChildren \in Nat
      BY AiAssumption
    <2>2. best \in Seq(DOMAIN Catalogue) /\ DOMAIN best = 1 .. Len(best)
      BY <1>6, <1>7, <2>1, CatalogueRows, BestPositions
    <2> QED
      BY <2>2
  <1> DEFINE Longer(i) ==
                [from |-> b.from,
                 blocks |-> Append(b.blocks, [name |-> Catalogue[best[i]].name, cell |-> c,
                                              rot |-> rot]),
                 cell |-> c,
                 own |-> b.own \cup FootprintCells(c, rot, Catalogue[best[i]].fx),
                 sum |-> b.sum + scores[best[i]]]
  <1>9. ExpandBeam(b, Dst.cell, Catalogue) =
            IF c \in Taken(b) THEN << >> ELSE [i \in 1 .. Len(best) |-> Longer(i)]
    BY <1>1, <1>2, <1>5, <1>7, ValueIs, ZenonT(30) DEF ExpandBeam
  <1>10. ASSUME c \notin Taken(b), NEW i \in 1 .. Len(best)
         PROVE  Longer(i) \in Child(b.own, c, n)
    <2>1. PICK j \in DOMAIN Catalogue : j = best[i]
      BY <1>8
    <2>2. Catalogue[j].fx = 1 /\ Catalogue[j].name \in Names /\ scores[j] \in Int
      BY <1>6, CatalogueRows
    <2>3. PICK p : p = [name |-> Catalogue[j].name, cell |-> c, rot |-> rot]
      OBVIOUS
    <2>4. p \in Placed /\ p.cell = c
      BY <1>4, <2>2, <2>3 DEF Placed
    <2>5. PICK x : x = [from |-> b.from, blocks |-> Append(b.blocks, p), cell |-> c,
                        own |-> b.own \cup {c}, sum |-> b.sum + scores[j]]
      OBVIOUS
    <2>6. Longer(i) = x
      BY <2>1, <2>2, <2>3, <2>5, OneCell
    <2>7. x.blocks = Append(b.blocks, p) /\ x.cell = c /\ x.own = b.own \cup {c}
      BY <2>5
    <2>8. x \in Beam
      <3>1. Append(b.blocks, p) \in Seq(Placed)
        BY <1>3, <2>4
      <3>2. b.own \cup {c} \in SUBSET Cells /\ b.sum + scores[j] \in Int
        BY <1>3, <1>4, <2>2
      <3> QED
        BY <1>3, <1>4, <2>5, <3>1, <3>2 DEF Beam
    <2>9. c \notin occupied \cup b.own
      BY <1>10 DEF Taken
    <2>10. Fits(x, Src.cell, occupied, n + 1)
      BY <1>4, <2>4, <2>7, <2>8, <2>9, OneBlockMore
    <2> HIDE DEF Longer
    <2> QED
      BY <2>6, <2>7, <2>8, <2>10 DEF Child
  <1> HIDE DEF Longer
  <1>11. CASE c \in Taken(b)
    BY <1>9, <1>11
  <1>12. CASE c \notin Taken(b)
    <2>1. [i \in 1 .. Len(best) |-> Longer(i)] \in Seq(Child(b.own, c, n))
      BY <1>8, <1>10, <1>12
    <2> QED
      BY <1>4, <1>9, <1>12, <2>1
  <1> QED
    BY <1>11, <1>12

LEMMA PickedBeams ==
    ASSUME BeamsFit, NEW I, I \subseteq DOMAIN live
    PROVE  /\ Picked(live, I) \in Seq(Beam)
           /\ \A n \in DOMAIN Picked(live, I) : \E i \in I : Picked(live, I)[n] = live[i]
           /\ I = {} => Picked(live, I) = << >>
  <1>1. live \in Seq(Beam)
    BY DEF BeamsFit
  <1>2. /\ Picked(live, I) \in Seq(Beam) /\ DOMAIN Picked(live, I) = 1 .. Cardinality(I)
        /\ \A n \in 1 .. Cardinality(I) :
              Ascending(I)[n] \in I /\ Picked(live, I)[n] = live[Ascending(I)[n]]
    BY <1>1, PickedMembers
  <1>3. I = {} => Cardinality(I) = 0
    BY FS_EmptySet
  <1>4. I = {} => Picked(live, I) = << >>
    BY <1>2, <1>3
  <1> QED
    BY <1>2, <1>4

\* The beams arrive together.
LEMMA ArriveTogether ==
    ASSUME BeamsFit
    PROVE  /\ Going \in Seq(Beam) /\ Arrived \in Seq(Beam)
           /\ \A n \in DOMAIN Going : \E i \in DOMAIN live : Going[n] = live[i]
           /\ \A n \in DOMAIN Arrived : \E i \in DOMAIN live :
                 Arrived[n] = live[i] /\ BeamReachedDst(live[i], Dst.cell)
           /\ Going # << >> => Arrived = << >>
  <1>1. PICK G : G = {i \in DOMAIN live : ~BeamReachedDst(live[i], Dst.cell)}
    OBVIOUS
  <1>2. PICK A : A = {i \in DOMAIN live : BeamReachedDst(live[i], Dst.cell)}
    OBVIOUS
  <1>3. Going = Picked(live, G) /\ Arrived = Picked(live, A)
    BY <1>1, <1>2 DEF Going, Arrived
  <1>4. G \subseteq DOMAIN live /\ A \subseteq DOMAIN live
    BY <1>1, <1>2
  <1>5. /\ \A i \in DOMAIN live : live[i] \in Beam
        /\ \A i \in DOMAIN live : Len(live[i].blocks) = layer
        /\ \A i, j \in DOMAIN live : live[i].cell = live[j].cell
    <2>1. \A i \in DOMAIN live : Len(live[i].blocks) = layer
      BY DEF BeamsFit, Fits
    <2>2. \A i, j \in DOMAIN live : live[i].cell = live[j].cell
      BY DEF BeamsFit, BeamsMoveTogether
    <2>3. live \in Seq(Beam)
      BY DEF BeamsFit
    <2>4. \A i \in DOMAIN live : live[i] \in Beam
      BY <2>3
    <2> QED
      BY <2>1, <2>2, <2>4
  <1>6. \A i \in DOMAIN live : live[i].blocks = << >> <=> layer = 0
    <2>1. \A i \in DOMAIN live : live[i].blocks \in Seq(Placed)
      BY <1>5 DEF Beam
    <2> QED
      BY <1>5, <2>1, EmptySeq
  <1>7. \A i, j \in DOMAIN live :
            BeamReachedDst(live[i], Dst.cell) <=> BeamReachedDst(live[j], Dst.cell)
    BY <1>5, <1>6 DEF BeamReachedDst
  <1>8. G # {} => A = {}
    BY <1>1, <1>2, <1>7
  <1>9. G = {} => Going = << >>
    BY <1>3, <1>4, PickedBeams
  <1>10. A = {} => Arrived = << >>
    BY <1>3, <1>4, PickedBeams
  <1>11. /\ Going \in Seq(Beam) /\ \A n \in DOMAIN Going : \E i \in G : Going[n] = live[i]
    BY <1>3, <1>4, PickedBeams
  <1>12. /\ Arrived \in Seq(Beam) /\ \A n \in DOMAIN Arrived : \E i \in A : Arrived[n] = live[i]
    BY <1>3, <1>4, PickedBeams
  <1> QED
    BY <1>1, <1>2, <1>8, <1>9, <1>10, <1>11, <1>12

LEMMA BestOf ==
    ASSUME NEW X, NEW s \in Seq(X), s # << >>, NEW n \in Nat \ {0},
           \A i \in DOMAIN s : s[i].sum \in Int /\ Len(s[i].blocks) = n
    PROVE  \E i \in DOMAIN s : BestBeam(s) = s[i]
  <1>1. DOMAIN s = 1 .. Len(s) /\ Len(s) \in Nat /\ Len(s) # 0
    BY EmptySeq
  <1>2. Max({1, n}) = n
    BY MaxOf
  <1>3. \A x, y \in Int : x * n > y * n <=> x > y
    <2> SUFFICES ASSUME NEW x \in Int, NEW y \in Int PROVE x * n > y * n <=> x > y
      OBVIOUS
    <2>1. PICK d \in Int : d = x - y
      OBVIOUS
    <2>2. x = y + d
      BY <2>1
    <2>6. (y + d) * n = y * n + d * n
      OBVIOUS
    <2>3. d * n > 0 <=> d > 0
      OBVIOUS
    <2>4. x * n \in Int /\ y * n \in Int /\ d * n \in Int
      OBVIOUS
    <2>5. x * n > y * n <=> d * n > 0
      BY <2>2, <2>4, <2>6
    <2> QED
      BY <2>2, <2>3, <2>5
  <1>4. \A i, j \in DOMAIN s : Better(s[i], s[j]) <=> s[i].sum > s[j].sum
    <2> SUFFICES ASSUME NEW i \in DOMAIN s, NEW j \in DOMAIN s
                 PROVE  Better(s[i], s[j]) <=> s[i].sum > s[j].sum
      OBVIOUS
    <2>2. Len(s[i].blocks) = n /\ Len(s[j].blocks) = n
      OBVIOUS
    <2>3. Better(s[i], s[j]) <=>
             \/ s[i].sum * Max({1, Len(s[j].blocks)}) > s[j].sum * Max({1, Len(s[i].blocks)})
             \/ /\ s[i].sum * Max({1, Len(s[j].blocks)}) = s[j].sum * Max({1, Len(s[i].blocks)})
                /\ Len(s[i].blocks) < Len(s[j].blocks)
      BY DEF Better
    <2>1. Better(s[i], s[j]) <=> s[i].sum * n > s[j].sum * n
      BY <1>2, <2>2, <2>3
    <2> QED
      BY <1>3, <2>1
  <1>5. PICK D : D = DOMAIN s
    OBVIOUS
  <1>6. D = 1 .. Len(s) /\ D \subseteq Int /\ IsFiniteSet(D)
    BY <1>1, <1>5, FS_Interval
  <1>7. PICK neg : neg = [i \in D |-> -s[i].sum]
    OBVIOUS
  <1>8. \A i \in D : neg[i] \in Int /\ neg[i] = -s[i].sum
    BY <1>5, <1>7
  <1>9. PICK o : o = Ordered(D, Stable(D, neg))
    OBVIOUS
  <1>10. /\ DOMAIN o = 1 .. Cardinality(D) /\ Cardinality(D) = Len(s)
         /\ o \in Seq(D)
         /\ \A m, j \in 1 .. Cardinality(D) : m < j <=> <<o[m], o[j]>> \in Stable(D, neg)
         /\ \A x \in D : \E m \in 1 .. Cardinality(D) : o[m] = x
    <2>1. IsOrder(Stable(D, neg), D)
      BY <1>6, <1>8, StableOrders
    <2>2. PICK l \in Nat : l = Len(s) /\ D = 1 .. l
      BY <1>1, <1>6
    <2>3. Cardinality(1 .. l) = IF 1 > l THEN 0 ELSE l - 1 + 1
      BY FS_Interval
    <2>4. Cardinality(D) = Len(s)
      BY <2>2, <2>3
    <2>5. PICK R : R = Stable(D, neg)
      OBVIOUS
    <2>6. IsOrder(R, D) /\ IsFiniteSet(D) /\ o = Ordered(D, R)
      BY <1>6, <1>9, <2>1, <2>5
    <2>7. o \in Seq(D) /\ DOMAIN o = 1 .. Cardinality(D)
      BY <2>6, OrderedSorts
    <2>8. \A m, j \in 1 .. Cardinality(D) : m < j <=> <<o[m], o[j]>> \in R
      BY <2>6, OrderedSorts
    <2>9. \A x \in D : \E m \in 1 .. Cardinality(D) : o[m] = x
      BY <2>6, OrderedSorts
    <2> QED
      BY <2>4, <2>5, <2>7, <2>8, <2>9
  <1>11. PICK i \in D : i = o[1]
    <2>1. 1 \in DOMAIN o
      BY <1>1, <1>10
    <2> QED
      BY <1>10, <2>1
  <1>12. ASSUME NEW j \in D, j # i
         PROVE  s[i].sum > s[j].sum \/ (s[i].sum = s[j].sum /\ i < j)
    <2>1. PICK m \in 1 .. Cardinality(D) : o[m] = j
      BY <1>10
    <2>2. 1 < m /\ 1 \in 1 .. Cardinality(D)
      BY <1>10, <1>11, <1>12, <2>1
    <2>3. <<i, j>> \in Stable(D, neg)
      BY <1>10, <1>11, <2>1, <2>2
    <2>4. neg[i] < neg[j] \/ (neg[i] = neg[j] /\ i < j)
      BY <2>3 DEF Stable
    <2> QED
      BY <1>5, <1>8, <2>4
  <1>13. \A j \in DOMAIN s : ~Better(s[j], s[i])
    <2> SUFFICES ASSUME NEW j \in D PROVE ~(s[j].sum > s[i].sum)
      BY <1>4, <1>5
    <2>1. s[i].sum \in Int /\ s[j].sum \in Int
      BY <1>5
    <2>2. j = i \/ s[i].sum >= s[j].sum
      BY <1>12, <2>1
    <2> QED
      BY <2>1, <2>2
  <1>14. \A j \in 1 .. i - 1 : Better(s[i], s[j])
    <2> SUFFICES ASSUME NEW j \in 1 .. i - 1 PROVE Better(s[i], s[j])
      OBVIOUS
    <2>1. j \in D /\ j # i /\ ~(i < j)
      BY <1>6
    <2>2. s[i].sum > s[j].sum
      BY <1>12, <2>1
    <2> QED
      BY <1>4, <1>5, <2>1, <2>2
  <1>15. PICK h : h = CHOOSE q \in DOMAIN s :
                        /\ \A j \in DOMAIN s : ~Better(s[j], s[q])
                        /\ \A j \in 1 .. q - 1 : Better(s[q], s[j])
    OBVIOUS
  <1>16. h \in DOMAIN s
    BY <1>5, <1>13, <1>14, <1>15
  <1> QED
    BY <1>15, <1>16 DEF BestBeam

-----------------------------------------------------------------------------
(* What a beam adds to the map. *)

\* A beam that arrived fills its interval.
LEMMA PathHolds ==
    ASSUME AnchorsStand, Walking, aiAt \in Nat,
           NEW b \in Beam, NEW n \in Nat \ {0}, Fits(b, Src.cell, occupied, n)
    PROVE  /\ BeamPath(b) \in Seq(Cells)
           /\ BesideXZ(b.cell, Dst.cell) => RouteHolds(aiBase.anchors, BeamPath(b), aiAt)
  <1>1. b.blocks \in Seq(Placed) /\ Len(b.blocks) = n /\ DOMAIN b.blocks = 1 .. n
    BY DEF Beam, Fits
  <1>2. PICK cells : cells = [i \in DOMAIN b.blocks |-> b.blocks[i].cell]
    OBVIOUS
  <1>3. \A i \in 1 .. n : b.blocks[i].cell \in Cells
    <2>1. \A i \in 1 .. n : b.blocks[i] \in Placed
      BY <1>1
    <2> QED
      BY <2>1 DEF Placed
  <1>4. cells \in Seq(Cells) /\ Len(cells) = n /\ \A i \in 1 .. n : cells[i] = b.blocks[i].cell
    BY <1>1, <1>2, <1>3
  <1>5. Src.cell \in Cells /\ Src.cell = aiBase.anchors[aiAt].cell
    <2>1. aiAt \in DOMAIN aiBase.anchors
      BY DEF AnchorsStand, Walking
    <2> QED
      BY <2>1 DEF AnchorsStand, Src
  <1>6. PICK r : r = <<Src.cell>> \o cells
    OBVIOUS
  <1>7. /\ r \in Seq(Cells) /\ Len(r) = n + 1 /\ r[1] = Src.cell
        /\ \A i \in 2 .. n + 1 : r[i] = cells[i - 1]
    BY <1>4, <1>5, <1>6
  <1>8. BeamPath(b) = r
    BY <1>2, <1>6 DEF BeamPath
  <1>9. ASSUME NEW k \in 2 .. n + 1 PROVE Chebyshev(r[k - 1], r[k]) = 1
    <2>1. k - 1 \in 1 .. n /\ r[k] = b.blocks[k - 1].cell
      BY <1>4, <1>7
    <2>2. CASE k = 2
      BY <1>7, <2>1, <2>2 DEF Fits
    <2>3. CASE k # 2
      <3>1. k - 1 \in 2 .. n /\ k - 1 \in 2 .. n + 1 /\ k - 1 - 1 \in 1 .. n
        BY <2>3
      <3>2. r[k - 1] = b.blocks[k - 1 - 1].cell
        BY <1>4, <1>7, <3>1
      <3> QED
        BY <2>1, <3>1, <3>2 DEF Fits
    <2> QED
      BY <2>2, <2>3
  <1>10. Last(r) = b.cell
    <2>1. Last(r) = r[n + 1]
      BY <1>7 DEF Last
    <2>2. n + 1 \in 2 .. n + 1 /\ n + 1 - 1 = n /\ n \in 1 .. n
      OBVIOUS
    <2>3. b.cell = b.blocks[n].cell
      BY DEF Fits
    <2> QED
      BY <1>4, <1>7, <2>1, <2>2, <2>3
  <1>11. r # << >>
    BY <1>7
  <1>12. Dst = aiBase.anchors[aiAt + 1]
    BY DEF Dst
  <1> QED
    BY <1>5, <1>7, <1>8, <1>9, <1>10, <1>11, <1>12 DEF RouteHolds

Adds(b, r) ==
    built' = [built EXCEPT !.blocks = @ \o b.blocks, !.routes = Append(@, r), !.sum = @ + b.sum]

LEMMA Adding ==
    ASSUME AnchorsStand, BuiltHolds, ~outcome.done, UNCHANGED aiBase,
           NEW b \in Beam, NEW n \in Nat, Fits(b, Src.cell, occupied, n),
           NEW r \in Seq(Cells),
           Adds(b, r)
    PROVE  /\ built' \in [blocks : Seq(Placed), routes : Seq(Seq(Cells)), sum : Int]
           /\ BlocksApart'
           /\ \A i \in DOMAIN built'.blocks : built'.blocks[i].cell \in occupied \cup b.own
           /\ built'.routes = Append(built.routes, r)
  <1>1. /\ built \in [blocks : Seq(Placed), routes : Seq(Seq(Cells)), sum : Int]
        /\ BlocksApart
        /\ \A i \in DOMAIN built.blocks : built.blocks[i].cell \in occupied
    BY DEF BuiltHolds, BuiltRec, InPlace, RoutesHold
  <1>2. PICK old \in Seq(Placed), new \in Seq(Placed) :
            old = built.blocks /\ new = b.blocks
    BY <1>1 DEF Beam
  <1>3. PICK all : all = old \o new
    OBVIOUS
  <1>4. /\ built'.blocks = all /\ built'.routes = Append(built.routes, r)
        /\ built' \in [blocks : Seq(Placed), routes : Seq(Seq(Cells)), sum : Int]
    <2>1. b.sum \in Int /\ built.sum \in Int /\ built.routes \in Seq(Seq(Cells))
      BY <1>1 DEF Beam
    <2>2. all \in Seq(Placed) /\ Append(built.routes, r) \in Seq(Seq(Cells))
          /\ built.sum + b.sum \in Int
      BY <1>3, <2>1
    <2>3. built' = [built EXCEPT !.blocks = all, !.routes = Append(built.routes, r),
                                 !.sum = built.sum + b.sum]
      BY <1>1, <1>2, <1>3 DEF Adds
    <2> QED
      BY <1>1, <2>2, <2>3
  <1>5. PICK k \in Nat : k = Len(old)
    OBVIOUS
  <1>6. /\ DOMAIN all = 1 .. k + n /\ Len(new) = n
        /\ \A i \in 1 .. k : all[i] = old[i]
        /\ \A i \in k + 1 .. k + n : all[i] = new[i - k]
    <2>1. Len(new) = n
      BY <1>2 DEF Fits
    <2>2. /\ all \in Seq(Placed) /\ Len(all) = k + n
          /\ \A i \in 1 .. k + n : all[i] = IF i <= k THEN old[i] ELSE new[i - k]
      BY <1>3, <1>5, <2>1, ConcatProperties
    <2>3. DOMAIN all = 1 .. k + n
      BY <2>2
    <2>4. /\ \A i \in 1 .. k : i \in 1 .. k + n /\ i <= k
          /\ \A i \in k + 1 .. k + n : i \in 1 .. k + n /\ ~(i <= k)
      OBVIOUS
    <2> QED
      BY <2>1, <2>2, <2>3, <2>4
  <1>7. \A i \in 1 .. k : all[i].cell \in occupied
    BY <1>1, <1>2, <1>5, <1>6
  <1>8. \A i \in k + 1 .. k + n : i - k \in 1 .. n /\ all[i].cell \in b.own /\ all[i].cell \notin occupied
    <2>1. \A j \in 1 .. n : new[j].cell \in b.own
      BY <1>2 DEF Fits
    <2>2. b.own \cap occupied = {}
      BY DEF Fits
    <2>3. \A i \in k + 1 .. k + n : i - k \in 1 .. n
      OBVIOUS
    <2> QED
      BY <1>6, <2>1, <2>2, <2>3
  <1>9. \A i \in DOMAIN all : i \in 1 .. k \/ i \in k + 1 .. k + n
    BY <1>6
  <1>10. ASSUME NEW i \in DOMAIN all, NEW j \in DOMAIN all, all[i].cell = all[j].cell PROVE i = j
    <2>1. CASE i \in 1 .. k /\ j \in 1 .. k
      <3>1. i \in DOMAIN built.blocks /\ j \in DOMAIN built.blocks
        BY <1>2, <1>5, <2>1
      <3>2. built.blocks[i].cell = built.blocks[j].cell
        BY <1>2, <1>6, <1>10, <2>1
      <3> QED
        BY <1>1, <3>1, <3>2 DEF BlocksApart
    <2>2. CASE i \in k + 1 .. k + n /\ j \in k + 1 .. k + n
      <3>1. i - k \in 1 .. n /\ j - k \in 1 .. n /\ new[i - k].cell = new[j - k].cell
        BY <1>6, <1>8, <1>10, <2>2
      <3>2. i - k = j - k
        BY <1>2, <3>1 DEF Fits
      <3> QED
        BY <2>2, <3>2
    <2> QED
      BY <1>7, <1>8, <1>9, <1>10, <2>1, <2>2
  <1>11. ASSUME NEW i \in DOMAIN all, NEW a \in DOMAIN aiBase.anchors
         PROVE  all[i].cell # aiBase.anchors[a].cell
    <2>1. CASE i \in 1 .. k
      <3>1. i \in DOMAIN built.blocks /\ all[i] = built.blocks[i]
        BY <1>2, <1>5, <1>6, <2>1
      <3> QED
        BY <1>1, <3>1 DEF BlocksApart
    <2>2. CASE i \in k + 1 .. k + n
      BY <1>8, <2>2 DEF AnchorsStand
    <2> QED
      BY <1>9, <2>1, <2>2
  <1>12. BlocksApart'
    <2>1. PICK cells : cells = [i \in DOMAIN all |-> all[i].cell]
      OBVIOUS
    <2>2. built'.blocks = all /\ aiBase' = aiBase
      BY <1>4
    <2>3. cells = [i \in DOMAIN built'.blocks |-> built'.blocks[i].cell]
      BY <2>1, <2>2
    <2>4. DOMAIN cells = DOMAIN all /\ \A i \in DOMAIN all : cells[i] = all[i].cell
      BY <2>1
    <2>5. \A i, j \in DOMAIN cells : cells[i] = cells[j] => i = j
      BY <1>10, <2>4
    <2>6. \A i \in DOMAIN cells : \A a \in DOMAIN aiBase'.anchors :
              cells[i] # aiBase'.anchors[a].cell
      BY <1>11, <2>2, <2>4
    <2> QED
      BY <2>3, <2>5, <2>6, ZenonT(30) DEF BlocksApart
  <1>13. \A i \in DOMAIN all : all[i].cell \in occupied \cup b.own
    BY <1>7, <1>8, <1>9
  <1> QED
    BY <1>4, <1>12, <1>13

-----------------------------------------------------------------------------
(* The steps. *)

LEMMA SameBeams ==
    ASSUME UNCHANGED <<aiBase, aiAt>>
    PROVE  Src' = Src /\ Dst' = Dst /\ Beam' = Beam
  BY DEF Src, Dst, Beam, AnchorBlockAt

LEMMA SearchStarts == AiInit => Synthesised
  <1> SUFFICES ASSUME AiInit PROVE Synthesised
    OBVIOUS
  <1>1. /\ aiBase.anchors = << >> /\ aiAt = 0 /\ live = << >> /\ completed = << >> /\ layer = 0
        /\ width = 1 /\ outcome = Open
        /\ built = [blocks |-> << >>, routes |-> << >>, sum |-> 0]
    BY DEF AiInit
  <1>2. Len(aiBase.anchors) = 0 /\ DOMAIN aiBase.anchors = {}
    BY <1>1
  <1>3. AnchorsStand
    BY <1>1, <1>2 DEF AnchorsStand
  <1>4. BeamsFit
    <2>1. << >> \in Seq(Beam) /\ DOMAIN live = {}
      BY <1>1
    <2> QED
      BY <1>1, <2>1 DEF BeamsFit, BeamsMoveTogether
  <1>5. BuiltHolds
    <2>1. built.blocks = << >> /\ built.routes = << >> /\ DOMAIN built.blocks = {}
      BY <1>1
    <2>2. built \in [blocks : Seq(Placed), routes : Seq(Seq(Cells)), sum : Int]
      BY <1>1
    <2>3. BlocksApart
      BY <2>1 DEF BlocksApart
    <2> QED
      BY <1>1, <2>1, <2>2, <2>3 DEF BuiltHolds, BuiltRec, InPlace, RoutesHold, Open
  <1> QED
    BY <1>1, <1>2, <1>3, <1>4, <1>5 DEF Synthesised, Open, Outcomes

LEMMA AnchorsLoad ==
    ASSUME NEW b \in AiBases
    PROVE  LET A == FetchBaseAnchors(b).anchors
           IN  /\ Len(A) \in Nat /\ DOMAIN A = 1 .. Len(A)
               /\ \A i \in DOMAIN A : A[i].cell \in Cells
               /\ A = << >> <=> Len(A) = 0
  <1>1. /\ Len(b.waypoints) \in Nat /\ DOMAIN b.waypoints = 1 .. Len(b.waypoints)
        /\ \A i \in DOMAIN b.waypoints :
              b.waypoints[i].order \in Int /\ b.waypoints[i].cell \in Cells
    BY AiAssumption DEF BaseLoads
  <1>2. PICK grid : grid = {i \in DOMAIN b.waypoints : ~b.waypoints[i].free}
    OBVIOUS
  <1>3. grid \subseteq DOMAIN b.waypoints /\ grid \subseteq Int
    BY <1>1, <1>2
  <1>4. IsFiniteSet(grid)
    <2>1. IsFiniteSet(1 .. Len(b.waypoints))
      BY <1>1, FS_Interval
    <2> QED
      BY <1>1, <1>3, <2>1, FS_Subset
  <1>5. PICK keys : keys = [i \in grid |-> b.waypoints[i].order]
    OBVIOUS
  <1>6. \A i \in grid : keys[i] \in Int
    BY <1>1, <1>3, <1>5
  <1>7. PICK R : R = Stable(grid, keys)
    OBVIOUS
  <1>8. IsOrder(R, grid)
    BY <1>3, <1>6, <1>7, StableOrders
  <1>9. PICK n \in Nat : n = Cardinality(grid)
    BY <1>4, FS_CardinalityType
  <1>10. \A i \in 1 .. n : Ordered(grid, R)[i] \in grid
    BY <1>4, <1>8, <1>9, OrderedRank
  <1>11. PICK A : A = [i \in 1 .. n |-> b.waypoints[Ordered(grid, R)[i]]]
    OBVIOUS
  <1>12. FetchBaseAnchors(b).anchors = A
    BY <1>2, <1>5, <1>7, <1>9, <1>11 DEF FetchBaseAnchors, GridAnchors
  <1>13. PICK X : X = {b.waypoints[i] : i \in DOMAIN b.waypoints}
    OBVIOUS
  <1>14. \A i \in 1 .. n : A[i] \in X /\ A[i].cell \in Cells
    BY <1>1, <1>3, <1>10, <1>11, <1>13
  <1>15. A \in Seq(X) /\ Len(A) = n /\ DOMAIN A = 1 .. n
    BY <1>11, <1>14
  <1> QED
    BY <1>12, <1>14, <1>15, EmptySeq

Begun(a, w) ==
    /\ aiBase' = a
    /\ width' = Max({1, w})
    /\ occupied' = {a.anchors[i].cell : i \in DOMAIN a.anchors}
    /\ \/ outcome' = Verdict(FALSE, "empty_corridors") /\ aiAt' = 0
       \/ outcome' = Verdict(FALSE, "plain_cp_not_supported_v0") /\ aiAt' = 0
       \/ Len(a.anchors) >= 2 /\ outcome' = outcome /\ aiAt' = 1

LEMMA VerdictIs ==
    /\ Verdict(FALSE, "empty_corridors") \in Outcomes
    /\ Verdict(FALSE, "plain_cp_not_supported_v0") \in Outcomes
    /\ Verdict(FALSE, "no_valid_candidates") \in Outcomes
    /\ Verdict(FALSE, "beam_exhausted") \in Outcomes
    /\ Verdict(FALSE, "none") \in Outcomes /\ Verdict(TRUE, "none") \in Outcomes
    /\ Verdict(FALSE, "confidence_below_floor") \in Outcomes
    /\ \A v, r : Verdict(v, r).done /\ Verdict(v, r).verified = v
  BY DEF Verdict, Outcomes

LEMMA Beginning ==
    ASSUME Synthesised, BeginAi
    PROVE  Synthesised'
  <1>1. PICK b \in AiBases, w \in BeamWidths : Begun(FetchBaseAnchors(b), w)
    <2>1. PICK b \in AiBases, w \in BeamWidths :
          LET a == FetchBaseAnchors(b)
          IN  /\ aiBase' = a
              /\ width' = Max({1, w})
              /\ occupied' = {a.anchors[i].cell : i \in DOMAIN a.anchors}
              /\ CASE Len(a.anchors) < 2
                        -> outcome' = Verdict(FALSE, "empty_corridors") /\ aiAt' = 0
                   [] Len(a.anchors) >= 2 /\ ~IsLinked(a)
                        -> outcome' = Verdict(FALSE, "plain_cp_not_supported_v0") /\ aiAt' = 0
                   [] Len(a.anchors) >= 2 /\ IsLinked(a)
                        -> outcome' = outcome /\ aiAt' = 1
      BY DEF BeginAi
    <2>2. PICK a : a = FetchBaseAnchors(b)
      OBVIOUS
    <2>3. Len(a.anchors) \in Nat
      BY <2>2, AnchorsLoad
    <2>4. ASSUME Len(a.anchors) < 2 PROVE Begun(a, w)
      BY <2>1, <2>2, <2>3, <2>4 DEF Begun
    <2>5. ASSUME Len(a.anchors) >= 2, ~IsLinked(a) PROVE Begun(a, w)
      BY <2>1, <2>2, <2>3, <2>5 DEF Begun
    <2>6. ASSUME Len(a.anchors) >= 2, IsLinked(a) PROVE Begun(a, w)
      BY <2>1, <2>2, <2>3, <2>6 DEF Begun
    <2>7. Begun(a, w)
      BY <2>3, <2>4, <2>5, <2>6
    <2> QED
      BY <2>2, <2>7
  <1>2. /\ aiBase.anchors = << >> /\ ~outcome.done
        /\ UNCHANGED <<built, live, completed, layer>>
    BY DEF BeginAi
  <1>3. PICK A : A = FetchBaseAnchors(b).anchors
    OBVIOUS
  <1>4. /\ aiBase'.anchors = A
        /\ Len(A) \in Nat /\ DOMAIN A = 1 .. Len(A)
        /\ \A i \in DOMAIN A : A[i].cell \in Cells
        /\ A = << >> <=> Len(A) = 0
    BY <1>1, <1>3, AnchorsLoad DEF Begun
  <1>5. aiAt = 0 /\ live = << >> /\ completed = << >> /\ built.blocks = << >> /\ built.routes = << >>
    <2>1. aiAt = 0
      BY <1>2 DEF Synthesised, AnchorsStand
    <2> QED
      BY <2>1 DEF Synthesised, BeamsFit, BuiltHolds, BuiltRec, InPlace, RoutesHold, Walking
  <1>6. AnchorsStand'
    <2>1. occupied' = {A[i].cell : i \in DOMAIN A}
      BY <1>1, <1>3 DEF Begun
    <2> QED
      BY <1>4, <2>1 DEF AnchorsStand
  <1>7. BeamsFit'
    <2>1. live' = << >> /\ completed' = << >> /\ << >> \in Seq(Beam') /\ DOMAIN live' = {}
      BY <1>2, <1>5
    <2> QED
      BY <2>1 DEF BeamsFit, BeamsMoveTogether
  <1>8. (aiAt' = 0 \/ (aiAt' = 1 /\ Len(A) >= 2 /\ ~outcome'.done)) /\ ~outcome'.verified
    <2>1. ~outcome.verified
      BY <1>2 DEF Synthesised, BuiltHolds, BuiltRec, InPlace, RoutesHold
    <2> QED
      BY <1>1, <1>2, <1>3, <2>1 DEF Verdict, Begun
  <1>9. outcome' \in Outcomes
    <2>1. outcome \in Outcomes
      BY DEF Synthesised
    <2>2. /\ Verdict(FALSE, "empty_corridors") \in Outcomes
          /\ Verdict(FALSE, "plain_cp_not_supported_v0") \in Outcomes
      BY DEF Outcomes, Verdict
    <2> QED
      BY <1>1, <2>1, <2>2 DEF Begun
  <1>10. BuiltHolds'
    <2>1. PICK now : now = built'
      OBVIOUS
    <2>2. now = built /\ DOMAIN now.blocks = {} /\ now.blocks = << >> /\ now.routes = << >>
          /\ Len(now.routes) = 0
      BY <1>2, <1>5, <2>1
    <2>3. now \in [blocks : Seq(Placed), routes : Seq(Seq(Cells)), sum : Int]
      BY <2>2 DEF Synthesised, BuiltHolds, BuiltRec, InPlace, RoutesHold
    <2>4. BlocksApart'
      BY <2>1, <2>2 DEF BlocksApart
    <2>5. \A i \in 1 .. aiAt' - 1 : FALSE
      BY <1>8
    <2>6. aiAt' > 0 => Len(now.routes) = aiAt' - 1
      BY <1>8, <2>2
    <2> QED
      BY <1>8, <2>1, <2>2, <2>3, <2>4, <2>5, <2>6 DEF BuiltHolds, BuiltRec, InPlace, RoutesHold
  <1>11. width' \in Nat
    <2>1. w \in Nat
      BY AiAssumption
    <2>2. Max({1, w}) \in Nat
      BY <2>1, MaxOf
    <2> QED
      BY <1>1, <2>2 DEF Begun
  <1>12. layer' \in Nat /\ aiAt' \in 0 .. Len(aiBase'.anchors)
    BY <1>2, <1>4, <1>8 DEF Synthesised
  <1> QED
    BY <1>6, <1>7, <1>9, <1>10, <1>11, <1>12 DEF Synthesised

LEMMA NoBeams == ASSUME live' = << >>, completed' = << >> PROVE BeamsFit'
  <1>1. << >> \in Seq(Beam') /\ DOMAIN live' = {}
    OBVIOUS
  <1> QED
    BY <1>1 DEF BeamsFit, BeamsMoveTogether

LEMMA BuiltStays ==
    ASSUME BuiltHolds, UNCHANGED <<aiBase, built, outcome, aiAt>>, occupied \subseteq occupied'
    PROVE  BuiltHolds'
  <1>1. BlocksApart'
    <2>1. BlocksApart
      BY DEF BuiltHolds, BuiltRec, InPlace, RoutesHold
    <2> QED
      BY <2>1 DEF BlocksApart
  <1> QED
    BY <1>1 DEF BuiltHolds, BuiltRec, InPlace, RoutesHold

LEMMA AnchorsStay ==
    ASSUME AnchorsStand, UNCHANGED aiBase, occupied \subseteq occupied'
    PROVE  AnchorsStand'
  BY DEF AnchorsStand

\* An interval done: its route is the next, the anchors and blocks stand as they did.
LEMMA OneRouteMore ==
    ASSUME Synthesised, Walking, ~outcome.done, UNCHANGED <<aiBase, outcome>>,
           aiAt' = aiAt + 1, occupied \subseteq occupied',
           NEW now, now = built',
           now \in [blocks : Seq(Placed), routes : Seq(Seq(Cells)), sum : Int], BlocksApart',
           \A i \in DOMAIN now.blocks : now.blocks[i].cell \in occupied',
           NEW r \in Seq(Cells), now.routes = Append(built.routes, r),
           RouteHolds(aiBase.anchors, r, aiAt)
    PROVE  AnchorsStand' /\ BuiltHolds' /\ aiAt' \in 0 .. Len(aiBase'.anchors)
  <1>1. AnchorsStand'
    BY AnchorsStay DEF Synthesised
  <1>2. aiAt \in Nat /\ aiAt > 0 /\ aiAt < Len(aiBase.anchors) /\ Len(aiBase.anchors) \in Nat
    BY DEF Synthesised, AnchorsStand, Walking
  <1>3. /\ ~outcome.verified /\ Len(built.routes) = aiAt - 1 /\ built.routes \in Seq(Seq(Cells))
        /\ \A i \in 1 .. aiAt - 1 : i \in DOMAIN built.routes /\ RouteHolds(aiBase.anchors, built.routes[i], i)
    BY <1>2 DEF Synthesised, BuiltHolds, BuiltRec, InPlace, RoutesHold
  <1>4. PICK rs : rs = now.routes
    OBVIOUS
  <1>5. /\ Len(rs) = aiAt /\ DOMAIN rs = 1 .. aiAt /\ rs[aiAt] = r
        /\ \A i \in 1 .. aiAt - 1 : rs[i] = built.routes[i]
    <2>1. /\ rs \in Seq(Seq(Cells)) /\ Len(rs) = aiAt - 1 + 1
          /\ \A i \in 1 .. aiAt - 1 : rs[i] = built.routes[i]
          /\ rs[aiAt - 1 + 1] = r
      BY <1>3, <1>4, AppendProperties
    <2>2. aiAt - 1 + 1 = aiAt
      BY <1>2
    <2>3. DOMAIN rs = 1 .. Len(rs)
      BY <2>1
    <2> QED
      BY <2>1, <2>2, <2>3
  <1>6. \A i \in 1 .. aiAt : i \in DOMAIN rs /\ RouteHolds(aiBase.anchors, rs[i], i)
    <2>1. \A i \in 1 .. aiAt : i = aiAt \/ i \in 1 .. aiAt - 1
      BY <1>2
    <2> QED
      BY <1>3, <1>5, <2>1
  <1>7. RoutesHold'
    <2>1. aiAt' - 1 = aiAt /\ aiBase' = aiBase /\ built'.routes = rs
      BY <1>2, <1>4
    <2>2. \A i \in 1 .. aiAt' - 1 :
             i \in DOMAIN built'.routes /\ RouteHolds(aiBase'.anchors, built'.routes[i], i)
      BY <1>6, <2>1
    <2> QED
      BY <2>2 DEF RoutesHold
  <1>8. aiAt' > 0 /\ Len(built'.routes) = aiAt' - 1 /\ ~outcome'.verified
    BY <1>2, <1>3, <1>4, <1>5
  <1>9. BuiltRec' /\ InPlace'
    <2>1. built' = now
      OBVIOUS
    <2>2. now \in [blocks : Seq(Placed), routes : Seq(Seq(Cells)), sum : Int]
      OBVIOUS
    <2>3. \A i \in DOMAIN now.blocks : now.blocks[i].cell \in occupied'
      OBVIOUS
    <2>4. BuiltRec'
      BY <2>1, <2>2 DEF BuiltRec
    <2>5. InPlace'
      BY <2>1, <2>3 DEF InPlace
    <2> QED
      BY <2>4, <2>5
  <1>10. BuiltHolds'
    <2>1. aiAt' # 0
      BY <1>2
    <2> QED
      BY <1>7, <1>8, <1>9, <2>1 DEF BuiltHolds
  <1> QED
    BY <1>1, <1>2, <1>10

LEMMA Starting ==
    ASSUME Synthesised, ~outcome.done, StartInterval
    PROVE  Synthesised'
  <1>1. Walking /\ layer = 0 /\ live = << >> /\ completed = << >>
        /\ UNCHANGED <<aiBase, width, occupied, outcome>>
    BY DEF StartInterval
  <1>2. aiAt \in Nat /\ aiAt \in DOMAIN aiBase.anchors /\ AnchorsStand
    BY <1>1 DEF Synthesised, AnchorsStand, Walking
  <1>3. Src.cell \in Cells /\ Src.cell = aiBase.anchors[aiAt].cell
    BY <1>2 DEF Src, AnchorsStand
  <1>4. width' \in Nat /\ outcome' \in Outcomes
    BY <1>1 DEF Synthesised
  <1>5. CASE BesideXZ(Src.cell, Dst.cell)
    <2>1. /\ aiAt' = aiAt + 1 /\ live' = << >> /\ completed' = << >> /\ layer' = 0
          /\ built' = [built EXCEPT !.routes = Append(@, <<Src.cell>>)]
      BY <1>5 DEF StartInterval, Arrive
    <2>2. PICK r : r = <<Src.cell>>
      OBVIOUS
    <2>3. r \in Seq(Cells) /\ Len(r) = 1 /\ r[1] = Src.cell /\ r # << >>
      BY <1>3, <2>2
    <2>4. RouteHolds(aiBase.anchors, r, aiAt)
      <3>1. Last(r) = Src.cell
        BY <2>3 DEF Last
      <3>2. \A k \in 2 .. Len(r) : FALSE
        BY <2>3
      <3> QED
        BY <1>3, <1>5, <2>3, <3>1, <3>2 DEF RouteHolds, Dst
    <2>5. PICK now : now = built'
      OBVIOUS
    <2>6. /\ built \in [blocks : Seq(Placed), routes : Seq(Seq(Cells)), sum : Int]
          /\ BlocksApart /\ \A i \in DOMAIN built.blocks : built.blocks[i].cell \in occupied
      BY DEF Synthesised, BuiltHolds, BuiltRec, InPlace, RoutesHold
    <2>7. /\ now \in [blocks : Seq(Placed), routes : Seq(Seq(Cells)), sum : Int]
          /\ now.blocks = built.blocks /\ now.routes = Append(built.routes, r)
      <3>1. Append(built.routes, r) \in Seq(Seq(Cells))
        BY <2>3, <2>6
      <3>2. now = [built EXCEPT !.routes = Append(built.routes, r)]
        BY <2>1, <2>2, <2>5
      <3> QED
        BY <2>6, <3>1, <3>2
    <2>8. BlocksApart'
      BY <1>1, <2>5, <2>6, <2>7 DEF BlocksApart
    <2>9. \A i \in DOMAIN now.blocks : now.blocks[i].cell \in occupied'
      BY <1>1, <2>6, <2>7
    <2>10. AnchorsStand' /\ BuiltHolds' /\ aiAt' \in 0 .. Len(aiBase'.anchors)
      BY <1>1, <2>1, <2>3, <2>4, <2>5, <2>7, <2>8, <2>9, OneRouteMore
    <2>11. BeamsFit' /\ layer' \in Nat
      BY <2>1, NoBeams
    <2> QED
      BY <1>4, <2>10, <2>11 DEF Synthesised
  <1>6. CASE ~BesideXZ(Src.cell, Dst.cell)
    <2>1. PICK b : b = [from |-> AnchorBlockAt(Src.cell), blocks |-> << >>,
                        cell |-> Src.cell, own |-> {}, sum |-> 0]
      OBVIOUS
    <2>2. live' = <<b>> /\ UNCHANGED <<aiAt, built, completed, layer>>
      BY <1>6, <2>1 DEF StartInterval
    <2>3. b \in Beam
      BY <1>3, <2>1 DEF Beam
    <2>4. Fits(b, Src.cell, occupied, 0)
      BY <2>1 DEF Fits
    <2>5. Src' = Src /\ Beam' = Beam /\ layer' = 0 /\ occupied' = occupied /\ completed' = << >>
      BY <1>1, <2>2, SameBeams
    <2>6. live' \in Seq(Beam) /\ DOMAIN live' = {1} /\ live'[1] = b
      BY <2>2, <2>3
    <2>7. BeamsMoveTogether'
      BY <2>6 DEF BeamsMoveTogether
    <2>8. Walking'
      BY <1>1, <2>2 DEF Walking
    <2>9. BeamsFit'
      BY <2>4, <2>5, <2>6, <2>7, <2>8 DEF BeamsFit
    <2>10. AnchorsStand' /\ BuiltHolds' /\ aiAt' \in 0 .. Len(aiBase'.anchors) /\ layer' \in Nat
      BY <1>1, <2>2, AnchorsStay, BuiltStays DEF Synthesised
    <2> QED
      BY <1>4, <2>9, <2>10 DEF Synthesised
  <1> QED
    BY <1>5, <1>6

\* The beams that are kept are among those there were.
LEMMA TopOf ==
    ASSUME NEW X, NEW s \in Seq(X), \A i \in DOMAIN s : s[i].sum \in Int, NEW n \in Nat
    PROVE  TopBeams(s, n) \in Seq(X)
  <1>1. PICK keys : keys = [i \in DOMAIN s |-> s[i].sum]
    OBVIOUS
  <1>2. PICK best : best = FirstN(Ranked(DOMAIN s, keys), n)
    OBVIOUS
  <1>3. DOMAIN s \subseteq Int /\ IsFiniteSet(DOMAIN s)
    <2>1. DOMAIN s = 1 .. Len(s) /\ Len(s) \in Nat
      OBVIOUS
    <2> QED
      BY <2>1, FS_Interval
  <1>4. \A i \in DOMAIN s : keys[i] \in Int
    BY <1>1
  <1>5. best \in Seq(DOMAIN s) /\ DOMAIN best = 1 .. Len(best)
    BY <1>2, <1>3, <1>4, BestPositions
  <1>6. \A i \in 1 .. Len(best) : s[best[i]] \in X
    <2>1. \A i \in 1 .. Len(best) : best[i] \in DOMAIN s
      BY <1>5
    <2> QED
      BY <2>1
  <1>7. Len(best) \in Nat
    BY <1>5
  <1>8. TopBeams(s, n) = [i \in 1 .. Len(best) |-> s[best[i]]]
    BY <1>1, <1>2, <1>5 DEF TopBeams
  <1> QED
    BY <1>6, <1>7, <1>8

LEMMA Layering ==
    ASSUME Synthesised, ~outcome.done, ExpandLayer
    PROVE  Synthesised'
  <1>1. /\ Walking /\ live # << >> /\ Going # << >>
        /\ completed' = completed \o Arrived /\ live' = TopBeams(Value(Children), width)
        /\ layer' = layer + 1 /\ UNCHANGED <<aiBase, width, aiAt, occupied, built, outcome>>
    BY DEF ExpandLayer
  <1>2. /\ BeamsFit /\ layer \in Nat /\ width \in Nat
    BY DEF Synthesised
  <1>3. completed' = << >>
    <2>1. completed = << >> /\ Arrived = << >>
      BY <1>1, <1>2, ArriveTogether DEF BeamsFit
    <2> QED
      BY <1>1, <2>1
  <1>4. PICK one \in DOMAIN live : TRUE
    <2>1. live \in Seq(Beam)
      BY <1>2 DEF BeamsFit
    <2>2. Len(live) \in Nat /\ Len(live) # 0 /\ DOMAIN live = 1 .. Len(live)
      BY <1>1, <2>1, EmptySeq
    <2>3. 1 \in DOMAIN live
      BY <2>2
    <2> QED
      BY <2>3
  <1>5. PICK X : X = Child(live[one].own, NextCell(live[one]), layer)
    OBVIOUS
  <1>6. \A i \in DOMAIN Going : ExpandBeam(Going[i], Dst.cell, Catalogue) \in Seq(X)
    <2> SUFFICES ASSUME NEW g \in DOMAIN Going
                 PROVE  ExpandBeam(Going[g], Dst.cell, Catalogue) \in Seq(X)
      OBVIOUS
    <2>1. PICK i \in DOMAIN live : Going[g] = live[i]
      BY <1>2, ArriveTogether
    <2>2. live[i] \in Beam
      <3>1. live \in Seq(Beam)
        BY <1>2 DEF BeamsFit
      <3> QED
        BY <3>1
    <2>3. Fits(live[i], Src.cell, occupied, layer)
      BY <1>2 DEF BeamsFit
    <2>4. live[i].own = live[one].own /\ live[i].cell = live[one].cell
      BY <1>2 DEF BeamsFit, BeamsMoveTogether
    <2>5. ExpandBeam(live[i], Dst.cell, Catalogue)
             \in Seq(Child(live[i].own, NextCell(live[i]), layer))
      BY <1>2, <2>2, <2>3, Expanding
    <2>6. NextCell(live[i]) = NextCell(live[one])
      BY <2>4 DEF NextCell
    <2> QED
      BY <1>5, <2>1, <2>4, <2>5, <2>6
  <1>7. Children \in Seq(X)
    <2>1. PICK ss : ss = [i \in DOMAIN Going |-> ExpandBeam(Going[i], Dst.cell, Catalogue)]
      OBVIOUS
    <2>2. DOMAIN Going = 1 .. Len(Going) /\ Len(Going) \in Nat
      BY <1>2, ArriveTogether
    <2>3. \A i \in 1 .. Len(Going) : ss[i] \in Seq(X)
      BY <1>6, <2>1, <2>2
    <2>4. ss = [i \in 1 .. Len(Going) |-> ss[i]]
      BY <2>1, <2>2
    <2>5. ss \in Seq(Seq(X))
      BY <2>2, <2>3, <2>4
    <2>6. Joined(ss) \in Seq(X)
      BY <2>5, JoinedMembers
    <2> QED
      BY <2>1, <2>6 DEF Children
  <1>8. /\ X \subseteq Beam /\ \A x \in X : Fits(x, Src.cell, occupied, layer + 1)
        /\ \A y, z \in X : y.own = z.own /\ y.cell = z.cell
    BY <1>5 DEF Child
  <1>9. live' \in Seq(X)
    <2>1. \A x \in X : x.sum \in Int
      BY <1>8 DEF Beam
    <2>2. \A i \in DOMAIN Children : Children[i].sum \in Int
      BY <1>7, <2>1
    <2>3. TopBeams(Children, width) \in Seq(X)
      BY <1>2, <1>7, <2>2, TopOf
    <2> QED
      BY <1>1, <2>3, ValueIs
  <1>10. \A i \in DOMAIN live' : live'[i] \in X
    BY <1>9
  <1>11. /\ Src' = Src /\ Beam' = Beam /\ occupied' = occupied
    BY <1>1, SameBeams
  <1>12. live' \in Seq(Beam')
    BY <1>8, <1>9, <1>11
  <1>13. \A i \in DOMAIN live' : Fits(live'[i], Src'.cell, occupied', layer')
    BY <1>1, <1>8, <1>10, <1>11
  <1>14. BeamsMoveTogether'
    BY <1>8, <1>10 DEF BeamsMoveTogether
  <1>15. Walking'
    BY <1>1 DEF Walking
  <1>16. BeamsFit'
    BY <1>3, <1>12, <1>13, <1>14, <1>15 DEF BeamsFit
  <1>17. AnchorsStand' /\ BuiltHolds'
    BY <1>1, AnchorsStay, BuiltStays DEF Synthesised
  <1> QED
    BY <1>1, <1>16, <1>17 DEF Synthesised

\* The beam picked is one of those there are.
LEMMA BestFits ==
    ASSUME Synthesised, layer # 0, NEW s \in Seq(Beam), s # << >>,
           \A k \in DOMAIN s : \E i \in DOMAIN live : s[k] = live[i]
    PROVE  /\ \E k \in DOMAIN s : BestBeam(s) = s[k]
           /\ BestBeam(s) \in Beam /\ Fits(BestBeam(s), Src.cell, occupied, layer)
  <1>1. layer \in Nat \ {0} /\ BeamsFit
    BY DEF Synthesised
  <1>2. \A k \in DOMAIN s : Fits(s[k], Src.cell, occupied, layer) /\ s[k] \in Beam
    <2>1. \A k \in DOMAIN s : s[k] \in Beam
      OBVIOUS
    <2> QED
      BY <1>1, <2>1 DEF BeamsFit
  <1>3. \A k \in DOMAIN s : s[k].sum \in Int /\ Len(s[k].blocks) = layer
    BY <1>2 DEF Beam, Fits
  <1>4. \E k \in DOMAIN s : BestBeam(s) = s[k]
    BY <1>1, <1>3, BestOf
  <1> QED
    BY <1>2, <1>4

LEMMA Closing ==
    ASSUME Synthesised, ~outcome.done, CloseInterval
    PROVE  Synthesised'
  <1>1. PICK b : b = BestBeam(AllArrived)
    OBVIOUS
  <1>2. /\ Walking /\ AllArrived # << >> /\ Adds(b, BeamPath(b))
        /\ occupied' = occupied \cup b.own /\ aiAt' = aiAt + 1
        /\ live' = << >> /\ completed' = << >> /\ layer' = 0
        /\ UNCHANGED <<aiBase, width, outcome>>
    BY <1>1 DEF CloseInterval, Exhausted, MergeWinner, Arrive, Adds
  <1>3. BeamsFit /\ layer \in Nat /\ aiAt \in Nat /\ AnchorsStand /\ BuiltHolds
    BY DEF Synthesised, AnchorsStand
  <1>4. /\ AllArrived = Arrived /\ Arrived \in Seq(Beam)
        /\ \A k \in DOMAIN Arrived : \E i \in DOMAIN live :
              Arrived[k] = live[i] /\ BeamReachedDst(live[i], Dst.cell)
    <2>1. completed = << >>
      BY <1>3 DEF BeamsFit
    <2>2. Arrived \in Seq(Beam)
      BY <1>3, ArriveTogether
    <2>3. << >> \o Arrived = Arrived
      BY <2>2
    <2> QED
      BY <1>3, <2>1, <2>2, <2>3, ArriveTogether DEF AllArrived
  <1>5. layer # 0
    <2>1. PICK k \in DOMAIN Arrived : TRUE
      BY <1>2, <1>4, EmptySeq
    <2>2. PICK i \in DOMAIN live : BeamReachedDst(live[i], Dst.cell)
      BY <1>4, <2>1
    <2>3. live[i].blocks # << >>
      BY <2>2 DEF BeamReachedDst
    <2>4. Len(live[i].blocks) = layer /\ live \in Seq(Beam)
      BY <1>3 DEF BeamsFit, Fits
    <2>5. live[i] \in Beam
      BY <2>4
    <2>6. live[i].blocks \in Seq(Placed)
      BY <2>5 DEF Beam
    <2> QED
      BY <2>3, <2>4, <2>6, EmptySeq
  <1>6. b \in Beam /\ Fits(b, Src.cell, occupied, layer) /\ BesideXZ(b.cell, Dst.cell)
    <2>1. /\ \E k \in DOMAIN Arrived : b = Arrived[k]
          /\ b \in Beam /\ Fits(b, Src.cell, occupied, layer)
      BY <1>1, <1>2, <1>4, <1>5, BestFits
    <2> QED
      BY <1>4, <2>1 DEF BeamReachedDst
  <1>7. PICK r : r = BeamPath(b)
    OBVIOUS
  <1>8. r \in Seq(Cells) /\ RouteHolds(aiBase.anchors, r, aiAt)
    BY <1>2, <1>3, <1>5, <1>6, <1>7, PathHolds
  <1>9. PICK now : now = built'
    OBVIOUS
  <1>10. Adds(b, r) /\ UNCHANGED aiBase
    BY <1>2, <1>7
  <1>11. /\ now \in [blocks : Seq(Placed), routes : Seq(Seq(Cells)), sum : Int]
         /\ BlocksApart'
         /\ \A i \in DOMAIN now.blocks : now.blocks[i].cell \in occupied \cup b.own
         /\ now.routes = Append(built.routes, r)
    BY <1>3, <1>6, <1>8, <1>9, <1>10, Adding
  <1>12. occupied \subseteq occupied' /\ \A i \in DOMAIN now.blocks : now.blocks[i].cell \in occupied'
    BY <1>2, <1>11
  <1>13. AnchorsStand' /\ BuiltHolds' /\ aiAt' \in 0 .. Len(aiBase'.anchors)
    BY <1>2, <1>8, <1>9, <1>11, <1>12, OneRouteMore
  <1>14. BeamsFit'
    BY <1>2, NoBeams
  <1>15. layer' \in Nat /\ width' \in Nat /\ outcome' \in Outcomes
    BY <1>2 DEF Synthesised
  <1> QED
    BY <1>13, <1>14, <1>15 DEF Synthesised

LEMMA Rejecting ==
    ASSUME Synthesised, ~outcome.done, RejectInterval
    PROVE  Synthesised'
  <1>1. /\ Walking /\ live # << >>
        /\ UNCHANGED <<aiBase, width, aiAt, occupied, live, completed, layer>>
    BY DEF RejectInterval, Exhausted
  <1>2. outcome'.done /\ ~outcome'.verified /\ outcome' \in Outcomes
    <2>1. \/ outcome' = Verdict(FALSE, "no_valid_candidates")
          \/ outcome' = Verdict(FALSE, "beam_exhausted")
      BY DEF RejectInterval
    <2> QED
      BY <2>1, VerdictIs
  <1>3. BeamsFit /\ AnchorsStand /\ BuiltHolds /\ layer \in Nat /\ aiAt \in Nat /\ aiAt > 0
    BY <1>1 DEF Synthesised, AnchorsStand, Walking
  <1>4. AnchorsStand' /\ BeamsFit'
    <2>1. Src' = Src /\ Beam' = Beam
      BY <1>1, SameBeams
    <2>2. BeamsMoveTogether' /\ Walking'
      BY <1>1, <1>3 DEF BeamsFit, BeamsMoveTogether, Walking
    <2> QED
      BY <1>1, <1>3, <2>1, <2>2, AnchorsStay DEF BeamsFit
  <1>5. /\ built \in [blocks : Seq(Placed), routes : Seq(Seq(Cells)), sum : Int]
        /\ BlocksApart /\ Len(built.routes) = aiAt - 1
        /\ \A i \in 1 .. aiAt - 1 :
              i \in DOMAIN built.routes /\ RouteHolds(aiBase.anchors, built.routes[i], i)
    BY <1>3 DEF BuiltHolds, BuiltRec, InPlace, RoutesHold
  <1>6. ASSUME built' \in [blocks : Seq(Placed), routes : Seq(Seq(Cells)), sum : Int],
               BlocksApart',
               \A i \in 1 .. aiAt - 1 :
                  i \in DOMAIN built'.routes /\ built'.routes[i] = built.routes[i]
        PROVE  BuiltHolds'
    <2>1. \A i \in 1 .. aiAt' - 1 :
             i \in DOMAIN built'.routes /\ RouteHolds(aiBase'.anchors, built'.routes[i], i)
      BY <1>1, <1>5, <1>6
    <2>2. aiAt' # 0
      BY <1>1, <1>3
    <2> QED
      BY <1>2, <1>6, <2>1, <2>2 DEF BuiltHolds, BuiltRec, InPlace, RoutesHold
  <1>7. CASE layer = 0
    <2>1. built' = built
      BY <1>7 DEF RejectInterval
    <2>2. BlocksApart'
      BY <1>1, <1>5, <2>1 DEF BlocksApart
    <2>3. BuiltHolds'
      BY <1>5, <1>6, <2>1, <2>2
    <2> QED
      BY <1>1, <1>2, <1>4, <2>3 DEF Synthesised
  <1>8. CASE layer # 0
    <2>1. PICK b : b = BestBeam(live)
      OBVIOUS
    <2>2. Adds(b, BeamPath(b)) /\ UNCHANGED aiBase
      BY <1>1, <1>8, <2>1 DEF RejectInterval, Adds
    <2>3. live \in Seq(Beam)
      BY <1>3 DEF BeamsFit
    <2>4. b \in Beam /\ Fits(b, Src.cell, occupied, layer)
      BY <1>1, <1>8, <2>1, <2>3, BestFits
    <2>5. PICK r : r = BeamPath(b)
      OBVIOUS
    <2>6. r \in Seq(Cells)
      BY <1>1, <1>3, <1>8, <2>4, <2>5, PathHolds
    <2>7. Adds(b, r)
      BY <2>2, <2>5
    <2>8. PICK now : now = built'
      OBVIOUS
    <2>9. /\ now \in [blocks : Seq(Placed), routes : Seq(Seq(Cells)), sum : Int]
          /\ BlocksApart' /\ now.routes = Append(built.routes, r)
      BY <1>3, <2>2, <2>4, <2>6, <2>7, <2>8, Adding
    <2>10. \A i \in 1 .. aiAt - 1 : i \in DOMAIN now.routes /\ now.routes[i] = built.routes[i]
      <3>1. /\ now.routes \in Seq(Seq(Cells)) /\ Len(now.routes) = aiAt - 1 + 1
            /\ \A i \in 1 .. aiAt - 1 : now.routes[i] = built.routes[i]
        BY <1>5, <2>6, <2>9, AppendProperties
      <3>2. DOMAIN now.routes = 1 .. Len(now.routes)
        BY <3>1
      <3> QED
        BY <1>3, <3>1, <3>2
    <2>11. BuiltHolds'
      BY <1>6, <2>8, <2>9, <2>10
    <2> QED
      BY <1>1, <1>2, <1>4, <2>11 DEF Synthesised
  <1> QED
    BY <1>7, <1>8

LEMMA Finishing ==
    ASSUME Synthesised, ~outcome.done, FinishAi
    PROVE  Synthesised'
  <1>1. /\ aiAt > 0 /\ aiAt = Len(aiBase.anchors)
        /\ UNCHANGED <<aiBase, width, aiAt, occupied, built, live, completed, layer>>
    BY DEF FinishAi
  <1>2. outcome'.done /\ outcome' \in Outcomes
    <2>1. PICK n : n = Len(built.blocks)
      OBVIOUS
    <2>2. n \in Nat
      BY <2>1 DEF Synthesised, BuiltHolds, BuiltRec, InPlace, RoutesHold
    <2>3. \/ outcome' = Verdict(FALSE, "none")
          \/ outcome' = Verdict(TRUE, "none")
          \/ outcome' = Verdict(FALSE, "confidence_below_floor")
      <3> DEFINE enough == 10 * built.sum >= 3 * n * BestStepScore
      <3>1. outcome' = CASE n = 0 -> Verdict(FALSE, "none")
                         [] n > 0 /\ enough -> Verdict(TRUE, "none")
                         [] n > 0 /\ ~enough -> Verdict(FALSE, "confidence_below_floor")
        BY <2>1 DEF FinishAi
      <3> HIDE DEF enough
      <3>2. n = 0 \/ n > 0
        BY <2>2
      <3>3. n = 0 => ~(n > 0)
        OBVIOUS
      <3>4. PICK e \in BOOLEAN : e <=> enough
        OBVIOUS
      <3>5. outcome' = CASE n = 0 -> Verdict(FALSE, "none")
                         [] n > 0 /\ e -> Verdict(TRUE, "none")
                         [] n > 0 /\ ~e -> Verdict(FALSE, "confidence_below_floor")
        BY <3>1, <3>4
      <3>6. CASE n = 0
        BY <3>3, <3>5, <3>6
      <3>7. CASE n # 0 /\ e
        BY <3>2, <3>5, <3>7
      <3>8. CASE n # 0 /\ ~e
        BY <3>2, <3>5, <3>8
      <3> QED
        BY <3>6, <3>7, <3>8
    <2> QED
      BY <2>3, VerdictIs
  <1>3. /\ built \in [blocks : Seq(Placed), routes : Seq(Seq(Cells)), sum : Int]
        /\ BlocksApart /\ Len(built.routes) = aiAt - 1
        /\ \A i \in 1 .. aiAt - 1 :
              i \in DOMAIN built.routes /\ RouteHolds(aiBase.anchors, built.routes[i], i)
    BY <1>1 DEF Synthesised, BuiltHolds, BuiltRec, InPlace, RoutesHold
  <1>4. BlocksApart' /\ BeamsMoveTogether' /\ (live # << >> => Walking)'
    BY <1>1, <1>3 DEF Synthesised, BeamsFit, BlocksApart, BeamsMoveTogether, Walking
  <1>5. BuiltHolds'
    BY <1>1, <1>2, <1>3, <1>4 DEF BuiltHolds, BuiltRec, InPlace, RoutesHold
  <1>6. AnchorsStand' /\ BeamsFit'
    <2>1. Src' = Src /\ Beam' = Beam
      BY <1>1, SameBeams
    <2> QED
      BY <1>1, <1>4, <2>1, AnchorsStay DEF Synthesised, BeamsFit
  <1> QED
    BY <1>1, <1>2, <1>5, <1>6 DEF Synthesised

LEMMA SynthesisRests ==
    ASSUME Synthesised, UNCHANGED aiVars
    PROVE  Synthesised'
  <1>1. UNCHANGED <<aiBase, width, aiAt, occupied, built, live, completed, layer, outcome>>
    BY DEF aiVars
  <1>2. Src' = Src /\ Beam' = Beam
    BY <1>1, SameBeams
  <1>3. BeamsMoveTogether' /\ (live # << >> => Walking)'
    BY <1>1 DEF Synthesised, BeamsFit, BeamsMoveTogether, Walking
  <1>4. BeamsFit'
    BY <1>1, <1>2, <1>3 DEF Synthesised, BeamsFit
  <1>5. AnchorsStand' /\ BuiltHolds'
    BY <1>1, AnchorsStay, BuiltStays DEF Synthesised
  <1> QED
    BY <1>1, <1>4, <1>5 DEF Synthesised

\* What the invariant says of a route that is verified.
LEMMA RouteHasNoHole ==
    ASSUME Synthesised
    PROVE  SynthesisSound
  <1>1. BlocksApart /\ BeamsMoveTogether
    BY DEF Synthesised, BeamsFit, BuiltHolds, BuiltRec, InPlace, RoutesHold
  <1>2. ASSUME outcome.verified
        PROVE  /\ Len(built.routes) = Len(aiBase.anchors) - 1
               /\ \A i \in DOMAIN built.routes : RouteHolds(aiBase.anchors, built.routes[i], i)
    <2>1. /\ aiAt = Len(aiBase.anchors) /\ Len(built.routes) = aiAt - 1
          /\ built.routes \in Seq(Seq(Cells))
          /\ \A i \in 1 .. aiAt - 1 : RouteHolds(aiBase.anchors, built.routes[i], i)
      BY <1>2 DEF Synthesised, BuiltHolds, BuiltRec, InPlace, RoutesHold
    <2>2. DOMAIN built.routes = 1 .. aiAt - 1
      BY <2>1
    <2> QED
      BY <2>1, <2>2
  <1>3. VerifiedHasNoHole
    BY <1>2 DEF VerifiedHasNoHole, RouteHolds
  <1> QED
    BY <1>1, <1>3 DEF SynthesisSound

\* Blocks synthesised between the anchors of a map never share a cell or cover
\* an anchor, a verified route has no hole, and the beams of an interval move
\* together (generate_ai_map), whatever the map, the priors and the beam width.
THEOREM SynthesisIsSound ==
    AiInit /\ [][AiNext]_aiVars => [](Synthesised /\ SynthesisSound)
  <1>1. Synthesised /\ [AiNext]_aiVars => Synthesised'
    <2> SUFFICES ASSUME Synthesised, [AiNext]_aiVars PROVE Synthesised'
      OBVIOUS
    <2>1. CASE BeginAi
      BY <2>1, Beginning
    <2>2. CASE ~outcome.done /\ StartInterval
      BY <2>2, Starting
    <2>3. CASE ~outcome.done /\ ExpandLayer
      BY <2>3, Layering
    <2>4. CASE ~outcome.done /\ CloseInterval
      BY <2>4, Closing
    <2>5. CASE ~outcome.done /\ RejectInterval
      BY <2>5, Rejecting
    <2>6. CASE ~outcome.done /\ FinishAi
      BY <2>6, Finishing
    <2>7. CASE UNCHANGED aiVars
      BY <2>7, SynthesisRests
    <2> QED
      BY <2>1, <2>2, <2>3, <2>4, <2>5, <2>6, <2>7 DEF AiNext, AiStep
  <1>2. Synthesised => SynthesisSound
    BY RouteHasNoHole
  <1> QED
    BY <1>1, <1>2, SearchStarts, PTL

-----------------------------------------------------------------------------
(* Stripping a map to its route. *)

LEMMA AtCellFinite ==
    ASSUME NEW blocks, Len(blocks) \in Nat, DOMAIN blocks = 1 .. Len(blocks), NEW c,
           Occupied(blocks, c)
    PROVE  /\ AtCell(blocks, c) \subseteq 1 .. Len(blocks) /\ IsFiniteSet(AtCell(blocks, c))
           /\ Smallest(AtCell(blocks, c)) \in AtCell(blocks, c)
           /\ \A i \in AtCell(blocks, c) : Smallest(AtCell(blocks, c)) <= i
  <1>1. AtCell(blocks, c) \subseteq 1 .. Len(blocks) /\ AtCell(blocks, c) # {}
    BY DEF AtCell, Occupied
  <1>2. PICK S : S = AtCell(blocks, c)
    OBVIOUS
  <1>3. IsFiniteSet(1 .. Len(blocks))
    BY FS_Interval
  <1>4. IsFiniteSet(S)
    BY <1>1, <1>2, <1>3, FS_Subset
  <1>5. S \subseteq Int /\ S # {}
    BY <1>1, <1>2
  <1>6. Smallest(S) \in S /\ \A i \in S : Smallest(S) <= i
    BY <1>4, <1>5, SmallestIs
  <1> QED
    BY <1>1, <1>2, <1>4, <1>6

\* The block seen in a cell that is kept is the one seen before.
LEMMA CutKeeps ==
    ASSUME NEW blocks \in Seq(Placements), NEW kept, NEW cut,
           cut = FilterBlocksByCells(blocks, kept)
    PROVE  /\ cut \in Seq(Placements)
           /\ \A c \in kept : Occupied(cut, c) <=> Occupied(blocks, c)
           /\ \A c \in kept : Occupied(blocks, c) => SeenAt(cut, c) = SeenAt(blocks, c)
           /\ \A n \in DOMAIN cut : /\ cut[n].cell \in kept
                                    /\ \E i \in DOMAIN blocks : blocks[i].cell = cut[n].cell
  <1>1. PICK I : I = {i \in DOMAIN blocks : blocks[i].cell \in kept}
    OBVIOUS
  <1>2. Len(blocks) \in Nat /\ DOMAIN blocks = 1 .. Len(blocks)
    OBVIOUS
  <1>3. I \subseteq DOMAIN blocks /\ I \subseteq Int
    BY <1>1, <1>2
  <1>4. cut = Picked(blocks, I)
    BY <1>1 DEF FilterBlocksByCells
  <1>5. PICK A : A = Ascending(I)
    OBVIOUS
  <1>6. /\ IsFiniteSet(I) /\ cut \in Seq(Placements) /\ Cardinality(I) \in Nat
        /\ Len(cut) = Cardinality(I) /\ DOMAIN cut = 1 .. Cardinality(I)
        /\ \A n \in 1 .. Cardinality(I) : A[n] \in I /\ cut[n] = blocks[A[n]]
    BY <1>3, <1>4, <1>5, PickedMembers
  <1>7. /\ \A m, n \in 1 .. Cardinality(I) : m < n <=> A[m] < A[n]
        /\ \A i \in I : \E n \in 1 .. Cardinality(I) : A[n] = i
    <2>1. /\ \A m, n \in 1 .. Cardinality(I) : m < n <=> Ascending(I)[m] < Ascending(I)[n]
          /\ \A i \in I : \E n \in 1 .. Cardinality(I) : Ascending(I)[n] = i
      BY <1>3, <1>6, AscendingSorts
    <2> QED
      BY <1>5, <2>1
  <1>8. ASSUME NEW n \in DOMAIN cut
        PROVE  cut[n].cell \in kept /\ \E i \in DOMAIN blocks : blocks[i].cell = cut[n].cell
    BY <1>1, <1>6
  <1>9. ASSUME NEW c \in kept
        PROVE  Occupied(cut, c) <=> Occupied(blocks, c)
    <2>1. ASSUME Occupied(cut, c) PROVE Occupied(blocks, c)
      BY <1>1, <1>6, <2>1 DEF Occupied, AtCell
    <2>2. ASSUME Occupied(blocks, c) PROVE Occupied(cut, c)
      <3>1. PICK i \in DOMAIN blocks : blocks[i].cell = c
        BY <2>2 DEF Occupied, AtCell
      <3>2. PICK n \in 1 .. Cardinality(I) : A[n] = i
        BY <1>1, <1>7, <3>1
      <3> QED
        BY <1>6, <3>1, <3>2 DEF Occupied, AtCell
    <2> QED
      BY <2>1, <2>2
  <1>10. ASSUME NEW c \in kept, Occupied(blocks, c)
         PROVE  SeenAt(cut, c) = SeenAt(blocks, c)
    <2>1. PICK m : m = Smallest(AtCell(blocks, c))
      OBVIOUS
    <2>2. m \in AtCell(blocks, c) /\ \A i \in AtCell(blocks, c) : m <= i
      BY <1>2, <1>10, <2>1, AtCellFinite
    <2>3. m \in DOMAIN blocks /\ blocks[m].cell = c
      BY <2>2 DEF AtCell
    <2>4. PICK k \in 1 .. Cardinality(I) : A[k] = m
      BY <1>1, <1>7, <2>3
    <2>5. PICK s : s = Smallest(AtCell(cut, c))
      OBVIOUS
    <2>6. Occupied(cut, c)
      BY <1>9, <1>10
    <2>7. DOMAIN cut = 1 .. Len(cut) /\ Len(cut) \in Nat
      BY <1>6
    <2>8. s \in DOMAIN cut /\ cut[s].cell = c /\ \A n \in AtCell(cut, c) : s <= n
      <3>1. s \in AtCell(cut, c) /\ \A n \in AtCell(cut, c) : s <= n
        BY <2>5, <2>6, <2>7, AtCellFinite
      <3> QED
        BY <3>1 DEF AtCell
    <2>9. k \in AtCell(cut, c)
      BY <1>6, <2>3, <2>4 DEF AtCell
    <2>10. s \in 1 .. Cardinality(I) /\ s <= k
      BY <1>6, <2>8, <2>9
    <2>11. A[s] \in AtCell(blocks, c)
      BY <1>3, <1>6, <2>8, <2>10 DEF AtCell
    <2>12. ~(A[s] < A[k])
      <3>1. m <= A[s] /\ m \in Int /\ A[s] \in Int
        BY <1>2, <1>3, <1>6, <2>2, <2>3, <2>10, <2>11
      <3> QED
        BY <2>4, <3>1
    <2>13. ~(s < k)
      BY <1>7, <2>10, <2>12
    <2>14. s = k
      BY <2>10, <2>13
    <2> QED
      BY <1>6, <2>1, <2>4, <2>5, <2>14 DEF SeenAt
  <1> QED
    BY <1>6, <1>8, <1>9, <1>10

LEMMA ChebyshevBounds ==
    ASSUME NEW c \in Cells, NEW d \in Cells, Chebyshev(c, d) <= 1
    PROVE  \A k \in 1 .. 3 : /\ c[k] \in Int /\ d[k] \in Int
                             /\ d[k] - c[k] \in -1 .. 1
  <1>1. \A k \in 1 .. 3 : c[k] \in Int /\ d[k] \in Int
    BY DEF Cells
  <1>2. PICK S : S = {Apart(c[k], d[k]) : k \in 1 .. 3}
    OBVIOUS
  <1>3. \A k \in 1 .. 3 : Apart(c[k], d[k]) \in Int
    BY <1>1 DEF Apart
  <1>4. S \subseteq Int
    BY <1>2, <1>3
  <1>5. IsFiniteSet(S)
    <2>1. PICK n \in Int : n = 3
      OBVIOUS
    <2>2. IsFiniteSet(1 .. n)
      BY FS_Interval
    <2>3. PICK f : f = [k \in 1 .. 3 |-> Apart(c[k], d[k])]
      OBVIOUS
    <2>4. S = {f[k] : k \in 1 .. 3}
      BY <1>2, <2>3
    <2> QED
      BY <2>1, <2>2, <2>4, ValuesFinite
  <1>6. S # {}
    BY <1>2
  <1>7. Largest(S) \in S /\ \A y \in S : Largest(S) >= y
    BY <1>4, <1>5, <1>6, LargestIs
  <1>8. Largest(S) = Chebyshev(c, d)
    BY <1>2 DEF Largest, Chebyshev, Max
  <1>9. ASSUME NEW k \in 1 .. 3 PROVE d[k] - c[k] \in -1 .. 1
    <2>1. Apart(c[k], d[k]) <= 1
      BY <1>2, <1>3, <1>4, <1>7, <1>8
    <2> QED
      BY <1>1, <2>1 DEF Apart
  <1> QED
    BY <1>1, <1>9

\* What generation keeps holds the route, what is below it and what is beside it.
HoldsAround(path, kept) ==
    /\ path \subseteq kept
    /\ \A c \in path : Shift(c, 0, -1, 0) \in kept
    /\ \A c \in path : \A d \in Cells : Chebyshev(c, d) <= 1 => d \in kept

LEMMA KeptAround ==
    ASSUME NEW path, path \subseteq Cells, NEW anchors, NEW every, NEW kept,
           kept = ComputeKeptCells(path, anchors, every, StripPolicy)
    PROVE  HoldsAround(path, kept)
  <1>1. PathHalo(StripPolicy) = Offsets(1, VerticalExt, 1)
    BY DEF PathHalo, StripPolicy
  <1>2. path \subseteq kept /\ AroundAll(path, Offsets(1, VerticalExt, 1)) \subseteq kept
    BY <1>1 DEF ComputeKeptCells
  <1>3. VerticalExt \in Nat \ {0}
    BY ValidatorsAssumption
  <1>4. ASSUME NEW i \in -1 .. 1, NEW j \in -1 .. 1, NEW k \in -1 .. 1, NEW c \in path
        PROVE  Shift(c, i, j, k) \in kept
    <2>1. j \in -VerticalExt .. VerticalExt
      BY <1>3
    <2>2. <<i, j, k>> \in Offsets(1, VerticalExt, 1)
      BY <2>1 DEF Offsets
    <2>3. Shift(c, <<i, j, k>>[1], <<i, j, k>>[2], <<i, j, k>>[3])
              \in AroundAll(path, Offsets(1, VerticalExt, 1))
      BY <2>2 DEF AroundAll
    <2> QED
      BY <1>2, <2>3
  <1>5. ASSUME NEW c \in path PROVE Shift(c, 0, -1, 0) \in kept
    BY <1>4
  <1>6. ASSUME NEW c \in path, NEW d \in Cells, Chebyshev(c, d) <= 1 PROVE d \in kept
    <2>1. \A k \in 1 .. 3 : c[k] \in Int /\ d[k] \in Int /\ d[k] - c[k] \in -1 .. 1
      BY <1>6, ChebyshevBounds
    <2>2. Shift(c, d[1] - c[1], d[2] - c[2], d[3] - c[3]) = d
      <3>1. d = <<d[1], d[2], d[3]>>
        BY DEF Cells
      <3>2. /\ c[1] + (d[1] - c[1]) = d[1] /\ c[2] + (d[2] - c[2]) = d[2]
            /\ c[3] + (d[3] - c[3]) = d[3]
        BY <2>1
      <3> QED
        BY <3>1, <3>2 DEF Shift
    <2>3. d[1] - c[1] \in -1 .. 1 /\ d[2] - c[2] \in -1 .. 1 /\ d[3] - c[3] \in -1 .. 1
      BY <2>1
    <2> QED
      BY <1>4, <2>2, <2>3
  <1> QED
    BY <1>2, <1>5, <1>6 DEF HoldsAround

\* Stripping leaves the findings about the route's own cells.
SameSight(full, cut, kept) ==
    /\ \A c \in kept : Occupied(cut, c) <=> Occupied(full, c)
    /\ \A c \in kept : Occupied(full, c) => SeenAt(cut, c) = SeenAt(full, c)

LEMMA SupportSame ==
    ASSUME NEW full, NEW cut, NEW kept, SameSight(full, cut, kept), NEW geo, NEW route,
           \A j \in DOMAIN route : route[j] \in kept /\ Shift(route[j], 0, -1, 0) \in kept
    PROVE  /\ CheckRouteCellsHaveBlocks(cut, route) = CheckRouteCellsHaveBlocks(full, route)
           /\ CheckMissingSupport(cut, geo, route) = CheckMissingSupport(full, geo, route)
  <1>1. \A j \in DOMAIN route :
            /\ Occupied(cut, route[j]) <=> Occupied(full, route[j])
            /\ Occupied(full, route[j]) => SeenAt(cut, route[j]) = SeenAt(full, route[j])
            /\ Occupied(cut, Shift(route[j], 0, -1, 0))
                   <=> Occupied(full, Shift(route[j], 0, -1, 0))
    BY DEF SameSight
  <1>2. {j \in DOMAIN route : ~Occupied(cut, route[j])}
            = {j \in DOMAIN route : ~Occupied(full, route[j])}
    BY <1>1
  <1>3. CheckRouteCellsHaveBlocks(cut, route) = CheckRouteCellsHaveBlocks(full, route)
    BY <1>2 DEF CheckRouteCellsHaveBlocks
  <1> DEFINE Unpropped(blocks, j) ==
          /\ route[j][2] > GroundY
          /\ Occupied(blocks, route[j])
          /\ LET b == SeenAt(blocks, route[j])
             IN  ~(Known(geo, b) /\ geo[b.name].shape \in SelfSupportingShapes)
          /\ ~Occupied(blocks, Shift(route[j], 0, -1, 0))
  <1>4. \A j \in DOMAIN route : Unpropped(cut, j) <=> Unpropped(full, j)
    BY <1>1
  <1>5. {j \in DOMAIN route : Unpropped(cut, j)} = {j \in DOMAIN route : Unpropped(full, j)}
    BY <1>4
  <1>6. /\ CheckMissingSupport(cut, geo, route)
               = {Finding("missing_support", "warn", route[i], i) :
                     i \in {j \in DOMAIN route : Unpropped(cut, j)}}
        /\ CheckMissingSupport(full, geo, route)
               = {Finding("missing_support", "warn", route[i], i) :
                     i \in {j \in DOMAIN route : Unpropped(full, j)}}
    BY DEF CheckMissingSupport
  <1>7. CheckMissingSupport(cut, geo, route) = CheckMissingSupport(full, geo, route)
    <2> HIDE DEF Unpropped
    <2> QED
      BY <1>5, <1>6
  <1> QED
    BY <1>3, <1>7

LEMMA FindingsSame ==
    ASSUME NEW full, NEW cut, NEW kept, SameSight(full, cut, kept), NEW geo, NEW route,
           \A j \in DOMAIN route : route[j] \in kept /\ Shift(route[j], 0, -1, 0) \in kept
    PROVE  OnRoute(ValidateMapGeometry(cut, geo, route, {}))
               = OnRoute(ValidateMapGeometry(full, geo, route, {}))
  <1> DEFINE others == CheckRouteContinuity(route) \cup CheckRouteCellsHaveBlocks(full, route)
                     \cup CheckMissingSupport(full, geo, route)
  <1>1. ASSUME NEW blocks, NEW f \in CheckPartialMulticell(blocks, geo)
        PROVE  f.code = "partial_multicell"
    BY DEF CheckPartialMulticell, Finding
  <1>2. /\ CheckRouteCellsHaveBlocks(cut, route) = CheckRouteCellsHaveBlocks(full, route)
        /\ CheckMissingSupport(cut, geo, route) = CheckMissingSupport(full, geo, route)
    BY SupportSame
  <1>3. /\ ValidateMapGeometry(cut, geo, route, {}) = CheckPartialMulticell(cut, geo) \cup others
        /\ ValidateMapGeometry(full, geo, route, {}) = CheckPartialMulticell(full, geo) \cup others
    BY <1>2 DEF ValidateMapGeometry
  <1> HIDE DEF others
  <1>4. ASSUME NEW P, \A f \in P : f.code = "partial_multicell"
        PROVE  OnRoute(P \cup others) = OnRoute(others)
    BY <1>4 DEF OnRoute
  <1>5. PICK p : p = CheckPartialMulticell(cut, geo)
    OBVIOUS
  <1>6. PICK q : q = CheckPartialMulticell(full, geo)
    OBVIOUS
  <1>7. (\A f \in p : f.code = "partial_multicell") /\ (\A f \in q : f.code = "partial_multicell")
    BY <1>1, <1>5, <1>6
  <1>8. OnRoute(p \cup others) = OnRoute(others) /\ OnRoute(q \cup others) = OnRoute(others)
    BY <1>4, <1>7
  <1> QED
    BY <1>3, <1>5, <1>6, <1>8

\* No jump the validators accepted loses its landing.
LEMMA ShapesSame ==
    ASSUME NEW full, NEW cut, NEW kept, SameSight(full, cut, kept), NEW geo, NEW c \in kept
    PROVE  ShapeAt(cut, geo, c) = ShapeAt(full, geo, c)
  <1>1. Occupied(cut, c) <=> Occupied(full, c)
    BY DEF SameSight
  <1>2. CASE Occupied(full, c)
    <2>1. SeenAt(cut, c) = SeenAt(full, c)
      BY <1>2 DEF SameSight
    <2> QED
      BY <1>1, <1>2, <2>1 DEF ShapeAt
  <1>3. CASE ~Occupied(full, c)
    BY <1>1, <1>3 DEF ShapeAt
  <1> QED
    BY <1>2, <1>3

LEMMA LandingsSame ==
    ASSUME NEW full, NEW cut, NEW kept, SameSight(full, cut, kept), NEW geo, NEW from, NEW next,
           NEW c \in kept, \A n \in DOMAIN cut : cut[n].cell \in kept
    PROVE  c \in FindLandingCandidates(cut, geo, from, next)
               <=> c \in FindLandingCandidates(full, geo, from, next)
  <1>1. ShapeAt(cut, geo, c) = ShapeAt(full, geo, c)
    BY ShapesSame
  <1>2. c \in {cut[i].cell : i \in DOMAIN cut} <=> c \in {full[i].cell : i \in DOMAIN full}
    <2>1. Occupied(cut, c) <=> Occupied(full, c)
      BY DEF SameSight
    <2>2. Occupied(cut, c) <=> c \in {cut[i].cell : i \in DOMAIN cut}
      BY DEF Occupied, AtCell
    <2>3. Occupied(full, c) <=> c \in {full[i].cell : i \in DOMAIN full}
      BY DEF Occupied, AtCell
    <2> QED
      BY <2>1, <2>2, <2>3
  <1> DEFINE f == Forward(from, next)
             InCone(d) ==
                 LET dx == d[1] - from[1]
                     dz == d[3] - from[3]
                 IN  /\ dx * f[1] + dz * f[2] \in Cone.min .. Cone.max
                     /\ dz * f[1] - dx * f[2] \in -Cone.lateral .. Cone.lateral
                     /\ d[2] - from[2] \in -Cone.drop .. Cone.rise
  <1>3. /\ FindLandingCandidates(cut, geo, from, next)
               = {d \in {cut[i].cell : i \in DOMAIN cut} :
                     InCone(d) /\ ShapeAt(cut, geo, d) \in LandingShapes}
        /\ FindLandingCandidates(full, geo, from, next)
               = {d \in {full[i].cell : i \in DOMAIN full} :
                     InCone(d) /\ ShapeAt(full, geo, d) \in LandingShapes}
    BY DEF FindLandingCandidates
  <1> HIDE DEF InCone
  <1>4. PICK S : S = {cut[i].cell : i \in DOMAIN cut}
    OBVIOUS
  <1>5. PICK T : T = {full[i].cell : i \in DOMAIN full}
    OBVIOUS
  <1>6. c \in FindLandingCandidates(cut, geo, from, next)
            <=> c \in S /\ InCone(c) /\ ShapeAt(cut, geo, c) \in LandingShapes
    BY <1>3, <1>4
  <1>7. c \in FindLandingCandidates(full, geo, from, next)
            <=> c \in T /\ InCone(c) /\ ShapeAt(full, geo, c) \in LandingShapes
    BY <1>3, <1>5
  <1> QED
    BY <1>1, <1>2, <1>4, <1>5, <1>6, <1>7

\* When a jump is accepted.
IsAccepted(blocks, geo, from, next, touched) ==
    \/ from \in touched /\ \E c \in touched : Chebyshev(next, c) <= 1
    \/ \E c \in FindLandingCandidates(blocks, geo, from, next) : Chebyshev(next, c) <= 1

LEMMA AcceptedIs ==
    ASSUME NEW blocks, NEW geo, NEW from, NEW next, NEW touched
    PROVE  ClassifyJump(blocks, geo, from, next, touched)
               \in {"supported_by_replay", "geometrically_plausible"}
               <=> IsAccepted(blocks, geo, from, next, touched)
  <1>1. PICK L : L = FindLandingCandidates(blocks, geo, from, next)
    OBVIOUS
  <1>2. PICK P \in BOOLEAN : P <=> from \in touched /\ \E c \in touched : Chebyshev(next, c) <= 1
    OBVIOUS
  <1>3. PICK Q \in BOOLEAN : Q <=> \E c \in L : Chebyshev(next, c) <= 1
    OBVIOUS
  <1>4. PICK R \in BOOLEAN : R <=> L = {} /\ ShapeAt(blocks, geo, from) \in TakeoffShapes
    OBVIOUS
  <1>5. ~(Q /\ R)
    BY <1>3, <1>4
  <1>6. ClassifyJump(blocks, geo, from, next, touched)
            = IF P THEN "supported_by_replay" ELSE IF R THEN "likely_broken"
              ELSE IF Q THEN "geometrically_plausible" ELSE "uncertain"
    BY <1>1, <1>2, <1>3, <1>4 DEF ClassifyJump
  <1>7. IsAccepted(blocks, geo, from, next, touched) <=> P \/ Q
    BY <1>1, <1>2, <1>3 DEF IsAccepted
  <1> QED
    BY <1>5, <1>6, <1>7

LEMMA JumpsSame ==
    ASSUME NEW full, NEW cut, NEW kept, SameSight(full, cut, kept), NEW geo,
           NEW route \in Seq(Cells), NEW touched,
           \A n \in DOMAIN full : full[n].cell \in Cells,
           \A n \in DOMAIN cut : cut[n].cell \in kept,
           \A j \in DOMAIN route : route[j] \in kept,
           \A j \in DOMAIN route : \A d \in Cells : Chebyshev(route[j], d) <= 1 => d \in kept
    PROVE  Accepted(ValidateJumps(cut, geo, route, touched))
               = Accepted(ValidateJumps(full, geo, route, touched))
  <1>1. \A i \in 2 .. Len(route) : i \in DOMAIN route /\ i - 1 \in DOMAIN route
    OBVIOUS
  <1>2. \A i \in 2 .. Len(route) : ShapeAt(cut, geo, route[i - 1]) = ShapeAt(full, geo, route[i - 1])
    BY <1>1, ShapesSame
  <1>3. DetectJumpCandidates(cut, geo, route) = DetectJumpCandidates(full, geo, route)
    BY <1>2 DEF DetectJumpCandidates
  <1>4. ASSUME NEW i \in 2 .. Len(route)
        PROVE  IsAccepted(cut, geo, route[i - 1], route[i], touched)
                   <=> IsAccepted(full, geo, route[i - 1], route[i], touched)
    <2>1. PICK L : L = FindLandingCandidates(cut, geo, route[i - 1], route[i])
      OBVIOUS
    <2>2. PICK M : M = FindLandingCandidates(full, geo, route[i - 1], route[i])
      OBVIOUS
    <2>3. L \subseteq kept
      BY <2>1 DEF FindLandingCandidates
    <2>4. M \subseteq Cells
      BY <2>2 DEF FindLandingCandidates
    <2>5. \A c \in kept : c \in L <=> c \in M
      BY <2>1, <2>2, LandingsSame
    <2>6. \A c \in M : Chebyshev(route[i], c) <= 1 => c \in kept
      BY <1>1, <2>4
    <2>7. (\E c \in L : Chebyshev(route[i], c) <= 1)
              <=> (\E c \in M : Chebyshev(route[i], c) <= 1)
      BY <2>3, <2>5, <2>6
    <2> QED
      BY <2>1, <2>2, <2>7 DEF IsAccepted
  <1>5. PICK D : D = DetectJumpCandidates(full, geo, route)
    OBVIOUS
  <1>6. D \subseteq 2 .. Len(route)
    BY <1>5 DEF DetectJumpCandidates
  <1> DEFINE Class(blocks, i) == ClassifyJump(blocks, geo, route[i - 1], route[i], touched)
  <1>7. /\ ValidateJumps(cut, geo, route, touched) = [i \in D |-> Class(cut, i)]
        /\ ValidateJumps(full, geo, route, touched) = [i \in D |-> Class(full, i)]
    BY <1>3, <1>5 DEF ValidateJumps
  <1>8. \A i \in D : Class(cut, i) \in {"supported_by_replay", "geometrically_plausible"}
                     <=> Class(full, i) \in {"supported_by_replay", "geometrically_plausible"}
    BY <1>4, <1>6, AcceptedIs
  <1> HIDE DEF Class
  <1> QED
    BY <1>7, <1>8 DEF Accepted

-----------------------------------------------------------------------------
(* Candidates in the order of their keys. *)

LEMMA EarlierOrders ==
    ASSUME NEW S, NEW n \in Nat, NEW key, NEW R,
           \A x \in S : DOMAIN key[x] = 1 .. n /\ \A k \in 1 .. n : key[x][k] \in Int,
           \A x, y \in S : x # y => \E k \in 1 .. n : key[x][k] # key[y][k],
           \A x, y \in S : <<x, y>> \in R <=> Earlier(key[x], key[y])
    PROVE  IsOrder(R, S)
  <1>1. ASSUME NEW x \in S PROVE <<x, x>> \notin R
    BY DEF Earlier
  <1>2. ASSUME NEW x \in S, NEW y \in S, NEW z \in S, <<x, y>> \in R, <<y, z>> \in R
        PROVE  <<x, z>> \in R
    <2>1. PICK k \in 1 .. n : key[x][k] < key[y][k] /\ \A j \in 1 .. k - 1 : key[x][j] = key[y][j]
      <3>1. Earlier(key[x], key[y]) /\ DOMAIN key[x] = 1 .. n
        BY <1>2
      <3> QED
        BY <3>1 DEF Earlier
    <2>2. PICK l \in 1 .. n : key[y][l] < key[z][l] /\ \A j \in 1 .. l - 1 : key[y][j] = key[z][j]
      <3>1. Earlier(key[y], key[z]) /\ DOMAIN key[y] = 1 .. n
        BY <1>2
      <3> QED
        BY <3>1 DEF Earlier
    <2>3. CASE k <= l
      <3>1. key[x][k] < key[z][k]
        <4>1. key[y][k] <= key[z][k]
          <5>1. CASE k = l
            BY <2>2, <5>1
          <5>2. CASE k < l
            <6>1. k \in 1 .. l - 1
              BY <5>2
            <6> QED
              BY <2>2, <6>1
          <5> QED
            BY <2>3, <5>1, <5>2
        <4>2. key[x][k] \in Int /\ key[y][k] \in Int /\ key[z][k] \in Int
          OBVIOUS
        <4> QED
          BY <2>1, <4>1, <4>2
      <3>2. \A j \in 1 .. k - 1 : j \in 1 .. l - 1
        BY <2>3
      <3>3. \A j \in 1 .. k - 1 : key[x][j] = key[z][j]
        BY <2>1, <2>2, <3>2
      <3> QED
        BY <3>1, <3>3 DEF Earlier
    <2>4. CASE l < k
      <3>1. l \in 1 .. k - 1
        BY <2>4
      <3>2. key[x][l] < key[z][l]
        BY <2>1, <2>2, <3>1
      <3>3. \A j \in 1 .. l - 1 : j \in 1 .. k - 1
        BY <2>4
      <3>4. \A j \in 1 .. l - 1 : key[x][j] = key[z][j]
        BY <2>1, <2>2, <3>3
      <3> QED
        BY <3>2, <3>4 DEF Earlier
    <2> QED
      BY <2>3, <2>4
  <1>3. ASSUME NEW x \in S, NEW y \in S, x # y
        PROVE  <<x, y>> \in R \/ <<y, x>> \in R
    <2>1. PICK T : T = {k \in 1 .. n : key[x][k] # key[y][k]}
      OBVIOUS
    <2>2. T \subseteq Nat /\ T # {}
      <3>1. PICK k \in 1 .. n : key[x][k] # key[y][k]
        BY <1>3
      <3>2. k \in T
        BY <2>1, <3>1
      <3>3. T \subseteq Nat
        BY <2>1
      <3> QED
        BY <3>2, <3>3
    <2>3. PICK k \in T : \A j \in T : k <= j
      BY <2>2, LeastNat
    <2>4. k \in 1 .. n /\ key[x][k] # key[y][k]
      BY <2>1
    <2>5. \A j \in 1 .. k - 1 : j \in 1 .. n /\ ~(k <= j)
      BY <2>4
    <2>6. \A j \in 1 .. k - 1 : key[x][j] = key[y][j]
      BY <2>1, <2>3, <2>5
    <2>7. key[x][k] \in Int /\ key[y][k] \in Int
      BY <2>4
    <2>8. key[x][k] < key[y][k] \/ key[y][k] < key[x][k]
      BY <2>4, <2>7
    <2>9. CASE key[x][k] < key[y][k]
      <3>1. Earlier(key[x], key[y])
        BY <2>4, <2>6, <2>9 DEF Earlier
      <3> QED
        BY <3>1
    <2>10. CASE key[y][k] < key[x][k]
      <3>1. Earlier(key[y], key[x])
        BY <2>4, <2>6, <2>10 DEF Earlier
      <3> QED
        BY <3>1
    <2> QED
      BY <2>8, <2>9, <2>10
  <1> QED
    BY <1>1, <1>2, <1>3 DEF IsOrder

\* The validators' score is a number.
LEMMA ManyFinite ==
    ASSUME NEW n \in Nat, NEW f, \A i \in 1 .. n : IsFiniteSet(f[i])
    PROVE  IsFiniteSet(UNION {f[i] : i \in 1 .. n})
  <1>1. IsFiniteSet(1 .. n)
    BY FS_Interval
  <1>2. IsFiniteSet({f[i] : i \in 1 .. n})
    BY <1>1, ValuesFinite
  <1>3. PICK F : F = {f[i] : i \in 1 .. n}
    OBVIOUS
  <1>4. \A s \in F : IsFiniteSet(s)
    BY <1>3
  <1> QED
    BY <1>2, <1>3, <1>4, FS_UNION

LEMMA FootprintFinite ==
    ASSUME NEW o, NEW r, NEW n \in Nat
    PROVE  IsFiniteSet(FootprintCells(o, r, n))
  <1>1. IsFiniteSet(1 .. n - 1)
    BY FS_Interval
  <1>2. PICK f : f = [i \in 1 .. n - 1 |->
                         Shift(o, DirByRot[r % 4][1] * i, 0, DirByRot[r % 4][2] * i)]
    OBVIOUS
  <1>3. IsFiniteSet({f[i] : i \in 1 .. n - 1})
    BY <1>1, ValuesFinite
  <1>4. FootprintCells(o, r, n) = {o} \cup {f[i] : i \in 1 .. n - 1}
    BY <1>2 DEF FootprintCells
  <1>5. IsFiniteSet({o})
    BY FS_Singleton
  <1> QED
    BY <1>3, <1>4, <1>5, FS_Union

LEMMA PartialFinite ==
    ASSUME NEW blocks, Len(blocks) \in Nat, DOMAIN blocks = 1 .. Len(blocks)
    PROVE  IsFiniteSet(CheckPartialMulticell(blocks, Geometry))
  <1> DEFINE J == {j \in DOMAIN blocks : Known(Geometry, blocks[j])}
             C(i) == FootprintCells(blocks[i].cell, blocks[i].rot,
                                    Geometry[blocks[i].name].fx) \ {blocks[i].cell}
             G(i, c) == Finding("partial_multicell",
                                IF Occupied(blocks, c) THEN "warn" ELSE "fail", c, i)
  <1>1. ASSUME NEW i \in J PROVE IsFiniteSet({G(i, c) : c \in C(i)})
    <2>1. PICK n \in Nat : n = Geometry[blocks[i].name].fx
      BY GenerationAssumption DEF Known
    <2>2. IsFiniteSet(FootprintCells(blocks[i].cell, blocks[i].rot, n))
      BY FootprintFinite
    <2>3. PICK D : D = C(i)
      OBVIOUS
    <2>4. IsFiniteSet(D)
      BY <2>1, <2>2, <2>3, FS_Subset
    <2>5. PICK g : g = [c \in D |-> G(i, c)]
      OBVIOUS
    <2>6. IsFiniteSet({g[c] : c \in D})
      BY <2>4, ValuesFinite
    <2>7. {g[c] : c \in D} = {G(i, c) : c \in D}
      BY <2>5
    <2> QED
      BY <2>3, <2>6, <2>7
  <1>2. CheckPartialMulticell(blocks, Geometry) = UNION {{G(i, c) : c \in C(i)} : i \in J}
    BY DEF CheckPartialMulticell
  <1>3. PICK f : f = [i \in 1 .. Len(blocks) |-> IF i \in J THEN {G(i, c) : c \in C(i)} ELSE {}]
    OBVIOUS
  <1>4. J \subseteq 1 .. Len(blocks)
    OBVIOUS
  <1> HIDE DEF J, C, G
  <1>5. \A i \in 1 .. Len(blocks) : IsFiniteSet(f[i])
    BY <1>1, <1>3, FS_EmptySet
  <1>6. IsFiniteSet(UNION {f[i] : i \in 1 .. Len(blocks)})
    BY <1>5, ManyFinite
  <1>7. CheckPartialMulticell(blocks, Geometry) \subseteq UNION {f[i] : i \in 1 .. Len(blocks)}
    BY <1>2, <1>3, <1>4
  <1> QED
    BY <1>6, <1>7, FS_Subset

LEMMA PartFinite ==
    ASSUME NEW n \in Nat, NEW I, I \subseteq 1 .. n, NEW f
    PROVE  IsFiniteSet({f[i] : i \in I})
  <1>1. IsFiniteSet(1 .. n)
    BY FS_Interval
  <1>2. IsFiniteSet(I)
    BY <1>1, FS_Subset
  <1> QED
    BY <1>2, ValuesFinite

LEMMA FoundFinite ==
    ASSUME NEW blocks, Len(blocks) \in Nat, DOMAIN blocks = 1 .. Len(blocks),
           NEW path \in Seq(Cells)
    PROVE  IsFiniteSet(ValidateMapGeometry(blocks, Geometry, path, {}))
  <1>1. IsFiniteSet(1 .. Len(path)) /\ DOMAIN path = 1 .. Len(path)
    BY FS_Interval
  <1>2. PICK n \in Nat : n = Len(path)
    OBVIOUS
  <1>3. IsFiniteSet(CheckRouteContinuity(path))
    <2>1. PICK I : I = {j \in 2 .. Len(path) : Chebyshev(path[j - 1], path[j]) > 1}
      OBVIOUS
    <2>2. PICK f : f = [i \in I |-> Finding("route_gap", "warn", path[i], i)]
      OBVIOUS
    <2>3. CheckRouteContinuity(path) = {f[i] : i \in I} /\ I \subseteq 1 .. Len(path)
      BY <2>1, <2>2 DEF CheckRouteContinuity
    <2>4. IsFiniteSet({f[i] : i \in I})
      <3>1. I \subseteq 1 .. n
        BY <1>2, <2>3
      <3> QED
        BY <3>1, PartFinite
    <2> QED
      BY <2>3, <2>4
  <1>4. IsFiniteSet(CheckRouteCellsHaveBlocks(blocks, path))
    <2>1. PICK I : I = {j \in DOMAIN path : ~Occupied(blocks, path[j])}
      OBVIOUS
    <2>2. PICK f : f = [i \in I |-> Finding("route_cell_missing_block", "fail", path[i], i)]
      OBVIOUS
    <2>3. CheckRouteCellsHaveBlocks(blocks, path) = {f[i] : i \in I} /\ I \subseteq 1 .. Len(path)
      BY <1>1, <2>1, <2>2 DEF CheckRouteCellsHaveBlocks
    <2>4. IsFiniteSet({f[i] : i \in I})
      <3>1. I \subseteq 1 .. n
        BY <1>2, <2>3
      <3> QED
        BY <3>1, PartFinite
    <2> QED
      BY <2>3, <2>4
  <1>5. IsFiniteSet(CheckMissingSupport(blocks, Geometry, path))
    <2>1. PICK f : f = [i \in DOMAIN path |-> Finding("missing_support", "warn", path[i], i)]
      OBVIOUS
    <2>2. IsFiniteSet({f[i] : i \in DOMAIN path})
      BY <1>1, ValuesFinite
    <2>3. CheckMissingSupport(blocks, Geometry, path) \subseteq {f[i] : i \in DOMAIN path}
      BY <2>1 DEF CheckMissingSupport
    <2> QED
      BY <2>2, <2>3, FS_Subset
  <1>6. IsFiniteSet(CheckPartialMulticell(blocks, Geometry))
    BY PartialFinite
  <1>7. ValidateMapGeometry(blocks, Geometry, path, {})
            = CheckPartialMulticell(blocks, Geometry) \cup CheckRouteContinuity(path)
              \cup CheckRouteCellsHaveBlocks(blocks, path)
              \cup CheckMissingSupport(blocks, Geometry, path)
    BY DEF ValidateMapGeometry
  <1> QED
    BY <1>3, <1>4, <1>5, <1>6, <1>7, FS_Union

LEMMA ScoreIsNumber ==
    ASSUME NEW blocks, Len(blocks) \in Nat, DOMAIN blocks = 1 .. Len(blocks),
           NEW path \in Seq(Cells), NEW touched
    PROVE  ScoreCorridor(blocks, Geometry, path, touched) \in Int
  <1>1. PICK found : found = ValidateMapGeometry(blocks, Geometry, path, {})
    OBVIOUS
  <1>2. IsFiniteSet(found)
    BY <1>1, FoundFinite
  <1>3. ASSUME NEW F, F \subseteq found PROVE Cardinality(F) \in Nat
    BY <1>2, <1>3, FS_Subset, FS_CardinalityType
  <1>4. PICK jumps : jumps = ValidateJumps(blocks, Geometry, path, touched)
    OBVIOUS
  <1>5. IsFiniteSet(DOMAIN jumps)
    <2>1. DOMAIN jumps \subseteq 1 .. Len(path)
      BY <1>4 DEF ValidateJumps, DetectJumpCandidates
    <2>2. IsFiniteSet(1 .. Len(path))
      BY FS_Interval
    <2> QED
      BY <2>1, <2>2, FS_Subset
  <1>6. ASSUME NEW F, F \subseteq DOMAIN jumps PROVE Cardinality(F) \in Nat
    BY <1>5, <1>6, FS_Subset, FS_CardinalityType
  <1>7. PICK p \in Nat : p = Cardinality({f \in found : /\ f.code = "partial_multicell"
                                                        /\ f.sev = "fail"
                                                        /\ NearPath(path, f.cell)})
    BY <1>3
  <1>8. PICK s \in Nat : s = Cardinality({f \in found : f.code = "missing_support"})
    BY <1>3
  <1>9. PICK g \in Nat : g = Cardinality({f \in found : f.code = "route_gap"})
    BY <1>3
  <1>10. PICK b \in Nat : b = Cardinality({i \in DOMAIN jumps : jumps[i] = "likely_broken"})
    BY <1>6
  <1>11. PICK u \in Nat : u = Cardinality({i \in DOMAIN jumps : jumps[i] = "uncertain"})
    BY <1>6
  <1>12. ScoreCorridor(blocks, Geometry, path, touched) = CorridorValidationScore(p, s, g, b, u)
    BY <1>1, <1>4, <1>7, <1>8, <1>9, <1>10, <1>11 DEF ScoreCorridor
  <1>13. PICK v \in Int : v = 100 - (8 * p + 4 * s + 5 * g + 30 * b + 8 * u)
    OBVIOUS
  <1>14. CorridorValidationScore(p, s, g, b, u) = Max({0, v})
    BY <1>13 DEF CorridorValidationScore
  <1>15. Max({0, v}) = IF v > 0 THEN v ELSE 0
    BY DEF Max
  <1> QED
    BY <1>12, <1>14, <1>15

LEMMA BaseIs ==
    ASSUME NEW b, BaseReads(b)
    PROVE  /\ Len(b.blocks) \in Nat /\ DOMAIN b.blocks = 1 .. Len(b.blocks)
           /\ IsFiniteSet(DOMAIN b.corridors)
           /\ \A i \in DOMAIN b.corridors :
                 LET c == b.corridors[i]
                 IN  /\ c.id \in Int /\ c.learned \in Int /\ c.seq \in Int
                     /\ c.path \in Seq(Cells) /\ Len(c.path) \in Int
                     /\ ScoreCorridor(b.blocks, Geometry, c.path, TouchedCells(b)) \in Int
           /\ \A i, j \in DOMAIN b.corridors : b.corridors[i] = b.corridors[j] => i = j
  <1>1. b.blocks \in Seq(Placements)
    BY DEF BaseReads
  <1>2. Len(b.blocks) \in Nat /\ DOMAIN b.blocks = 1 .. Len(b.blocks)
    BY <1>1
  <1>3. PICK n \in Nat : n = Len(b.corridors) /\ DOMAIN b.corridors = 1 .. n
    BY DEF BaseReads
  <1>4. IsFiniteSet(DOMAIN b.corridors)
    BY <1>3, FS_Interval
  <1>5. ASSUME NEW i \in DOMAIN b.corridors, NEW c, c = b.corridors[i]
        PROVE  /\ c.id \in Int /\ c.learned \in Int /\ c.seq \in Int
               /\ c.path \in Seq(Cells) /\ Len(c.path) \in Int
               /\ ScoreCorridor(b.blocks, Geometry, c.path, TouchedCells(b)) \in Int
    <2>1. CorridorReads(c)
      BY <1>5 DEF BaseReads
    <2>2. c.id \in Int /\ c.learned \in Int /\ c.seq \in Int /\ c.path \in Seq(Cells)
      BY <2>1 DEF CorridorReads
    <2>3. PICK blocks : blocks = b.blocks
      OBVIOUS
    <2>4. PICK path \in Seq(Cells) : path = c.path
      BY <2>2
    <2>5. ScoreCorridor(blocks, Geometry, path, TouchedCells(b)) \in Int
      BY <1>2, <2>3, ScoreIsNumber
    <2>6. Len(path) \in Int
      OBVIOUS
    <2> QED
      BY <2>2, <2>3, <2>4, <2>5, <2>6
  <1>6. ASSUME NEW i \in DOMAIN b.corridors, NEW j \in DOMAIN b.corridors,
               b.corridors[i] = b.corridors[j]
        PROVE  i = j
    BY <1>6 DEF BaseReads
  <1> QED
    BY <1>2, <1>4, <1>5, <1>6

\* One candidate for each scored corridor of the interval.
CandidateOf(b, c, i) == c.row = b.corridors[i] /\ c.vs \in Int /\ c = [row |-> c.row, vs |-> c.vs]

CandidatesOf(b, pool, all) ==
    /\ \A c \in all : \E i \in pool : CandidateOf(b, c, i)
    /\ \A i \in pool : \E c \in all : c.row = b.corridors[i]
    /\ \A c, d \in all : c.row = d.row => c = d
    /\ IsFiniteSet(all)

LEMMA ValidatedAre ==
    ASSUME NEW b, BaseReads(b), NEW pool, pool \subseteq DOMAIN b.corridors, NEW v \in BOOLEAN,
           NEW all, all = IF v THEN ScoreTopCandidates(b, pool) ELSE Unvalidated(b, pool)
    PROVE  CandidatesOf(b, pool, all)
  <1>1. PICK asked : /\ asked \subseteq pool
                     /\ all = {[row |-> b.corridors[i],
                                vs |-> ScoreCorridor(b.blocks, Geometry, b.corridors[i].path,
                                                     TouchedCells(b))] : i \in asked}
                              \cup {[row |-> b.corridors[i], vs |-> -1] : i \in pool \ asked}
    <2>1. CASE v
      BY <2>1 DEF ScoreTopCandidates, Unvalidated
    <2>2. CASE ~v
      <3>1. all = {[row |-> b.corridors[i], vs |-> -1] : i \in pool \ {}}
        BY <2>2 DEF Unvalidated
      <3>2. {} \subseteq pool
        OBVIOUS
      <3> QED
        BY <3>1, <3>2
    <2> QED
      BY <2>1, <2>2
  <1>2. PICK score : score = [i \in pool |->
            IF i \in asked THEN ScoreCorridor(b.blocks, Geometry, b.corridors[i].path,
                                              TouchedCells(b)) ELSE -1]
    OBVIOUS
  <1>3. PICK f : f = [i \in pool |-> [row |-> b.corridors[i], vs |-> score[i]]]
    OBVIOUS
  <1>4. all = {f[i] : i \in pool}
    <2>1. \A i \in asked : f[i] = [row |-> b.corridors[i],
                                   vs |-> ScoreCorridor(b.blocks, Geometry, b.corridors[i].path,
                                                        TouchedCells(b))]
      BY <1>1, <1>2, <1>3
    <2>2. \A i \in pool \ asked : f[i] = [row |-> b.corridors[i], vs |-> -1]
      BY <1>1, <1>2, <1>3
    <2>3. all = {f[i] : i \in asked} \cup {f[i] : i \in pool \ asked}
      BY <1>1, <2>1, <2>2
    <2> QED
      BY <1>1, <2>3
  <1>5. \A i \in pool : score[i] \in Int
    BY <1>2, BaseIs
  <1>6. \A i \in pool : CandidateOf(b, f[i], i)
    BY <1>3, <1>5 DEF CandidateOf
  <1>7. \A i, j \in pool : f[i].row = f[j].row => i = j
    BY <1>3, BaseIs
  <1>8. IsFiniteSet(pool)
    BY BaseIs, FS_Subset
  <1>9. IsFiniteSet(all)
    BY <1>4, <1>8, ValuesFinite
  <1>10. \A i \in pool : f[i].row = b.corridors[i]
    BY <1>6 DEF CandidateOf
  <1>11. \A c \in all : \E i \in pool : c = f[i]
    BY <1>4
  <1>12. \A c \in all : \E i \in pool : CandidateOf(b, c, i)
    BY <1>6, <1>11
  <1>13. \A i \in pool : \E c \in all : c.row = b.corridors[i]
    BY <1>4, <1>10
  <1>14. \A c, d \in all : c.row = d.row => c = d
    BY <1>7, <1>11
  <1> QED
    BY <1>9, <1>12, <1>13, <1>14 DEF CandidatesOf

LEMMA RanksOrder ==
    ASSUME NEW b, BaseReads(b), NEW pool, pool \subseteq DOMAIN b.corridors, NEW v \in BOOLEAN,
           NEW S, \A c \in S : \E i \in pool : CandidateOf(b, c, i),
           \A c, d \in S : c.row = d.row => c = d
    PROVE  IsOrder(ByRank(S, v), S)
  <1>1. PICK key : key = [c \in S |-> RankOf(c, v)]
    OBVIOUS
  <1>2. PICK n \in Nat : n = IF v THEN 6 ELSE 4
    OBVIOUS
  <1>3. ASSUME NEW c \in S
        PROVE  /\ c.row.learned \in Int /\ c.row.seq \in Int /\ Len(c.row.path) \in Int
               /\ c.row.id \in Int /\ c.vs \in Int
    <2>1. PICK i \in pool : CandidateOf(b, c, i)
      OBVIOUS
    <2>2. c.row = b.corridors[i] /\ c.vs \in Int
      BY <2>1 DEF CandidateOf
    <2>3. PICK r : r = b.corridors[i]
      OBVIOUS
    <2>4. r.learned \in Int /\ r.seq \in Int /\ Len(r.path) \in Int /\ r.id \in Int
      BY <2>3, BaseIs
    <2> QED
      BY <2>2, <2>3, <2>4
  <1>4. ASSUME NEW c \in S
        PROVE  /\ DOMAIN key[c] = 1 .. n /\ key[c][n] = c.row.id
               /\ \A k \in 1 .. n : key[c][k] \in Int
    <2>1. CASE v
      <3>5. PICK learned \in Int : learned = -c.row.learned
        BY <1>3
      <3>6. PICK zero \in Int : zero = IF c.vs = 0 THEN 1 ELSE 0
        OBVIOUS
      <3>7. PICK vs \in Int : vs = -c.vs
        BY <1>3
      <3>8. PICK seq \in Int : seq = -c.row.seq
        BY <1>3
      <3>9. PICK length \in Int, id \in Int : length = Len(c.row.path) /\ id = c.row.id
        BY <1>3
      <3>1. key[c] = <<learned, zero, vs, seq, length, id>>
        BY <1>1, <2>1, <3>5, <3>6, <3>7, <3>8, <3>9 DEF RankOf, TieBreakKeyWithValidation
      <3>2. n = 6
        BY <1>2, <2>1
      <3>3. DOMAIN key[c] = 1 .. 6 /\ key[c][6] = c.row.id
        BY <3>1, <3>9
      <3>4. \A k \in 1 .. 6 : k = 1 \/ k = 2 \/ k = 3 \/ k = 4 \/ k = 5 \/ k = 6
        OBVIOUS
      <3>10. /\ key[c][1] \in Int /\ key[c][2] \in Int /\ key[c][3] \in Int
            /\ key[c][4] \in Int /\ key[c][5] \in Int /\ key[c][6] \in Int
        BY <3>1
      <3> QED
        BY <3>2, <3>3, <3>4, <3>10
    <2>2. CASE ~v
      <3>1. key[c] = <<-c.row.learned, -c.row.seq, Len(c.row.path), c.row.id>>
        BY <1>1, <2>2 DEF RankOf, TieBreakKey
      <3>2. n = 4
        BY <1>2, <2>2
      <3>3. DOMAIN key[c] = 1 .. 4 /\ key[c][4] = c.row.id
        BY <3>1
      <3>4. \A k \in 1 .. 4 : k = 1 \/ k = 2 \/ k = 3 \/ k = 4
        OBVIOUS
      <3>5. /\ key[c][1] \in Int /\ key[c][2] \in Int /\ key[c][3] \in Int
            /\ key[c][4] \in Int
        BY <1>3, <3>1
      <3> QED
        BY <3>2, <3>3, <3>4, <3>5
    <2> QED
      BY <2>1, <2>2
  <1>5. ASSUME NEW c \in S, NEW d \in S, c # d
        PROVE  \E k \in 1 .. n : key[c][k] # key[d][k]
    <2>1. PICK i \in pool : c.row = b.corridors[i]
      BY DEF CandidateOf
    <2>2. PICK j \in pool : d.row = b.corridors[j]
      BY DEF CandidateOf
    <2>3. c.row.id # d.row.id
      <3>1. ASSUME c.row.id = d.row.id PROVE FALSE
        <4>1. i = j
          BY <2>1, <2>2, <3>1 DEF BaseReads
        <4> QED
          BY <1>5, <2>1, <2>2, <4>1
      <3> QED
        BY <3>1
    <2>4. n \in 1 .. n
      BY <1>2
    <2> QED
      BY <1>4, <2>3, <2>4
  <1>6. ASSUME NEW c \in S, NEW d \in S
        PROVE  <<c, d>> \in ByRank(S, v) <=> Earlier(key[c], key[d])
    BY <1>1 DEF ByRank
  <1>7. PICK R : R = ByRank(S, v)
    OBVIOUS
  <1>8. IsOrder(R, S)
    <2>1. \A x \in S : DOMAIN key[x] = 1 .. n /\ \A k \in 1 .. n : key[x][k] \in Int
      BY <1>4
    <2>2. \A x, y \in S : x # y => \E k \in 1 .. n : key[x][k] # key[y][k]
      BY <1>5
    <2>3. \A x, y \in S : <<x, y>> \in R <=> Earlier(key[x], key[y])
      BY <1>6, <1>7
    <2> QED
      BY <2>1, <2>2, <2>3, EarlierOrders
  <1> QED
    BY <1>7, <1>8

\* The corridor picked for an interval is a scored one of the interval, and fewer than
\* TopK have a higher learned score.
Best(b, c) ==
    {d \in ToSet(b.corridors) : /\ d.src = c.src /\ d.dst = c.dst
                                /\ d.learned # Unscored /\ d.learned > c.learned}

PicksTop(b, src, dst, c) ==
    /\ \E i \in Pool(b, src, dst) : c = b.corridors[i]
    /\ Cardinality(Best(b, c)) < TopK

LEMMA PickedIsTop ==
    ASSUME NEW b, BaseReads(b), NEW src, NEW dst, NEW seed, NEW idx, seed[idx] \in Nat,
           NEW v \in BOOLEAN, NEW c, c = PickCorridor(b, idx, src, dst, seed, v),
           \E i \in Pool(b, src, dst) : b.corridors[i].learned # Unscored
    PROVE  PicksTop(b, src, dst, c)
  <1>1. PICK pool : pool = Pool(b, src, dst)
    OBVIOUS
  <1>2. pool \subseteq DOMAIN b.corridors
    BY <1>1 DEF Pool
  <1>3. PICK all : all = IF v THEN ScoreTopCandidates(b, pool) ELSE Unvalidated(b, pool)
    OBVIOUS
  <1>4. /\ \A e \in all : \E i \in pool : CandidateOf(b, e, i)
        /\ \A i \in pool : \E e \in all : e.row = b.corridors[i]
        /\ \A e, d \in all : e.row = d.row => e = d
        /\ IsFiniteSet(all)
    <2>1. CandidatesOf(b, pool, all)
      BY <1>2, <1>3, ValidatedAre
    <2> QED
      BY <2>1 DEF CandidatesOf
  <1>5. PICK S : S = {e \in all : e.row.learned # Unscored}
    OBVIOUS
  <1>6. IsFiniteSet(S) /\ S \subseteq all
    BY <1>4, <1>5, FS_Subset
  <1>7. PICK R : R = ByRank(S, v)
    OBVIOUS
  <1>8. IsOrder(R, S)
    <2>1. \A e \in S : \E i \in pool : CandidateOf(b, e, i)
      BY <1>4, <1>6
    <2>2. \A e, d \in S : e.row = d.row => e = d
      BY <1>4, <1>6
    <2>3. IsOrder(ByRank(S, v), S)
      BY <1>2, <2>1, <2>2, RanksOrder
    <2> QED
      BY <1>7, <2>3
  <1>9. PICK m : m = Cardinality(S)
    OBVIOUS
  <1>10. m \in Nat /\ m > 0
    <2>1. PICK i \in pool : b.corridors[i].learned # Unscored
      BY <1>1
    <2>2. PICK e \in all : e.row = b.corridors[i]
      BY <1>4
    <2>3. e \in S
      BY <1>5, <2>1, <2>2
    <2>4. m \in Nat /\ (m = 0 <=> S = {})
      BY <1>6, <1>9, FS_CardinalityType, FS_EmptySet
    <2> QED
      BY <2>3, <2>4
  <1>11. PICK r : r = PickWithinTopK(seed, idx, m) + 1
    OBVIOUS
  <1>12. r \in 1 .. m /\ r <= TopK
    <2>1. PICK k : k = Smallest({TopK, m})
      OBVIOUS
    <2>2. TopK \in Nat \ {0}
      BY GenerationAssumption
    <2>3. k = IF TopK <= m THEN TopK ELSE m
      BY <1>10, <2>1, <2>2 DEF Smallest
    <2>4. k \in Nat \ {0} /\ k <= m /\ k <= TopK
      BY <1>10, <2>2, <2>3
    <2>5. PICK s \in Nat : s = seed[idx]
      OBVIOUS
    <2>6. s % k \in 0 .. k - 1
      BY <2>4
    <2>7. r = (s % k) + 1
      BY <1>11, <2>1, <2>5 DEF PickWithinTopK
    <2> QED
      BY <1>10, <2>2, <2>4, <2>6, <2>7
  <1>13. PICK e : e = Ordered(S, R)[r]
    OBVIOUS
  <1>14. e \in S /\ Cardinality(Preceding(e, S, R)) = r - 1
    <2>1. \A n \in 1 .. Cardinality(S) :
              /\ Ordered(S, R)[n] \in S
              /\ Cardinality(Preceding(Ordered(S, R)[n], S, R)) = n - 1
      BY <1>6, <1>8, OrderedRank
    <2> QED
      BY <1>9, <1>12, <1>13, <2>1
  <1>15. c = e.row
    <2>1. Candidates(b, pool, v) = S
      BY <1>3, <1>5 DEF Candidates
    <2>2. Value(S) = S
      BY DEF Value
    <2>3. PickCorridor(b, idx, src, dst, seed, v)
              = Ordered(Value(Candidates(b, pool, v)),
                        ByRank(Value(Candidates(b, pool, v)), v))
                    [PickWithinTopK(seed, idx, Cardinality(Value(Candidates(b, pool, v)))) + 1].row
      BY <1>1 DEF PickCorridor
    <2> QED
      BY <1>7, <1>9, <1>11, <1>13, <2>1, <2>2, <2>3
  <1>16. PICK i \in pool : CandidateOf(b, e, i)
    BY <1>4, <1>6, <1>14
  <1>17. c = b.corridors[i]
    BY <1>15, <1>16 DEF CandidateOf
  <1>18. Cardinality(Best(b, c)) < TopK
    <2>1. PICK P : P = Preceding(e, S, R)
      OBVIOUS
    <2>2. IsFiniteSet(P) /\ P \subseteq S /\ Cardinality(P) = r - 1
      BY <1>6, <1>14, <2>1, PrecedingFinite
    <2>3. PICK f : f = [x \in P |-> x.row]
      OBVIOUS
    <2>4. /\ IsFiniteSet({f[x] : x \in P})
          /\ Cardinality({f[x] : x \in P}) <= Cardinality(P)
          /\ Cardinality({f[x] : x \in P}) \in Nat
      BY <2>2, ValuesFinite
    <2>5. ASSUME NEW d \in Best(b, c) PROVE d \in {f[x] : x \in P}
      <3>1. PICK j \in DOMAIN b.corridors : d = b.corridors[j]
        BY DEF Best, ToSet
      <3>2. /\ d.src = c.src /\ d.dst = c.dst
            /\ d.learned # Unscored /\ d.learned > c.learned
        BY DEF Best
      <3>3. c.src = Key(src) /\ c.dst = Key(dst)
        BY <1>1, <1>17 DEF Pool
      <3>4. j \in pool
        BY <1>1, <3>1, <3>2, <3>3 DEF Pool
      <3>5. PICK x \in all : x.row = d
        BY <1>4, <3>1, <3>4
      <3>6. x \in S
        BY <1>5, <3>2, <3>5
      <3>7. RankOf(x, v)[1] = -d.learned /\ RankOf(e, v)[1] = -c.learned /\ 1 \in DOMAIN RankOf(x, v)
        <4>1. CASE v
          BY <1>15, <3>5, <4>1 DEF RankOf, TieBreakKeyWithValidation
        <4>2. CASE ~v
          BY <1>15, <3>5, <4>2 DEF RankOf, TieBreakKey
        <4> QED
          BY <4>1, <4>2
      <3>8. d.learned \in Int /\ c.learned \in Int
        BY <1>2, <1>17, <3>1, BaseIs
      <3>9. RankOf(x, v)[1] < RankOf(e, v)[1]
        BY <3>2, <3>7, <3>8
      <3>10. Earlier(RankOf(x, v), RankOf(e, v))
        BY <3>7, <3>9 DEF Earlier
      <3>11. <<x, e>> \in R
        BY <1>7, <1>14, <3>6, <3>10 DEF ByRank
      <3>12. x \in P
        BY <2>1, <3>6, <3>11 DEF Preceding
      <3>13. f[x] = d
        BY <2>3, <3>5, <3>12
      <3> QED
        BY <3>12, <3>13
    <2>6. PICK B : B = Best(b, c)
      OBVIOUS
    <2>7. B \subseteq {f[x] : x \in P}
      BY <2>5, <2>6
    <2>8. Cardinality(B) <= Cardinality({f[x] : x \in P}) /\ Cardinality(B) \in Nat
      BY <2>4, <2>7, FS_Subset, FS_CardinalityType
    <2>9. TopK \in Nat
      BY GenerationAssumption
    <2> QED
      BY <1>12, <2>2, <2>4, <2>6, <2>8, <2>9
  <1> QED
    BY <1>1, <1>17, <1>18 DEF PicksTop

-----------------------------------------------------------------------------
(* The anchors of a map of linked checkpoints. *)

\* Spawn if there is one, the linked checkpoints in ascending order, Goal.
LapAnchors(ws, anchors) ==
    LET A == Ascending(OrdersOf(ws, "LinkedCheckpoint"))
        f == Len(OneOfTag(ws, "Spawn"))
        n == Len(A)
    IN  /\ n \in Nat /\ n > 0 /\ f \in 0 .. 1 /\ Len(anchors) = f + n + 1
        /\ DOMAIN A = 1 .. n
        /\ f = 1 => anchors[1].tag = "Spawn"
        /\ anchors[f + n + 1].tag = "Goal"
        /\ \A i \in 1 .. n : /\ anchors[f + i].tag = "LinkedCheckpoint"
                             /\ anchors[f + i].order = A[i]

WaypointReads(ws) ==
    /\ Len(ws) \in Nat /\ DOMAIN ws = 1 .. Len(ws)
    /\ \A i \in DOMAIN ws : ws[i].order \in Int

LEMMA FirstIs ==
    ASSUME NEW ws, WaypointReads(ws), NEW S, S \subseteq DOMAIN ws, S # {}
    PROVE  \E i \in S : FirstOf(ws, S) = ws[i]
  <1>1. IsFiniteSet(1 .. Len(ws))
    <2>1. PICK n \in Nat : n = Len(ws)
      BY DEF WaypointReads
    <2>2. IsFiniteSet(1 .. n)
      BY FS_Interval
    <2> QED
      BY <2>1, <2>2
  <1>2. S \subseteq 1 .. Len(ws) /\ S \subseteq Int
    BY DEF WaypointReads
  <1>3. IsFiniteSet(S)
    BY <1>1, <1>2, FS_Subset
  <1>4. Smallest(S) \in S
    BY <1>2, <1>3, SmallestIs
  <1> QED
    BY <1>4 DEF FirstOf

LEMMA OrdersAre ==
    ASSUME NEW ws, WaypointReads(ws), NEW t
    PROVE  /\ OrdersOf(ws, t) \subseteq Int /\ IsFiniteSet(OrdersOf(ws, t))
           /\ OrdersOf(ws, t) = {} <=> OfTag(ws, t) = {}
  <1>1. IsFiniteSet(1 .. Len(ws))
    <2>1. PICK n \in Nat : n = Len(ws)
      BY DEF WaypointReads
    <2>2. IsFiniteSet(1 .. n)
      BY FS_Interval
    <2> QED
      BY <2>1, <2>2
  <1>2. PICK D : D = OfTag(ws, t)
    OBVIOUS
  <1>3. D \subseteq 1 .. Len(ws)
    BY <1>2 DEF OfTag, WaypointReads
  <1>4. IsFiniteSet(D)
    BY <1>1, <1>3, FS_Subset
  <1>5. PICK f : f = [i \in D |-> ws[i].order]
    OBVIOUS
  <1>6. OrdersOf(ws, t) = {f[i] : i \in D}
    BY <1>2, <1>5 DEF OrdersOf
  <1>7. IsFiniteSet({f[i] : i \in D})
    BY <1>4, ValuesFinite
  <1>8. \A i \in D : f[i] \in Int
    BY <1>3, <1>5 DEF WaypointReads
  <1> QED
    BY <1>2, <1>6, <1>7, <1>8

LEMMA TagOfFirst ==
    ASSUME NEW ws, WaypointReads(ws), NEW t, OfTag(ws, t) # {}
    PROVE  FirstOf(ws, OfTag(ws, t)).tag = t
  <1>1. OfTag(ws, t) \subseteq DOMAIN ws
    BY DEF OfTag
  <1>2. PICK i \in OfTag(ws, t) : FirstOf(ws, OfTag(ws, t)) = ws[i]
    BY <1>1, FirstIs
  <1> QED
    BY <1>2 DEF OfTag

\* Two rows one after the other.
IsJoined(u, s, m, t, n) ==
    /\ Len(u) = m + n
    /\ \A i \in 1 .. m : u[i] = s[i]
    /\ \A i \in 1 .. n : u[m + i] = t[i]

LEMMA RowsJoin ==
    ASSUME NEW U, NEW s \in Seq(U), NEW t \in Seq(U), NEW m \in Nat, m = Len(s),
           NEW n \in Nat, n = Len(t), NEW u, u = s \o t
    PROVE  u \in Seq(U) /\ IsJoined(u, s, m, t, n)
  <1>1. u \in Seq(U) /\ Len(u) = m + n
    OBVIOUS
  <1>2. ASSUME NEW i \in 1 .. m PROVE u[i] = s[i]
    <2>1. i \in 1 .. m + n /\ i <= m
      OBVIOUS
    <2> QED
      BY <2>1
  <1>3. ASSUME NEW i \in 1 .. n PROVE u[m + i] = t[i]
    <2>1. m + i \in 1 .. m + n /\ ~(m + i <= m) /\ m + i - m = i
      OBVIOUS
    <2> QED
      BY <2>1
  <1> QED
    BY <1>1, <1>2, <1>3 DEF IsJoined

LEMMA AnchorsAre ==
    ASSUME NEW ws, WaypointReads(ws), IsLinkedCp(ws)
    PROVE  LapAnchors(ws, DetectAndOrderAnchors(ws))
  <1>1. PICK L : L = OrdersOf(ws, "LinkedCheckpoint")
    OBVIOUS
  <1>2. L \subseteq Int /\ IsFiniteSet(L) /\ L # {}
    BY <1>1, OrdersAre DEF IsLinkedCp
  <1>3. OrdersOf(ws, "Checkpoint") = {}
    BY OrdersAre DEF IsLinkedCp
  <1>4. PICK n \in Nat : n = Cardinality(L)
    BY <1>2, FS_CardinalityType
  <1>5. PICK A : A = Ascending(L)
    OBVIOUS
  <1>6. n > 0
    BY <1>2, <1>4, FS_EmptySet
  <1>7. DOMAIN A = 1 .. n /\ Len(A) = n /\ \A i \in 1 .. n : A[i] \in L
    BY <1>2, <1>4, <1>5, AscendingSorts
  <1>8. PICK mid : mid = [i \in 1 .. n |-> CheckpointAt(ws, A[i])]
    OBVIOUS
  <1>9. PICK pre : pre = OneOfTag(ws, "Spawn")
    OBVIOUS
  <1>10. PICK last : last = FirstOf(ws, OfTag(ws, "Goal"))
    OBVIOUS
  <1>11. OfTag(ws, "Goal") # {}
    BY DEF IsLinkedCp
  <1>12. DetectAndOrderAnchors(ws) = (pre \o mid) \o <<last>>
    <2>1. L \cup OrdersOf(ws, "Checkpoint") = L
      BY <1>3
    <2>2. OneOfTag(ws, "Goal") = <<last>>
      BY <1>10, <1>11 DEF OneOfTag
    <2> QED
      BY <1>1, <1>5, <1>7, <1>8, <1>9, <2>1, <2>2 DEF DetectAndOrderAnchors
  <1>13. PICK first : first = FirstOf(ws, OfTag(ws, "Spawn"))
    OBVIOUS
  <1>14. PICK U : U = {first, last} \cup {mid[i] : i \in 1 .. n}
    OBVIOUS
  <1>15. mid \in Seq(U) /\ Len(mid) = n
    <2>1. mid \in [1 .. n -> U]
      BY <1>8, <1>14
    <2> QED
      BY <2>1
  <1>16. PICK f \in 0 .. 1 : /\ f = Len(pre) /\ pre \in Seq(U)
                             /\ f = 1 => pre[1].tag = "Spawn"
    <2>1. CASE OfTag(ws, "Spawn") = {}
      <3>1. pre = << >>
        BY <1>9, <2>1 DEF OneOfTag
      <3>2. Len(pre) = 0 /\ pre \in Seq(U)
        BY <3>1
      <3> QED
        BY <3>2
    <2>2. CASE OfTag(ws, "Spawn") # {}
      <3>1. pre = <<first>>
        BY <1>9, <1>13, <2>2 DEF OneOfTag
      <3>2. first.tag = "Spawn"
        BY <1>13, <2>2, TagOfFirst
      <3>3. Len(pre) = 1 /\ pre[1] = first /\ first \in U
        BY <1>14, <3>1
      <3>4. pre \in Seq(U)
        BY <3>1, <3>3
      <3> QED
        BY <3>2, <3>3, <3>4
    <2> QED
      BY <2>1, <2>2
  <1>17. PICK head : head = pre \o mid
    OBVIOUS
  <1>18. /\ head \in Seq(U) /\ Len(head) = f + n
         /\ \A i \in 1 .. f : head[i] = pre[i]
         /\ \A i \in 1 .. n : head[f + i] = mid[i]
    <2>1. f \in Nat /\ pre \in Seq(U) /\ f = Len(pre) /\ mid \in Seq(U) /\ n = Len(mid)
      BY <1>15, <1>16
    <2>2. head \in Seq(U) /\ IsJoined(head, pre, f, mid, n)
      BY <1>17, <2>1, RowsJoin
    <2> QED
      BY <2>2 DEF IsJoined
  <1>19. PICK anchors : anchors = head \o <<last>>
    OBVIOUS
  <1>20. PICK k \in Nat : k = f + n
    OBVIOUS
  <1>21. /\ Len(anchors) = k + 1
         /\ \A i \in 1 .. k : anchors[i] = head[i]
         /\ anchors[k + 1] = last
    <2>1. PICK t : t = <<last>>
      OBVIOUS
    <2>2. t \in Seq(U) /\ 1 = Len(t) /\ t[1] = last
      BY <1>14, <2>1
    <2>3. anchors = head \o t
      BY <1>19, <2>1
    <2>4. 1 \in Nat /\ 1 \in 1 .. 1 /\ k = Len(head) /\ head \in Seq(U)
      BY <1>18, <1>20
    <2>5. IsJoined(anchors, head, k, t, 1)
      BY <2>2, <2>3, <2>4, RowsJoin
    <2> QED
      BY <2>2, <2>4, <2>5 DEF IsJoined
  <1>22. last.tag = "Goal"
    BY <1>10, <1>11, TagOfFirst
  <1>23. ASSUME NEW i \in 1 .. n PROVE mid[i].tag = "LinkedCheckpoint" /\ mid[i].order = A[i]
    <2>1. PICK S : S = {j \in OfTag(ws, "LinkedCheckpoint") : ws[j].order = A[i]}
      OBVIOUS
    <2>2. A[i] \in L
      BY <1>7
    <2>3. S # {} /\ S \subseteq DOMAIN ws
      BY <1>1, <2>1, <2>2 DEF OrdersOf, OfTag
    <2>4. mid[i] = FirstOf(ws, S)
      BY <1>8, <2>1, <2>3 DEF CheckpointAt
    <2>5. PICK j \in S : FirstOf(ws, S) = ws[j]
      BY <2>3, FirstIs
    <2> QED
      BY <2>1, <2>4, <2>5 DEF OfTag
  <1>24. DetectAndOrderAnchors(ws) = anchors
    BY <1>12, <1>17, <1>19
  <1>25. f = 1 => anchors[1].tag = "Spawn"
    <2> SUFFICES ASSUME f = 1 PROVE anchors[1].tag = "Spawn"
      OBVIOUS
    <2>1. 1 \in 1 .. f /\ 1 \in 1 .. k
      BY <1>20
    <2>2. anchors[1] = pre[1]
      BY <1>18, <1>21, <2>1
    <2> QED
      BY <1>16, <2>2
  <1>26. ASSUME NEW i \in 1 .. n
         PROVE  anchors[f + i].tag = "LinkedCheckpoint" /\ anchors[f + i].order = A[i]
    <2>1. f + i \in 1 .. k
      BY <1>20
    <2>2. anchors[f + i] = mid[i]
      BY <1>18, <1>21, <2>1
    <2> QED
      BY <1>23, <2>2
  <1>27. Len(anchors) = f + n + 1 /\ anchors[f + n + 1].tag = "Goal"
    BY <1>20, <1>21, <1>22
  <1>28. LapAnchors(ws, anchors)
    <2>1. A = Ascending(OrdersOf(ws, "LinkedCheckpoint")) /\ f = Len(OneOfTag(ws, "Spawn"))
      BY <1>1, <1>5, <1>9, <1>16
    <2>2. n = Len(A) /\ n \in Nat /\ n > 0 /\ f \in 0 .. 1 /\ DOMAIN A = 1 .. n
      BY <1>6, <1>7
    <2> QED
      BY <1>25, <1>26, <1>27, <2>1, <2>2 DEF LapAnchors
  <1> QED
    BY <1>24, <1>28

-----------------------------------------------------------------------------
(* The route that is picked, and the artifact made of it. *)

\* What a route that was assembled is made of.
Assembled(b, route) ==
    LET anchors == DetectAndOrderAnchors(b.waypoints)
        n == Len(anchors) - 1
    IN  /\ b.corridors # << >> /\ IsLinkedCp(b.waypoints)
        /\ ~(n < 1) /\ route.anchors = anchors
        /\ route.chosen = [i \in 1 .. n |-> route.chosen[i]]
        /\ \A i \in 1 .. n :
              /\ \E j \in Pool(b, anchors[i], anchors[i + 1]) : route.chosen[i] = b.corridors[j]
              /\ Cardinality(Best(b, route.chosen[i])) < TopK

Digests(b, seed) ==
    \A i \in 1 .. Len(DetectAndOrderAnchors(b.waypoints)) - 1 : seed[i] \in Nat

LEMMA RouteIs ==
    ASSUME NEW b, BaseReads(b), NEW seed, Digests(b, seed), NEW v \in BOOLEAN,
           NEW route, route = AssembleRoute(b, seed, v), route.ok
    PROVE  Assembled(b, route)
  <1>1. PICK anchors : anchors = DetectAndOrderAnchors(b.waypoints)
    OBVIOUS
  <1>2. PICK n : n = Len(anchors) - 1
    OBVIOUS
  <1>3. PICK chosen : chosen = [i \in 1 .. n |->
                                   PickCorridor(b, i, anchors[i], anchors[i + 1], seed, v)]
    OBVIOUS
  <1>4. route = RouteOver(b, anchors, chosen)
    BY <1>1, <1>2, <1>3 DEF AssembleRoute, PickAlong
  <1>5. \A r : ~Failed(r).ok
    BY DEF Failed
  <1>6. /\ ~(n < 1) /\ IsLinkedCp(b.waypoints) /\ b.corridors # << >>
        /\ \A i \in 1 .. n : ~MissingAt(b, anchors, i)
        /\ route = [ok |-> TRUE, chosen |-> chosen, anchors |-> anchors]
    BY <1>2, <1>4, <1>5 DEF RouteOver
  <1>7. /\ route.anchors = anchors /\ route.chosen = chosen
        /\ route.chosen = [i \in 1 .. n |-> route.chosen[i]]
    BY <1>3, <1>6
  <1>8. ASSUME NEW i \in 1 .. n
        PROVE  /\ \E j \in Pool(b, anchors[i], anchors[i + 1]) : chosen[i] = b.corridors[j]
               /\ Cardinality(Best(b, chosen[i])) < TopK
    <2>1. PICK src : src = anchors[i]
      OBVIOUS
    <2>2. PICK dst : dst = anchors[i + 1]
      OBVIOUS
    <2>3. \E j \in Pool(b, src, dst) : b.corridors[j].learned # Unscored
      BY <1>6, <2>1, <2>2 DEF MissingAt
    <2>4. chosen[i] = PickCorridor(b, i, src, dst, seed, v)
      BY <1>3, <2>1, <2>2
    <2>5. seed[i] \in Nat
      BY <1>1, <1>2 DEF Digests
    <2>6. PICK c : c = PickCorridor(b, i, src, dst, seed, v)
      OBVIOUS
    <2>7. PicksTop(b, src, dst, c)
      BY <2>3, <2>5, <2>6, PickedIsTop
    <2> QED
      BY <2>1, <2>2, <2>4, <2>6, <2>7 DEF PicksTop
  <1> QED
    BY <1>1, <1>2, <1>6, <1>7, <1>8 DEF Assembled

\* The artifact of a route that was not assembled is not verified and has no corridors.
ArtifactFits(a, b, route, strip) ==
    a.state = "written" =>
        /\ a.base = b /\ a.strip = strip
        /\ a.chosen = (IF route.ok THEN route.chosen ELSE << >>)
        /\ a.blocks = (IF strip /\ route.ok THEN Stripped(b, route).blocks ELSE b.blocks)
        /\ a.verified => route.ok

LEMMA ArtifactIs ==
    ASSUME NEW b, NEW route, NEW seed, NEW strip \in BOOLEAN, NEW a,
           a = GenerateRoute(b, route, seed, strip)
    PROVE  ArtifactFits(a, b, route, strip)
  <1>1. PICK cut : cut = Stripped(b, route)
    OBVIOUS
  <1>2. PICK gate : gate = IF strip /\ route.ok /\ ~cut.intact
                           THEN [verified |-> FALSE, reason |-> "stripped_route_broken"]
                           ELSE RunFinishabilityGate(route)
    OBVIOUS
  <1>3. PICK blocks : blocks = IF strip /\ route.ok THEN cut.blocks ELSE b.blocks
    OBVIOUS
  <1>4. PICK made : made = BuildArtifact(b, route, gate, blocks, seed, strip)
    OBVIOUS
  <1>5. a = EmitArtifact(made)
    BY <1>1, <1>2, <1>3, <1>4 DEF GenerateRoute, ArtifactOf
  <1>6. gate.verified => route.ok
    BY <1>2 DEF RunFinishabilityGate
  <1>7. /\ made.base = b /\ made.strip = strip /\ made.blocks = blocks
        /\ made.chosen = (IF route.ok THEN route.chosen ELSE << >>)
        /\ made.verified = gate.verified
    BY <1>4 DEF BuildArtifact
  <1>8. a.state = "written" => a = made
    BY <1>5 DEF EmitArtifact
  <1> QED
    BY <1>1, <1>3, <1>6, <1>7, <1>8 DEF ArtifactFits

\* Each of its corridors is among the best by learned score.
LearnedFirst(a) ==
    a.state = "written" => \A i \in DOMAIN a.chosen : Cardinality(Best(a.base, a.chosen[i])) < TopK

LEMMA ChosenAreBest ==
    ASSUME NEW a, NEW b, NEW route, NEW strip, ArtifactFits(a, b, route, strip),
           route.ok => Assembled(b, route)
    PROVE  LearnedFirst(a)
  <1> SUFFICES ASSUME a.state = "written", NEW i \in DOMAIN a.chosen
               PROVE  Cardinality(Best(a.base, a.chosen[i])) < TopK
    BY DEF LearnedFirst
  <1>1. a.base = b /\ a.chosen = IF route.ok THEN route.chosen ELSE << >>
    BY DEF ArtifactFits
  <1>2. route.ok
    BY <1>1
  <1> QED
    BY <1>1, <1>2 DEF Assembled

\* A verified artifact leads over every linked checkpoint, in order.
Lap(c, ws) ==
    LET orders == Ascending(OrdersOf(ws, "LinkedCheckpoint"))
        before == Len(OneOfTag(ws, "Spawn"))
    IN  /\ c # << >> /\ Len(c) = before + Len(orders) /\ Last(c).dst[1] = "Goal"
        /\ before = 1 => c[1].src[1] = "Spawn"
        /\ \A i \in DOMAIN orders : c[before + i].src = <<"LinkedCheckpoint", orders[i]>>
        /\ \A i \in 1 .. Len(c) - 1 : c[i].dst = c[i + 1].src

LEMMA RouteIsLap ==
    ASSUME NEW b, BaseReads(b), NEW route, Assembled(b, route)
    PROVE  Lap(route.chosen, b.waypoints)
  <1>1. PICK ws : ws = b.waypoints
    OBVIOUS
  <1>2. WaypointReads(ws) /\ IsLinkedCp(ws)
    BY <1>1 DEF BaseReads, WaypointReads, Assembled
  <1>3. PICK anchors : anchors = DetectAndOrderAnchors(ws)
    OBVIOUS
  <1>4. LapAnchors(ws, anchors)
    BY <1>2, <1>3, AnchorsAre
  <1>5. PICK A : A = Ascending(OrdersOf(ws, "LinkedCheckpoint"))
    OBVIOUS
  <1>6. PICK f : f = Len(OneOfTag(ws, "Spawn"))
    OBVIOUS
  <1>7. PICK n : n = Len(A)
    OBVIOUS
  <1>8. /\ n \in Nat /\ n > 0 /\ f \in 0 .. 1 /\ Len(anchors) = f + n + 1 /\ DOMAIN A = 1 .. n
        /\ f = 1 => anchors[1].tag = "Spawn"
        /\ anchors[f + n + 1].tag = "Goal"
    BY <1>4, <1>5, <1>6, <1>7 DEF LapAnchors
  <1>9. \A i \in 1 .. n : /\ anchors[f + i].tag = "LinkedCheckpoint"
                          /\ anchors[f + i].order = A[i]
    BY <1>4, <1>5, <1>6, <1>7 DEF LapAnchors
  <1>10. PICK k \in Nat : k = f + n
    BY <1>8
  <1>11. k > 0 /\ Len(anchors) - 1 = k /\ anchors[k + 1].tag = "Goal"
    BY <1>8, <1>10
  <1>12. PICK c : c = route.chosen
    OBVIOUS
  <1>13. /\ c = [i \in 1 .. k |-> c[i]]
         /\ \A i \in 1 .. k : \E j \in Pool(b, anchors[i], anchors[i + 1]) : c[i] = b.corridors[j]
    BY <1>1, <1>3, <1>11, <1>12 DEF Assembled
  <1>14. \A i \in 1 .. k : c[i].src = Key(anchors[i]) /\ c[i].dst = Key(anchors[i + 1])
    BY <1>13 DEF Pool
  <1>15. \A w : Key(w) = <<w.tag, w.order>> /\ Key(w)[1] = w.tag
    BY DEF Key
  <1>16. Len(c) = k /\ DOMAIN c = 1 .. k /\ c # << >>
    <2>1. Len(c) = k /\ DOMAIN c = 1 .. k
      BY <1>13
    <2> QED
      BY <1>11, <2>1
  <1>17. f = 1 => c[1].src[1] = "Spawn"
    <2>1. 1 \in 1 .. k
      BY <1>11
    <2> QED
      BY <1>8, <1>14, <1>15, <2>1
  <1>18. Last(c).dst[1] = "Goal"
    <2>1. k \in 1 .. k
      BY <1>11
    <2> QED
      BY <1>11, <1>14, <1>15, <1>16, <2>1 DEF Last
  <1>19. ASSUME NEW i \in 1 .. n PROVE c[f + i].src = <<"LinkedCheckpoint", A[i]>>
    <2>1. f + i \in 1 .. k
      BY <1>8, <1>10
    <2>2. c[f + i].src = Key(anchors[f + i])
      BY <1>14, <2>1
    <2> QED
      BY <1>9, <1>15, <2>2
  <1>20. ASSUME NEW i \in 1 .. k - 1 PROVE c[i].dst = c[i + 1].src
    <2>1. i \in 1 .. k /\ i + 1 \in 1 .. k
      OBVIOUS
    <2> QED
      BY <1>14, <2>1
  <1> QED
    BY <1>1, <1>5, <1>6, <1>7, <1>8, <1>10, <1>12, <1>16, <1>17, <1>18, <1>19, <1>20 DEF Lap

\* Stripping leaves what the validators say of the route.
StripLeaves(full, cut, cells, touched) ==
    /\ OnRoute(ValidateMapGeometry(full, Geometry, cells, {}))
           = OnRoute(ValidateMapGeometry(cut, Geometry, cells, {}))
    /\ Accepted(ValidateJumps(full, Geometry, cells, touched))
           = Accepted(ValidateJumps(cut, Geometry, cells, touched))

LEMMA CellsAre ==
    ASSUME NEW b, BaseReads(b), NEW route, Assembled(b, route)
    PROVE  RouteCells(route) \in Seq(Cells)
  <1>1. PICK ws : ws = b.waypoints
    OBVIOUS
  <1>2. WaypointReads(ws) /\ IsLinkedCp(ws)
    BY <1>1 DEF BaseReads, WaypointReads, Assembled
  <1>3. PICK n : n = Len(DetectAndOrderAnchors(ws)) - 1
    OBVIOUS
  <1>4. n \in Nat
    <2>1. LapAnchors(ws, DetectAndOrderAnchors(ws))
      BY <1>2, AnchorsAre
    <2>2. PICK f \in Nat, m \in Nat : Len(DetectAndOrderAnchors(ws)) = f + m + 1
      BY <2>1 DEF LapAnchors
    <2> QED
      BY <1>3, <2>2
  <1>5. PICK c : c = route.chosen
    OBVIOUS
  <1>6. c = [i \in 1 .. n |-> c[i]] /\ \A i \in 1 .. n : \E j \in DOMAIN b.corridors : c[i] = b.corridors[j]
    BY <1>1, <1>3, <1>5 DEF Assembled, Pool
  <1>7. ASSUME NEW i \in 1 .. n PROVE c[i].path \in Seq(Cells)
    <2>1. PICK j \in DOMAIN b.corridors : c[i] = b.corridors[j]
      BY <1>6
    <2>2. CorridorReads(b.corridors[j])
      BY DEF BaseReads
    <2> QED
      BY <2>1, <2>2 DEF CorridorReads
  <1>8. PICK paths : paths = [i \in DOMAIN c |-> c[i].path]
    OBVIOUS
  <1>9. paths \in Seq(Seq(Cells))
    <2>1. paths \in [1 .. n -> Seq(Cells)]
      BY <1>6, <1>7, <1>8
    <2> QED
      BY <1>4, <2>1
  <1>10. RouteCells(route) = Joined(paths)
    BY <1>5, <1>8 DEF RouteCells
  <1> QED
    BY <1>9, <1>10, JoinedMembers

LEMMA StripIsSound ==
    ASSUME NEW b, BaseReads(b), NEW route, Assembled(b, route)
    PROVE  StripLeaves(b.blocks, Stripped(b, route).blocks, RouteCells(route), TouchedCells(b))
  <1>1. PICK cells \in Seq(Cells) : cells = RouteCells(route)
    BY CellsAre
  <1>2. PICK full \in Seq(Placements) : full = b.blocks
    BY DEF BaseReads
  <1>3. PICK near : near = {w.cell : w \in {v \in ToSet(route.anchors) : ~v.free}}
    OBVIOUS
  <1>4. PICK kept : kept = ComputeKeptCells(ToSet(cells), near, AnchorCells(b), StripPolicy)
    OBVIOUS
  <1>5. PICK cut : cut = FilterBlocksByCells(full, kept)
    OBVIOUS
  <1>6. Stripped(b, route).blocks = cut
    <2>1. StripPolicy # "none"
      BY DEF StripPolicy
    <2> QED
      BY <1>1, <1>2, <1>3, <1>4, <1>5, <2>1 DEF Stripped, StripRoute
  <1>7. /\ \A c \in kept : Occupied(cut, c) <=> Occupied(full, c)
        /\ \A c \in kept : Occupied(full, c) => SeenAt(cut, c) = SeenAt(full, c)
        /\ \A n \in DOMAIN cut : cut[n].cell \in kept
    BY <1>5, CutKeeps
  <1>8. SameSight(full, cut, kept)
    BY <1>7 DEF SameSight
  <1>9. PICK path : path = ToSet(cells)
    OBVIOUS
  <1>10. path \subseteq Cells /\ \A j \in DOMAIN cells : cells[j] \in path
    BY <1>9 DEF ToSet
  <1>11. /\ path \subseteq kept
         /\ \A c \in path : Shift(c, 0, -1, 0) \in kept
         /\ \A c \in path : \A d \in Cells : Chebyshev(c, d) <= 1 => d \in kept
    <2>1. HoldsAround(path, kept)
      BY <1>4, <1>9, <1>10, KeptAround
    <2> QED
      BY <2>1 DEF HoldsAround
  <1>12. \A j \in DOMAIN cells : cells[j] \in kept /\ Shift(cells[j], 0, -1, 0) \in kept
    BY <1>10, <1>11
  <1>13. \A j \in DOMAIN cells : \A d \in Cells : Chebyshev(cells[j], d) <= 1 => d \in kept
    BY <1>10, <1>11
  <1>14. OnRoute(ValidateMapGeometry(cut, Geometry, cells, {}))
             = OnRoute(ValidateMapGeometry(full, Geometry, cells, {}))
    BY <1>8, <1>12, FindingsSame
  <1>15. PICK touched : touched = TouchedCells(b)
    OBVIOUS
  <1>16. Accepted(ValidateJumps(cut, Geometry, cells, touched))
             = Accepted(ValidateJumps(full, Geometry, cells, touched))
    <2>1. \A n \in DOMAIN full : full[n].cell \in Cells
      <3>1. \A n \in DOMAIN full : full[n] \in Placements
        OBVIOUS
      <3> QED
        BY <3>1 DEF Placements
    <2>2. \A j \in DOMAIN cells : cells[j] \in kept
      BY <1>12
    <2> QED
      BY <1>7, <1>8, <1>13, <2>1, <2>2, JumpsSame
  <1> QED
    BY <1>1, <1>2, <1>6, <1>14, <1>15, <1>16 DEF StripLeaves

-----------------------------------------------------------------------------
(* A run reads what a base map holds. *)

BaseStands(b) == BaseReads(b) /\ \E c \in Bases : c.waypoints = b.waypoints
Generated ==
    /\ baseMap = NoBase \/ BaseStands(baseMap)
    /\ LearnedDecides /\ VerifiedRunsThrough

\* The two properties say this of the artifact.
ArtifactSound(a) ==
    /\ LearnedFirst(a)
    /\ a.state = "written" /\ a.verified => Lap(a.chosen, a.base.waypoints)
    /\ a.state = "written" /\ a.strip /\ a.verified =>
           StripLeaves(a.base.blocks, a.blocks, RouteCells([chosen |-> a.chosen]),
                       TouchedCells(a.base))

LEMMA SoundIs == ArtifactSound(artifact) <=> LearnedDecides /\ VerifiedRunsThrough
  <1>1. LearnedFirst(artifact) <=> LearnedDecides
    BY DEF LearnedFirst, LearnedDecides, Best, Written
  <1>2. (Written /\ artifact.verified => Lap(artifact.chosen, artifact.base.waypoints))
            <=> VerifiedIsWholeLap
    BY DEF VerifiedIsWholeLap, Lap
  <1>3. (Written /\ artifact.strip /\ artifact.verified =>
            StripLeaves(artifact.base.blocks, artifact.blocks,
                        RouteCells([chosen |-> artifact.chosen]), TouchedCells(artifact.base)))
            <=> StripKeepsTheRoute
    BY DEF StripKeepsTheRoute, StripLeaves
  <1> QED
    BY <1>1, <1>2, <1>3 DEF ArtifactSound, VerifiedRunsThrough, Written

LEMMA MadeSound ==
    ASSUME NEW b, BaseReads(b), NEW route, route.ok => Assembled(b, route),
           NEW strip \in BOOLEAN, NEW a, ArtifactFits(a, b, route, strip)
    PROVE  ArtifactSound(a)
  <1>1. LearnedFirst(a)
    BY ChosenAreBest
  <1>2. ASSUME a.state = "written", a.verified
        PROVE  /\ a.base = b /\ a.strip = strip /\ a.chosen = route.chosen /\ route.ok
               /\ a.blocks = (IF strip THEN Stripped(b, route).blocks ELSE b.blocks)
               /\ Assembled(b, route)
    BY <1>2 DEF ArtifactFits
  <1>3. ASSUME a.state = "written", a.verified PROVE Lap(a.chosen, a.base.waypoints)
    BY <1>2, <1>3, RouteIsLap
  <1>4. RouteCells([chosen |-> route.chosen]) = RouteCells(route)
    BY DEF RouteCells
  <1>5. ASSUME a.state = "written", a.strip, a.verified
        PROVE  StripLeaves(a.base.blocks, a.blocks, RouteCells([chosen |-> a.chosen]),
                           TouchedCells(a.base))
    <2>1. StripLeaves(b.blocks, Stripped(b, route).blocks, RouteCells(route), TouchedCells(b))
      BY <1>2, <1>5, StripIsSound
    <2> QED
      BY <1>2, <1>4, <1>5, <2>1
  <1> QED
    BY <1>1, <1>3, <1>5 DEF ArtifactSound

LEMMA Generating ==
    ASSUME Generated, GenerateFromBase
    PROVE  Generated'
  <1>1. PICK seed \in Seeds, strip \in BOOLEAN :
            artifact' = GenerateRoute(baseMap, AssembleRoute(baseMap, seed, Geometry # << >>),
                                      seed, strip)
    BY DEF GenerateFromBase
  <1>2. PICK b : b = baseMap
    OBVIOUS
  <1>3. BaseStands(b)
    BY <1>2 DEF Generated, GenerateFromBase
  <1>4. Digests(b, seed)
    BY <1>3, SeedsAssumption DEF BaseStands, Digests
  <1>5. PICK v \in BOOLEAN : v <=> Geometry # << >>
    OBVIOUS
  <1>6. v = (Geometry # << >>)
    BY <1>5
  <1>7. PICK route : route = AssembleRoute(b, seed, v)
    OBVIOUS
  <1>8. route.ok => Assembled(b, route)
    BY <1>3, <1>4, <1>7, RouteIs DEF BaseStands
  <1>9. PICK a : a = artifact'
    OBVIOUS
  <1>10. a = GenerateRoute(b, route, seed, strip)
    BY <1>1, <1>2, <1>6, <1>7, <1>9
  <1>11. ArtifactFits(a, b, route, strip)
    BY <1>10, ArtifactIs
  <1>12. ArtifactSound(a)
    BY <1>3, <1>8, <1>11, MadeSound DEF BaseStands
  <1>13. ArtifactSound(artifact)'
    BY <1>9, <1>12
  <1>14. (LearnedDecides /\ VerifiedRunsThrough)'
    BY <1>13, SoundIs, PTL
  <1> QED
    BY <1>14 DEF Generated, GenerateFromBase

Rescored(b, s) ==
    [b EXCEPT !.corridors = [i \in DOMAIN @ |-> [@[i] EXCEPT !.learned = s[i]]]]

LEMMA Scoring ==
    ASSUME NEW b, BaseStands(b), NEW s \in [DOMAIN b.corridors -> LearnedScores],
           NEW d, d = Rescored(b, s)
    PROVE  BaseStands(d)
  <1>1. PICK cs : cs = b.corridors
    OBVIOUS
  <1>2. PICK blocks : blocks = b.blocks
    OBVIOUS
  <1>3. PICK ws : ws = b.waypoints
    OBVIOUS
  <1>4. BaseReads(b)
    BY DEF BaseStands
  <1>5. b = [blocks |-> blocks, waypoints |-> ws, corridors |-> cs]
    BY <1>1, <1>2, <1>3, <1>4 DEF BaseReads
  <1>6. PICK new : new = [i \in DOMAIN cs |-> [cs[i] EXCEPT !.learned = s[i]]]
    OBVIOUS
  <1>7. d = [blocks |-> blocks, waypoints |-> ws, corridors |-> new]
    BY <1>5, <1>6 DEF Rescored
  <1>8. /\ d.blocks = blocks /\ d.waypoints = ws /\ d.corridors = new
    BY <1>7
  <1>9. PICK n \in Nat : n = Len(cs) /\ DOMAIN cs = 1 .. n
    BY <1>1, <1>4 DEF BaseReads
  <1>10. new = [i \in 1 .. n |-> new[i]] /\ DOMAIN new = 1 .. n /\ Len(new) = n
    BY <1>6, <1>9
  <1>11. ASSUME NEW i \in 1 .. n PROVE CorridorReads(new[i]) /\ new[i].id = cs[i].id
    <2>1. PICK c : c = cs[i]
      OBVIOUS
    <2>2. CorridorReads(c)
      BY <1>1, <1>4, <1>9, <2>1 DEF BaseReads
    <2>3. PICK l \in Int : l = s[i]
      <3>1. s[i] \in LearnedScores
        BY <1>1, <1>9
      <3> QED
        BY <3>1, GenerationAssumption
    <2>4. new[i] = [c EXCEPT !.learned = l]
      BY <1>6, <1>9, <2>1, <2>3
    <2>5. c = [id |-> c.id, src |-> c.src, dst |-> c.dst, path |-> c.path,
               learned |-> c.learned, seq |-> c.seq, conf |-> c.conf]
      BY <2>2 DEF CorridorReads
    <2>6. new[i] = [id |-> c.id, src |-> c.src, dst |-> c.dst, path |-> c.path,
                    learned |-> l, seq |-> c.seq, conf |-> c.conf]
      BY <2>4, <2>5
    <2>7. c.id \in Int /\ c.seq \in Int /\ c.path \in Seq(Cells)
      BY <2>2 DEF CorridorReads
    <2>8. CorridorReads(new[i])
      BY <2>6, <2>7 DEF CorridorReads
    <2> QED
      BY <2>1, <2>6, <2>8
  <1>12. ASSUME NEW i \in 1 .. n, NEW j \in 1 .. n, new[i].id = new[j].id PROVE i = j
    BY <1>1, <1>4, <1>9, <1>11, <1>12 DEF BaseReads
  <1>13. /\ blocks \in Seq(Placements) /\ Len(ws) \in Nat /\ DOMAIN ws = 1 .. Len(ws)
         /\ \A i \in DOMAIN ws : ws[i].order \in Int
    BY <1>2, <1>3, <1>4 DEF BaseReads
  <1>14. BaseReads(d)
    BY <1>7, <1>8, <1>9, <1>10, <1>11, <1>12, <1>13 DEF BaseReads
  <1>15. \E c \in Bases : c.waypoints = d.waypoints
    BY <1>3, <1>8 DEF BaseStands
  <1> QED
    BY <1>14, <1>15 DEF BaseStands

LEMMA AlwaysGenerated ==
    GenerationInit /\ [][GenerationNext]_generationVars => []Generated
  <1>1. GenerationInit => Generated
    <2> SUFFICES ASSUME GenerationInit PROVE Generated
      OBVIOUS
    <2>1. baseMap = NoBase /\ artifact.state = "none"
      BY DEF GenerationInit, NoArtifact
    <2>2. ArtifactSound(artifact)
      BY <2>1 DEF ArtifactSound, LearnedFirst
    <2> QED
      BY <2>1, <2>2, SoundIs DEF Generated
  <1>2. ASSUME Generated, [GenerationNext]_generationVars PROVE Generated'
    <2>1. CASE ChooseBase
      <3>1. BaseStands(baseMap')
        BY <2>1, GenerationAssumption DEF ChooseBase, BaseStands
      <3>2. artifact' = artifact
        BY <2>1 DEF ChooseBase
      <3> QED
        BY <1>2, <3>1, <3>2
           DEF Generated, LearnedDecides, VerifiedRunsThrough, VerifiedIsWholeLap,
               StripKeepsTheRoute, Written
    <2>2. CASE ScoreMapLearned
      <3>1. PICK b : b = baseMap
        OBVIOUS
      <3>2. BaseStands(b)
        BY <1>2, <2>2, <3>1 DEF Generated, ScoreMapLearned
      <3>3. PICK s \in [DOMAIN baseMap.corridors -> LearnedScores] :
                baseMap' = Rescored(baseMap, s)
        BY <2>2 DEF ScoreMapLearned, Rescored
      <3>4. PICK d : d = baseMap'
        OBVIOUS
      <3>5. BaseStands(d)
        BY <3>1, <3>2, <3>3, <3>4, Scoring
      <3>6. artifact' = artifact
        BY <2>2 DEF ScoreMapLearned
      <3> QED
        BY <1>2, <3>4, <3>5, <3>6
           DEF Generated, LearnedDecides, VerifiedRunsThrough, VerifiedIsWholeLap,
               StripKeepsTheRoute, Written
    <2>3. CASE GenerateFromBase
      BY <1>2, <2>3, Generating
    <2>4. CASE ValidateArtifactFile
      BY <1>2, <2>4
         DEF ValidateArtifactFile, Generated, LearnedDecides, VerifiedRunsThrough,
             VerifiedIsWholeLap, StripKeepsTheRoute, Written
    <2>5. CASE UNCHANGED generationVars
      BY <1>2, <2>5
         DEF generationVars, Generated, LearnedDecides, VerifiedRunsThrough,
             VerifiedIsWholeLap, StripKeepsTheRoute, Written
    <2> QED
      BY <1>2, <2>1, <2>2, <2>3, <2>4, <2>5 DEF GenerationNext
  <1> QED
    BY <1>1, <1>2, PTL

\* A verified artifact leads from Spawn (if the map has one) over every linked checkpoint
\* in order to Goal, and stripping it took nothing from under the route (assemble_route,
\* run_finishability_gate, strip_route), whatever the base maps, the scores between
\* the runs and the seeds.
THEOREM VerifiedCanBeDriven ==
    GenerationInit /\ [][GenerationNext]_generationVars => []VerifiedRunsThrough
  <1>1. Generated => VerifiedRunsThrough
    BY DEF Generated
  <1> QED
    BY <1>1, AlwaysGenerated, PTL

\* The corridor of an interval is among the TopK best by learned score, whatever the
\* validators say of it (_pick_within_top_k, _tie_break_key_with_validation).
THEOREM LearnedScoreDecides ==
    GenerationInit /\ [][GenerationNext]_generationVars => []LearnedDecides
  <1>1. Generated => LearnedDecides
    BY DEF Generated
  <1> QED
    BY <1>1, AlwaysGenerated, PTL
=============================================================================
