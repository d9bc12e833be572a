---------------------------- MODULE ConstraintGraph ----------------------------
(***************************************************************************)
(* build-graph (src/constraints): adjacencies are extracted from a map's   *)
(* grid blocks and merged into Neo4j edges that count the maps showing     *)
(* them.  A ProcessedMap node claims a map, in a transaction of its own,   *)
(* before the edges are merged in another.  Several builders may run.      *)
(*                                                                         *)
(* A block placement is a record [cell, key, free]; cells are numbers on a *)
(* line, which keeps what matters of axis adjacency: a cell has neighbours *)
(* on both sides and a pair is found from each of its ends.                *)
(***************************************************************************)
EXTENDS Integers, Sequences, FiniteSets

CONSTANTS GraphMaps,    \* maps with parse_status success
          Layouts,      \* placement sequences a parse can leave
          Builders,     \* concurrent build-graph processes
          StrongMaps,   \* benchmark_strong_map_ids
          BrokenMaps,   \* broken_fixture_map_ids
          MaxReparses,  \* bound on reparses with a newer parser
          MaxBreaks     \* bound on builder crashes and failed merges

\* A block of a layout.
Placement == [cell : Int, key : Int, free : BOOLEAN]

ASSUME GraphAssumption ==
    /\ Layouts \subseteq Seq(Placement)
    /\ StrongMaps \subseteq GraphMaps /\ BrokenMaps \subseteq GraphMaps
    /\ MaxReparses \in Nat /\ MaxBreaks \in Nat

VARIABLES parsed,    \* map |-> [version, layout]
          ledger,    \* ProcessedMap nodes: [map, version]
          edges,     \* pair |-> counts and label, for the pairs merged so far
          builder,   \* builder |-> where it is in _process_one
          broken,    \* crashes and failures so far
          mergedFrom \* history: [map, version, pair] merged into the edges

graphVars == <<parsed, ledger, edges, builder, broken, mergedFrom>>

-----------------------------------------------------------------------------
(* Extraction.                                                             *)

\* The first block of a cell wins; free blocks have no cell.
OnGrid(layout) == {i \in DOMAIN layout : ~layout[i].free}
FirstAt(layout) ==
    {i \in OnGrid(layout) :
        \A j \in OnGrid(layout) : layout[j].cell = layout[i].cell => i <= j}

\* order_pair: an undirected pair is stored once, the lesser key first.
OrderPair(a, b) == IF a <= b THEN <<a, b>> ELSE <<b, a>>

ExtractAdjacencies(layout) ==
    LET won == FirstAt(layout)
    IN  {OrderPair(layout[p[1]].key, layout[p[2]].key) :
            p \in {q \in won \X won :
                      layout[q[1]].cell - layout[q[2]].cell \in {1, -1}}}

DeriveValidityLabel(e) ==
    CASE e.strong >= 1 -> "valid"
      [] e.strong = 0 /\ e.brokenIn > 0 /\ e.replays = 0 -> "suspicious"
      [] OTHER -> "unknown"

-----------------------------------------------------------------------------
(* The builders.                                                           *)

Resting == [at |-> "idle"]

\* _fetch_candidate_maps and _fetch_placements: the version and the
\* placements are read before the claim.  A map without grid blocks is left.
FetchMap(w, m) ==
    /\ builder[w] = Resting
    /\ OnGrid(parsed[m].layout) # {}
    /\ builder' = [builder EXCEPT ![w] =
           [at |-> "fetched", map |-> m, version |-> parsed[m].version,
            layout |-> parsed[m].layout]]
    /\ UNCHANGED <<parsed, ledger, edges, broken, mergedFrom>>

\* MERGE (p:ProcessedMap ...) RETURN p.created: one transaction, committed.
Entry(b) == [map |-> b.map, version |-> b.version]

\* Mutant: the builder merges without having won the claim.
ClaimMapAlways(w) ==
    /\ builder[w].at = "fetched"
    /\ ledger' = ledger \cup {Entry(builder[w])}
    /\ builder' = [builder EXCEPT ![w].at = "claimed"]
    /\ UNCHANGED <<parsed, edges, broken, mergedFrom>>

ClaimMap(w) ==
    /\ builder[w].at = "fetched"
    /\ ledger' = ledger \cup {Entry(builder[w])}
    /\ builder' = IF Entry(builder[w]) \in ledger
                  THEN [builder EXCEPT ![w] = Resting]
                  ELSE [builder EXCEPT ![w].at = "claimed"]
    /\ UNCHANGED <<parsed, edges, broken, mergedFrom>>

\* _merge_graph: nodes and edges in one transaction, ON CREATE or ON MATCH,
\* then the label of every touched edge from its counts.
One(b) == IF b THEN 1 ELSE 0
Touched(p, m) ==
    LET old == IF p \in DOMAIN edges THEN edges[p]
               ELSE [observed |-> 0, strong |-> 0, brokenIn |-> 0,
                     replays |-> 0, label |-> "unknown"]
        new == [old EXCEPT !.observed = @ + 1,
                           !.strong = @ + One(m \in StrongMaps),
                           !.brokenIn = @ + One(m \in BrokenMaps)]
    IN  [new EXCEPT !.label = DeriveValidityLabel(new)]
MergeGraph(w) ==
    /\ builder[w].at = "claimed"
    /\ LET pairs == ExtractAdjacencies(builder[w].layout)
           m == builder[w].map
       IN  /\ edges' = [p \in DOMAIN edges \cup pairs |->
                           IF p \in pairs THEN Touched(p, m) ELSE edges[p]]
           /\ mergedFrom' = mergedFrom \cup
                 {[map |-> m, version |-> builder[w].version, pair |-> p] : p \in pairs}
    /\ builder' = [builder EXCEPT ![w] = Resting]
    /\ UNCHANGED <<parsed, ledger, broken>>

\* The builder is killed, or the map raises and the run goes on without it:
\* either way it is done with the map, and what is committed stays.
BreakOff(w) ==
    /\ builder[w] # Resting /\ broken < MaxBreaks
    /\ broken' = broken + 1
    /\ builder' = [builder EXCEPT ![w] = Resting]
    /\ UNCHANGED <<parsed, ledger, edges, mergedFrom>>

\* parse-maps with a newer parser replaces the map's placements.
Reparse(m) ==
    /\ parsed[m].version < MaxReparses
    /\ \E l \in Layouts : parsed' = [parsed EXCEPT ![m] = [version |-> @.version + 1,
                                                           layout |-> l]]
    /\ UNCHANGED <<ledger, edges, builder, broken, mergedFrom>>

GraphInit ==
    /\ parsed = [m \in GraphMaps |-> [version |-> 0, layout |-> << >>]]
    /\ ledger = {} /\ edges = << >>
    /\ builder = [w \in Builders |-> Resting]
    /\ broken = 0 /\ mergedFrom = {}

GraphNext ==
    \/ \E w \in Builders : ClaimMap(w) \/ MergeGraph(w) \/ BreakOff(w)
    \/ \E w \in Builders, m \in GraphMaps : FetchMap(w, m)
    \/ \E m \in GraphMaps : Reparse(m)

-----------------------------------------------------------------------------
(* An edge's counts are what the merged maps account for, whatever the     *)
(* builders' interleaving: no parse of a map is counted twice.             *)
CountsAccounted ==
    \A p \in DOMAIN edges :
        LET from == {x \in mergedFrom : x.pair = p}
        IN  /\ edges[p].observed = Cardinality(from)
            /\ edges[p].strong = Cardinality({x \in from : x.map \in StrongMaps})

(* "Frequency is NOT validity": however often a pair is seen, it is valid  *)
(* only if a benchmark-strong map shows it, and suspicious only if nothing *)
(* but broken fixtures speaks for or against it.                           *)
FrequencyIsNotValidity ==
    \A p \in DOMAIN edges :
        LET maps == {x.map : x \in {y \in mergedFrom : y.pair = p}}
        IN  /\ edges[p].label = "valid" <=> maps \cap StrongMaps # {}
            /\ edges[p].label = "suspicious" <=>
                   maps \cap StrongMaps = {} /\ maps \cap BrokenMaps # {}

(* Every pair an edge stands for was really next to each other in a map,   *)
(* as the block that occupies each cell is the first one placed there.     *)
EdgesWereSeen ==
    \A x \in mergedFrom :
        \E l \in Layouts : \E i, j \in DOMAIN l :
            /\ ~l[i].free /\ ~l[j].free /\ l[i].cell = l[j].cell + 1
            /\ {l[i].key, l[j].key} = {x.pair[1], x.pair[2]}
            /\ \A k \in 1 .. i - 1 : l[k].free \/ l[k].cell # l[i].cell
            /\ \A k \in 1 .. j - 1 : l[k].free \/ l[k].cell # l[j].cell

(* The edges stand for what the maps show, each map once, and their labels *)
(* for the evidence: the three conditions above.                           *)
EdgesSound == CountsAccounted /\ FrequencyIsNotValidity /\ EdgesWereSeen
=============================================================================
