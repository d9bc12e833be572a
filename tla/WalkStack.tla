----------------------------- MODULE WalkStack -----------------------------
(***************************************************************************)
(* What a backtracking route walker promises about the ground it uses: it  *)
(* keeps a stack of footprints, places a block only on free cells, and     *)
(* gives a block's cells back when it takes the block away.  The walkers   *)
(* of src/generation/grammar_walker.py and clip_walker.py implement it.    *)
(***************************************************************************)
EXTENDS Integers, Sequences

CONSTANT Footprints   \* the sets of cells a block may stand on

VARIABLES feet,   \* the footprints of the placed blocks, in route order
          taken   \* the cells the walker believes to be in use

stackVars == <<feet, taken>>

StackInit == feet = << >> /\ taken = {}

\* An attempt starts with a start block, and may be given up as a whole.
Start(f) == feet = << >> /\ feet' = <<f>> /\ taken' = f
Drop == feet' = << >> /\ taken' = {}

Place(f) ==
    /\ feet # << >>
    /\ f \cap taken = {}
    /\ feet' = Append(feet, f)
    /\ taken' = taken \cup f

\* The last block is taken away; the start block stays.
Undo ==
    /\ Len(feet) > 1
    /\ feet' = SubSeq(feet, 1, Len(feet) - 1)
    /\ taken' = taken \ feet[Len(feet)]

StackNext ==
    \/ Drop
    \/ Undo
    \/ \E f \in Footprints : Start(f) \/ Place(f)

StackSpec == StackInit /\ [][StackNext]_stackVars

-----------------------------------------------------------------------------
FeetApart ==
    \A i, j \in DOMAIN feet : i # j => feet[i] \cap feet[j] = {}
TakenIsFeet == taken = UNION {feet[i] : i \in DOMAIN feet}

(* No two blocks of a route share a cell, and the walker's occupancy is    *)
(* exactly the ground under its blocks, however often it backtracked.      *)
GroundKept == FeetApart /\ TakenIsFeet
=============================================================================
