----------------------------- MODULE BlockIndex -----------------------------
(***************************************************************************)
(* What the block index promises, whatever happens to the process that     *)
(* writes it.  It holds a trunk, one chain of linked blocks from height 1. *)
(* A kill may leave debris above the trunk: blocks with a gap below them.  *)
(* Debris never reaches more than Reach heights above the trunk, and the   *)
(* trunk does not grow before the debris is gone, so that no gap is ever   *)
(* built over.                                                             *)
(***************************************************************************)
EXTENDS Chain

CONSTANTS
    Mark,      \* the marks of the branches of the block chain
    Reach      \* how far debris may reach above the trunk

VARIABLES
    trunk,     \* the last block of the trunk, NoBlock when there is none
    debris     \* how far the highest block is above the trunk

Init == trunk = NoBlock /\ debris = 0

\* The trunk keeps all its blocks.
Extended ==
    /\ trunk' \in Seq(Mark)
    /\ Height(trunk') >= Height(trunk)
    /\ BlockAt(trunk', Height(trunk)) = trunk

\* The trunk is cut back to one of its blocks, or to nothing.
Shortened == \E h \in 0 .. Height(trunk) : trunk' = BlockAt(trunk, h)

\* Blocks are persisted.
Grow == debris = 0 /\ Extended /\ debris' = 0

\* A rewind removes the debris and the end of the trunk.
Cut == Shortened /\ debris' = 0

\* The process is killed in the middle of a persist, or of a rewind.
Break ==
    /\ (debris = 0 /\ Extended) \/ Shortened
    /\ debris' \in 1 .. Reach

Next == Grow \/ Cut \/ Break

Spec == Init /\ [][Next]_<<trunk, debris>>
=============================================================================
