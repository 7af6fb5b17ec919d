---------------------------- MODULE MCConsensus -----------------------------
(***************************************************************************)
(* Values of the constants of Consensus for TLC.                           *)
(***************************************************************************)
EXTENDS Consensus

CONSTANTS c1, c2

\* One about the length of a cycle, one about the fee of a proposal.
Parameters == [c \in Consultation |-> IF c = c1 THEN 0 ELSE 12]

Answers == [c \in Consultation |-> IF c = c1 THEN 10080 ELSE 250000]

Creation == [c \in Consultation |-> IF c = c1 THEN 1 ELSE 3]
=============================================================================
