------------------------------- MODULE Chain -------------------------------
(***************************************************************************)
(* Blocks and chains as the indexer sees them through navcoind's RPC       *)
(* interface.                                                              *)
(*                                                                         *)
(* A block hash commits to the whole history of the block, so a block is   *)
(* the sequence of the branch marks of the blocks from height 1 up to it:  *)
(* two blocks are equal exactly when their hashes are, `height` is the     *)
(* length, and `previousblockhash` is the sequence without its last mark.  *)
(***************************************************************************)
EXTENDS Integers, Sequences

\* No block: a nil *explorer.Block, and the parent of the block at height 1.
NoBlock == <<>>

Height(b) == Len(b)

\* The block at height h of the chain (or of the history of the block) c.
BlockAt(c, h) == SubSeq(c, 1, h)

\* The block whose hash is the `Previousblockhash` of b.
Previous(b) == SubSeq(b, 1, Len(b) - 1)

\* The blocks of the chain that ends with b, b included.
Ancestry(b) == {BlockAt(b, h) : h \in 1 .. Len(b)}

\* The blocks of S up to the height of b are exactly the chain that ends
\* with b: one block per height, each the parent of the next, no hole.
Clean(S, b) == {c \in S : Height(c) <= Height(b)} = Ancestry(b)

\* S is clean up to some block, and nothing in it is more than r above that.
\* A rewind by r from the top of S then lands on, or below, a clean block.
Anchored(S, r) ==
    \E b \in S \cup {NoBlock} :
        Clean(S, b) /\ \A c \in S : Height(c) <= Height(b) + r

\* The highest blocks of S (several after a fork was indexed beside another).
Highest(S) == {b \in S : \A c \in S : Height(c) <= Height(b)}
=============================================================================
