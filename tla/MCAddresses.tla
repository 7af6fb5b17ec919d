---------------------------- MODULE MCAddresses ----------------------------
(***************************************************************************)
(* Values of the constants of Addresses for TLC.                           *)
(***************************************************************************)
EXTENDS AddressesInvariant

CONSTANTS a, b, m

\* Up to two transactions; the coinbase may touch nobody of interest.
SomeBlocks == {<<{}>>, <<{a}>>, <<{a}, {a, b}>>, <<{b, m}>>}

\* A bulk run to a height that is not a multiple of the batch size, or none.
BulkRun == {3}
Both == {0, 3}

NoLag == {}
=============================================================================
