--------------------------- MODULE MCElasticCache ---------------------------
(***************************************************************************)
(* Values of the constants of ElasticCache for TLC.                        *)
(***************************************************************************)
EXTENDS ElasticCache

CONSTANTS a, b, c

\* a and b are of one height.
SomeHeights == [s \in Slug |-> IF s = c THEN 2 ELSE 1]
=============================================================================
