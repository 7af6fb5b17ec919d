----------------------------- MODULE MCIndexer -----------------------------
(***************************************************************************)
(* Values of the constants of Indexer for TLC.                             *)
(***************************************************************************)
EXTENDS IndexerInvariant

\* Searches come after the refresh everywhere.
NoLag == {}

\* The searches that may follow a write at once come before the refresh, except
\* that of checkBlock.
WriteLag == {"orphan", "delete", "report"}

\* Only the search of checkBlock, issued right after the DeleteByQuery, runs
\* before the refresh.
CheckLag == {"check"}
=============================================================================
