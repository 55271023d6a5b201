--------------------------- MODULE MCSearchIndex ---------------------------
(* Small instances of SearchIndex for TLC.                                 *)
EXTENDS SearchIndex

CONSTANT i1

OneIndexer == {i1}

=============================================================================
