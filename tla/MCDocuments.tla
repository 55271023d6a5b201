---------------------------- MODULE MCDocuments -----------------------------
EXTENDS Documents, TLC

CONSTANTS d1, d2, d3, t1, a, b

\* The dump holds the same text twice; on the site the second question and the
\* third change theirs.
MCDump == d1 :> a @@ d2 :> a @@ d3 :> b
MCLive == d1 :> {a, b} @@ d2 :> {a, b} @@ d3 :> {b}

=============================================================================
