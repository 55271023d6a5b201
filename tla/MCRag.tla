------------------------------- MODULE MCRag --------------------------------
EXTENDS Rag, TLC

CONSTANTS c1, c2, c3, c4, k1, k2, k3, d1

\* A call, its repetition, and others with keys of their own.
MCKeyOf == c1 :> k1 @@ c2 :> k1 @@ c3 :> k2 @@ c4 :> k3
LoneKeyOf == c1 :> k1

=============================================================================
