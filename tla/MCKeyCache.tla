----------------------------- MODULE MCKeyCache -----------------------------
(* Small instances of KeyCache.                                            *)
EXTENDS KeyCache, TLC

CONSTANTS t1, t2, k1, k2, k3

Symmetry == Permutations({t1, t2}) \cup Permutations({k1, k2, k3})

\* The issuer begins with one key and rotates at most once, so that with three
\* keys one is always unknown.
MaxPublished == 2
MCSpec == /\ Init /\ Cardinality(published) = 1
          /\ [][Next /\ Cardinality(published') <= MaxPublished]_vars
=============================================================================
