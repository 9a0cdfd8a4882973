-------------------------- MODULE MCWorkspaceLocks --------------------------
(* A small instance of WorkspaceLocks, with a collision of the hash.       *)
EXTENDS WorkspaceLocks, TLC

CONSTANTS p1, p2, p3, a, b

Paths == {1, 2, 3}
Hash == (1 :> a) @@ (2 :> a) @@ (3 :> b)

Symmetry == Permutations({p1, p2, p3})
=============================================================================
