---------------------------- MODULE MCBffSession ----------------------------
(* Small instances of BffSession.                                          *)
EXTENDS BffSession, TLC

CONSTANTS r1, r2, s1, s2, alice, bob

\* Two browsers of one identity: their sessions can replace each other.
OneOwner == (s1 :> alice) @@ (s2 :> alice)
SingleOwner == (s1 :> alice)

Symmetry == Permutations({r1, r2})

\* Either one request moves between two sessions and two identities, or two
\* requests compete for the first session.  Only alice has sessions to revoke.
Focus ==
  /\ scan'.sub # bob
  /\ \/ req'[r2].pc = "idle" /\ \A s \in Sid : lock'[s] # r2
     \/ born'[s2] < 0 /\ \A r \in Request : req'[r].who # bob
=============================================================================
