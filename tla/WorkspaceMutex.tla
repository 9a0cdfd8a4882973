--------------------------- MODULE WorkspaceMutex ---------------------------
(***************************************************************************)
(* What workspace_mutations promises its callers: two mutations that are   *)
(* under way at the same time never share a workspace.  A mutation enters  *)
(* with all the keys it needs or not at all, and leaves with all of them.  *)
(***************************************************************************)
CONSTANTS
  Scope,  \* "with ..._lock(...):" blocks, each entered at most once
  Path    \* the keys that are locked: workspaces and workflow families

VARIABLE
  inside  \* inside[p]: the keys scope p owns while its body runs

Init == inside = [p \in Scope |-> {}]

Enter(p, keys) ==
  /\ inside[p] = {}
  /\ \A q \in Scope : inside[q] \cap keys = {}
  /\ inside' = [inside EXCEPT ![p] = keys]

Leave(p) ==
  /\ inside[p] # {}
  /\ inside' = [inside EXCEPT ![p] = {}]

Next == \E p \in Scope : Leave(p) \/ \E keys \in SUBSET Path : Enter(p, keys)

Spec == Init /\ [][Next]_inside
=============================================================================
