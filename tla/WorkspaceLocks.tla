--------------------------- MODULE WorkspaceLocks ---------------------------
(***************************************************************************)
(* The context managers of workspace_mutations: a scope takes the locks of *)
(* all its keys in sorted order without ever waiting, runs its body, and   *)
(* releases them.  There are two implementations, chosen by the dialect of *)
(* the database:                                                           *)
(*                                                                         *)
(*   postgresql  advisory locks of one transaction on a dedicated          *)
(*               connection; a key is the hash of a path;                  *)
(*   local       threading locks in a table of reference-counted entries   *)
(*               that is changed under a guard.                            *)
(*                                                                         *)
(* A lock object is known by its path and its generation: the n-th object  *)
(* that was made for the path.  Paths are numbers: their order is the      *)
(* order of the normalised names.                                          *)
(***************************************************************************)
EXTENDS Integers, FiniteSets

CONSTANTS
  Scope,        \* "with ..._lock(...):" blocks, each entered at most once
  Path,         \* normalised keys
  Key,          \* PostgreSQL bigints
  AdvisoryKey,  \* the hash: two paths may share a key
  NoOne,
  MaxFaults     \* bound on database errors and lost connections

ASSUME LocksAssumption ==
  /\ IsFiniteSet(Scope) /\ NoOne \notin Scope
  /\ Path \subseteq Nat /\ IsFiniteSet(Path)
  /\ AdvisoryKey \in [Path -> Key]
  /\ MaxFaults \in Nat

VARIABLES
  dialect,    \* which implementation runs
  pc,         \* pc[p]: where scope p is
  want,       \* want[p]: its keys
  acquired,   \* acquired[p]: those it has locked
  outcome,    \* outcome[p]: how its attempt ended
  \* local
  made,       \* made[k]: how many lock objects were made for path k
  table,      \* table[k]: the generation in _local_locks, 0 when there is none
  refs,       \* refs[k][g]: the references of that entry
  owner,      \* owner[k][g]: the scope that holds that lock object
  entry,      \* entry[p][k]: the generation scope p registered for
  \* postgresql
  adv,        \* adv[a]: the scope whose connection holds advisory lock a
  lost,       \* scopes whose connection is gone while they still run
  lingering,  \* finished scopes whose connection the server still believes in
  faults

localVars == <<made, table, refs, owner, entry>>
pgVars == <<adv, lost, lingering, faults>>
vars == <<dialect, pc, want, acquired, outcome, made, table, refs, owner,
          entry, adv, lost, lingering, faults>>

Generation == 1..Cardinality(Scope)
Registered == {"acquire", "inside", "release"}
Outcome == {"none", "won", "conflict", "unavailable"}

\* The keys are tried in sorted order.
InAnyOrder(p, k) == k \in want[p] \ acquired[p]
IsNext(p, k) ==
  /\ k \in want[p] \ acquired[p]
  /\ \A j \in want[p] \ acquired[p] : k <= j

\* One more lock is held; with the last one the body runs.
Locks(p, k) ==
  /\ acquired' = [acquired EXCEPT ![p] = @ \cup {k}]
  /\ IF acquired[p] \cup {k} = want[p]
     THEN /\ pc' = [pc EXCEPT ![p] = "inside"]
          /\ outcome' = [outcome EXCEPT ![p] = "won"]
     ELSE UNCHANGED <<pc, outcome>>

\* The attempt is given up; what was locked is released.
GivesUp(p, why) ==
  /\ pc' = [pc EXCEPT ![p] = "release"]
  /\ outcome' = [outcome EXCEPT ![p] = why]

\* The body ends, normally or with an exception.
Leave(p) ==
  /\ pc[p] = "inside"
  /\ pc' = [pc EXCEPT ![p] = "release"]
  /\ UNCHANGED <<dialect, want, acquired, outcome, localVars, pgVars>>

-----------------------------------------------------------------------------
(* _local_process_locks                                                    *)

\* Under the guard: find or make an entry for every key and count a reference.
MustMakeAlways(k, keys) == k \in keys
MustMake(k, keys) == k \in keys /\ table[k] = 0
CountedWhenMade(k, keys) == MustMake(k, keys)
Counted(k, keys) == k \in keys

Register(p, keys) ==
  /\ pc[p] = "idle"
  /\ pc' = [pc EXCEPT ![p] = "acquire"]
  /\ want' = [want EXCEPT ![p] = keys]
  /\ made' = [k \in Path |-> IF MustMake(k, keys) THEN made[k] + 1 ELSE made[k]]
  /\ table' = [k \in Path |-> IF MustMake(k, keys) THEN made[k] + 1
                                                   ELSE table[k]]
  /\ entry' = [entry EXCEPT ![p] = table']
  /\ refs' = [k \in Path |->
                IF Counted(k, keys) THEN [refs[k] EXCEPT ![table'[k]] = @ + 1]
                                    ELSE refs[k]]
  /\ UNCHANGED <<dialect, acquired, outcome, owner, pgVars>>

\* acquire(blocking=False) on the next entry.
TryLocal(p, k) ==
  /\ pc[p] = "acquire" /\ IsNext(p, k)
  /\ \/ /\ owner[k][entry[p][k]] = NoOne
        /\ owner' = [owner EXCEPT ![k][entry[p][k]] = p]
        /\ Locks(p, k)
     \/ /\ owner[k][entry[p][k]] # NoOne
        /\ GivesUp(p, "conflict")
        /\ UNCHANGED <<owner, acquired>>
  /\ UNCHANGED <<dialect, want, made, table, refs, entry, pgVars>>

\* The locks are released one by one, the last acquired first ...
Unlock(p, k) ==
  /\ pc[p] = "release"
  /\ k \in acquired[p] /\ \A j \in acquired[p] : j <= k
  /\ owner' = [owner EXCEPT ![k][entry[p][k]] = NoOne]
  /\ acquired' = [acquired EXCEPT ![p] = @ \ {k}]
  /\ UNCHANGED <<dialect, pc, want, outcome, made, table, refs, entry, pgVars>>

\* ... and then, under the guard, every reference is given back; an entry
\* without references leaves the table.
LastReferenceIgnored(k, g) == TRUE
LastReference(k, g) == refs[k][g] = 1

Drop(p) ==
  /\ pc[p] = "release" /\ acquired[p] = {}
  /\ pc' = [pc EXCEPT ![p] = "done"]
  /\ refs' = [k \in Path |->
                IF k \in want[p] THEN [refs[k] EXCEPT ![entry[p][k]] = @ - 1]
                                 ELSE refs[k]]
  /\ table' = [k \in Path |->
                 IF k \in want[p] /\ LastReference(k, entry[p][k]) THEN 0
                                                                   ELSE table[k]]
  /\ UNCHANGED <<dialect, want, acquired, outcome, made, owner, entry, pgVars>>

LocalStep(p) ==
  /\ dialect = "local"
  /\ \/ \E keys \in (SUBSET Path) \ {{}} : Register(p, keys)
     \/ \E k \in Path : TryLocal(p, k) \/ Unlock(p, k)
     \/ Leave(p) \/ Drop(p)

-----------------------------------------------------------------------------
(* _postgresql_locks                                                       *)

\* A connection of its own and a transaction.
Connect(p, keys) ==
  /\ pc[p] = "idle"
  /\ pc' = [pc EXCEPT ![p] = "acquire"]
  /\ want' = [want EXCEPT ![p] = keys]
  /\ UNCHANGED <<dialect, acquired, outcome, localVars, pgVars>>

\* pg_try_advisory_xact_lock: a session may take a lock it already has.
Grantable(p, k) == adv[AdvisoryKey[k]] \in {NoOne, p}

TryAdvisory(p, k) ==
  /\ pc[p] = "acquire" /\ p \notin lost /\ IsNext(p, k)
  /\ \/ /\ Grantable(p, k)
        /\ adv' = [adv EXCEPT ![AdvisoryKey[k]] = p]
        /\ Locks(p, k)
     \/ /\ ~Grantable(p, k)
        /\ GivesUp(p, "conflict")
        /\ UNCHANGED <<adv, acquired>>
  /\ UNCHANGED <<dialect, want, localVars, lost, lingering, faults>>

\* Connecting or executing fails; WorkspaceMutationUnavailable.
DatabaseError(p) ==
  /\ pc[p] = "acquire"
  /\ \/ p \in lost /\ UNCHANGED faults
     \/ p \notin lost /\ faults < MaxFaults /\ faults' = faults + 1
  /\ GivesUp(p, "unavailable")
  /\ UNCHANGED <<dialect, want, acquired, localVars, adv, lost, lingering>>

StillHeld(p) == adv
Without(p) == [a \in Key |-> IF adv[a] = p THEN NoOne ELSE adv[a]]

\* _release_postgresql_locks: rolling back the transaction releases them all.
Rollback(p) ==
  /\ pc[p] = "release"
  /\ pc' = [pc EXCEPT ![p] = "done"]
  /\ acquired' = [acquired EXCEPT ![p] = {}]
  /\ adv' = Without(p)
  /\ lost' = lost \ {p}
  /\ UNCHANGED <<dialect, want, outcome, localVars, lingering, faults>>

\* The rollback fails and the connection is discarded: the scope goes on, and
\* the server keeps the locks until it notices.
RollbackFails(p) ==
  /\ pc[p] = "release" /\ p \notin lost
  /\ faults < MaxFaults
  /\ faults' = faults + 1
  /\ pc' = [pc EXCEPT ![p] = "done"]
  /\ acquired' = [acquired EXCEPT ![p] = {}]
  /\ lingering' = lingering \cup {p}
  /\ UNCHANGED <<dialect, want, outcome, localVars, adv, lost>>

ServerNotices(p) ==
  /\ p \in lingering
  /\ lingering' = lingering \ {p}
  /\ adv' = Without(p)
  /\ UNCHANGED <<dialect, pc, want, acquired, outcome, localVars, lost, faults>>

\* The server drops the connection of a scope that is still running.
ConnectionLost(p) ==
  /\ pc[p] \in Registered /\ p \notin lost
  /\ faults < MaxFaults
  /\ faults' = faults + 1
  /\ lost' = lost \cup {p}
  /\ adv' = Without(p)
  /\ UNCHANGED <<dialect, pc, want, acquired, outcome, localVars, lingering>>

PostgresStep(p) ==
  /\ dialect = "postgresql"
  /\ \/ \E keys \in (SUBSET Path) \ {{}} : Connect(p, keys)
     \/ \E k \in Path : TryAdvisory(p, k)
     \/ Leave(p) \/ DatabaseError(p) \/ Rollback(p) \/ RollbackFails(p)
     \/ ServerNotices(p) \/ ConnectionLost(p)

-----------------------------------------------------------------------------
Init ==
  /\ dialect \in {"local", "postgresql"}
  /\ pc = [p \in Scope |-> "idle"]
  /\ want = [p \in Scope |-> {}]
  /\ acquired = [p \in Scope |-> {}]
  /\ outcome = [p \in Scope |-> "none"]
  /\ made = [k \in Path |-> 0]
  /\ table = [k \in Path |-> 0]
  /\ refs = [k \in Path |-> [g \in Generation |-> 0]]
  /\ owner = [k \in Path |-> [g \in Generation |-> NoOne]]
  /\ entry = [p \in Scope |-> [k \in Path |-> 0]]
  /\ adv = [a \in Key |-> NoOne]
  /\ lost = {}
  /\ lingering = {}
  /\ faults = 0

Next == \E p \in Scope : LocalStep(p) \/ PostgresStep(p)

Spec == Init /\ [][Next]_vars

-----------------------------------------------------------------------------
(* Properties                                                              *)

\* Type correctness of the tables, the scopes and the advisory locks; reference
\* counts never go negative.
TypeOK ==
  /\ dialect \in {"local", "postgresql"}
  /\ pc \in [Scope -> Registered \cup {"idle", "done"}]
  /\ want \in [Scope -> SUBSET Path]
  /\ acquired \in [Scope -> SUBSET Path]
  /\ outcome \in [Scope -> Outcome]
  /\ made \in [Path -> {0} \cup Generation]
  /\ table \in [Path -> {0} \cup Generation]
  /\ refs \in [Path -> [Generation -> {0} \cup Generation]]
  /\ owner \in [Path -> [Generation -> Scope \cup {NoOne}]]
  /\ entry \in [Scope -> [Path -> {0} \cup Generation]]
  /\ adv \in [Key -> Scope \cup {NoOne}]
  /\ lost \subseteq Scope /\ lingering \subseteq Scope
  /\ faults \in 0..MaxFaults

\* Two mutations that run at the same time never share a workspace or a family,
\* unless the database dropped the connection of one of them.
Exclusive ==
  \A p, q \in Scope :
    /\ p # q /\ pc[p] = "inside" /\ pc[q] = "inside"
    /\ p \notin lost /\ q \notin lost
    => want[p] \cap want[q] = {}

\* The implementation refines the mutex; a scope whose connection is lost has
\* left the mutex although its body still runs.
Mutex == INSTANCE WorkspaceMutex
  WITH inside <- [p \in Scope |-> IF pc[p] = "inside" /\ p \notin lost
                                  THEN want[p] ELSE {}]
ImplementsMutex == Mutex!Spec

\* Nothing is left behind: a lock object or an advisory lock belongs to a scope
\* under way, and a table entry to a scope registered for it.
NothingLeaks ==
  /\ \A k \in Path, g \in Generation :
       owner[k][g] # NoOne => pc[owner[k][g]] \in Registered
  /\ \A k \in Path :
       table[k] # 0 => \E p \in Scope : pc[p] \in Registered /\ k \in want[p]
  /\ \A a \in Key :
       adv[a] # NoOne => pc[adv[a]] \in Registered \/ adv[a] \in lingering

\* The order of the keys is safe: without a database failure, scopes that
\* collide never all give up; one of them ran.  (Two paths that collide in the
\* hash may break this when a third lies between them, never Exclusive.)
SomebodyWins ==
  (\A p \in Scope : pc[p] \in {"idle", "done"}) /\ faults = 0
    => \/ \A p \in Scope : pc[p] = "idle"
       \/ \E p \in Scope : outcome[p] = "won"
=============================================================================
