------------------------ MODULE WorkspaceLocksProofs ------------------------
(* The locks of workspace_mutations exclude each other for every number of  *)
(* scopes and keys, every hash function and every number of database        *)
(* faults; they implement WorkspaceMutex, leave nothing behind, and without *)
(* a failure one of the scopes that collide runs.                           *)
EXTENDS WorkspaceLocks, FiniteSetTheorems, TLAPS

USE LocksAssumption

\* The scopes that count as a reference of the entry of path k.
Registrants(k) == {p \in Scope : pc[p] \in Registered /\ k \in want[p]}
Begun == {p \in Scope : pc[p] # "idle"}

\* A scope holds only what it wants, all of it while its body runs, and nothing
\* before and after.
ScopeInv ==
  /\ \A p \in Scope :
       /\ acquired[p] \subseteq want[p]
       /\ pc[p] = "inside" => acquired[p] = want[p]
       /\ pc[p] \in {"idle", "done"} => acquired[p] = {}
       /\ pc[p] \in Registered => want[p] # {}
  /\ dialect = "local" => lost = {}
  /\ \A p \in lingering : pc[p] = "done"

\* A new generation is new, and there are not more of them than scopes.
CountInv ==
  \A k \in Path :
    /\ table[k] <= made[k] /\ made[k] <= Cardinality(Begun)
    /\ \A g \in Generation : g > made[k] => refs[k][g] = 0

\* The entry a scope registered for is the one in the table ...
EntryInv ==
  dialect = "local" =>
    \A p \in Scope : pc[p] \in Registered =>
      \A k \in want[p] : table[k] # 0 /\ entry[p][k] = table[k]

\* ... because it counts exactly the scopes registered for it.
RefsInv ==
  dialect = "local" =>
    \A k \in Path :
      table[k] # 0 => refs[k][table[k]] = Cardinality(Registrants(k))

\* A local lock, and an advisory lock on a live connection, belongs to the scope
\* that acquired it.
OwnerInv ==
  dialect = "local" =>
    \A p \in Scope : \A k \in acquired[p] : owner[k][entry[p][k]] = p

AdvInv ==
  dialect = "postgresql" =>
    \A p \in Scope \ lost : \A k \in acquired[p] : adv[AdvisoryKey[k]] = p

IInv == /\ TypeOK /\ ScopeInv /\ CountInv /\ EntryInv
        /\ RefsInv /\ OwnerInv /\ AdvInv

-----------------------------------------------------------------------------
LEMMA ScopesAreFinite ==
  /\ Cardinality(Scope) \in Nat
  /\ IsFiniteSet(Begun) /\ Cardinality(Begun) \in Nat
  /\ Cardinality(Begun) <= Cardinality(Scope)
  /\ \A k : /\ IsFiniteSet(Registrants(k)) /\ Cardinality(Registrants(k)) \in Nat
            /\ Cardinality(Registrants(k)) <= Cardinality(Scope)
<1>1. \A S : S \subseteq Scope =>
        IsFiniteSet(S) /\ Cardinality(S) \in Nat
          /\ Cardinality(S) <= Cardinality(Scope)
  BY FS_Subset, FS_CardinalityType
<1>2. Begun \subseteq Scope /\ \A k : Registrants(k) \subseteq Scope
  BY DEF Begun, Registrants
<1> QED BY <1>1, <1>2, FS_CardinalityType

\* A scope that begins adds itself to the scopes that have begun.
LEMMA BegunGrows ==
  ASSUME NEW p \in Scope, TypeOK, pc[p] = "idle",
         pc' = [pc EXCEPT ![p] = "acquire"]
  PROVE  /\ Cardinality(Begun') = Cardinality(Begun) + 1
         /\ Cardinality(Begun') <= Cardinality(Scope)
<1>1. Begun' = Begun \cup {p} /\ p \notin Begun /\ Begun' \subseteq Scope
  BY DEF Begun, TypeOK
<1> QED BY <1>1, ScopesAreFinite, FS_AddElement, FS_Subset

\* No scope ever is idle again.
LEMMA BegunKept ==
  ASSUME NEW p \in Scope, TypeOK, pc[p] # "idle",
         NEW l \in {"acquire", "inside", "release", "done"},
         pc' = [pc EXCEPT ![p] = l] \/ pc' = pc
  PROVE  Begun' = Begun
BY DEF Begun, TypeOK

\* Steps that neither register nor drop keep the references.
LEMMA RegistrantsKept ==
  ASSUME NEW p \in Scope, TypeOK, pc[p] \in Registered, want' = want,
         NEW l \in Registered,
         pc' = [pc EXCEPT ![p] = l] \/ pc' = pc
  PROVE  \A k : Registrants(k)' = Registrants(k)
BY DEF Registrants, TypeOK, Registered

-----------------------------------------------------------------------------
(* The steps of the local locks                                            *)

LEMMA RegisterKeeps ==
  ASSUME NEW p \in Scope, NEW keys \in (SUBSET Path) \ {{}}, IInv,
         dialect = "local", Register(p, keys)
  PROVE  IInv'
<1> USE DEF IInv
<1>1. /\ pc[p] = "idle" /\ pc' = [pc EXCEPT ![p] = "acquire"]
      /\ want' = [want EXCEPT ![p] = keys]
      /\ acquired' = acquired /\ owner' = owner /\ dialect' = dialect
      /\ lost' = lost /\ lingering' = lingering
      /\ entry' = [entry EXCEPT ![p] = table']
  BY DEF Register, pgVars
<1>2. /\ Cardinality(Begun') = Cardinality(Begun) + 1
      /\ Cardinality(Begun') <= Cardinality(Scope)
  BY <1>1, BegunGrows
<1>3. ASSUME NEW k \in Path
      PROVE  /\ made[k] \in Nat /\ table[k] \in Nat
             /\ table[k] <= made[k] /\ made[k] + 1 \in Generation
             /\ made'[k] = (IF MustMake(k, keys) THEN made[k] + 1 ELSE made[k])
             /\ table'[k] = (IF MustMake(k, keys) THEN made[k] + 1
                                                  ELSE table[k])
             /\ table'[k] \in {0} \cup Generation
             /\ k \in keys => table'[k] \in Generation
  <2>1. made[k] \in Nat /\ table[k] \in Nat /\ table[k] \in {0} \cup Generation
    BY ScopesAreFinite DEF TypeOK, Generation
  <2>2. table[k] <= made[k] /\ made[k] + 1 <= Cardinality(Scope)
    BY <1>2, <2>1, ScopesAreFinite DEF CountInv
  <2>3. made[k] + 1 \in Generation
    BY <2>1, <2>2, ScopesAreFinite DEF Generation
  <2>4. /\ made'[k] = (IF MustMake(k, keys) THEN made[k] + 1 ELSE made[k])
        /\ table'[k] = (IF MustMake(k, keys) THEN made[k] + 1 ELSE table[k])
    BY DEF Register
  <2> QED BY <2>1, <2>2, <2>3, <2>4 DEF MustMake
<1>4. ASSUME NEW k \in Path
      PROVE  Registrants(k)' = IF k \in keys THEN Registrants(k) \cup {p}
                                             ELSE Registrants(k)
  BY <1>1 DEF Registrants, TypeOK, Registered
<1>5. ASSUME NEW k \in Path
      PROVE  /\ p \notin Registrants(k)
             /\ table[k] = 0 => Registrants(k) = {}
  BY <1>1, <1>5 DEF Registrants, EntryInv, Registered
<1>6. ASSUME NEW k \in keys
      PROVE  refs[k][table'[k]] = Cardinality(Registrants(k))
  <2>1. CASE table[k] = 0
    <3>1. /\ table'[k] = made[k] + 1 /\ made[k] \in Nat
          /\ made[k] + 1 \in Generation
      BY <2>1, <1>3 DEF MustMake
    <3>2. refs[k][table'[k]] = 0
      <4>1. \A g \in Generation : g > made[k] => refs[k][g] = 0
        BY DEF CountInv
      <4>2. made[k] + 1 > made[k]
        BY <3>1
      <4> QED BY <3>1, <4>1, <4>2
    <3>3. Registrants(k) = {}
      BY <2>1, <1>5
    <3> QED BY <3>2, <3>3, FS_EmptySet
  <2>2. CASE table[k] # 0
    BY <2>2, <1>3 DEF MustMake, RefsInv
  <2> QED BY <2>1, <2>2
<1>7. ASSUME NEW k \in keys
      PROVE  /\ Cardinality(Registrants(k)') = Cardinality(Registrants(k)) + 1
             /\ Cardinality(Registrants(k)') \in Generation
  <2>1. Cardinality(Registrants(k)') = Cardinality(Registrants(k)) + 1
    BY <1>4, <1>5, ScopesAreFinite, FS_AddElement
  <2>2. Registrants(k)' \subseteq Scope
    BY DEF Registrants
  <2> QED BY <2>1, <2>2, ScopesAreFinite, FS_Subset DEF Generation
<1>8. ASSUME NEW k \in Path
      PROVE  refs'[k] = IF k \in keys
                        THEN [refs[k] EXCEPT ![table'[k]] = refs[k][table'[k]] + 1]
                        ELSE refs[k]
  BY DEF Register, Counted
<1>9. ASSUME NEW k \in keys
      PROVE  refs'[k][table'[k]] = Cardinality(Registrants(k)')
  <2>1. refs[k] \in [Generation -> {0} \cup Generation]
    BY DEF TypeOK
  <2>2. table'[k] \in Generation
    BY <1>3
  <2>3. refs'[k][table'[k]] = refs[k][table'[k]] + 1
    BY <2>1, <2>2, <1>8
  <2> QED BY <2>3, <1>6, <1>7
<1>10. TypeOK'
  <2>1. made' \in [Path -> {0} \cup Generation]
    BY <1>3 DEF Register, TypeOK
  <2>2. table' \in [Path -> {0} \cup Generation]
    BY <1>3 DEF Register
  <2>3. refs' \in [Path -> [Generation -> {0} \cup Generation]]
    <3>1. ASSUME NEW k \in Path
          PROVE  refs'[k] \in [Generation -> {0} \cup Generation]
      <4>1. refs[k] \in [Generation -> {0} \cup Generation]
        BY DEF TypeOK
      <4>2. CASE k \in keys
        <5>1. refs[k][table'[k]] + 1 \in Generation
          BY <4>2, <1>6, <1>7
        <5> QED BY <4>1, <4>2, <5>1, <1>8
      <4>3. CASE k \notin keys
        BY <4>1, <4>3, <1>8
      <4> QED BY <4>2, <4>3
    <3> QED BY <3>1 DEF Register
  <2>4. entry' \in [Scope -> [Path -> {0} \cup Generation]]
    BY <1>1, <2>2 DEF TypeOK
  <2> QED BY <1>1, <2>1, <2>2, <2>3, <2>4 DEF TypeOK, Register, pgVars, Registered
<1>11. ScopeInv'
  BY <1>1 DEF ScopeInv, TypeOK, Registered
<1>12. CountInv'
  <2>1. ASSUME NEW k \in Path
        PROVE  /\ table'[k] <= made'[k] /\ made'[k] <= Cardinality(Begun')
    BY <1>2, <1>3, ScopesAreFinite DEF CountInv, MustMake
  <2>2. ASSUME NEW k \in Path, NEW g \in Generation, g > made'[k]
        PROVE  refs'[k][g] = 0
    <3>1. g > made[k] /\ g # table'[k]
      BY <1>3, <2>1, <2>2 DEF Generation, MustMake
    <3>2. refs[k][g] = 0
      BY <3>1 DEF CountInv
    <3>3. refs[k] \in [Generation -> {0} \cup Generation]
      BY DEF TypeOK
    <3> QED BY <3>1, <3>2, <3>3, <1>8
  <2> QED BY <2>1, <2>2 DEF CountInv
<1>13. EntryInv'
  <2> SUFFICES ASSUME NEW q \in Scope, pc'[q] \in Registered, NEW k \in want'[q]
               PROVE  table'[k] # 0 /\ entry'[q][k] = table'[k]
    BY DEF EntryInv
  <2>1. CASE q = p
    BY <2>1, <1>1, <1>3 DEF TypeOK, Generation
  <2>2. CASE q # p
    <3>1. /\ pc[q] \in Registered /\ k \in want[q] /\ entry'[q] = entry[q]
          /\ k \in Path
      BY <2>2, <1>1 DEF TypeOK
    <3>2. table[k] # 0 /\ entry[q][k] = table[k]
      BY <3>1 DEF EntryInv
    <3> QED BY <3>1, <3>2, <1>3 DEF MustMake
  <2> QED BY <2>1, <2>2
<1>14. RefsInv'
  <2> SUFFICES ASSUME NEW k \in Path, table'[k] # 0
               PROVE  refs'[k][table'[k]] = Cardinality(Registrants(k)')
    BY DEF RefsInv
  <2>1. CASE k \in keys
    BY <2>1, <1>9
  <2>2. CASE k \notin keys
    BY <2>2, <1>3, <1>4, <1>8 DEF RefsInv, MustMake
  <2> QED BY <2>1, <2>2
<1>15. OwnerInv' /\ AdvInv'
  BY <1>1 DEF OwnerInv, AdvInv, ScopeInv, TypeOK
<1> QED BY <1>10, <1>11, <1>12, <1>13, <1>14, <1>15

\* acquire(blocking=False): a lock that is taken ends the attempt.
LEMMA TryLocalKeeps ==
  ASSUME NEW p \in Scope, NEW k \in Path, IInv, dialect = "local",
         TryLocal(p, k)
  PROVE  IInv'
<1> USE DEF IInv
<1>1. /\ pc[p] = "acquire" /\ k \in want[p] /\ k \notin acquired[p]
      /\ UNCHANGED <<dialect, want, made, table, refs, entry, adv, lost,
                     lingering, faults>>
  BY DEF TryLocal, IsNext, pgVars
<1>2. table[k] # 0 /\ entry[p][k] = table[k] /\ entry[p][k] \in Generation
  BY <1>1 DEF EntryInv, TypeOK, Registered
<1>3. PICK l \in Registered : pc' = [pc EXCEPT ![p] = l] \/ pc' = pc
  BY <1>1 DEF TryLocal, Locks, GivesUp, Registered
<1>4. /\ Begun' = Begun /\ \A j : Registrants(j)' = Registrants(j)
  BY <1>1, <1>3, BegunKept, RegistrantsKept DEF Registered
<1>5. CountInv' /\ RefsInv'
  BY <1>1, <1>4 DEF CountInv, RefsInv
<1>6. EntryInv'
  BY <1>1, <1>3 DEF EntryInv, TypeOK, Registered
<1>7. AdvInv'
  BY <1>1 DEF AdvInv
<1>8. CASE owner[k][entry[p][k]] # NoOne
  <2>1. /\ GivesUp(p, "conflict") /\ UNCHANGED <<owner, acquired>>
    BY <1>8 DEF TryLocal
  <2>2. TypeOK' /\ ScopeInv' /\ OwnerInv'
    BY <1>1, <2>1 DEF TypeOK, ScopeInv, OwnerInv, GivesUp, Registered, Outcome
  <2> QED BY <2>2, <1>5, <1>6, <1>7
<1>9. CASE owner[k][entry[p][k]] = NoOne
  <2>1. /\ owner' = [owner EXCEPT ![k][entry[p][k]] = p]
        /\ acquired' = [acquired EXCEPT ![p] = @ \cup {k}]
        /\ \/ /\ acquired[p] \cup {k} = want[p]
              /\ pc' = [pc EXCEPT ![p] = "inside"]
              /\ outcome' = [outcome EXCEPT ![p] = "won"]
           \/ /\ acquired[p] \cup {k} # want[p]
              /\ UNCHANGED <<pc, outcome>>
    BY <1>9 DEF TryLocal, Locks
  <2>2. TypeOK'
    BY <1>1, <1>2, <2>1 DEF TypeOK, Registered, Outcome
  <2>3. ScopeInv'
    BY <1>1, <2>1 DEF ScopeInv, TypeOK, Registered
  <2>4. OwnerInv'
    <3> SUFFICES ASSUME NEW q \in Scope, NEW j \in acquired'[q]
                 PROVE  owner'[j][entry[q][j]] = q
      BY <1>1 DEF OwnerInv
    <3>1. CASE q = p /\ j = k
      BY <3>1, <1>2, <2>1 DEF TypeOK
    <3>2. CASE ~(q = p /\ j = k)
      <4>1. j \in acquired[q]
        BY <3>2, <2>1 DEF TypeOK
      <4>2. owner[j][entry[q][j]] = q /\ j \in Path
        BY <4>1 DEF OwnerInv, TypeOK
      <4>3. ~(j = k /\ entry[q][j] = entry[p][k])
        BY <4>2, <1>9
      <4> QED BY <4>2, <4>3, <1>2, <2>1 DEF TypeOK
    <3> QED BY <3>1, <3>2
  <2> QED BY <2>2, <2>3, <2>4, <1>5, <1>6, <1>7
<1> QED BY <1>8, <1>9

\* Releasing one lock takes it from nobody else: two scopes that acquired locks
\* of one path have the same entry, hence the same owner.
LEMMA UnlockKeeps ==
  ASSUME NEW p \in Scope, NEW k \in Path, IInv, dialect = "local",
         Unlock(p, k)
  PROVE  IInv'
<1> USE DEF IInv
<1>1. /\ pc[p] = "release" /\ k \in acquired[p] /\ k \in want[p]
      /\ owner' = [owner EXCEPT ![k][entry[p][k]] = NoOne]
      /\ acquired' = [acquired EXCEPT ![p] = @ \ {k}]
      /\ UNCHANGED <<dialect, pc, want, outcome, made, table, refs, entry, adv,
                     lost, lingering, faults>>
  BY DEF Unlock, pgVars, ScopeInv
<1>2. entry[p][k] = table[k] /\ entry[p][k] \in Generation
  BY <1>1 DEF EntryInv, TypeOK, Registered
<1>3. TypeOK' /\ ScopeInv'
  BY <1>1, <1>2 DEF TypeOK, ScopeInv, Registered
<1>4. Begun' = Begun /\ \A j : Registrants(j)' = Registrants(j)
  BY <1>1 DEF Begun, Registrants
<1>5. CountInv' /\ EntryInv' /\ RefsInv' /\ AdvInv'
  BY <1>1, <1>4 DEF CountInv, EntryInv, RefsInv, AdvInv
<1>6. OwnerInv'
  <2> SUFFICES ASSUME NEW q \in Scope, NEW j \in acquired'[q]
               PROVE  owner'[j][entry[q][j]] = q
    BY <1>1 DEF OwnerInv
  <2>1. j \in acquired[q] /\ j \in Path /\ ~(q = p /\ j = k)
    BY <1>1 DEF TypeOK
  <2>2. owner[j][entry[q][j]] = q /\ owner[k][entry[p][k]] = p
    BY <1>1, <2>1 DEF OwnerInv
  <2>3. ~(j = k /\ entry[q][j] = entry[p][k])
    BY <2>1, <2>2
  <2> QED BY <1>1, <1>2, <2>1, <2>2, <2>3 DEF TypeOK
<1> QED BY <1>3, <1>5, <1>6

\* The body ends: its locks are still held.
LEMMA LeaveKeeps ==
  ASSUME NEW p \in Scope, IInv, Leave(p)
  PROVE  IInv'
<1> USE DEF IInv
<1>1. /\ pc[p] = "inside" /\ pc' = [pc EXCEPT ![p] = "release"]
      /\ UNCHANGED <<dialect, want, acquired, outcome, made, table, refs,
                     owner, entry, adv, lost, lingering, faults>>
  BY DEF Leave, localVars, pgVars
<1>2. Begun' = Begun /\ \A j : Registrants(j)' = Registrants(j)
  BY <1>1, BegunKept, RegistrantsKept DEF Registered
<1>3. TypeOK' /\ ScopeInv' /\ EntryInv' /\ OwnerInv' /\ AdvInv'
  BY <1>1 DEF TypeOK, ScopeInv, EntryInv, OwnerInv, AdvInv, Registered
<1>4. CountInv' /\ RefsInv'
  BY <1>1, <1>2 DEF CountInv, RefsInv
<1> QED BY <1>3, <1>4

\* An entry leaves the table only with its last reference, so that nobody else
\* is registered for it.
LEMMA DropKeeps ==
  ASSUME NEW p \in Scope, IInv, dialect = "local", Drop(p)
  PROVE  IInv'
<1> USE DEF IInv
<1>1. /\ pc[p] = "release" /\ acquired[p] = {}
      /\ pc' = [pc EXCEPT ![p] = "done"]
      /\ UNCHANGED <<dialect, want, acquired, outcome, made, owner, entry, adv,
                     lost, lingering, faults>>
  BY DEF Drop, pgVars
<1>2. Begun' = Begun
  BY <1>1, BegunKept
<1>3. ASSUME NEW k \in Path
      PROVE  Registrants(k)' = Registrants(k) \ {p}
  BY <1>1 DEF Registrants, TypeOK, Registered
<1>4. ASSUME NEW k \in want[p]
      PROVE  /\ k \in Path /\ entry[p][k] = table[k] /\ table[k] \in Generation
             /\ refs[k][table[k]] = Cardinality(Registrants(k))
             /\ Cardinality(Registrants(k)') = Cardinality(Registrants(k)) - 1
             /\ Cardinality(Registrants(k)') \in {0} \cup Generation
  <2>1. k \in Path /\ entry[p][k] = table[k] /\ table[k] # 0
    BY <1>1 DEF EntryInv, TypeOK, Registered
  <2>2. p \in Registrants(k)
    BY <1>1 DEF Registrants, Registered
  <2>3. Cardinality(Registrants(k)') = Cardinality(Registrants(k)) - 1
    BY <1>3, <2>1, <2>2, ScopesAreFinite, FS_RemoveElement
  <2>4. Registrants(k)' \subseteq Scope
    BY DEF Registrants
  <2>5. Cardinality(Registrants(k)') \in {0} \cup Generation
    BY <2>4, ScopesAreFinite, FS_Subset, FS_CardinalityType DEF Generation
  <2> QED BY <2>1, <2>3, <2>5 DEF TypeOK, RefsInv
<1>5. ASSUME NEW k \in Path
      PROVE  /\ table'[k] = (IF k \in want[p] /\ refs[k][entry[p][k]] = 1
                             THEN 0 ELSE table[k])
             /\ refs'[k] = (IF k \in want[p]
                            THEN [refs[k] EXCEPT ![entry[p][k]]
                                                   = refs[k][entry[p][k]] - 1]
                            ELSE refs[k])
  BY DEF Drop, LastReference
<1>6. TypeOK'
  <2>1. table' \in [Path -> {0} \cup Generation]
    BY <1>5 DEF Drop, TypeOK
  <2>2. ASSUME NEW k \in Path
        PROVE  refs'[k] \in [Generation -> {0} \cup Generation]
    <3>1. refs[k] \in [Generation -> {0} \cup Generation]
      BY DEF TypeOK
    <3>2. CASE k \in want[p]
      <4>1. /\ entry[p][k] \in Generation
            /\ refs[k][entry[p][k]] - 1 \in {0} \cup Generation
        BY <3>2, <1>4
      <4>2. refs'[k] = [refs[k] EXCEPT ![entry[p][k]] = refs[k][entry[p][k]] - 1]
        BY <3>2, <1>5
      <4> QED BY <3>1, <4>1, <4>2
    <3>3. CASE k \notin want[p]
      BY <3>1, <3>3, <1>5
    <3> QED BY <3>2, <3>3
  <2>3. refs' \in [Path -> [Generation -> {0} \cup Generation]]
    BY <2>2 DEF Drop
  <2> QED BY <1>1, <2>1, <2>3 DEF TypeOK, Registered
<1>7. ScopeInv' /\ OwnerInv' /\ AdvInv'
  BY <1>1 DEF ScopeInv, OwnerInv, AdvInv, TypeOK, Registered
<1>8. CountInv'
  <2>1. ASSUME NEW k \in Path
        PROVE  table'[k] <= made'[k] /\ made'[k] <= Cardinality(Begun')
    <3>1. made'[k] = made[k] /\ table'[k] \in {0, table[k]}
      BY <1>1, <1>5
    <3>2. /\ table[k] <= made[k] /\ made[k] <= Cardinality(Begun)
          /\ made[k] \in {0} \cup Generation
      BY DEF TypeOK, CountInv
    <3>3. made[k] \in Nat
      BY <3>2, ScopesAreFinite DEF Generation
    <3> QED BY <3>1, <3>2, <3>3, <1>2
  <2>2. ASSUME NEW k \in Path, NEW g \in Generation, g > made'[k]
        PROVE  refs'[k][g] = 0
    <3>1. /\ refs[k] \in [Generation -> {0} \cup Generation]
          /\ refs[k][g] = 0
      BY <1>1, <2>2 DEF TypeOK, CountInv
    <3>2. CASE k \in want[p]
      <4>1. /\ made'[k] = made[k] /\ made[k] \in {0} \cup Generation
            /\ table[k] <= made[k] /\ entry[p][k] = table[k]
            /\ table[k] \in Generation
        BY <3>2, <1>1, <1>4 DEF CountInv, TypeOK
      <4>2. g # entry[p][k]
        BY <4>1, <2>2, ScopesAreFinite DEF Generation
      <4>3. refs'[k] = [refs[k] EXCEPT ![entry[p][k]] = refs[k][entry[p][k]] - 1]
        BY <3>2, <1>5
      <4> QED BY <3>1, <4>2, <4>3
    <3>3. CASE k \notin want[p]
      BY <3>1, <3>3, <1>5
    <3> QED BY <3>2, <3>3
  <2> QED BY <2>1, <2>2 DEF CountInv
<1>9. EntryInv'
  <2> SUFFICES ASSUME NEW q \in Scope, pc'[q] \in Registered, NEW k \in want'[q]
               PROVE  table'[k] # 0 /\ entry'[q][k] = table'[k]
    BY DEF EntryInv
  <2>1. q # p /\ pc[q] \in Registered /\ k \in want[q] /\ k \in Path
    BY <1>1 DEF TypeOK, Registered
  <2>2. table[k] # 0 /\ entry'[q][k] = table[k]
    BY <2>1, <1>1 DEF EntryInv
  <2>3. CASE k \in want[p]
    <3>1. q \in Registrants(k) \ {p}
      BY <2>1 DEF Registrants
    <3>2. Cardinality(Registrants(k)') # 0
      <4>1. Registrants(k)' = Registrants(k) \ {p} /\ Registrants(k)' # {}
        BY <3>1, <2>1, <1>3
      <4>2. IsFiniteSet(Registrants(k)')
        BY <4>1, ScopesAreFinite, FS_RemoveElement
      <4> QED BY <4>1, <4>2, FS_EmptySet
    <3>3. refs[k][entry[p][k]] # 1
      BY <2>3, <3>2, <1>4, ScopesAreFinite
    <3> QED BY <2>1, <2>2, <3>3, <1>5
  <2>4. CASE k \notin want[p]
    BY <2>1, <2>2, <2>4, <1>5
  <2> QED BY <2>3, <2>4
<1>10. RefsInv'
  <2> SUFFICES ASSUME NEW k \in Path, table'[k] # 0
               PROVE  refs'[k][table'[k]] = Cardinality(Registrants(k)')
    BY DEF RefsInv
  <2>1. table'[k] = table[k] /\ table[k] # 0
    BY <1>5
  <2>2. refs[k] \in [Generation -> {0} \cup Generation]
    BY DEF TypeOK
  <2>3. CASE k \in want[p]
    <3>1. /\ entry[p][k] = table[k] /\ table[k] \in Generation
          /\ refs'[k] = [refs[k] EXCEPT ![entry[p][k]] = refs[k][entry[p][k]] - 1]
      BY <2>3, <1>4, <1>5
    <3>2. refs'[k][table[k]] = refs[k][table[k]] - 1
      BY <2>2, <3>1
    <3> QED BY <2>1, <2>3, <3>2, <1>4
  <2>4. CASE k \notin want[p]
    <3>1. Registrants(k)' = Registrants(k)
      BY <2>4, <1>3 DEF Registrants
    <3> QED BY <2>1, <2>4, <3>1, <1>5 DEF RefsInv
  <2> QED BY <2>3, <2>4
<1> QED BY <1>6, <1>7, <1>8, <1>9, <1>10

-----------------------------------------------------------------------------
(* The steps of the advisory locks                                         *)

\* A scope that takes an advisory lock takes it from no live connection; what
\* is released belongs to one connection only.
LEMMA PostgresKeeps ==
  ASSUME NEW p \in Scope, IInv, PostgresStep(p)
  PROVE  IInv'
<1> USE DEF IInv
<1>1. dialect = "postgresql"
  BY DEF PostgresStep
<1>2. ASSUME UNCHANGED <<dialect, made, table, refs, owner, entry>>,
             Cardinality(Begun) <= Cardinality(Begun'),
             Cardinality(Begun') \in Nat
      PROVE  CountInv' /\ EntryInv' /\ RefsInv' /\ OwnerInv'
  <2>1. CountInv'
    BY <1>2, ScopesAreFinite DEF CountInv, TypeOK, Generation
  <2> QED BY <1>1, <1>2, <2>1 DEF EntryInv, RefsInv, OwnerInv
<1>3. CASE Leave(p)
  BY <1>3, LeaveKeeps
<1>4. ASSUME NEW keys \in (SUBSET Path) \ {{}}, Connect(p, keys)
      PROVE  IInv'
  <2>1. /\ pc[p] = "idle" /\ pc' = [pc EXCEPT ![p] = "acquire"]
        /\ want' = [want EXCEPT ![p] = keys]
        /\ UNCHANGED <<dialect, acquired, outcome, made, table, refs, owner,
                       entry, adv, lost, lingering, faults>>
    BY <1>4 DEF Connect, localVars, pgVars
  <2>2. /\ Cardinality(Begun) <= Cardinality(Begun')
        /\ Cardinality(Begun') \in Nat
    <3>1. /\ Cardinality(Begun') = Cardinality(Begun) + 1
          /\ Cardinality(Begun) \in Nat
      BY <2>1, BegunGrows, ScopesAreFinite
    <3> QED BY <3>1
  <2>3. TypeOK' /\ ScopeInv' /\ AdvInv'
    BY <1>1, <2>1 DEF TypeOK, ScopeInv, AdvInv, Registered
  <2> QED BY <1>2, <2>1, <2>2, <2>3
<1>5. ASSUME NEW k \in Path, TryAdvisory(p, k)
      PROVE  IInv'
  <2>1. /\ pc[p] = "acquire" /\ p \notin lost /\ k \in want[p]
        /\ UNCHANGED <<dialect, want, made, table, refs, owner, entry, lost,
                       lingering, faults>>
    BY <1>5 DEF TryAdvisory, IsNext, localVars
  <2>2. PICK l \in Registered : pc' = [pc EXCEPT ![p] = l] \/ pc' = pc
    BY <1>5, <2>1 DEF TryAdvisory, Locks, GivesUp, Registered
  <2>3. Begun' = Begun
    BY <2>1, <2>2, BegunKept DEF Registered
  <2>4. CASE ~Grantable(p, k)
    <3>1. GivesUp(p, "conflict") /\ UNCHANGED <<adv, acquired>>
      BY <1>5, <2>4 DEF TryAdvisory
    <3>2. TypeOK' /\ ScopeInv' /\ AdvInv'
      BY <1>1, <2>1, <3>1
      DEF TypeOK, ScopeInv, AdvInv, GivesUp, Registered, Outcome
    <3> QED BY <1>2, <2>1, <2>3, <3>2, ScopesAreFinite
  <2>5. CASE Grantable(p, k)
    <3>1. /\ adv' = [adv EXCEPT ![AdvisoryKey[k]] = p]
          /\ acquired' = [acquired EXCEPT ![p] = @ \cup {k}]
          /\ \/ /\ acquired[p] \cup {k} = want[p]
                /\ pc' = [pc EXCEPT ![p] = "inside"]
                /\ outcome' = [outcome EXCEPT ![p] = "won"]
             \/ /\ acquired[p] \cup {k} # want[p]
                /\ UNCHANGED <<pc, outcome>>
      BY <1>5, <2>5 DEF TryAdvisory, Locks
    <3>2. TypeOK' /\ ScopeInv'
      BY <1>1, <2>1, <3>1 DEF TypeOK, ScopeInv, Registered, Outcome
    <3>3. AdvInv'
      <4> SUFFICES ASSUME NEW q \in Scope \ lost, NEW j \in acquired'[q]
                   PROVE  adv'[AdvisoryKey[j]] = q
        BY <2>1 DEF AdvInv
      <4>1. CASE q = p /\ j = k
        BY <4>1, <3>1 DEF TypeOK
      <4>2. CASE ~(q = p /\ j = k)
        <5>1. j \in acquired[q] /\ j \in Path
          BY <4>2, <3>1, <2>1 DEF TypeOK
        <5>2. adv[AdvisoryKey[j]] = q
          BY <5>1, <1>1 DEF AdvInv
        <5>3. AdvisoryKey[j] = AdvisoryKey[k] => q = p
          BY <5>2, <2>5 DEF Grantable
        <5> QED BY <5>1, <5>2, <5>3, <3>1 DEF TypeOK
      <4> QED BY <4>1, <4>2
    <3> QED BY <1>2, <2>1, <2>3, <3>2, <3>3, ScopesAreFinite
  <2> QED BY <2>4, <2>5
<1>6. CASE DatabaseError(p)
  <2>1. /\ pc[p] = "acquire" /\ pc' = [pc EXCEPT ![p] = "release"]
        /\ outcome' = [outcome EXCEPT ![p] = "unavailable"]
        /\ faults' \in 0..MaxFaults
        /\ UNCHANGED <<dialect, want, acquired, made, table, refs, owner, entry,
                       adv, lost, lingering>>
    BY <1>6 DEF DatabaseError, GivesUp, localVars, TypeOK
  <2>2. Begun' = Begun
    BY <2>1, BegunKept
  <2>3. TypeOK' /\ ScopeInv' /\ AdvInv'
    BY <1>1, <2>1 DEF TypeOK, ScopeInv, AdvInv, Registered, Outcome
  <2> QED BY <1>2, <2>1, <2>2, <2>3, ScopesAreFinite
<1>7. CASE Rollback(p) \/ RollbackFails(p)
  <2>1. /\ pc[p] = "release" /\ pc' = [pc EXCEPT ![p] = "done"]
        /\ acquired' = [acquired EXCEPT ![p] = {}]
        /\ adv' = adv \/ adv' = Without(p)
        /\ lost' = lost \ {p} \/ lost' = lost
        /\ lingering' \subseteq lingering \cup {p} /\ faults' \in 0..MaxFaults
        /\ UNCHANGED <<dialect, want, outcome, made, table, refs, owner, entry>>
    BY <1>7 DEF Rollback, RollbackFails, localVars, TypeOK
  <2>2. Begun' = Begun
    BY <2>1, BegunKept
  <2>3. TypeOK'
    <3>1. adv' \in [Key -> Scope \cup {NoOne}] /\ lingering' \subseteq Scope
      BY <2>1 DEF Without, TypeOK
    <3> QED BY <2>1, <3>1 DEF TypeOK, Registered
  <2>5. ScopeInv'
    BY <1>1, <2>1 DEF TypeOK, ScopeInv, Registered
  <2>4. AdvInv'
    <3> SUFFICES ASSUME NEW q \in Scope \ lost', NEW j \in acquired'[q]
                 PROVE  adv'[AdvisoryKey[j]] = q
      BY DEF AdvInv
    <3>1. q # p /\ q \in Scope \ lost /\ j \in acquired[q] /\ j \in Path
      BY <2>1 DEF TypeOK
    <3>2. adv[AdvisoryKey[j]] = q /\ AdvisoryKey[j] \in Key
      BY <3>1, <1>1 DEF AdvInv
    <3> QED BY <2>1, <3>1, <3>2 DEF Without
  <2> QED BY <1>2, <2>1, <2>2, <2>3, <2>4, <2>5, ScopesAreFinite
<1>8. CASE ServerNotices(p) \/ ConnectionLost(p)
  <2>1. /\ acquired[p] = {} \/ p \in lost'
        /\ lost \subseteq lost' /\ lost' \subseteq Scope
        /\ lingering' \subseteq lingering /\ faults' \in 0..MaxFaults
        /\ adv' = Without(p)
        /\ UNCHANGED <<dialect, pc, want, acquired, outcome, made, table, refs,
                       owner, entry>>
    <3>1. CASE ServerNotices(p)
      BY <3>1 DEF ServerNotices, localVars, TypeOK, ScopeInv
    <3>2. CASE ConnectionLost(p)
      BY <3>2 DEF ConnectionLost, localVars, TypeOK
    <3> QED BY <1>8, <3>1, <3>2
  <2>2. Begun' = Begun
    BY <2>1 DEF Begun
  <2>3. TypeOK'
    <3>1. adv' \in [Key -> Scope \cup {NoOne}] /\ lingering' \subseteq Scope
      BY <2>1 DEF Without, TypeOK
    <3> QED BY <2>1, <3>1 DEF TypeOK
  <2>5. ScopeInv'
    BY <1>1, <2>1 DEF ScopeInv
  <2>4. AdvInv'
    <3> SUFFICES ASSUME NEW q \in Scope \ lost', NEW j \in acquired'[q]
                 PROVE  adv'[AdvisoryKey[j]] = q
      BY DEF AdvInv
    <3>1. q # p /\ q \in Scope \ lost /\ j \in acquired[q] /\ j \in Path
      BY <2>1 DEF TypeOK
    <3>2. adv[AdvisoryKey[j]] = q /\ AdvisoryKey[j] \in Key
      BY <3>1, <1>1 DEF AdvInv
    <3> QED BY <2>1, <3>1, <3>2 DEF Without
  <2> QED BY <1>2, <2>1, <2>2, <2>3, <2>4, <2>5, ScopesAreFinite
<1> QED BY <1>3, <1>4, <1>5, <1>6, <1>7, <1>8 DEF PostgresStep

-----------------------------------------------------------------------------
(* The theorems                                                            *)

LEMMA Inductive == Spec => []IInv
<1>1. Init => IInv
  <2> SUFFICES ASSUME Init PROVE IInv
    OBVIOUS
  <2>1. TypeOK
    BY DEF Init, TypeOK, Outcome
  <2>2. CountInv
    BY ScopesAreFinite DEF Init, CountInv
  <2>3. ScopeInv /\ EntryInv /\ RefsInv /\ OwnerInv /\ AdvInv
    BY DEF Init, ScopeInv, EntryInv, RefsInv, OwnerInv, AdvInv, Registered
  <2> QED BY <2>1, <2>2, <2>3 DEF IInv
<1>2. ASSUME IInv, [Next]_vars PROVE IInv'
  <2>1. ASSUME NEW p \in Scope, LocalStep(p) PROVE IInv'
    BY <1>2, <2>1, RegisterKeeps, TryLocalKeeps, UnlockKeeps, LeaveKeeps,
       DropKeeps DEF LocalStep
  <2>2. ASSUME NEW p \in Scope, PostgresStep(p) PROVE IInv'
    BY <1>2, <2>2, PostgresKeeps
  <2>3. CASE UNCHANGED vars
    <3>1. Begun' = Begun /\ \A k : Registrants(k)' = Registrants(k)
      BY <2>3 DEF vars, Begun, Registrants
    <3>2. TypeOK' /\ ScopeInv'
      BY <1>2, <2>3 DEF vars, IInv, TypeOK, ScopeInv
    <3>3. CountInv' /\ RefsInv'
      BY <1>2, <2>3, <3>1 DEF vars, IInv, CountInv, RefsInv
    <3>4. EntryInv' /\ OwnerInv' /\ AdvInv'
      BY <1>2, <2>3 DEF vars, IInv, EntryInv, OwnerInv, AdvInv
    <3> QED BY <3>2, <3>3, <3>4 DEF IInv
  <2> QED BY <1>2, <2>1, <2>2, <2>3 DEF Next
<1> QED BY <1>1, <1>2, PTL DEF Spec

\* The type invariant: reference counts stay within 0 and the number of scopes,
\* and no path gets more lock objects than there are scopes.
THEOREM LocksTypeCorrect == Spec => []TypeOK
BY Inductive, PTL DEF IInv

LEMMA IInvExcludes == IInv => Exclusive
<1> SUFFICES ASSUME IInv, NEW p \in Scope, NEW q \in Scope, p # q,
                    pc[p] = "inside", pc[q] = "inside",
                    p \notin lost, q \notin lost,
                    NEW k \in want[p], k \in want[q]
             PROVE  FALSE
  BY DEF Exclusive
<1>1. k \in acquired[p] /\ k \in acquired[q]
  BY DEF IInv, ScopeInv
<1>2. CASE dialect = "local"
  <2>1. entry[p][k] = entry[q][k]
    BY <1>2 DEF IInv, EntryInv, Registered
  <2> QED BY <1>1, <1>2, <2>1 DEF IInv, OwnerInv
<1>3. CASE dialect = "postgresql"
  BY <1>1, <1>3 DEF IInv, AdvInv
<1> QED BY <1>2, <1>3 DEF IInv, TypeOK

\* Mutations under way at the same time share no key, whichever implementation
\* runs and however paths collide in the hash; only a lost database connection
\* lets a second mutation in.
THEOREM ExclusiveTheorem == Spec => []Exclusive
BY Inductive, IInvExcludes, PTL

\* A step of one scope leaves the others where they are, and a scope chooses its
\* keys only when it begins.
LEMMA StepIsLocal ==
  ASSUME TypeOK, NEW p \in Scope, LocalStep(p) \/ PostgresStep(p)
  PROVE  /\ \A q \in Scope \ {p} :
              /\ pc'[q] = pc[q] /\ want'[q] = want[q]
              /\ q \in lost' <=> q \in lost
         /\ want'[p] = want[p] \/ pc[p] = "idle"
<1> USE DEF TypeOK, localVars, pgVars
<1>1. CASE LocalStep(p)
  <2>1. ASSUME NEW keys \in SUBSET Path, Register(p, keys)
        PROVE  /\ pc' = [pc EXCEPT ![p] = "acquire"] /\ pc[p] = "idle"
               /\ want' = [want EXCEPT ![p] = keys] /\ lost' = lost
    BY <2>1 DEF Register
  <2>2. ASSUME NEW k \in Path, TryLocal(p, k) \/ Unlock(p, k)
        PROVE  /\ \E l \in Registered : pc' = [pc EXCEPT ![p] = l] \/ pc' = pc
               /\ want' = want /\ lost' = lost
    BY <2>2 DEF TryLocal, Unlock, Locks, GivesUp, Registered
  <2>3. ASSUME Leave(p) \/ Drop(p)
        PROVE  /\ \E l \in {"release", "done"} : pc' = [pc EXCEPT ![p] = l]
               /\ want' = want /\ lost' = lost
    BY <2>3 DEF Leave, Drop
  <2> QED BY <1>1, <2>1, <2>2, <2>3 DEF LocalStep
<1>2. CASE PostgresStep(p)
  <2>1. ASSUME NEW keys \in SUBSET Path, Connect(p, keys)
        PROVE  /\ pc' = [pc EXCEPT ![p] = "acquire"] /\ pc[p] = "idle"
               /\ want' = [want EXCEPT ![p] = keys] /\ lost' = lost
    BY <2>1 DEF Connect
  <2>2. ASSUME NEW k \in Path, TryAdvisory(p, k)
        PROVE  /\ \E l \in Registered : pc' = [pc EXCEPT ![p] = l] \/ pc' = pc
               /\ want' = want /\ lost' = lost
    BY <2>2 DEF TryAdvisory, Locks, GivesUp, Registered
  <2>3. ASSUME \/ Leave(p) \/ DatabaseError(p) \/ Rollback(p)
               \/ RollbackFails(p) \/ ServerNotices(p) \/ ConnectionLost(p)
        PROVE  /\ \/ \E l \in {"release", "done"} : pc' = [pc EXCEPT ![p] = l]
                  \/ pc' = pc
               /\ want' = want
               /\ lost' = lost \/ lost' = lost \ {p} \/ lost' = lost \cup {p}
    BY <2>3 DEF Leave, DatabaseError, GivesUp, Rollback, RollbackFails,
         ServerNotices, ConnectionLost
  <2> QED BY <1>2, <2>1, <2>2, <2>3 DEF PostgresStep
<1> QED BY <1>1, <1>2

\* Both implementations refine the mutex: a scope enters it with its last lock
\* and leaves it with the end of its body or with its database connection.
THEOREM MutexTheorem == Spec => ImplementsMutex
<1> DEFINE inside ==
      [p \in Scope |-> IF pc[p] = "inside" /\ p \notin lost THEN want[p] ELSE {}]
<1>1. Init => Mutex!Init
  BY DEF Init, Mutex!Init
<1>2. ASSUME IInv, IInv', Exclusive', [Next]_vars
      PROVE  [Mutex!Next]_inside
  <2>1. ASSUME NEW p \in Scope, LocalStep(p) \/ PostgresStep(p)
        PROVE  Mutex!Next \/ inside' = inside
    <3>1. TypeOK
      BY <1>2 DEF IInv
    <3>2. \A q \in Scope \ {p} : inside'[q] = inside[q]
      BY <2>1, <3>1, StepIsLocal
    <3>3. inside' = [inside EXCEPT ![p] = inside'[p]]
      BY <3>2
    <3>4. CASE inside[p] = {}
      <4> PICK keys \in SUBSET Path : keys = inside'[p]
        <5>1. want'[p] \in SUBSET Path
          BY <1>2 DEF IInv, TypeOK
        <5> QED BY <5>1
      <4>1. \A q \in Scope : inside[q] \cap keys = {}
        <5>1. ASSUME NEW q \in Scope \ {p}
              PROVE  inside'[q] \cap inside'[p] = {}
          BY <1>2 DEF Exclusive
        <5> QED BY <3>2, <3>4, <5>1
      <4>2. Mutex!Enter(p, keys)
        BY <3>3, <3>4, <4>1 DEF Mutex!Enter
      <4> QED BY <4>2 DEF Mutex!Next
    <3>5. CASE inside[p] # {} /\ inside'[p] = {}
      BY <3>3, <3>5 DEF Mutex!Next, Mutex!Leave
    <3>6. CASE inside[p] # {} /\ inside'[p] # {}
      <4>1. want'[p] = want[p]
        BY <2>1, <3>1, <3>6, StepIsLocal
      <4>2. inside'[p] = inside[p]
        BY <3>6, <4>1
      <4>3. inside' = inside
        BY <3>2, <4>2
      <4> QED BY <4>3
    <3> QED BY <3>4, <3>5, <3>6
  <2>2. CASE UNCHANGED vars
    BY <2>2 DEF vars
  <2> QED BY <1>2, <2>1, <2>2 DEF Next
<1> QED BY <1>1, <1>2, Inductive, ExclusiveTheorem, PTL
        DEF Spec, ImplementsMutex, Mutex!Spec

-----------------------------------------------------------------------------
(* What is left behind, and who wins                                       *)

\* The implementation that does not run touches nothing.  A lock object belongs
\* to a scope that has acquired it, an entry to a scope registered for it, and
\* an advisory lock to a connection.
LeakInv ==
  /\ \A k \in Path, g \in Generation : owner[k][g] # NoOne =>
       dialect = "local" /\ k \in acquired[owner[k][g]] /\ entry[owner[k][g]][k] = g
  /\ \A k \in Path : table[k] # 0 => dialect = "local" /\ Registrants(k) # {}
  /\ \A h \in Key : adv[h] # NoOne =>
       /\ dialect = "postgresql"
       /\ \/ adv[h] \in lingering
          \/ /\ pc[adv[h]] \in Registered
             /\ \E k \in acquired[adv[h]] : AdvisoryKey[k] = h

\* A scope has an outcome from the end of its attempt on; only a failure makes
\* it unavailable.
OutcomeInv ==
  /\ \A p \in Scope :
       /\ pc[p] \in {"idle", "acquire"} <=> outcome[p] = "none"
       /\ pc[p] = "inside" => outcome[p] = "won"
       /\ outcome[p] = "unavailable" => faults > 0
  /\ lost # {} \/ lingering # {} => faults > 0

\* The keys are taken in sorted order.
Sorted ==
  \A p \in Scope : \A k \in acquired[p], j \in want[p] \ acquired[p] : k < j

\* No path lies between two that collide with each other and not with it.
Contiguous ==
  \A i, j, k \in Path :
    i < j /\ j < k /\ AdvisoryKey[i] = AdvisoryKey[k] => AdvisoryKey[j] = AdvisoryKey[i]

\* Nothing has failed and nobody has won yet.
Contested == faults = 0 /\ \A p \in Scope : outcome[p] # "won"

\* Somebody is ahead: a scope that still acquires holds a greater key than those
\* who have given up.
Ahead ==
  /\ \A p \in Scope : pc[p] = "release" =>
       \A k \in acquired[p] :
         \E r \in Scope : pc[r] = "acquire" /\ \E j \in acquired[r] : k < j
  /\ (\E p \in Scope : outcome[p] = "conflict") =>
       \E r \in Scope : pc[r] = "acquire" /\ acquired[r] # {}

WinInv ==
  /\ OutcomeInv /\ Sorted
  /\ (dialect = "local" \/ Contiguous) /\ Contested => Ahead

LEMMA LocalKeepsLeakInv ==
  ASSUME NEW p \in Scope, IInv, LeakInv, LocalStep(p)
  PROVE  LeakInv'
<1>1. /\ dialect = "local" /\ dialect' = "local" /\ adv' = adv
      /\ \A h \in Key : adv[h] = NoOne
  BY DEF LocalStep, LeakInv, Register, TryLocal, Unlock, Leave, Drop, pgVars
<1>2. TypeOK /\ ScopeInv /\ EntryInv /\ RefsInv /\ OwnerInv
  BY DEF IInv
<1>3. ASSUME NEW keys \in (SUBSET Path) \ {{}}, Register(p, keys)
      PROVE  LeakInv'
  <2>1. /\ pc[p] = "idle" /\ pc' = [pc EXCEPT ![p] = "acquire"]
        /\ want' = [want EXCEPT ![p] = keys] /\ acquired' = acquired /\ owner' = owner
        /\ entry' = [entry EXCEPT ![p] = table']
        /\ \A k \in Path : table'[k] = IF MustMake(k, keys) THEN made[k] + 1 ELSE table[k]
    BY <1>3 DEF Register
  <2>2. acquired[p] = {}
    BY <1>2, <2>1 DEF ScopeInv
  <2>3. ASSUME NEW k \in Path, NEW g \in Generation, owner[k][g] # NoOne
        PROVE  k \in acquired[owner[k][g]] /\ entry'[owner[k][g]][k] = g
    <3>1. /\ owner[k][g] \in Scope /\ k \in acquired[owner[k][g]]
          /\ entry[owner[k][g]][k] = g
      BY <1>2, <2>3 DEF LeakInv, TypeOK
    <3> QED BY <1>2, <2>1, <2>2, <3>1 DEF TypeOK
  <2>4. ASSUME NEW k \in Path, table'[k] # 0
        PROVE  Registrants(k)' # {}
    <3>1. CASE k \in keys
      <4>1. p \in Registrants(k)'
        BY <1>2, <2>1, <3>1 DEF Registrants, Registered, TypeOK
      <4> QED BY <4>1
    <3>2. CASE k \notin keys
      <4>1. table[k] # 0
        BY <2>1, <2>4, <3>2 DEF MustMake
      <4>2. PICK q \in Scope : pc[q] \in Registered /\ k \in want[q]
        BY <4>1 DEF LeakInv, Registrants
      <4>3. q \in Registrants(k)'
        BY <1>2, <2>1, <4>2 DEF Registrants, Registered, TypeOK
      <4> QED BY <4>3
    <3> QED BY <3>1, <3>2
  <2>5. owner' = owner /\ acquired' = acquired
    BY <2>1
  <2> QED BY <1>1, <2>3, <2>4, <2>5 DEF LeakInv
<1>4. ASSUME NEW k \in Path, TryLocal(p, k)
      PROVE  LeakInv'
  <2>1. /\ pc[p] = "acquire" /\ k \in want[p] /\ k \notin acquired[p]
        /\ want' = want /\ table' = table /\ entry' = entry
    BY <1>4 DEF TryLocal, IsNext
  <2>2. PICK l \in Registered : pc' = [pc EXCEPT ![p] = l] \/ pc' = pc
    BY <1>4, <2>1 DEF TryLocal, Locks, GivesUp, Registered
  <2>3. \A j : Registrants(j)' = Registrants(j)
    BY <1>2, <2>1, <2>2, RegistrantsKept DEF Registered
  <2>4. entry[p][k] \in Generation
    BY <1>1, <1>2, <2>1 DEF EntryInv, TypeOK, Registered
  <2>5. \/ owner' = owner /\ acquired' = acquired
        \/ /\ owner' = [owner EXCEPT ![k][entry[p][k]] = p]
           /\ acquired' = [acquired EXCEPT ![p] = @ \cup {k}]
    BY <1>4 DEF TryLocal, Locks
  <2>6. ASSUME NEW j \in Path, NEW g \in Generation, owner'[j][g] # NoOne
        PROVE  j \in acquired'[owner'[j][g]] /\ entry'[owner'[j][g]][j] = g
    <3>1. CASE owner'[j][g] = owner[j][g]
      <4>1. /\ owner[j][g] \in Scope /\ j \in acquired[owner[j][g]]
            /\ entry[owner[j][g]][j] = g
        BY <1>2, <2>6, <3>1 DEF LeakInv, TypeOK
      <4>2. acquired[owner[j][g]] \subseteq acquired'[owner[j][g]]
        BY <1>2, <2>5, <4>1 DEF TypeOK
      <4> QED BY <2>1, <3>1, <4>1, <4>2
    <3>2. CASE owner'[j][g] # owner[j][g]
      <4>1. j = k /\ g = entry[p][k] /\ owner'[j][g] = p
        BY <1>2, <2>4, <2>5, <3>2 DEF TypeOK
      <4> QED BY <1>2, <2>1, <2>5, <3>2, <4>1 DEF TypeOK
    <3> QED BY <3>1, <3>2
  <2> QED BY <1>1, <2>1, <2>3, <2>6 DEF LeakInv
<1>5. ASSUME NEW k \in Path, Unlock(p, k)
      PROVE  LeakInv'
  <2>1. /\ pc[p] = "release" /\ k \in acquired[p]
        /\ owner' = [owner EXCEPT ![k][entry[p][k]] = NoOne]
        /\ acquired' = [acquired EXCEPT ![p] = @ \ {k}]
        /\ pc' = pc /\ want' = want /\ table' = table /\ entry' = entry
    BY <1>5 DEF Unlock
  <2>2. k \in want[p] /\ entry[p][k] \in Generation
    BY <1>1, <1>2, <2>1 DEF EntryInv, ScopeInv, TypeOK, Registered
  <2>3. \A j : Registrants(j)' = Registrants(j)
    BY <2>1 DEF Registrants
  <2>4. ASSUME NEW j \in Path, NEW g \in Generation, owner'[j][g] # NoOne
        PROVE  j \in acquired'[owner'[j][g]] /\ entry'[owner'[j][g]][j] = g
    <3>1. owner'[j][g] = owner[j][g] /\ ~(j = k /\ g = entry[p][k])
      BY <1>2, <2>1, <2>2, <2>4 DEF TypeOK
    <3>2. /\ owner[j][g] \in Scope /\ j \in acquired[owner[j][g]]
          /\ entry[owner[j][g]][j] = g
      BY <1>2, <2>4, <3>1 DEF LeakInv, TypeOK
    <3>3. ~(owner[j][g] = p /\ j = k)
      BY <3>1, <3>2
    <3> QED BY <1>2, <2>1, <3>1, <3>2, <3>3 DEF TypeOK
  <2> QED BY <1>1, <2>1, <2>3, <2>4 DEF LeakInv
<1>6. CASE Leave(p)
  <2>1. /\ pc[p] = "inside" /\ pc' = [pc EXCEPT ![p] = "release"]
        /\ UNCHANGED <<want, acquired, owner, table, entry>>
    BY <1>6 DEF Leave, localVars
  <2>2. \A j : Registrants(j)' = Registrants(j)
    BY <1>2, <2>1, RegistrantsKept DEF Registered
  <2> QED BY <1>1, <2>1, <2>2 DEF LeakInv
<1>7. CASE Drop(p)
  <2>1. /\ pc[p] = "release" /\ pc' = [pc EXCEPT ![p] = "done"]
        /\ UNCHANGED <<want, acquired, owner, entry>>
        /\ \A k \in Path : table'[k] = IF k \in want[p] /\ refs[k][entry[p][k]] = 1
                                       THEN 0 ELSE table[k]
    BY <1>7 DEF Drop, LastReference
  <2>2. ASSUME NEW k \in Path, table'[k] # 0
        PROVE  Registrants(k)' # {}
    <3>1. table[k] # 0 /\ ~(k \in want[p] /\ refs[k][entry[p][k]] = 1)
      BY <2>1, <2>2
    <3>2. Registrants(k)' = Registrants(k) \ {p}
      BY <1>2, <2>1 DEF Registrants, TypeOK, Registered
    <3>3. CASE k \in want[p]
      <4>1. p \in Registrants(k) /\ entry[p][k] = table[k]
        BY <1>1, <1>2, <2>1, <3>3 DEF Registrants, EntryInv, Registered
      <4>2. Cardinality(Registrants(k)) # 1
        BY <1>1, <1>2, <3>1, <3>3, <4>1 DEF RefsInv
      <4>3. Registrants(k) # {p}
        BY <4>2, FS_Singleton
      <4> QED BY <3>2, <4>1, <4>3
    <3>4. CASE k \notin want[p]
      BY <3>1, <3>2, <3>4 DEF Registrants, LeakInv
    <3> QED BY <3>3, <3>4
  <2> QED BY <1>1, <2>1, <2>2 DEF LeakInv
<1> QED BY <1>3, <1>4, <1>5, <1>6, <1>7 DEF LocalStep

LEMMA PostgresKeepsLeakInv ==
  ASSUME NEW p \in Scope, IInv, LeakInv, PostgresStep(p)
  PROVE  LeakInv'
<1>1. /\ dialect = "postgresql" /\ dialect' = "postgresql"
      /\ owner' = owner /\ table' = table
      /\ \A k \in Path, g \in Generation : owner[k][g] = NoOne
      /\ \A k \in Path : table[k] = 0
  BY DEF PostgresStep, LeakInv, Connect, TryAdvisory, Leave, DatabaseError, Rollback,
         RollbackFails, ServerNotices, ConnectionLost, localVars
<1>2. TypeOK /\ ScopeInv
  BY DEF IInv
<1>3. SUFFICES ASSUME NEW h \in Key, adv'[h] # NoOne
               PROVE  \/ adv'[h] \in lingering'
                      \/ /\ pc'[adv'[h]] \in Registered
                         /\ \E k \in acquired'[adv'[h]] : AdvisoryKey[k] = h
  BY <1>1 DEF LeakInv
<1>4. adv[h] # NoOne =>
        /\ adv[h] \in Scope
        /\ \/ adv[h] \in lingering
           \/ /\ pc[adv[h]] \in Registered
              /\ \E k \in acquired[adv[h]] : AdvisoryKey[k] = h
  BY <1>2 DEF LeakInv, TypeOK
<1>5. ASSUME NEW keys \in (SUBSET Path) \ {{}}, Connect(p, keys)
      PROVE  \/ adv'[h] \in lingering'
             \/ /\ pc'[adv'[h]] \in Registered
                /\ \E k \in acquired'[adv'[h]] : AdvisoryKey[k] = h
  BY <1>2, <1>3, <1>4, <1>5 DEF Connect, pgVars, TypeOK, Registered
<1>6. ASSUME NEW k \in Path, TryAdvisory(p, k)
      PROVE  \/ adv'[h] \in lingering'
             \/ /\ pc'[adv'[h]] \in Registered
                /\ \E j \in acquired'[adv'[h]] : AdvisoryKey[j] = h
  <2>1. pc[p] = "acquire" /\ lingering' = lingering
    BY <1>6 DEF TryAdvisory
  <2>2. PICK l \in Registered : pc' = [pc EXCEPT ![p] = l] \/ pc' = pc
    BY <1>6, <2>1 DEF TryAdvisory, Locks, GivesUp, Registered
  <2>3. \A q \in Scope : pc[q] \in Registered => pc'[q] \in Registered
    BY <1>2, <2>2 DEF TypeOK
  <2>4. CASE adv' = adv /\ acquired' = acquired
    BY <1>3, <1>4, <2>1, <2>3, <2>4
  <2>5. CASE /\ adv' = [adv EXCEPT ![AdvisoryKey[k]] = p]
             /\ acquired' = [acquired EXCEPT ![p] = @ \cup {k}]
    <3>1. CASE h = AdvisoryKey[k]
      BY <1>2, <2>1, <2>3, <2>5, <3>1 DEF TypeOK, Registered
    <3>2. CASE h # AdvisoryKey[k]
      <4>1. adv'[h] = adv[h] /\ adv[h] \in Scope /\ acquired[adv[h]] \subseteq acquired'[adv[h]]
        BY <1>2, <1>3, <1>4, <2>5, <3>2 DEF TypeOK
      <4> QED BY <1>3, <1>4, <2>1, <2>3, <4>1
    <3> QED BY <3>1, <3>2
  <2> QED BY <1>6, <2>4, <2>5 DEF TryAdvisory, Locks
<1>7. CASE Leave(p) \/ DatabaseError(p)
  BY <1>2, <1>3, <1>4, <1>7 DEF Leave, DatabaseError, GivesUp, pgVars, TypeOK, Registered
<1>8. CASE Rollback(p) \/ ServerNotices(p)
  <2>1. /\ adv' = Without(p) /\ lingering \ {p} \subseteq lingering'
        /\ \A q \in Scope \ {p} : pc'[q] = pc[q] /\ acquired'[q] = acquired[q]
    BY <1>2, <1>8 DEF Rollback, ServerNotices, TypeOK
  <2>2. adv'[h] = adv[h] /\ adv[h] # p
    BY <1>3, <2>1 DEF Without
  <2> QED BY <1>3, <1>4, <2>1, <2>2
<1>9. CASE RollbackFails(p)
  BY <1>2, <1>3, <1>4, <1>9 DEF RollbackFails, TypeOK
<1>10. CASE ConnectionLost(p)
  <2>1. /\ adv' = Without(p) /\ lingering' = lingering /\ pc' = pc /\ acquired' = acquired
    BY <1>10 DEF ConnectionLost
  <2> QED BY <1>3, <1>4, <2>1 DEF Without
<1> QED BY <1>5, <1>6, <1>7, <1>8, <1>9, <1>10 DEF PostgresStep

LEMMA LeakInductive == Spec => []LeakInv
<1>1. Init => LeakInv
  BY DEF Init, LeakInv
<1>2. ASSUME IInv, LeakInv, [Next]_vars  PROVE LeakInv'
  <2>1. CASE UNCHANGED vars
    <3>1. \A k : Registrants(k)' = Registrants(k)
      BY <2>1 DEF vars, Registrants
    <3> QED BY <1>2, <2>1, <3>1 DEF vars, LeakInv
  <2> QED BY <1>2, <2>1, LocalKeepsLeakInv, PostgresKeepsLeakInv DEF Next
<1> QED BY <1>1, <1>2, Inductive, PTL DEF Spec

\* When a scope is over, nothing of it is left: a lock object or an advisory lock
\* belongs to a scope under way, or to a connection that the server has not yet
\* noticed to be gone, and a table entry to a scope registered for it.
THEOREM NothingLeaksTheorem == Spec => []NothingLeaks
<1>1. IInv /\ LeakInv => NothingLeaks
  <2> SUFFICES ASSUME IInv, LeakInv  PROVE NothingLeaks
    OBVIOUS
  <2>1. ASSUME NEW k \in Path, NEW g \in Generation, owner[k][g] # NoOne
        PROVE  pc[owner[k][g]] \in Registered
    <3>1. owner[k][g] \in Scope /\ acquired[owner[k][g]] # {}
      BY <2>1 DEF LeakInv, IInv, TypeOK
    <3> QED BY <3>1 DEF IInv, TypeOK, ScopeInv
  <2>2. ASSUME NEW k \in Path, table[k] # 0
        PROVE  \E p \in Scope : pc[p] \in Registered /\ k \in want[p]
    BY <2>2 DEF LeakInv, Registrants
  <2> QED BY <2>1, <2>2 DEF NothingLeaks, LeakInv
<1> QED BY <1>1, Inductive, LeakInductive, PTL

-----------------------------------------------------------------------------
(* Somebody wins                                                           *)

\* What a step does to the attempt of its scope.
Begins(p) ==
  /\ pc[p] = "idle" /\ pc' = [pc EXCEPT ![p] = "acquire"]
  /\ \E keys \in SUBSET Path : want' = [want EXCEPT ![p] = keys]
  /\ acquired' = acquired /\ outcome' = outcome
Gains(p, k) == pc[p] = "acquire" /\ IsNext(p, k) /\ Locks(p, k) /\ want' = want
Loses(p, why) ==
  pc[p] = "acquire" /\ GivesUp(p, why) /\ acquired' = acquired /\ want' = want
Frees(p) ==
  /\ \/ /\ pc[p] = "inside" /\ pc' = [pc EXCEPT ![p] = "release"]
        /\ acquired' = acquired
     \/ /\ pc[p] = "release" /\ pc' = pc
        /\ \E k \in acquired[p] : /\ \A j \in acquired[p] : j <= k
                                  /\ acquired' = [acquired EXCEPT ![p] = @ \ {k}]
     \/ /\ pc[p] = "release" /\ pc' = [pc EXCEPT ![p] = "done"]
        /\ acquired' = [acquired EXCEPT ![p] = {}]
  /\ want' = want /\ outcome' = outcome
Stays == UNCHANGED <<pc, want, acquired, outcome>>

\* Somebody else holds k, or a path that collides with it.
Taken(p, k) ==
  \E r \in Scope \ {p} : \E j \in acquired[r] :
    IF dialect = "local" THEN j = k ELSE AdvisoryKey[j] = AdvisoryKey[k]

\* Every step is one of these.
LEMMA KindsOfSteps ==
  ASSUME NEW p \in Scope, IInv, LeakInv, OutcomeInv, LocalStep(p) \/ PostgresStep(p)
  PROVE  /\ dialect' = dialect /\ faults <= faults' /\ faults \in Nat /\ faults' \in Nat
         /\ lost' # {} \/ lingering' # {} => faults' > 0
         /\ \/ Begins(p)
            \/ \E k \in Path : Gains(p, k)
            \/ \E k \in Path :
                 /\ IsNext(p, k) /\ Loses(p, "conflict")
                 /\ Taken(p, k) \/ faults > 0
            \/ Loses(p, "unavailable") /\ faults' > 0
            \/ Frees(p)
            \/ Stays
<1>1. TypeOK /\ ScopeInv /\ EntryInv /\ faults \in Nat
  BY DEF IInv, TypeOK
<1>2. lost # {} \/ lingering # {} => faults > 0
  BY DEF OutcomeInv
<1>3. CASE LocalStep(p)
  <2>1. dialect = "local" /\ UNCHANGED <<dialect, lost, lingering, faults>>
    BY <1>3 DEF LocalStep, Register, TryLocal, Unlock, Leave, Drop, pgVars
  <2>2. ASSUME NEW keys \in (SUBSET Path) \ {{}}, Register(p, keys)  PROVE Begins(p)
    BY <2>2 DEF Register, Begins
  <2>3. ASSUME NEW k \in Path, TryLocal(p, k), owner[k][entry[p][k]] = NoOne
        PROVE  Gains(p, k)
    BY <2>3 DEF TryLocal, Gains
  <2>4. ASSUME NEW k \in Path, TryLocal(p, k), owner[k][entry[p][k]] # NoOne
        PROVE  IsNext(p, k) /\ Loses(p, "conflict") /\ Taken(p, k)
    <3>1. IsNext(p, k) /\ Loses(p, "conflict") /\ pc[p] = "acquire"
      BY <2>4 DEF TryLocal, Loses
    <3>2. k \in want[p] /\ k \notin acquired[p]
      BY <3>1 DEF IsNext
    <3>3. entry[p][k] \in Generation
      BY <1>1, <2>1, <3>1, <3>2 DEF EntryInv, TypeOK, Registered
    <3>4. /\ owner[k][entry[p][k]] \in Scope
          /\ k \in acquired[owner[k][entry[p][k]]]
      <4>1. owner[k][entry[p][k]] \in Scope \cup {NoOne}
        BY <1>1, <3>3 DEF TypeOK
      <4> QED BY <2>4, <3>3, <4>1 DEF LeakInv
    <3>5. owner[k][entry[p][k]] # p
      BY <3>2, <3>4
    <3> QED BY <2>1, <3>1, <3>4, <3>5 DEF Taken
  <2>5. ASSUME NEW k \in Path, Unlock(p, k)  PROVE Frees(p)
    BY <2>5 DEF Unlock, Frees
  <2>6. ASSUME Leave(p) \/ Drop(p)  PROVE Frees(p)
    <3>1. CASE Leave(p)
      BY <3>1 DEF Leave, Frees
    <3>2. CASE Drop(p)
      <4>1. acquired' = [acquired EXCEPT ![p] = {}]
        BY <1>1, <3>2 DEF Drop, TypeOK
      <4> QED BY <3>2, <4>1 DEF Drop, Frees
    <3> QED BY <2>6, <3>1, <3>2
  <2>7. \/ Begins(p)
        \/ \E k \in Path : Gains(p, k)
        \/ \E k \in Path : IsNext(p, k) /\ Loses(p, "conflict") /\ Taken(p, k)
        \/ Frees(p)
    BY <1>3, <2>2, <2>3, <2>4, <2>5, <2>6 DEF LocalStep
  <2> QED BY <1>1, <1>2, <2>1, <2>7
<1>4. CASE PostgresStep(p)
  <2>1. dialect = "postgresql" /\ dialect' = "postgresql"
    BY <1>4 DEF PostgresStep, Connect, TryAdvisory, Leave, DatabaseError, Rollback,
                RollbackFails, ServerNotices, ConnectionLost
  <2>2. ASSUME NEW keys \in (SUBSET Path) \ {{}}, Connect(p, keys)
        PROVE  Begins(p) /\ UNCHANGED pgVars
    BY <2>2 DEF Connect, Begins
  <2>3. ASSUME NEW k \in Path, TryAdvisory(p, k)
        PROVE  /\ UNCHANGED <<lost, lingering, faults>>
               /\ \/ Gains(p, k)
                  \/ IsNext(p, k) /\ Loses(p, "conflict") /\ (Taken(p, k) \/ faults > 0)
    <3>1. UNCHANGED <<lost, lingering, faults>>
      BY <2>3 DEF TryAdvisory
    <3>2. CASE Grantable(p, k)
      BY <2>3, <3>1, <3>2 DEF TryAdvisory, Gains
    <3>3. CASE ~Grantable(p, k)
      <4>1. IsNext(p, k) /\ Loses(p, "conflict")
        BY <2>3, <3>3 DEF TryAdvisory, Loses
      <4>2. adv[AdvisoryKey[k]] \in Scope \ {p}
        BY <1>1, <3>3 DEF Grantable, TypeOK
      <4>3. Taken(p, k) \/ lingering # {}
        BY <2>1, <4>2 DEF LeakInv, Taken
      <4> QED BY <1>2, <3>1, <4>1, <4>3
    <3> QED BY <3>2, <3>3
  <2>4. ASSUME Leave(p)  PROVE Frees(p) /\ UNCHANGED pgVars
    BY <2>4 DEF Leave, Frees
  <2>5. ASSUME DatabaseError(p)
        PROVE  /\ Loses(p, "unavailable") /\ faults' > 0 /\ faults <= faults'
               /\ faults' \in Nat
    BY <1>1, <1>2, <2>5 DEF DatabaseError, Loses
  <2>6. ASSUME Rollback(p) \/ RollbackFails(p)
        PROVE  /\ Frees(p) /\ faults <= faults' /\ faults' \in Nat
               /\ lost' # {} \/ lingering' # {} => faults' > 0
    <3>1. Frees(p)
      BY <2>6 DEF Rollback, RollbackFails, Frees
    <3>2. faults <= faults' /\ faults' \in Nat
      BY <1>1, <2>6 DEF Rollback, RollbackFails
    <3>3. lost' # {} \/ lingering' # {} => faults' > 0
      BY <1>1, <1>2, <2>6 DEF Rollback, RollbackFails
    <3> QED BY <3>1, <3>2, <3>3
  <2>7. ASSUME ServerNotices(p) \/ ConnectionLost(p)
        PROVE  /\ Stays /\ faults <= faults' /\ faults' \in Nat
               /\ lost' # {} \/ lingering' # {} => faults' > 0
    <3>1. Stays
      BY <2>7 DEF ServerNotices, ConnectionLost, Stays
    <3>2. faults <= faults' /\ faults' \in Nat
      BY <1>1, <2>7 DEF ServerNotices, ConnectionLost
    <3>3. lost' # {} \/ lingering' # {} => faults' > 0
      BY <1>1, <1>2, <2>7 DEF ServerNotices, ConnectionLost
    <3> QED BY <3>1, <3>2, <3>3
  <2>8. lost' # {} \/ lingering' # {} => faults' > 0
    BY <1>1, <1>2, <1>4, <2>2, <2>3, <2>4, <2>5, <2>6, <2>7
       DEF PostgresStep, pgVars, DatabaseError
  <2>9. faults <= faults' /\ faults' \in Nat
    BY <1>1, <1>4, <2>2, <2>3, <2>4, <2>5, <2>6, <2>7 DEF PostgresStep, pgVars
  <2>10. \/ Begins(p)
         \/ \E k \in Path : Gains(p, k)
         \/ \E k \in Path :
              /\ IsNext(p, k) /\ Loses(p, "conflict")
              /\ Taken(p, k) \/ faults > 0
         \/ Loses(p, "unavailable") /\ faults' > 0
         \/ Frees(p)
         \/ Stays
    BY <1>4, <2>2, <2>3, <2>4, <2>5, <2>6, <2>7 DEF PostgresStep
  <2> QED BY <1>1, <2>1, <2>8, <2>9, <2>10
<1> QED BY <1>3, <1>4

LEMMA OutcomesKept ==
  ASSUME NEW p \in Scope, IInv, LeakInv, OutcomeInv, LocalStep(p) \/ PostgresStep(p)
  PROVE  OutcomeInv'
<1>1. TypeOK /\ ScopeInv
  BY DEF IInv
<1>2. /\ faults <= faults' /\ faults \in Nat /\ faults' \in Nat
      /\ lost' # {} \/ lingering' # {} => faults' > 0
      /\ \/ Begins(p)
         \/ \E k \in Path : Gains(p, k)
         \/ Loses(p, "conflict")
         \/ Loses(p, "unavailable") /\ faults' > 0
         \/ Frees(p)
         \/ Stays
  BY KindsOfSteps
<1>3. \A q \in Scope : outcome[q] = "unavailable" => faults' > 0
  BY <1>2 DEF OutcomeInv
<1>4. CASE Begins(p)
  BY <1>1, <1>2, <1>3, <1>4 DEF OutcomeInv, Begins, TypeOK
<1>5. ASSUME NEW k \in Path, Gains(p, k)  PROVE OutcomeInv'
  BY <1>1, <1>2, <1>3, <1>5 DEF OutcomeInv, Gains, Locks, TypeOK
<1>6. CASE Loses(p, "conflict")
  BY <1>1, <1>2, <1>3, <1>6 DEF OutcomeInv, Loses, GivesUp, TypeOK
<1>7. CASE Loses(p, "unavailable") /\ faults' > 0
  BY <1>1, <1>2, <1>3, <1>7 DEF OutcomeInv, Loses, GivesUp, TypeOK
<1>8. CASE Frees(p)
  BY <1>1, <1>2, <1>3, <1>8 DEF OutcomeInv, Frees, TypeOK
<1>9. CASE Stays
  BY <1>1, <1>2, <1>3, <1>9 DEF OutcomeInv, Stays, TypeOK
<1> QED BY <1>2, <1>4, <1>5, <1>6, <1>7, <1>8, <1>9

\* A scope adds the least of the keys it lacks, and frees the greatest it has or
\* all of them.
LEMMA SortedKept ==
  ASSUME NEW p \in Scope, IInv, LeakInv, OutcomeInv, Sorted,
         LocalStep(p) \/ PostgresStep(p)
  PROVE  Sorted'
<1>1. TypeOK /\ ScopeInv
  BY DEF IInv
<1>2. \/ Begins(p)
      \/ \E k \in Path : Gains(p, k)
      \/ \E why \in {"conflict", "unavailable"} : Loses(p, why)
      \/ Frees(p)
      \/ Stays
  BY KindsOfSteps
<1>3. SUFFICES ASSUME NEW q \in Scope, NEW k \in acquired'[q],
                      NEW j \in want'[q], j \notin acquired'[q]
               PROVE  k < j
  BY DEF Sorted
<1>4. CASE want'[q] = want[q] /\ acquired'[q] = acquired[q]
  BY <1>3, <1>4 DEF Sorted
<1>5. CASE Begins(p)
  <2>1. q = p => acquired'[q] = {}
    BY <1>1, <1>5 DEF Begins, ScopeInv
  <2>2. q # p => want'[q] = want[q] /\ acquired'[q] = acquired[q]
    BY <1>1, <1>5 DEF Begins, TypeOK
  <2> QED BY <1>4, <2>1, <2>2
<1>6. ASSUME NEW i \in Path, Gains(p, i)  PROVE k < j
  <2>1. /\ want' = want /\ acquired' = [acquired EXCEPT ![p] = @ \cup {i}]
        /\ i \in want[p] \ acquired[p]
        /\ \A h \in want[p] \ acquired[p] : i <= h
    BY <1>6 DEF Gains, Locks, IsNext
  <2>2. CASE q = p
    <3>1. /\ j \in want[p] \ acquired[p] /\ i <= j /\ j # i
          /\ k \in acquired[p] \/ k = i
      BY <1>1, <1>3, <2>1, <2>2 DEF TypeOK
    <3>2. i \in Nat /\ j \in Nat
      BY <1>1, <2>1, <3>1 DEF TypeOK
    <3> QED BY <3>1, <3>2 DEF Sorted
  <2>3. CASE q # p
    BY <1>1, <1>4, <2>1, <2>3 DEF TypeOK
  <2> QED BY <2>2, <2>3
<1>7. ASSUME NEW why \in {"conflict", "unavailable"}, Loses(p, why)  PROVE k < j
  BY <1>4, <1>7 DEF Loses
<1>8. CASE Frees(p)
  <2>1. CASE acquired' = acquired \/ q # p
    BY <1>1, <1>4, <1>8, <2>1 DEF Frees, TypeOK
  <2>2. CASE q = p /\ acquired' = [acquired EXCEPT ![p] = {}]
    BY <1>1, <1>3, <2>2 DEF TypeOK
  <2>3. ASSUME q = p, want' = want, NEW i \in acquired[p],
               \A h \in acquired[p] : h <= i,
               acquired' = [acquired EXCEPT ![p] = @ \ {i}]
        PROVE  k < j
    <3>1. k \in acquired[p] /\ k # i /\ j \in want[p] /\ (j = i \/ j \notin acquired[p])
      BY <1>1, <1>3, <2>3 DEF TypeOK
    <3>2. i \in Nat /\ k \in Nat
      BY <1>1, <3>1, <2>3 DEF TypeOK
    <3>3. CASE j = i
      BY <2>3, <3>1, <3>2, <3>3
    <3>4. CASE j \notin acquired[p]
      BY <3>1, <3>4 DEF Sorted
    <3> QED BY <3>1, <3>3, <3>4
  <2> QED BY <1>8, <2>1, <2>2, <2>3 DEF Frees
<1>9. CASE Stays
  BY <1>4, <1>9 DEF Stays
<1> QED BY <1>2, <1>5, <1>6, <1>7, <1>8, <1>9

\* Whoever gives up loses to a scope that holds a greater key than each of its
\* own: of two keys of one scope the greater is taken later.
LEMMA Outranked ==
  ASSUME NEW p \in Scope, NEW k \in Path, IInv, LeakInv, OutcomeInv, Sorted,
         dialect = "local" \/ Contiguous, faults = 0,
         pc[p] = "acquire", IsNext(p, k), Taken(p, k)
  PROVE  \E r \in Scope \ {p} : \E j \in acquired[r] : \A i \in acquired[p] : i < j
<1>1. TypeOK /\ ScopeInv /\ AdvInv
  BY DEF IInv
<1>2. PICK r \in Scope \ {p} : \E j \in acquired[r] :
        IF dialect = "local" THEN j = k ELSE AdvisoryKey[j] = AdvisoryKey[k]
  BY DEF Taken
<1>3. PICK j \in acquired[r] :
        IF dialect = "local" THEN j = k ELSE AdvisoryKey[j] = AdvisoryKey[k]
  BY <1>2
<1>4. ASSUME NEW i \in acquired[p]  PROVE i < j
  <2>1. i < k /\ i \in Path /\ j \in Path
    BY <1>1 DEF Sorted, IsNext, TypeOK
  <2>2. CASE dialect = "local"
    BY <1>3, <2>1, <2>2
  <2>3. CASE dialect # "local"
    <3>1. dialect = "postgresql" /\ p \notin lost /\ r \notin lost
      BY <1>1, <2>3 DEF TypeOK, OutcomeInv
    <3>2. adv[AdvisoryKey[i]] = p /\ adv[AdvisoryKey[j]] = r
      BY <1>1, <3>1 DEF AdvInv
    <3>3. AdvisoryKey[i] # AdvisoryKey[j] /\ AdvisoryKey[j] = AdvisoryKey[k]
      BY <1>2, <1>3, <2>3, <3>2
    <3>4. ~(j < i)
      BY <2>1, <2>3, <3>3 DEF Contiguous
    <3>5. i \in Nat /\ j \in Nat /\ i # j
      BY <2>1, <3>3
    <3> QED BY <3>4, <3>5
  <2> QED BY <2>2, <2>3
<1> QED BY <1>2, <1>3, <1>4

\* Whoever is ahead stays so, or somebody gets ahead of it.
LEMMA AheadKept ==
  ASSUME NEW p \in Scope, IInv, LeakInv, WinInv, LocalStep(p) \/ PostgresStep(p),
         dialect' = "local" \/ Contiguous, Contested'
  PROVE  Ahead'
<1>1. TypeOK /\ ScopeInv /\ OutcomeInv /\ Sorted
  BY DEF IInv, WinInv
<1>2. /\ dialect' = dialect /\ faults = 0 /\ faults' = 0
      /\ \/ Begins(p)
         \/ \E k \in Path : Gains(p, k)
         \/ \E k \in Path : IsNext(p, k) /\ Loses(p, "conflict") /\ Taken(p, k)
         \/ Frees(p)
         \/ Stays
  BY <1>1, KindsOfSteps DEF Contested
<1>3. \A q \in Scope : outcome[q] = "won" => outcome'[q] = "won"
  <2>1. CASE outcome' = outcome
    BY <2>1
  <2>2. ASSUME pc[p] = "acquire", NEW why, outcome' = [outcome EXCEPT ![p] = why]
        PROVE  \A q \in Scope : outcome[q] = "won" => outcome'[q] = "won"
    <3>1. outcome[p] = "none"
      BY <1>1, <2>2 DEF OutcomeInv
    <3> QED BY <1>1, <2>2, <3>1 DEF TypeOK
  <2> QED BY <1>2, <2>1, <2>2 DEF Begins, Gains, Locks, Loses, GivesUp, Frees, Stays
<1>4. Ahead /\ Contested
  BY <1>2, <1>3 DEF WinInv, Contested
<1>5. CASE Begins(p)
  <2>1. /\ pc[p] = "idle" /\ pc' = [pc EXCEPT ![p] = "acquire"]
        /\ acquired' = acquired /\ outcome' = outcome
    BY <1>5 DEF Begins
  <2>2. \A q \in Scope : pc[q] = "acquire" => pc'[q] = "acquire"
    BY <1>1, <2>1 DEF TypeOK
  <2>3. \A q \in Scope : pc'[q] = "release" => pc[q] = "release"
    BY <1>1, <2>1 DEF TypeOK
  <2> QED BY <1>4, <2>1, <2>2, <2>3 DEF Ahead
<1>6. ASSUME NEW k \in Path, Gains(p, k)  PROVE Ahead'
  <2>1. pc[p] = "acquire" /\ acquired' = [acquired EXCEPT ![p] = @ \cup {k}]
    BY <1>6 DEF Gains, Locks
  <2>2. pc' = pc /\ outcome' = outcome
    <3>1. CASE acquired[p] \cup {k} = want[p]
      <4>1. outcome'[p] = "won"
        BY <1>1, <1>6, <3>1 DEF Gains, Locks, TypeOK
      <4> QED BY <4>1 DEF Contested
    <3>2. CASE acquired[p] \cup {k} # want[p]
      BY <1>6, <3>2 DEF Gains, Locks
    <3> QED BY <3>1, <3>2
  <2>3. \A q \in Scope : /\ acquired[q] \subseteq acquired'[q]
                         /\ pc[q] = "release" => acquired'[q] = acquired[q]
    BY <1>1, <2>1 DEF TypeOK
  <2> QED BY <1>4, <2>2, <2>3 DEF Ahead
<1>7. ASSUME NEW k \in Path, IsNext(p, k), Loses(p, "conflict"), Taken(p, k)
      PROVE  Ahead'
  <2>1. /\ pc[p] = "acquire" /\ pc' = [pc EXCEPT ![p] = "release"]
        /\ acquired' = acquired
    BY <1>7 DEF Loses, GivesUp
  <2>2. PICK s \in Scope \ {p} :
          \E j \in acquired[s] : \A i \in acquired[p] : i < j
    BY <1>1, <1>2, <1>7, <2>1, Outranked
  <2>3. PICK j \in acquired[s] : \A i \in acquired[p] : i < j
    BY <2>2
  <2>4. \E r \in Scope \ {p} :
          pc[r] = "acquire" /\ \E h \in acquired[r] : \A i \in acquired[p] : i < h
    <3>1. CASE pc[s] = "acquire"
      BY <2>3, <3>1
    <3>2. CASE pc[s] = "release"
      <4>1. PICK r \in Scope : pc[r] = "acquire" /\ \E h \in acquired[r] : j < h
        BY <1>4, <3>2 DEF Ahead
      <4>2. PICK h \in acquired[r] : j < h
        BY <4>1
      <4>3. /\ j \in Nat /\ h \in Nat /\ acquired[p] \subseteq Nat
        BY <1>1, <2>3, <4>2 DEF TypeOK
      <4>4. r # p
        BY <2>3, <4>2, <4>3
      <4>5. \A i \in acquired[p] : i < h
        BY <2>3, <4>2, <4>3
      <4> QED BY <4>1, <4>4, <4>5
    <3>3. pc[s] # "inside"
      BY <1>1, <1>4 DEF OutcomeInv, Contested
    <3>4. pc[s] \notin {"idle", "done"}
      BY <1>1, <2>3 DEF ScopeInv
    <3> QED BY <1>1, <3>1, <3>2, <3>3, <3>4 DEF TypeOK, Registered
  <2>5. PICK r \in Scope \ {p} :
          pc[r] = "acquire" /\ \E h \in acquired[r] : \A i \in acquired[p] : i < h
    BY <2>4
  <2>6. PICK h \in acquired[r] : \A i \in acquired[p] : i < h
    BY <2>5
  <2>7. pc'[r] = "acquire" /\ h \in acquired'[r]
    BY <1>1, <2>1, <2>5, <2>6 DEF TypeOK
  <2>8. ASSUME NEW q \in Scope, pc'[q] = "release", NEW i \in acquired'[q]
        PROVE  \E t \in Scope : pc'[t] = "acquire" /\ \E g \in acquired'[t] : i < g
    <3>1. i \in acquired[q] /\ i \in Nat /\ h \in Nat
      BY <1>1, <2>1, <2>6, <2>8 DEF TypeOK
    <3>2. CASE q = p
      BY <2>6, <2>7, <3>1, <3>2
    <3>3. CASE q # p
      <4>1. pc[q] = "release"
        BY <1>1, <2>1, <2>8, <3>3 DEF TypeOK
      <4>2. PICK t \in Scope : pc[t] = "acquire" /\ \E g \in acquired[t] : i < g
        BY <1>4, <3>1, <4>1 DEF Ahead
      <4>3. CASE t = p
        <5>1. PICK g \in acquired[p] : i < g
          BY <4>2, <4>3
        <5>2. g < h /\ g \in Nat
          BY <1>1, <2>6, <5>1 DEF TypeOK
        <5>3. i < h
          BY <3>1, <5>1, <5>2
        <5> QED BY <2>7, <5>3
      <4>4. CASE t # p
        <5>1. pc'[t] = "acquire"
          BY <1>1, <2>1, <4>2, <4>4 DEF TypeOK
        <5> QED BY <2>1, <4>2, <5>1
      <4> QED BY <4>3, <4>4
    <3> QED BY <3>2, <3>3
  <2> QED BY <2>7, <2>8 DEF Ahead
<1>8. CASE Frees(p)
  <2>1. pc[p] # "inside"
    BY <1>1, <1>4 DEF OutcomeInv, Contested
  <2>2. /\ pc[p] = "release" /\ outcome' = outcome
        /\ pc' = pc \/ pc' = [pc EXCEPT ![p] = "done"]
        /\ \E keys : keys \subseteq acquired[p] /\ acquired' = [acquired EXCEPT ![p] = keys]
    BY <1>1, <1>8, <2>1 DEF Frees, TypeOK
  <2>3. \A q \in Scope : pc[q] = "acquire" => pc'[q] = "acquire" /\ acquired'[q] = acquired[q]
    BY <1>1, <2>2 DEF TypeOK
  <2>4. \A q \in Scope : /\ pc'[q] = "release" => pc[q] = "release"
                         /\ acquired'[q] \subseteq acquired[q]
    BY <1>1, <2>2 DEF TypeOK
  <2> QED BY <1>4, <2>2, <2>3, <2>4 DEF Ahead
<1>9. CASE Stays
  BY <1>4, <1>9 DEF Stays, Ahead
<1> QED BY <1>2, <1>5, <1>6, <1>7, <1>8, <1>9

LEMMA WinInductive == Spec => []WinInv
<1>1. Init => WinInv
  BY DEF Init, WinInv, OutcomeInv, Sorted, Ahead
<1>2. ASSUME IInv, LeakInv, WinInv, [Next]_vars  PROVE WinInv'
  <2>1. ASSUME NEW p \in Scope, LocalStep(p) \/ PostgresStep(p)  PROVE WinInv'
    <3>1. OutcomeInv /\ Sorted
      BY <1>2 DEF WinInv
    <3>2. OutcomeInv' /\ Sorted'
      BY <1>2, <2>1, <3>1, OutcomesKept, SortedKept
    <3>3. ASSUME dialect' = "local" \/ Contiguous, Contested'  PROVE Ahead'
      BY <1>2, <2>1, <3>3, AheadKept
    <3> QED BY <3>2, <3>3 DEF WinInv, Contiguous
  <2>2. CASE UNCHANGED vars
    BY <1>2, <2>2 DEF vars, WinInv, OutcomeInv, Sorted, Ahead, Contested, Contiguous
  <2> QED BY <1>2, <2>1, <2>2 DEF Next
<1> QED BY <1>1, <1>2, Inductive, LeakInductive, PTL DEF Spec

\* Without a database failure, scopes that collide never all give up: one of them
\* ran.  The local locks need nothing for this, the advisory locks that no path
\* lies between two that collide with each other and not with it.
THEOREM SomebodyWinsTheorem ==
  Spec => [](dialect = "local" \/ Contiguous => SomebodyWins)
<1>1. IInv /\ WinInv => (dialect = "local" \/ Contiguous => SomebodyWins)
  <2> SUFFICES ASSUME IInv, WinInv, dialect = "local" \/ Contiguous,
                      \A p \in Scope : pc[p] \in {"idle", "done"}, faults = 0,
                      NEW q \in Scope, pc[q] # "idle",
                      \A p \in Scope : outcome[p] # "won"
               PROVE  FALSE
    BY DEF SomebodyWins
  <2>1. Ahead /\ OutcomeInv
    BY DEF WinInv, Contested
  <2>2. outcome[q] = "conflict"
    BY <2>1 DEF OutcomeInv, IInv, TypeOK, Outcome
  <2>3. \E r \in Scope : pc[r] = "acquire"
    BY <2>1, <2>2 DEF Ahead
  <2> QED BY <2>3
<1> QED BY <1>1, Inductive, WinInductive, PTL
=============================================================================
