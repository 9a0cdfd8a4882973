------------------------ MODULE WorkflowFamilyProofs ------------------------
(* Every safety property of WorkflowFamily, for every number of runs,       *)
(* requests and faults, from one inductive invariant.  A request under way  *)
(* holds the lock of the workspace that its runs share.  So a step is seen  *)
(* from two sides: what it does to the request that takes it, and what      *)
(* every other request may rely on (Rely), from which RelyKeeps concludes,  *)
(* once for all steps, that the others keep their part of the invariant.    *)
EXTENDS WorkflowFamily, TLAPS

(* The inductive invariant.                                                *)

Submitters == Restarting \cup {"start"}
Doing(r) == req[r].pc \notin {"idle", "enter", "done"}

Variables ==
  [kind: Kind \cup {"none"}, run: Run \cup {NoRun}, byName: BOOLEAN,
   pc: Steps, seen: Status, clone: Run \cup {NoRun},
   captured: [Run -> Rule], backup: File \cup {"none"}, result: Result]

\* The type of the state, without what it says of the locks.
Typed ==
  /\ status \in [Run -> Status] /\ rule \in [Run -> Rule]
  /\ home \in [Run -> Run] /\ file \in [Run -> File]
  /\ latest \in Run /\ submitted \in [Run -> Nat]
  /\ held \in [Scope -> SUBSET (Run \cup {Family})]
  /\ req \in [Request -> Variables]
  /\ rwc \in [Request -> {"idle", "working", "committed", "refused"}]
  /\ faults \in 0..MaxFaults
  /\ late \subseteq Run /\ stray \subseteq Run /\ spoiled \subseteq Run
  /\ unlocked \subseteq Deleting \X Run

\* A row.  What has no row has no workspace, rule or submission either; what is
\* not submitted yet has no message.
RowInv ==
  \A u \in Run :
    /\ status[u] = "none" => /\ home[u] = u /\ submitted[u] = 0
                             /\ rule[u] = "none" /\ file[u] = "gone"
    /\ status[u] # "none" => status[home[u]] # "none"
    /\ status[u] = "created" => submitted[u] = 0
    /\ submitted[u] <= 1

\* The steps a request of each kind goes through.
Places(kind) ==
  CASE kind = "none"       -> {"idle"}
    [] kind = "bundle"     -> {"enter", "call", "waiting", "reconcile", "seed",
                               "quota", "compensate", "leaving", "done"}
    [] kind = "submit"     -> {"enter", "call", "waiting", "reconcile", "seed",
                               "quota", "mark", "publish", "compensate",
                               "leaving", "done"}
    [] kind = "start"      -> {"enter", "check", "validate", "mark", "publish",
                               "leaving", "done"}
    [] kind \in Restarting -> {"enter", "check", "clone", "validate",
                               "promote", "mark", "publish", "unwind",
                               "compensate", "leaving", "done"}
    [] kind = "delete"     -> {"enter", "call", "waiting", "leaving", "done"}
    [] kind = "delete_all" -> {"enter", "paths", "call", "waiting", "leaving",
                               "done"}
    [] OTHER               -> {"enter", "apply", "pending", "leaving", "done"}

Unstarted == {"idle", "enter", "check", "clone"}

\* A request: its kind and place, the run it is about, its clone.
RequestInv(r) ==
  /\ req[r].pc \in Places(req[r].kind)
  /\ req[r].pc # "idle" => req[r].run \in Run
  /\ req[r].pc \in {"idle", "enter", "paths", "call"} => rwc[r] = "idle"
  /\ req[r].kind \notin Creating \cup {"none"} => status[req[r].run] # "none"
  /\ req[r].pc \in Unstarted => req[r].clone = NoRun
  /\ req[r].pc \in Unstarted \cup {"validate", "promote"} =>
       req[r].backup = "none"
  /\ req[r].clone # NoRun => /\ req[r].kind \in Restarting
                             /\ status[req[r].clone] # "none"
                             /\ home[req[r].clone] = home[req[r].run]
  /\ req[r].kind \in Restarting /\ req[r].clone = NoRun =>
       req[r].pc \in Unstarted \cup {"leaving", "done"}
  /\ \A u \in Run : req[r].captured[u] # "none" =>
       /\ req[r].kind \in Restarting \cup {"retention"}
       /\ status[u] # "none" /\ home[u] = home[req[r].run] /\ u # req[r].clone

\* The locks of a request under way are what its kind asks for.
LockInv(r) ==
  /\ IF Doing(r) THEN held[<<r, "outer">>] = OuterKeys(r)
                 ELSE held[<<r, "outer">>] = {} /\ held[<<r, "inner">>] = {}
  /\ held[<<r, "inner">>] # {} => req[r].kind = "delete_all"

\* Two requests share no key, no clone and no run that one of them creates.
Apart(r, x) ==
  /\ Holds(r) \cap Holds(x) = {}
  /\ req[r].clone # NoRun => req[x].clone # req[r].clone
  /\ req[r].kind \in Creating =>
       /\ req[x].clone # req[r].run
       /\ req[x].kind \in Creating => req[x].run # req[r].run

\* A creation: its row is there when the controller has committed it; and
\* unless the controller was late or something failed that the code does not
\* undo, it is gone after a failure.
Gone(u) == status[u] \in {"none", "deleted"} /\ file[u] = "gone"
Failed(r) == req[r].result = "failed" /\ req[r].run \notin late \cup spoiled
CreationInv(r) ==
  req[r].kind \in Creating =>
    LET u == req[r].run IN
    /\ home[u] = u
    /\ rwc[r] = "committed" <=> status[u] # "none"
    /\ req[r].pc \in {"seed", "quota", "mark", "publish", "compensate"} =>
         rwc[r] = "committed"
    /\ req[r].pc \in {"leaving", "done"} /\ Failed(r) => Gone(u)

\* Requests that are going to submit their subject.
Underway(r) ==
  \/ /\ req[r].kind \in Creating
     /\ req[r].pc \notin {"compensate", "leaving", "done"}
  \/ /\ req[r].kind = "start"
     /\ \/ req[r].pc \in {"validate", "mark", "publish"}
        \/ req[r].pc = "check" /\ req[r].seen = "created"
  \/ /\ req[r].kind \in Restarting
     /\ req[r].pc \in {"validate", "promote", "mark", "publish"}

\* It has no message yet, and it has not been deleted, unless without its lock.
SubmissionInv(r) ==
  Underway(r) =>
    LET u == Subject(r) IN
    /\ submitted[u] = 0
    /\ status[u] # "deleted" \/ home[u] \in stray
    /\ req[r].pc = "publish" => status[u] \notin {"none", "created"}

\* A run that is about to be started is not one whose creation failed.
StartInv(r) ==
  Underway(r) /\ req[r].kind = "start" =>
    \A x \in Request : req[x].kind \in Creating /\ req[x].run = req[r].run =>
      req[x].pc = "done" /\ ~Failed(x)

\* The specification of a restart is in nobody's workspace before its promotion,
TraceInv(r) ==
  /\ req[r].backup # r
  /\ req[r].backup = "none" => /\ \A h \in Run : file[h] # r
                               /\ \A x \in Request : req[x].backup # r

\* is in place afterwards, and is gone once it is unwound.
Promoted(r) == \/ req[r].pc \in {"mark", "publish"}
               \/ req[r].pc = "leaving" /\ req[r].result = "ok"
Unpromoted(r) == \/ req[r].pc = "compensate"
                 \/ req[r].pc = "leaving" /\ req[r].result = "failed"
PromotionInv(r) ==
  /\ req[r].kind = "replace" /\ Promoted(r) =>
       file[home[req[r].run]] = r \/ home[req[r].run] \in stray
  /\ req[r].kind \in Restarting /\ Unpromoted(r) =>
       file[home[req[r].run]] # r

\* What a restart leaves behind, while it still has its lock.
RestartInv(r) ==
  At(r, Restarting, "leaving") /\ req[r].clone \notin spoiled \cup {NoRun} =>
    /\ req[r].result = "failed" => Undone(r)
    /\ req[r].result = "ok" =>
         status[req[r].clone] \in {"queued", "running", "finished"}
           \/ home[req[r].clone] \in stray

\* The rules that a retention run marked are still marked when it applies them.
RetentionInv(r) ==
  req[r].pc = "pending" =>
    \A u \in Run : req[r].captured[u] # "none" =>
      req[r].captured[u] = "pending" /\ rule[u] = "pending"

\* Between the listing of the workspaces and the deletion no row comes to be
\* outside them, except of a creation that has given up.
DeletionInv(r) ==
  At(r, {"delete_all"}, "call") \/ At(r, {"delete_all"}, "waiting") =>
    \A u \in Run : status[u] # "none" =>
      home[u] \in held[<<r, "inner">>] \cup late

UnlockedInv == \A x \in unlocked : x[1] = "delete_all" => x[2] \in late

IInv ==
  /\ Typed /\ RowInv /\ UnlockedInv
  /\ \A r \in Request :
       /\ RequestInv(r) /\ LockInv(r) /\ CreationInv(r) /\ SubmissionInv(r)
       /\ StartInv(r) /\ TraceInv(r) /\ PromotionInv(r) /\ RestartInv(r)
       /\ RetentionInv(r) /\ DeletionInv(r)
  /\ \A r, x \in Request : r # x => Apart(r, x)

----------------------------------------------------------------------------
(* A step and the requests that do not take it.                            *)

\* r takes a step and stays the request it is; nobody else moves.
Same(r) ==
  /\ req' \in [Request -> Variables]
  /\ \A x \in Request : x # r => req'[x] = req[x]
  /\ req'[r].kind = req[r].kind /\ req'[r].run = req[r].run
Local(r) ==
  /\ Same(r)
  /\ req'[r].seen = req[r].seen /\ req'[r].clone = req[r].clone
  /\ req'[r].captured = req[r].captured /\ req'[r].backup = req[r].backup

LEMMA GotoLocal ==
  ASSUME req \in [Request -> Variables], NEW r \in Request, NEW p \in Steps,
         Goto(r, p)
  PROVE  Local(r) /\ req'[r].pc = p /\ req'[r].result = req[r].result
<1> DEFINE one == [req[r] EXCEPT !.pc = p]
<1>1. req[r] \in Variables
  OBVIOUS
<1>2. one \in Variables
  BY <1>1 DEF Variables
<1>3. req' = [req EXCEPT ![r] = one]
  BY DEF Goto
<1>4. /\ one.kind = req[r].kind /\ one.run = req[r].run /\ one.pc = p
      /\ one.seen = req[r].seen /\ one.clone = req[r].clone
      /\ one.captured = req[r].captured /\ one.backup = req[r].backup
      /\ one.result = req[r].result
  BY <1>1 DEF Variables
<1> HIDE DEF one
<1>5. req' \in [Request -> Variables] /\ req'[r] = one
      /\ \A x \in Request : x # r => req'[x] = req[x]
  BY <1>2, <1>3
<1> QED BY <1>4, <1>5 DEF Local, Same

LEMMA FinishLocal ==
  ASSUME req \in [Request -> Variables], NEW r \in Request, NEW q \in Result,
         Finish(r, q)
  PROVE  Local(r) /\ req'[r].pc = "leaving" /\ req'[r].result = q
<1> DEFINE one == [req[r] EXCEPT !.pc = "leaving"]
<1> DEFINE two == [one EXCEPT !.result = q]
<1>1. req[r] \in Variables
  OBVIOUS
<1>2. one \in Variables
  BY <1>1 DEF Variables, Steps
<1>3. req' = [req EXCEPT ![r] = two]
  BY DEF Finish
<1>4. /\ one.kind = req[r].kind /\ one.run = req[r].run /\ one.pc = "leaving"
      /\ one.seen = req[r].seen /\ one.clone = req[r].clone
      /\ one.captured = req[r].captured /\ one.backup = req[r].backup
  BY <1>1 DEF Variables
<1> HIDE DEF one
<1>5. two \in Variables
  BY <1>2 DEF Variables
<1>6. /\ two.kind = req[r].kind /\ two.run = req[r].run /\ two.pc = "leaving"
      /\ two.seen = req[r].seen /\ two.clone = req[r].clone
      /\ two.captured = req[r].captured /\ two.backup = req[r].backup
      /\ two.result = q
  BY <1>2, <1>4 DEF Variables
<1> HIDE DEF two
<1>7. req' \in [Request -> Variables] /\ req'[r] = two
      /\ \A x \in Request : x # r => req'[x] = req[x]
  BY <1>3, <1>5
<1> QED BY <1>6, <1>7 DEF Local, Same

\* What a request may rely on when another one, or the scheduler or the
\* controller, takes a step.
Grows ==
  /\ \A u \in Run :
       status[u] # "none" => status'[u] # "none" /\ home'[u] = home[u]
  /\ stray \subseteq stray' /\ late \subseteq late'
  /\ spoiled \subseteq spoiled'

Still(x) ==
  /\ req'[x] = req[x] /\ rwc'[x] = rwc[x]
  /\ held'[<<x, "outer">>] = held[<<x, "outer">>]
  /\ held'[<<x, "inner">>] = held[<<x, "inner">>]

\* The runs that use a workspace which x has locked go on running, or are
\* deleted without the lock; their rules are touched by nobody else, except by
\* the end of a run.
Owns(x, u) == status[u] # "none" /\ home[u] \in held[<<x, "outer">>]
OwnRows(x) ==
  \A u \in Run : Owns(x, u) =>
    /\ \/ status'[u] = status[u]
       \/ /\ status[u] \in {"queued", "running"}
          /\ status'[u] \in {"running", "finished"}
       \/ status'[u] = "deleted" /\ home[u] \in stray'
    /\ rule'[u] = rule[u] \/ (rule[u] = "created" /\ rule'[u] = "active")
OwnFile(x) ==
  \A h \in Run : h \in held[<<x, "outer">>] =>
    file'[h] = file[h] \/ (file'[h] = "gone" /\ h \in stray')
OwnMessages(x) ==
  Underway(x) => submitted'[Subject(x)] = submitted[Subject(x)]
OwnCreation(x) ==
  req[x].kind \in Creating =>
    LET u == req[x].run IN
    /\ rwc[x] # "committed" => status'[u] = "none" /\ home'[u] = u
    /\ req[x].pc \in {"leaving", "done"} /\ Failed(x) /\ Gone(u) =>
         status'[u] \in {"none", "deleted"} /\ file'[u] = "gone"

Kept(x) ==
  /\ RequestInv(x) /\ LockInv(x) /\ CreationInv(x) /\ SubmissionInv(x)
  /\ PromotionInv(x) /\ RestartInv(x) /\ RetentionInv(x)

Rely(x) ==
  /\ Still(x) /\ Grows /\ OwnRows(x) /\ OwnFile(x) /\ OwnMessages(x)
  /\ OwnCreation(x)

\* What a request has locked.
LEMMA Owned ==
  ASSUME Typed, NEW x \in Request, RequestInv(x), LockInv(x), CreationInv(x)
  PROVE  /\ Doing(x) /\ req[x].kind \in Creating /\ status[req[x].run] # "none"
           => Owns(x, req[x].run)
         /\ Doing(x) /\ req[x].kind \in Submitters \cup {"retention"} =>
              /\ held[<<x, "outer">>] = {home[req[x].run]}
              /\ req[x].run \in Run /\ Owns(x, req[x].run)
              /\ req[x].clone # NoRun => Owns(x, req[x].clone)
              /\ \A u \in Run : req[x].captured[u] # "none" => Owns(x, u)
         /\ Underway(x) =>
              /\ Subject(x) \in Run
              /\ status[Subject(x)] # "none" =>
                   Doing(x) /\ Owns(x, Subject(x))
              /\ status[Subject(x)] = "none" =>
                   /\ req[x].kind \in Creating /\ Subject(x) = req[x].run
                   /\ rwc[x] # "committed"
<1>3. req[x].run \in Run \cup {NoRun} /\ req[x].clone \in Run \cup {NoRun}
  <2>1. req[x] \in Variables
    BY DEF Typed
  <2> QED BY <2>1 DEF Variables
<1>8. ASSUME Doing(x), req[x].kind \in Creating,
             status[req[x].run] # "none"
      PROVE  Owns(x, req[x].run)
  <2>1. home[req[x].run] = req[x].run
    BY <1>8 DEF CreationInv
  <2>2. req[x].run \in held[<<x, "outer">>]
    <3>1. OuterKeys(x) = {Family, req[x].run}
      BY <1>8 DEF OuterKeys, CreationKeys, Creating
    <3> QED BY <1>8, <3>1 DEF LockInv
  <2> QED BY <1>8, <2>1, <2>2 DEF Owns
<1>9. ASSUME Doing(x), req[x].kind \in Submitters \cup {"retention"}
      PROVE  /\ held[<<x, "outer">>] = {home[req[x].run]}
             /\ req[x].run \in Run /\ Owns(x, req[x].run)
             /\ req[x].clone # NoRun => Owns(x, req[x].clone)
             /\ \A u \in Run : req[x].captured[u] # "none" => Owns(x, u)
  <2>1. req[x].pc # "idle" /\ req[x].kind \notin Creating \cup {"none", "delete_all"}
    BY <1>9 DEF Doing, Submitters, Restarting, Creating
  <2>2. held[<<x, "outer">>] = {home[req[x].run]}
    BY <1>9, <2>1 DEF LockInv, OuterKeys
  <2> QED BY <2>1, <2>2 DEF RequestInv, Owns
<1>11. ASSUME Underway(x)
       PROVE  /\ Subject(x) \in Run
              /\ status[Subject(x)] # "none" => Doing(x) /\ Owns(x, Subject(x))
              /\ status[Subject(x)] = "none" =>
                   /\ req[x].kind \in Creating /\ Subject(x) = req[x].run
                   /\ rwc[x] # "committed"
  <2>1. CASE req[x].kind \in Creating
    <3>1. /\ Subject(x) = req[x].run /\ req[x].run \in Run /\ req[x].pc # "idle"
          /\ req[x].clone = NoRun
      BY <2>1 DEF Subject, RequestInv, Places, Creating, Restarting
    <3>2. CASE status[req[x].run] = "none"
      BY <2>1, <3>1, <3>2 DEF CreationInv
    <3>3. CASE status[req[x].run] # "none"
      <4>1. req[x].pc # "enter"
        BY <2>1, <3>3 DEF CreationInv, RequestInv
      <4>2. Doing(x)
        BY <1>11, <2>1, <3>1, <4>1 DEF Underway, Doing, Creating, Restarting
      <4> QED BY <1>8, <2>1, <3>1, <3>3, <4>2
    <3> QED BY <3>2, <3>3
  <2>2. CASE req[x].kind \in Submitters
    <3>1. Doing(x)
      BY <1>11, <2>2 DEF Underway, Doing, Creating, Restarting, Submitters
    <3>2. Owns(x, Subject(x)) /\ Subject(x) \in Run
      BY <1>3, <1>9, <2>2, <3>1 DEF Subject
    <3> QED BY <3>1, <3>2 DEF Owns
  <2> QED BY <1>11, <2>1, <2>2 DEF Underway, Submitters
<1> QED BY <1>8, <1>9, <1>11

LEMMA RelyKeeps ==
  ASSUME Typed, NEW x \in Request, Kept(x), Rely(x)
  PROVE  Kept(x)'
<1>1. /\ req'[x] = req[x] /\ rwc'[x] = rwc[x]
      /\ held'[<<x, "outer">>] = held[<<x, "outer">>]
      /\ held'[<<x, "inner">>] = held[<<x, "inner">>]
  BY DEF Rely, Still
<1>2. /\ \A u \in Run : status[u] # "none" =>
           status'[u] # "none" /\ home'[u] = home[u]
      /\ stray \subseteq stray' /\ late \subseteq late' /\ spoiled \subseteq spoiled'
  BY DEF Rely, Grows
<1>3. /\ req[x].run \in Run \cup {NoRun} /\ req[x].clone \in Run \cup {NoRun}
      /\ req[x].kind \in Kind \cup {"none"}
      /\ home \in [Run -> Run]
  <2>1. req[x] \in Variables
    BY DEF Typed
  <2> QED BY <2>1 DEF Typed, Variables
<1>4. RequestInv(x)
  BY DEF Kept
<1>r. RequestInv(x)'
  <2>1. req[x].kind \in Restarting \cup {"retention"} =>
          /\ req[x].kind \notin Creating \cup {"none"}
          /\ req[x].run \in Run /\ status[req[x].run] # "none"
    BY <1>3, <1>4 DEF RequestInv, Places, Creating, Restarting
  <2>2. req[x].kind \in Restarting \cup {"retention"} =>
          home'[req[x].run] = home[req[x].run]
    BY <1>2, <2>1
  <2>3. req[x].clone # NoRun => home'[req[x].clone] = home'[req[x].run]
    BY <1>2, <1>3, <1>4, <2>2 DEF RequestInv
  <2>4. ASSUME NEW u \in Run, req[x].captured[u] # "none"
        PROVE  /\ req[x].kind \in Restarting \cup {"retention"}
               /\ status'[u] # "none" /\ home'[u] = home'[req[x].run]
               /\ u # req[x].clone
    <3>1. /\ req[x].kind \in Restarting \cup {"retention"}
          /\ status[u] # "none" /\ home[u] = home[req[x].run] /\ u # req[x].clone
      BY <1>4, <2>4 DEF RequestInv
    <3> QED BY <1>2, <2>2, <3>1
  <2>5. req[x].kind \notin Creating \cup {"none"} => status'[req[x].run] # "none"
    <3>1. req[x].kind \notin Creating \cup {"none"} =>
            req[x].run \in Run /\ status[req[x].run] # "none"
      BY <1>4 DEF RequestInv, Places
    <3> QED BY <1>2, <3>1
  <2>6. req[x].clone # NoRun => status'[req[x].clone] # "none"
    BY <1>2, <1>3, <1>4 DEF RequestInv
  <2> QED BY <1>1, <1>4, <2>3, <2>4, <2>5, <2>6 DEF RequestInv
<1>5. ASSUME Doing(x) PROVE OuterKeys(x)' = OuterKeys(x)
  <2>1. CASE req[x].kind \in Creating \cup {"delete_all"}
    BY <1>1, <2>1 DEF OuterKeys, CreationKeys, Creating
  <2>2. CASE req[x].kind \notin Creating \cup {"delete_all"}
    <3>1. req[x].pc # "idle" /\ req[x].kind # "none"
      BY <1>3, <1>4, <1>5 DEF Doing, RequestInv, Places, Kind, Creating,
         Restarting, Deleting
    <3>2. req[x].run \in Run /\ status[req[x].run] # "none"
      BY <1>4, <2>2, <3>1 DEF RequestInv
    <3>3. home'[req[x].run] = home[req[x].run]
      BY <1>2, <3>2
    <3> QED BY <1>1, <2>2, <3>3 DEF OuterKeys, Creating
  <2> QED BY <2>1, <2>2
<1>6. LockInv(x)
  BY DEF Kept
<1>l. LockInv(x)'
  <2>1. Doing(x)' <=> Doing(x)
    BY <1>1 DEF Doing
  <2> QED BY <1>1, <1>5, <1>6, <2>1 DEF LockInv
<1>7. CreationInv(x)
  BY DEF Kept
<1>c. CreationInv(x)'
  <2> SUFFICES ASSUME req[x].kind \in Creating
               PROVE  CreationInv(x)'
    BY <1>1 DEF CreationInv
  <2>1. req[x].run \in Run
    BY <1>4 DEF RequestInv, Places, Creating
  <2>2. OwnCreation(x)
    BY DEF Rely
  <2>3. Failed(x)' => Failed(x)
    BY <1>1, <1>2 DEF Failed
  <2> QED BY <1>1, <1>2, <1>7, <2>1, <2>2, <2>3 DEF CreationInv, OwnCreation,
             Gone
\* What x has locked while it is under way.
<1>9. ASSUME Doing(x), req[x].kind \in Submitters \cup {"retention"}
      PROVE  /\ held[<<x, "outer">>] = {home[req[x].run]}
             /\ req[x].run \in Run /\ Owns(x, req[x].run)
             /\ req[x].clone # NoRun => Owns(x, req[x].clone)
             /\ \A u \in Run : req[x].captured[u] # "none" => Owns(x, u)
  BY <1>4, <1>6, <1>7, <1>9, Owned
<1>10. OwnRows(x) /\ OwnFile(x) /\ OwnMessages(x)
  BY DEF Rely
<1>11. ASSUME Underway(x)
       PROVE  /\ Subject(x) \in Run
              /\ status[Subject(x)] # "none" => Owns(x, Subject(x))
              /\ status[Subject(x)] = "none" => status'[Subject(x)] # "deleted"
  <2>1. status[Subject(x)] = "none" =>
          /\ req[x].kind \in Creating /\ Subject(x) = req[x].run
          /\ rwc[x] # "committed"
    BY <1>4, <1>6, <1>7, <1>11, Owned
  <2>2. status[Subject(x)] = "none" => status'[Subject(x)] = "none"
    BY <2>1 DEF Rely, OwnCreation
  <2>3. Subject(x) \in Run /\ (status[Subject(x)] # "none" => Owns(x, Subject(x)))
    BY <1>4, <1>6, <1>7, <1>11, Owned
  <2> QED BY <2>2, <2>3
<1>s. SubmissionInv(x)'
  <2> SUFFICES ASSUME Underway(x)
               PROVE  SubmissionInv(x)'
    BY <1>1 DEF SubmissionInv, Underway
  <2> DEFINE u == Subject(x)
  <2>1. u' = u /\ req[x].pc' = req[x].pc
    BY <1>1 DEF Subject
  <2>2. submitted'[u] = 0
    BY <1>10 DEF OwnMessages, SubmissionInv, Kept
  <2>3. status'[u] # "deleted" \/ home'[u] \in stray'
    BY <1>2, <1>10, <1>11 DEF OwnRows, SubmissionInv, Kept
  <2>4. req[x].pc = "publish" => status'[u] \notin {"none", "created"}
    BY <1>2, <1>10, <1>11 DEF OwnRows, SubmissionInv, Kept
  <2> HIDE DEF u
  <2> QED BY <2>1, <2>2, <2>3, <2>4 DEF SubmissionInv, u
<1>12. ASSUME Doing(x), req[x].kind \in Submitters \cup {"retention"}
       PROVE  LET h == home[req[x].run] IN
              /\ home'[req[x].run] = h
              /\ file'[h] = file[h] \/ (file'[h] = "gone" /\ h \in stray')
  BY <1>2, <1>3, <1>9, <1>10, <1>12 DEF OwnFile, Owns
<1>p. PromotionInv(x)'
  <2>1. PromotionInv(x)
    BY DEF Kept
  <2>2. Promoted(x)' <=> Promoted(x)
    BY <1>1 DEF Promoted
  <2>3. Unpromoted(x)' <=> Unpromoted(x)
    BY <1>1 DEF Unpromoted
  <2>4. Promoted(x) \/ Unpromoted(x) => Doing(x)
    BY DEF Promoted, Unpromoted, Doing
  <2>5. CASE Doing(x) /\ req[x].kind \in Restarting
    <3>1. "gone" # x
      BY FamilyAssumption
    <3> QED BY <1>1, <1>2, <1>12, <2>1, <2>2, <2>3, <2>5, <3>1
            DEF PromotionInv, Submitters, Restarting
  <2> QED BY <1>1, <2>2, <2>3, <2>4, <2>5 DEF PromotionInv, Restarting
<1>t. RestartInv(x)'
  <2> SUFFICES ASSUME At(x, Restarting, "leaving"),
                      req[x].clone \notin spoiled \cup {NoRun}
               PROVE  RestartInv(x)'
    BY <1>1, <1>2 DEF RestartInv, At
  <2>1. Doing(x) /\ req[x].kind \in Submitters
    BY DEF At, Doing, Submitters
  <2> DEFINE c == req[x].clone
  <2>2. /\ c \in Run /\ Owns(x, c) /\ c' = c /\ home'[c] = home[c]
        /\ req[x].result' = req[x].result
    BY <1>1, <1>2, <1>3, <1>9, <2>1 DEF Owns
  <2>3. RestartInv(x)
    BY DEF Kept
  <2>4. ASSUME req[x].result = "failed" PROVE Undone(x)'
    <3>1. Undone(x)
      BY <2>3, <2>4 DEF RestartInv
    <3>2. status'[c] = "deleted"
      BY <1>10, <2>2, <3>1 DEF OwnRows, Undone
    <3>3. rule'[c] = "inactive"
      BY <1>10, <2>2, <3>1 DEF OwnRows, Undone
    <3>4. file'[home'[c]] # x
      <4>1. home[c] = home[req[x].run] /\ home[c] \in Run
        BY <1>3, <1>4, <2>2 DEF RequestInv
      <4>2. "gone" # x
        BY FamilyAssumption
      <4> QED BY <1>12, <2>1, <2>2, <3>1, <4>1, <4>2 DEF Undone
    <3>5. ASSUME NEW u \in Run, req[x].captured[u] # "none"
          PROVE  \/ rule'[u] = req[x].captured[u]
                 \/ rule'[u] = "active" /\ req[x].captured[u] = "created"
      BY <1>9, <1>10, <2>1, <3>1, <3>5 DEF OwnRows, Undone
    <3> QED BY <1>1, <2>2, <3>2, <3>3, <3>4, <3>5 DEF Undone
  <2>5. ASSUME req[x].result = "ok"
        PROVE  \/ status'[c] \in {"queued", "running", "finished"}
               \/ home'[c] \in stray'
    BY <1>2, <1>10, <2>2, <2>3, <2>5 DEF OwnRows, RestartInv
  <2> QED BY <2>2, <2>4, <2>5 DEF RestartInv
<1>n. RetentionInv(x)'
  <2> SUFFICES ASSUME req[x].pc = "pending"
               PROVE  RetentionInv(x)'
    BY <1>1 DEF RetentionInv
  <2>1. Doing(x) /\ req[x].kind = "retention"
    BY <1>3, <1>4 DEF Doing, RequestInv, Places, Kind, Creating, Restarting,
       Deleting
  <2> QED BY <1>1, <1>9, <1>10, <2>1 DEF RetentionInv, Kept, OwnRows
<1> QED BY <1>r, <1>l, <1>c, <1>s, <1>p, <1>t, <1>n DEF Kept

----------------------------------------------------------------------------
(* What relates two requests.                                              *)

SameRequests ==
  \A x \in Request : /\ req'[x].kind = req[x].kind /\ req'[x].run = req[x].run
                     /\ req'[x].clone = req[x].clone
                     /\ req'[x].backup = req[x].backup
                     /\ req[x].pc = "done" => req'[x] = req[x]

LEMMA ApartKept ==
  ASSUME SameRequests, \A x \in Request : Holds(x)' \subseteq Holds(x),
         \A y, x \in Request : y # x => Apart(y, x)
  PROVE  \A y, x \in Request : y # x => Apart(y, x)'
<1> SUFFICES ASSUME NEW y \in Request, NEW x \in Request, y # x
             PROVE  Apart(y, x)'
  OBVIOUS
<1>1. Apart(y, x)
  OBVIOUS
<1>2. (Holds(y) \cap Holds(x) = {})'
  BY <1>1 DEF Apart
<1> QED BY <1>1, <1>2 DEF Apart, SameRequests

LEMMA StartKept ==
  ASSUME SameRequests, Grows, NEW x \in Request, StartInv(x),
         Underway(x)' => Underway(x)
  PROVE  StartInv(x)'
<1> SUFFICES ASSUME Underway(x)', req'[x].kind = "start", NEW y \in Request,
                    req'[y].kind \in Creating, req'[y].run = req'[x].run
             PROVE  req'[y].pc = "done" /\ ~Failed(y)'
  BY DEF StartInv
<1>1. /\ req[x].kind = "start" /\ req[y].kind \in Creating
      /\ req[y].run = req[x].run
  BY DEF SameRequests
<1>2. req[y].pc = "done" /\ ~Failed(y)
  BY <1>1 DEF StartInv
<1>3. req'[y] = req[y]
  BY <1>2 DEF SameRequests
<1> QED BY <1>2, <1>3 DEF Failed, Grows

LEMMA TraceKept ==
  ASSUME SameRequests, \A y \in Request : TraceInv(y),
         \A h \in Run : file'[h] \in {file[h], "gone", "own", "empty"}
  PROVE  \A y \in Request : TraceInv(y)'
  BY FamilyAssumption DEF TraceInv, SameRequests

\* A new row is in a workspace of a run that there was, or is late.
NewRowsListed ==
  \A u \in Run : status'[u] # "none" /\ status[u] = "none" =>
    home'[u] \in late' \/ \E v \in Run : status[v] # "none" /\ home'[u] = home[v]

LEMMA DeletionKept ==
  ASSUME Grows, NEW x \in Request, DeletionInv(x),
         At(x, {"delete_all"}, "call")' \/ At(x, {"delete_all"}, "waiting")' =>
           /\ At(x, {"delete_all"}, "call") \/ At(x, {"delete_all"}, "waiting")
           /\ held'[<<x, "inner">>] = held[<<x, "inner">>]
           /\ NewRowsListed
  PROVE  DeletionInv(x)'
<1> SUFFICES ASSUME \/ At(x, {"delete_all"}, "call")'
                    \/ At(x, {"delete_all"}, "waiting")',
                    NEW u \in Run, status'[u] # "none"
             PROVE  home'[u] \in held'[<<x, "inner">>] \cup late'
  BY DEF DeletionInv
<1>1. \A v \in Run : status[v] # "none" =>
        home[v] \in held[<<x, "inner">>] \cup late
  BY DEF DeletionInv
<1>2. CASE status[u] # "none"
  BY <1>1, <1>2 DEF Grows
<1>3. CASE status[u] = "none"
  BY <1>1, <1>3 DEF NewRowsListed, Grows
<1> QED BY <1>2, <1>3

\* IInv in the parts that the lemmas above speak of.
LEMMA Parts ==
  IInv <=> /\ Typed /\ RowInv /\ UnlockedInv
           /\ \A x \in Request : /\ Kept(x) /\ StartInv(x) /\ TraceInv(x)
                                 /\ DeletionInv(x)
           /\ \A y, x \in Request : y # x => Apart(y, x)
  BY DEF IInv, Kept

----------------------------------------------------------------------------
(* Steps of a request that change no row and no lock.                      *)

Quiet(r) ==
  /\ UNCHANGED <<rows, held, late, stray, unlocked>>
  /\ spoiled \subseteq spoiled' /\ spoiled' \subseteq Run
  /\ faults' \in 0..MaxFaults
  /\ rwc' \in [Request -> {"idle", "working", "committed", "refused"}]
  /\ \A x \in Request : x # r => rwc'[x] = rwc[x]
  /\ req[r].kind \in Creating => (rwc'[r] = "committed" <=> rwc[r] = "committed")

LEMMA QuietRely ==
  ASSUME Typed, NEW r \in Request, Quiet(r), NEW x \in Request, x # r,
         req'[x] = req[x], Kept(x)
  PROVE  Rely(x)
<1>1. Still(x) /\ Grows
  BY DEF Quiet, rows, Still, Grows
<1>2. OwnRows(x) /\ OwnFile(x) /\ OwnMessages(x)
  BY DEF Quiet, rows, OwnRows, OwnFile, OwnMessages
<1>3. OwnCreation(x)
  BY DEF Quiet, rows, OwnCreation, Gone, Kept, CreationInv
<1> QED BY <1>1, <1>2, <1>3 DEF Rely

LEMMA Settle ==
  ASSUME IInv, NEW r \in Request, Same(r), Quiet(r),
         req'[r].clone = req[r].clone, req'[r].backup = req[r].backup,
         req[r].pc # "done", Kept(r)', StartInv(r)', DeletionInv(r)'
  PROVE  IInv'
<1>0. /\ Typed /\ RowInv /\ UnlockedInv
      /\ \A x \in Request : /\ Kept(x) /\ StartInv(x) /\ TraceInv(x)
                            /\ DeletionInv(x)
      /\ \A y, x \in Request : y # x => Apart(y, x)
  BY Parts
<1>1. Typed' /\ RowInv' /\ UnlockedInv'
  BY <1>0 DEF Quiet, rows, Same, Typed, RowInv, UnlockedInv
<1>2. SameRequests /\ Grows /\ NewRowsListed
  BY DEF Quiet, rows, Same, SameRequests, Grows, NewRowsListed
<1>3. \A x \in Request : x # r => Kept(x)' /\ req'[x] = req[x]
  BY <1>0, QuietRely, RelyKeeps DEF Same
<1>4. \A y, x \in Request : y # x => Apart(y, x)'
  BY <1>0, <1>2, ApartKept DEF Quiet, Holds
<1>5. \A x \in Request : TraceInv(x)'
  BY <1>0, <1>2, TraceKept DEF Quiet, rows
<1>6. \A x \in Request : x # r => StartInv(x)'
  BY <1>0, <1>2, <1>3, StartKept DEF Underway
<1>7. \A x \in Request : x # r => DeletionInv(x)'
  BY <1>0, <1>2, <1>3, DeletionKept DEF Quiet, At
<1> QED BY <1>1, <1>3, <1>4, <1>5, <1>6, <1>7, Parts DEF IInv, Kept

LEMMA PlacesOf ==
  /\ Places("none") = {"idle"}
  /\ Places("bundle") = {"enter", "call", "waiting", "reconcile", "seed", "quota",
                         "compensate", "leaving", "done"}
  /\ Places("submit") = {"enter", "call", "waiting", "reconcile", "seed", "quota",
                         "mark", "publish", "compensate", "leaving", "done"}
  /\ Places("start") = {"enter", "check", "validate", "mark", "publish",
                        "leaving", "done"}
  /\ \A k \in Restarting :
       Places(k) = {"enter", "check", "clone", "validate", "promote", "mark",
                    "publish", "unwind", "compensate", "leaving", "done"}
  /\ Places("delete") = {"enter", "call", "waiting", "leaving", "done"}
  /\ Places("delete_all") = {"enter", "paths", "call", "waiting", "leaving", "done"}
  /\ Places("retention") = {"enter", "apply", "pending", "leaving", "done"}
  BY DEF Places, Creating, Restarting, Deleting

\* The kinds that can be at a place.
LEMMA KindsAt ==
  ASSUME Typed, NEW r \in Request, RequestInv(r)
  PROVE  /\ req[r].kind \in Kind \cup {"none"}
         /\ req[r].kind = "none" <=> req[r].pc = "idle"
         /\ req[r].pc \in {"reconcile", "seed", "quota"} =>
              req[r].kind \in Creating
         /\ req[r].pc \in {"call", "waiting"} =>
              req[r].kind \in Creating \cup Deleting
         /\ req[r].pc = "check" => req[r].kind \in Submitters
         /\ req[r].pc = "validate" => req[r].kind \in Submitters
         /\ req[r].pc \in {"clone", "promote", "unwind"} =>
              req[r].kind \in Restarting
         /\ req[r].pc \in {"mark", "publish"} =>
              req[r].kind \in {"submit"} \cup Submitters
         /\ req[r].pc = "compensate" => req[r].kind \in Creating \cup Restarting
         /\ req[r].pc = "paths" => req[r].kind = "delete_all"
         /\ req[r].pc \in {"apply", "pending"} => req[r].kind = "retention"
<1>1. req[r] \in Variables
  BY DEF Typed
<1>2. req[r].kind \in Kind \cup {"none"}
  BY <1>1 DEF Variables
<1>3. /\ req[r].kind = "bundle" \/ req[r].kind = "submit"
         \/ req[r].kind = "start" \/ req[r].kind \in Restarting
         \/ req[r].kind = "delete" \/ req[r].kind = "delete_all"
         \/ req[r].kind = "retention" \/ req[r].kind = "none"
  BY <1>2 DEF Kind, Creating, Deleting
<1>4. req[r].pc \in Places(req[r].kind)
  BY DEF RequestInv
<1> QED BY <1>2, <1>3, <1>4, PlacesOf DEF Creating, Deleting, Submitters

\* What is known of a request that is under way.
LEMMA Doings ==
  ASSUME Typed, NEW r \in Request, RequestInv(r), LockInv(r), Doing(r)
  PROVE  /\ req[r].kind \in Kind /\ req[r].run \in Run
         /\ req[r].clone \in Run \cup {NoRun}
         /\ req[r].pc \notin {"idle", "enter", "done"}
         /\ held[<<r, "outer">>] = OuterKeys(r)
         /\ "leaving" \in Places(req[r].kind)
         /\ home \in [Run -> Run]
<1>1. req[r] \in Variables /\ home \in [Run -> Run]
  BY DEF Typed
<1>2. req[r].kind \in Kind \cup {"none"} /\ req[r].clone \in Run \cup {NoRun}
  BY <1>1 DEF Variables
<1>3. req[r].kind # "none"
  BY PlacesOf DEF RequestInv, Doing
<1>4. req[r].pc \notin {"idle", "enter", "done"} /\ req[r].run \in Run
      /\ held[<<r, "outer">>] = OuterKeys(r)
  BY DEF RequestInv, LockInv, Doing
<1>5. "leaving" \in Places(req[r].kind)
  BY <1>2, <1>3, PlacesOf DEF Kind, Creating, Deleting
<1> QED BY <1>1, <1>2, <1>3, <1>4, <1>5

\* A request gives up, or is done.
LEMMA FinishKeeps ==
  ASSUME IInv, NEW r \in Request, NEW q \in Result, Finish(r, q), Doing(r),
         Quiet(r),
         req[r].kind \in Restarting =>
           q # "ok" /\ (q = "failed" => req[r].pc \in Unstarted),
         req[r].kind \in Creating /\ q = "failed" =>
           rwc[r] # "committed" \/ req[r].run \in spoiled'
  PROVE  IInv'
<1>0. Typed /\ RowInv /\ Kept(r) /\ StartInv(r) /\ TraceInv(r)
  BY Parts
<1>1. Local(r) /\ req'[r].pc = "leaving" /\ req'[r].result = q
  BY <1>0, FinishLocal DEF Typed
<1>2. /\ req'[r].kind = req[r].kind /\ req'[r].run = req[r].run
      /\ req'[r].clone = req[r].clone /\ req'[r].captured = req[r].captured
      /\ req'[r].backup = req[r].backup /\ req'[r].seen = req[r].seen
  BY <1>1 DEF Local, Same
<1>3. /\ req[r].kind \in Kind /\ req[r].run \in Run
      /\ req[r].clone \in Run \cup {NoRun}
      /\ req[r].pc \notin {"idle", "enter", "done"}
      /\ held[<<r, "outer">>] = OuterKeys(r)
      /\ "leaving" \in Places(req[r].kind)
      /\ home \in [Run -> Run]
  BY <1>0, Doings DEF Kept
<1>4. /\ status' = status /\ home' = home /\ rule' = rule /\ file' = file
      /\ submitted' = submitted /\ held' = held /\ late' = late
      /\ stray' = stray /\ spoiled \subseteq spoiled'
      /\ req[r].kind \in Creating =>
           (rwc'[r] = "committed" <=> rwc[r] = "committed")
  BY DEF Quiet, rows
<1>5. RequestInv(r)'
  BY <1>0, <1>1, <1>2, <1>3, <1>4 DEF Kept, RequestInv, Unstarted
<1>6. LockInv(r)'
  <2>1. OuterKeys(r)' = OuterKeys(r) /\ Doing(r)'
    BY <1>1, <1>2, <1>4 DEF OuterKeys, CreationKeys, Doing
  <2> QED BY <1>0, <1>2, <1>4, <2>1 DEF Kept, LockInv
<1>7. CreationInv(r)'
  <2>1. ASSUME req[r].kind \in Creating, Failed(r)'
        PROVE  Gone(req[r].run)
    BY <1>0, <1>1, <1>2, <1>3, <2>1 DEF Failed, Gone, Kept, CreationInv, RowInv
  <2> QED BY <1>0, <1>1, <1>2, <1>4, <2>1 DEF Kept, CreationInv, Gone
<1>8. SubmissionInv(r)' /\ StartInv(r)' /\ RetentionInv(r)' /\ DeletionInv(r)'
  BY <1>1, <1>2 DEF SubmissionInv, StartInv, RetentionInv, DeletionInv,
     Underway,
                    At, Creating, Restarting
<1>9. PromotionInv(r)'
  <2>1. req[r].kind \in Restarting /\ q = "failed" => file[home[req[r].run]] # r
    BY <1>0, <1>3 DEF Kept, RequestInv, TraceInv
  <2> QED BY <1>1, <1>2, <1>4, <2>1 DEF PromotionInv, Promoted, Unpromoted,
             Restarting
<1>10. RestartInv(r)'
  <2>1. req[r].kind \in Restarting /\ q = "failed" => req[r].clone = NoRun
    BY <1>0 DEF Kept, RequestInv
  <2> QED BY <1>1, <1>2, <2>1 DEF RestartInv, At
<1> QED BY <1>1, <1>2, <1>3, <1>5, <1>6, <1>7, <1>8, <1>9, <1>10, Settle
           DEF Kept, Local

\* A request goes on.
LEMMA GotoKeeps ==
  ASSUME IInv, NEW r \in Request, NEW p \in Steps, Goto(r, p), Doing(r), Quiet(r),
         p \in Places(req[r].kind),
         p \notin Unstarted \cup {"leaving", "done", "publish", "pending", "call",
                                "paths"},
         Underway(r)' => Underway(r),
         req[r].kind \in Creating /\ p \notin {"waiting", "reconcile"} =>
           rwc[r] = "committed",
         req[r].kind \in Restarting => req[r].clone # NoRun /\ p # "compensate",
         req[r].kind = "replace" => p # "mark",
         p = "waiting" => req[r].pc = "call",
         p \in {"validate", "promote"} => req[r].pc \in {"check", "validate"}
  PROVE  IInv'
<1>0. Typed /\ RowInv /\ Kept(r) /\ StartInv(r) /\ TraceInv(r) /\ DeletionInv(r)
  BY Parts
<1>1. Local(r) /\ req'[r].pc = p /\ req'[r].result = req[r].result
  BY <1>0, GotoLocal DEF Typed
<1>2. /\ req'[r].kind = req[r].kind /\ req'[r].run = req[r].run
      /\ req'[r].clone = req[r].clone /\ req'[r].captured = req[r].captured
      /\ req'[r].backup = req[r].backup /\ req'[r].seen = req[r].seen
      /\ \A x \in Request : x # r => req'[x] = req[x]
  BY <1>1 DEF Local, Same
<1>3. /\ req[r].kind \in Kind /\ req[r].run \in Run
      /\ req[r].clone \in Run \cup {NoRun}
      /\ req[r].pc \notin {"idle", "enter", "done"}
      /\ held[<<r, "outer">>] = OuterKeys(r)
      /\ home \in [Run -> Run]
  BY <1>0, Doings DEF Kept
<1>4. /\ status' = status /\ home' = home /\ rule' = rule /\ file' = file
      /\ submitted' = submitted /\ held' = held /\ late' = late
      /\ stray' = stray /\ spoiled \subseteq spoiled'
      /\ req[r].kind \in Creating =>
           (rwc'[r] = "committed" <=> rwc[r] = "committed")
  BY DEF Quiet, rows
<1>5. RequestInv(r)'
  BY <1>0, <1>1, <1>2, <1>3, <1>4 DEF Kept, RequestInv, Unstarted
<1>6. LockInv(r)'
  <2>1. OuterKeys(r)' = OuterKeys(r) /\ Doing(r)'
    BY <1>1, <1>2, <1>4 DEF OuterKeys, CreationKeys, Doing, Unstarted
  <2> QED BY <1>0, <1>2, <1>4, <2>1 DEF Kept, LockInv
<1>7. CreationInv(r)'
  BY <1>0, <1>1, <1>2, <1>4 DEF Kept, CreationInv, Unstarted
<1>8. SubmissionInv(r)'
  <2>1. Subject(r)' = Subject(r)
    BY <1>2 DEF Subject
  <2> QED BY <1>0, <1>1, <1>4, <2>1 DEF Kept, SubmissionInv
<1>9. StartInv(r)'
  <2>1. SameRequests /\ Grows
    BY <1>1, <1>2, <1>3, <1>4 DEF SameRequests, Grows, Local, Same
  <2> QED BY <1>0, <2>1, StartKept
<1>10. RetentionInv(r)' /\ RestartInv(r)'
  BY <1>1, <1>2 DEF RetentionInv, RestartInv, At
<1>11. DeletionInv(r)'
  BY <1>0, <1>1, <1>2, <1>4 DEF DeletionInv, At
<1>12. PromotionInv(r)'
  BY <1>1, <1>2 DEF PromotionInv, Promoted, Unpromoted, Restarting
<1> QED BY <1>1, <1>2, <1>3, <1>5, <1>6, <1>7, <1>8, <1>9, <1>10, <1>11, <1>12,
           Settle DEF Kept, Local

LEMMA FaultyBound ==
  ASSUME Typed, Faulty \/ faults' = faults
  PROVE  faults' \in 0..MaxFaults
  BY FamilyAssumption DEF Typed, Faulty

\* A request that does not look after what it has begun: the failure of a
\* submission, with or without a clone.
LEMMA FailFromKeeps ==
  ASSUME IInv, NEW r \in Request, FailFrom(r), Doing(r), Quiet(r),
         req[r].pc # "leaving",
         req[r].kind \in Creating => req[r].run \in spoiled'
  PROVE  IInv'
<1>0. Typed /\ RequestInv(r)
  BY Parts DEF Kept
<1>1. CASE req[r].clone # NoRun
  <2>1. Goto(r, "unwind")
    BY <1>1 DEF FailFrom
  <2>2. req[r].kind \in Restarting
    BY <1>0, <1>1 DEF RequestInv
  <2>3. "unwind" \in Places(req[r].kind)
    BY <2>2, PlacesOf
  <2>4. Local(r) /\ req'[r].pc = "unwind"
    BY <1>0, <2>1, GotoLocal DEF Typed, Steps
  <2>5. Underway(r)' => Underway(r)
    BY <2>2, <2>4 DEF Underway, Local, Same, Restarting, Creating
  <2> QED BY <1>1, <2>1, <2>2, <2>3, <2>5, GotoKeeps
             DEF Steps, Unstarted, Restarting, Creating
<1>2. CASE req[r].clone = NoRun
  <2>1. Finish(r, "failed")
    BY <1>2 DEF FailFrom
  <2>2. req[r].kind \in Restarting => req[r].pc \in Unstarted
    BY <1>0, <1>2 DEF RequestInv, Doing
  <2> QED BY <2>1, <2>2, FinishKeeps DEF Result
<1> QED BY <1>1, <1>2

LEMMA CrashKeeps ==
  ASSUME IInv, NEW r \in Request, Crash(r)
  PROVE  IInv'
<1>1. Typed
  BY Parts
<1>2. Quiet(r)
  BY <1>1, FaultyBound DEF Crash, Quiet, history, Typed
<1> QED BY <1>2, FinishKeeps DEF Crash, Doing, Result

LEMMA CallKeeps ==
  ASSUME IInv, NEW r \in Request, Call(r)
  PROVE  IInv'
<1>1. Typed /\ RequestInv(r) /\ CreationInv(r)
  BY Parts DEF Kept
<1>2. Doing(r)
  BY DEF Call, Doing
<1>3. /\ rwc' \in [Request -> {"idle", "working", "committed", "refused"}]
      /\ rwc'[r] = "working" /\ \A x \in Request : x # r => rwc'[x] = rwc[x]
  BY <1>1 DEF Call, Typed
<1>4. req[r].kind \in Creating \cup Deleting
  BY <1>1, KindsAt DEF Call
<1>5. "waiting" \in Places(req[r].kind)
  BY <1>4, PlacesOf DEF Creating, Deleting
<1>6. Quiet(r)
  BY <1>1, <1>3, FaultyBound DEF Call, Quiet, history, Typed, CreationInv,
     RequestInv
<1>7. Underway(r)' => Underway(r)
  <2>1. Local(r)
    BY <1>1, GotoLocal DEF Call, Typed, Steps
  <2> QED BY <1>4, <2>1 DEF Underway, Local, Same, Call, Creating, Deleting,
             Restarting
<1> QED BY <1>2, <1>4, <1>5, <1>6, <1>7, GotoKeeps
           DEF Call, Steps, Unstarted, Creating, Deleting, Restarting

LEMMA RwcRefusesKeeps ==
  ASSUME IInv, NEW r \in Request, RwcRefuses(r)
  PROVE  IInv'
<1>1. /\ Typed /\ RowInv /\ UnlockedInv
      /\ \A x \in Request : /\ Kept(x) /\ StartInv(x) /\ TraceInv(x)
                            /\ DeletionInv(x)
      /\ \A y, x \in Request : y # x => Apart(y, x)
  BY Parts
<1>2. /\ rwc' \in [Request -> {"idle", "working", "committed", "refused"}]
      /\ rwc'[r] = "refused" /\ \A x \in Request : x # r => rwc'[x] = rwc[x]
  BY <1>1 DEF RwcRefuses, Typed
<1>3. rwc[r] = "working" /\ req' = req /\ held' = held /\ faults' = faults
      /\ UNCHANGED <<rows, late, stray, unlocked, spoiled>>
  BY DEF RwcRefuses, history
<1>4. \A x \in Request : x # r => Kept(x)'
  <2>1. Quiet(r)
    BY <1>1, <1>2, <1>3, FaultyBound DEF Quiet, Typed
  <2> QED BY <1>1, <1>3, <2>1, QuietRely, RelyKeeps
<1>5. Kept(r)'
  <2>1. Kept(r)
    BY <1>1
  <2>2. CreationInv(r)'
    BY <1>2, <1>3, <2>1 DEF rows, Kept, CreationInv, Failed, Gone
  <2>3. RequestInv(r)' /\ LockInv(r)' /\ SubmissionInv(r)'
    BY <1>3, <2>1 DEF rows, Kept, RequestInv, LockInv, SubmissionInv,
       OuterKeys,
                      CreationKeys, Doing, Underway, Subject
  <2>4. PromotionInv(r)' /\ RestartInv(r)' /\ RetentionInv(r)'
    BY <1>3, <2>1 DEF rows, Kept, PromotionInv, Promoted, Unpromoted,
       RestartInv,
                      At, Undone, RetentionInv
  <2> QED BY <2>2, <2>3, <2>4 DEF Kept
<1>6. Typed' /\ RowInv' /\ UnlockedInv'
  BY <1>1, <1>2, <1>3 DEF rows, Typed, RowInv, UnlockedInv
<1>7. \A x \in Request : StartInv(x)' /\ TraceInv(x)' /\ DeletionInv(x)'
  BY <1>1, <1>3 DEF rows, StartInv, Underway, Failed, TraceInv, DeletionInv, At
<1>8. \A y, x \in Request : y # x => Apart(y, x)'
  BY <1>1, <1>3 DEF Apart, Holds
<1> QED BY <1>4, <1>5, <1>6, <1>7, <1>8, Parts DEF IInv, Kept

LEMMA AnsweredKeeps ==
  ASSUME IInv, NEW r \in Request, Answered(r)
  PROVE  IInv'
<1>1. Typed /\ RequestInv(r) /\ CreationInv(r)
  BY Parts DEF Kept
<1>2. Doing(r)
  BY DEF Answered, Doing
<1>3. req[r].kind \in Creating \cup Deleting
  BY <1>1, KindsAt DEF Answered
<1>4. Quiet(r)
  BY <1>1, FaultyBound DEF Answered, Quiet, history, Typed
<1>5. CASE rwc[r] = "committed" /\ req[r].kind \in Creating /\ Goto(r, "seed")
  <2>1. "seed" \in Places(req[r].kind)
    BY <1>5, PlacesOf DEF Creating
  <2>2. Underway(r)
    BY <1>5 DEF Underway, Answered
  <2> QED BY <1>2, <1>4, <1>5, <2>1, <2>2, GotoKeeps
             DEF Steps, Unstarted, Creating, Restarting
<1>6. CASE Finish(r, "ok") /\ req[r].kind \notin Creating
  BY <1>2, <1>3, <1>4, <1>6, FinishKeeps DEF Result, Deleting, Restarting
<1>7. CASE Finish(r, "failed") /\ rwc[r] = "refused"
  BY <1>2, <1>3, <1>4, <1>7, FinishKeeps DEF Result, Creating, Deleting,
     Restarting
<1> QED BY <1>5, <1>6, <1>7 DEF Answered

\* What a creation does that looks for its row.
LEMMA ReconciledKeeps ==
  ASSUME IInv, NEW r \in Request, Reconciled(r) \/ Uncompensated(r), Doing(r),
         Quiet(r), req[r].kind \in Creating
  PROVE  IInv'
<1>1. CASE Goto(r, "compensate") /\ rwc[r] = "committed"
  <2>1. "compensate" \in Places(req[r].kind)
    BY PlacesOf DEF Creating
  <2>2. Local(r) /\ req'[r].pc = "compensate"
    BY <1>1, GotoLocal, Parts DEF Typed, Steps
  <2>3. ~Underway(r)'
    BY <2>2 DEF Underway, Local, Same, Creating, Restarting
  <2> QED BY <1>1, <2>1, <2>3, GotoKeeps
             DEF Steps, Unstarted, Creating, Restarting
<1>2. CASE Finish(r, "failed") /\ (rwc[r] # "committed" \/ req[r].run \in spoiled')
  BY <1>2, FinishKeeps DEF Result, Creating, Restarting
<1> QED BY <1>1, <1>2 DEF Reconciled, Uncompensated

\* The same when nothing is looked for: a deletion.
LEMMA DeletionFails ==
  ASSUME IInv, NEW r \in Request, Finish(r, "failed"), Doing(r), Quiet(r),
         req[r].kind \in Deleting
  PROVE  IInv'
  BY FinishKeeps DEF Result, Creating, Deleting, Restarting

LEMMA AnsweredServerErrorKeeps ==
  ASSUME IInv, NEW r \in Request, AnsweredServerError(r)
  PROVE  IInv'
<1>1. Typed /\ RequestInv(r)
  BY Parts DEF Kept
<1>2. Doing(r)
  BY DEF AnsweredServerError, Doing
<1>3. req[r].kind \in Creating \cup Deleting
  BY <1>1, KindsAt DEF AnsweredServerError
<1>4. spoiled \subseteq spoiled' /\ spoiled' \subseteq Run
  BY <1>1, <1>2, <1>3 DEF AnsweredServerError, Uncompensated, Typed,
     RequestInv, Doing
<1>5. Quiet(r)
  BY <1>1, <1>4, FaultyBound DEF AnsweredServerError, Quiet, Typed
<1> QED BY <1>2, <1>3, <1>5, ReconciledKeeps, DeletionFails
           DEF AnsweredServerError

LEMMA TimedOutKeeps ==
  ASSUME IInv, NEW r \in Request, TimedOut(r)
  PROVE  IInv'
<1>1. Typed /\ RequestInv(r)
  BY Parts DEF Kept
<1>2. Doing(r)
  BY DEF TimedOut, Doing
<1>3. req[r].kind \in Creating \cup Deleting
  BY <1>1, KindsAt DEF TimedOut
<1>5. Quiet(r)
  BY <1>1, FaultyBound DEF TimedOut, Quiet, Typed, history
<1>6. CASE req[r].kind \in Creating
  <2>1. "reconcile" \in Places(req[r].kind)
    BY <1>6, PlacesOf DEF Creating
  <2>2. Underway(r)
    BY <1>6 DEF Underway, TimedOut
  <2> QED BY <1>2, <1>5, <1>6, <2>1, <2>2, GotoKeeps
             DEF TimedOut, Steps, Unstarted, Creating, Restarting
<1> QED BY <1>2, <1>3, <1>5, <1>6, DeletionFails DEF TimedOut

LEMMA ReconcileKeeps ==
  ASSUME IInv, NEW r \in Request, Reconcile(r)
  PROVE  IInv'
<1>1. Typed /\ RequestInv(r)
  BY Parts DEF Kept
<1>2. Doing(r)
  BY DEF Reconcile, Doing
<1>3. req[r].kind \in Creating
  BY <1>1, KindsAt DEF Reconcile
<1>4. spoiled \subseteq spoiled' /\ spoiled' \subseteq Run
  BY <1>1, <1>2, <1>3 DEF Reconcile, Uncompensated, Typed, RequestInv, Doing
<1>5. Quiet(r)
  BY <1>1, <1>4, FaultyBound DEF Reconcile, Quiet, Typed
<1> QED BY <1>2, <1>3, <1>5, ReconciledKeeps DEF Reconcile

LEMMA ChargeQuotaKeeps ==
  ASSUME IInv, NEW r \in Request, ChargeQuota(r)
  PROVE  IInv'
<1>1. Typed /\ RequestInv(r) /\ CreationInv(r)
  BY Parts DEF Kept
<1>2. Doing(r) /\ req[r].kind \in Creating /\ req[r].pc = "quota"
  BY DEF ChargeQuota, Doing, At
<1>3. rwc[r] = "committed"
  BY <1>1, <1>2 DEF CreationInv
<1>4. spoiled \subseteq spoiled' /\ spoiled' \subseteq Run
  BY <1>1, <1>2 DEF ChargeQuota, Uncompensated, Typed, RequestInv, history
<1>5. Quiet(r)
  BY <1>1, <1>4, FaultyBound DEF ChargeQuota, Quiet, Typed, history
<1>6. CASE Finish(r, "ok")
  BY <1>2, <1>5, <1>6, FinishKeeps DEF Result, Creating, Restarting
<1>7. CASE Goto(r, "mark") /\ req[r].kind # "bundle"
  <2>1. "mark" \in Places(req[r].kind)
    BY <1>2, <1>7, PlacesOf DEF Creating
  <2>2. Underway(r)
    BY <1>2 DEF Underway
  <2> QED BY <1>2, <1>3, <1>5, <1>7, <2>1, <2>2, GotoKeeps
             DEF Steps, Unstarted, Creating, Restarting
<1>8. CASE Goto(r, "compensate") \/ Uncompensated(r)
  BY <1>2, <1>3, <1>5, <1>8, ReconciledKeeps DEF Reconciled
<1> QED BY <1>6, <1>7, <1>8 DEF ChargeQuota

LEMMA ValidateKeeps ==
  ASSUME IInv, NEW r \in Request, Validate(r)
  PROVE  IInv'
<1>1. Typed /\ RequestInv(r)
  BY Parts DEF Kept
<1>2. Doing(r) /\ req[r].pc = "validate"
  BY DEF Validate, Doing
<1>3. req[r].kind \in Submitters
  BY <1>1, <1>2, KindsAt
<1>4. Quiet(r)
  BY <1>1, FaultyBound DEF Validate, Quiet, Typed, history
<1>5. Underway(r)
  BY <1>2, <1>3 DEF Underway, Submitters
<1>6. req[r].kind \in Restarting => req[r].clone # NoRun
  BY <1>1, <1>2 DEF RequestInv, Unstarted
<1>7. CASE Goto(r, IF req[r].kind = "replace" THEN "promote" ELSE "mark")
  <2>1. CASE req[r].kind = "replace"
    BY <1>2, <1>4, <1>5, <1>6, <1>7, <2>1, GotoKeeps, PlacesOf
       DEF Steps, Unstarted, Creating, Restarting
  <2>2. CASE req[r].kind # "replace"
    BY <1>2, <1>3, <1>4, <1>5, <1>6, <1>7, <2>2, GotoKeeps, PlacesOf
       DEF Steps, Unstarted, Creating, Restarting, Submitters
  <2> QED BY <2>1, <2>2
<1>8. CASE FailFrom(r)
  BY <1>2, <1>3, <1>4, <1>8, FailFromKeeps DEF Submitters, Restarting, Creating
<1> QED BY <1>7, <1>8 DEF Validate

LEMMA CheckKeeps ==
  ASSUME IInv, NEW r \in Request, Check(r)
  PROVE  IInv'
<1>1. Typed /\ Kept(r) /\ RequestInv(r) /\ StartInv(r) /\ TraceInv(r)
  BY Parts DEF Kept
<1>2. Doing(r) /\ req[r].pc = "check"
  BY DEF Check, Doing
<1>3. req[r].kind \in Submitters
  BY <1>1, <1>2, KindsAt
<1>4. Quiet(r)
  BY <1>1, FaultyBound DEF Check, Quiet, Typed, history
<1>5. CASE Finish(r, "conflict")
  BY <1>2, <1>3, <1>4, <1>5, FinishKeeps DEF Result, Submitters, Creating,
     Restarting
<1>6. CASE req[r].kind = "start" /\ req[r].seen = "created" /\ Goto(r, "validate")
  <2>1. Underway(r)
    BY <1>2, <1>6 DEF Underway
  <2> QED BY <1>2, <1>4, <1>6, <2>1, GotoKeeps, PlacesOf
             DEF Steps, Unstarted, Creating, Restarting
<1>7. CASE /\ req[r].kind # "start"
           /\ req' = [req EXCEPT ![r].pc = "clone",
                        ![r].captured = RulesOf(home[req[r].run])]
  <2> DEFINE h == home[req[r].run]
             one == [req[r] EXCEPT !.pc = "clone"]
             two == [one EXCEPT !.captured = RulesOf(h)]
  <2>1. req[r].kind \in Restarting /\ req[r] \in Variables
        /\ req \in [Request -> Variables]
    BY <1>1, <1>3, <1>7 DEF Submitters, Typed
  <2>2. RulesOf(h) \in [Run -> Rule]
    BY <1>1 DEF RulesOf, Typed, Rule
  <2>3. req' = [req EXCEPT ![r] = two]
    BY <1>7
  <2>4. one \in Variables
    BY <2>1 DEF Variables, Steps
  <2>5. /\ one.kind = req[r].kind /\ one.run = req[r].run /\ one.pc = "clone"
        /\ one.seen = req[r].seen /\ one.clone = req[r].clone
        /\ one.backup = req[r].backup /\ one.result = req[r].result
    BY <2>1 DEF Variables
  <2> HIDE DEF one
  <2>6. two \in Variables
    BY <2>2, <2>4 DEF Variables
  <2>7. /\ two.kind = req[r].kind /\ two.run = req[r].run /\ two.pc = "clone"
        /\ two.seen = req[r].seen /\ two.clone = req[r].clone
        /\ two.backup = req[r].backup /\ two.captured = RulesOf(h)
    BY <2>4, <2>5 DEF Variables
  <2> HIDE DEF two
  <2>8. /\ req' \in [Request -> Variables] /\ req'[r] = two
        /\ \A x \in Request : x # r => req'[x] = req[x]
    BY <2>1, <2>3, <2>6
  <2>9. Same(r)
    BY <2>7, <2>8 DEF Same
  <2>10. req[r].clone = NoRun /\ req[r].run \in Run /\ h \in Run
    BY <1>1, <1>2 DEF RequestInv, Unstarted, Typed
  <2>11. /\ status' = status /\ home' = home /\ rule' = rule /\ file' = file
         /\ submitted' = submitted /\ held' = held /\ late' = late
    BY <1>4 DEF Quiet, rows
  <2>12. \A u \in Run : RulesOf(h)[u] # "none" => status[u] # "none" /\ home[u] = h
    BY DEF RulesOf, Sharing
  <2>13. RequestInv(r)'
    <3>1. "clone" \in Places(req[r].kind)
      BY <2>1, PlacesOf
    <3>2. \A u \in Run : RulesOf(h)[u] # "none" => u # req[r].clone
      BY <2>10, FamilyAssumption
    <3> QED BY <1>1, <1>2, <2>1, <2>7, <2>8, <2>10, <2>11, <2>12, <3>1, <3>2
               DEF RequestInv, Unstarted
  <2>14. LockInv(r)'
    <3>1. OuterKeys(r)' = OuterKeys(r) /\ Doing(r)'
      BY <2>7, <2>8, <2>11 DEF OuterKeys, CreationKeys, Doing
    <3> QED BY <1>1, <1>2, <2>7, <2>8, <2>11, <3>1 DEF Kept, LockInv
  <2>15. CreationInv(r)' /\ SubmissionInv(r)' /\ StartInv(r)'
    BY <2>1, <2>7, <2>8 DEF CreationInv, SubmissionInv, StartInv, Underway,
       Creating,
                            Restarting
  <2>16. PromotionInv(r)' /\ RestartInv(r)' /\ RetentionInv(r)' /\ DeletionInv(r)'
    BY <2>7, <2>8 DEF PromotionInv, Promoted, Unpromoted, RestartInv,
       RetentionInv,
                      DeletionInv, At
  <2> QED BY <1>2, <1>4, <2>7, <2>8, <2>9, <2>13, <2>14, <2>15, <2>16,
             Settle DEF Kept
<1> QED BY <1>5, <1>6, <1>7 DEF Check

LEMMA RefuseKeeps ==
  ASSUME IInv, NEW r \in Request, Refuse(r)
  PROVE  IInv'
<1>1. Typed /\ Kept(r) /\ RequestInv(r) /\ StartInv(r) /\ DeletionInv(r)
  BY Parts DEF Kept
<1>2. Quiet(r)
  BY <1>1, FaultyBound DEF Refuse, Quiet, Typed, history
<1>3. CASE req[r].pc = "paths" /\ Finish(r, "conflict")
  <2>1. Doing(r) /\ req[r].kind \in Deleting
    BY <1>1, <1>3, KindsAt DEF Doing, Deleting
  <2> QED BY <1>2, <1>3, <2>1, FinishKeeps DEF Result, Creating, Deleting,
             Restarting
<1>4. CASE /\ req[r].pc = "enter"
           /\ req' = [req EXCEPT ![r].pc = "done", ![r].result = "conflict"]
  <2> DEFINE one == [req[r] EXCEPT !.pc = "done"]
             two == [one EXCEPT !.result = "conflict"]
  <2>1. req[r] \in Variables /\ req \in [Request -> Variables]
    BY <1>1 DEF Typed
  <2>3. req' = [req EXCEPT ![r] = two]
    BY <1>4
  <2>4. one \in Variables
    BY <2>1 DEF Variables, Steps
  <2>5. /\ one.kind = req[r].kind /\ one.run = req[r].run /\ one.pc = "done"
        /\ one.seen = req[r].seen /\ one.clone = req[r].clone
        /\ one.backup = req[r].backup /\ one.captured = req[r].captured
    BY <2>1 DEF Variables
  <2> HIDE DEF one
  <2>6. two \in Variables
    BY <2>4 DEF Variables, Result
  <2>7. /\ two.kind = req[r].kind /\ two.run = req[r].run /\ two.pc = "done"
        /\ two.seen = req[r].seen /\ two.clone = req[r].clone
        /\ two.backup = req[r].backup /\ two.captured = req[r].captured
        /\ two.result = "conflict"
    BY <2>4, <2>5 DEF Variables
  <2> HIDE DEF two
  <2>8. /\ req' \in [Request -> Variables] /\ req'[r] = two
        /\ \A x \in Request : x # r => req'[x] = req[x]
    BY <2>1, <2>3, <2>6
  <2>9. Same(r)
    BY <2>7, <2>8 DEF Same
  <2>11. /\ status' = status /\ home' = home /\ rule' = rule /\ file' = file
         /\ submitted' = submitted /\ held' = held /\ late' = late
         /\ req[r].kind \in Creating =>
              (rwc'[r] = "committed" <=> rwc[r] = "committed")
    BY <1>2 DEF Quiet, rows
  <2>12. req[r].kind \in Kind /\ "done" \in Places(req[r].kind)
    BY <1>1, <1>4, KindsAt, PlacesOf DEF Kind, Creating, Deleting
  <2>13. RequestInv(r)'
    BY <1>1, <1>4, <2>7, <2>8, <2>11, <2>12 DEF RequestInv, Unstarted
  <2>14. LockInv(r)'
    BY <1>1, <1>4, <2>7, <2>8, <2>11 DEF Kept, LockInv, Doing
  <2>15. CreationInv(r)'
    BY <1>1, <2>7, <2>8, <2>11 DEF Kept, CreationInv, Failed
  <2>16. SubmissionInv(r)' /\ StartInv(r)'
    BY <2>7, <2>8 DEF SubmissionInv, StartInv, Underway, Creating, Restarting
  <2>17. PromotionInv(r)' /\ RestartInv(r)' /\ RetentionInv(r)' /\ DeletionInv(r)'
    BY <2>7, <2>8 DEF PromotionInv, Promoted, Unpromoted, RestartInv,
       RetentionInv,
                      DeletionInv, At
  <2> QED BY <1>2, <1>4, <2>7, <2>8, <2>9, <2>13, <2>14, <2>15, <2>16, <2>17,
             Settle
             DEF Kept
<1> QED BY <1>3, <1>4 DEF Refuse

----------------------------------------------------------------------------
(* Entering and leaving the lock scopes.                                   *)

LockStep(r) ==
  /\ UNCHANGED <<rows, rwc, faults, history>>
  /\ held' \in [Scope -> SUBSET (Run \cup {Family})]
  /\ \A x \in Request : x # r =>
       /\ held'[<<x, "outer">>] = held[<<x, "outer">>]
       /\ held'[<<x, "inner">>] = held[<<x, "inner">>]

LEMMA LockRely ==
  ASSUME Typed, NEW r \in Request, LockStep(r), NEW x \in Request, x # r,
         req'[x] = req[x], Kept(x)
  PROVE  Rely(x)
<1>1. Still(x) /\ Grows
  BY DEF LockStep, rows, history, Still, Grows
<1>2. OwnRows(x) /\ OwnFile(x) /\ OwnMessages(x)
  BY DEF LockStep, rows, history, OwnRows, OwnFile, OwnMessages
<1>3. OwnCreation(x)
  BY DEF LockStep, rows, history, OwnCreation, Gone, Kept, CreationInv
<1> QED BY <1>1, <1>2, <1>3 DEF Rely

LEMMA SettleLocks ==
  ASSUME IInv, NEW r \in Request, Same(r), LockStep(r),
         req'[r].clone = req[r].clone, req'[r].backup = req[r].backup,
         req[r].pc # "done", Kept(r)', StartInv(r)', DeletionInv(r)',
         \A x \in Request : x # r => Holds(r)' \cap Holds(x) = {}
  PROVE  IInv'
<1>0. /\ Typed /\ RowInv /\ UnlockedInv
      /\ \A x \in Request : /\ Kept(x) /\ StartInv(x) /\ TraceInv(x)
                            /\ DeletionInv(x)
      /\ \A y, x \in Request : y # x => Apart(y, x)
  BY Parts
<1>1. Typed' /\ RowInv' /\ UnlockedInv'
  BY <1>0 DEF LockStep, rows, history, Same, Typed, RowInv, UnlockedInv
<1>2. SameRequests /\ Grows
  BY DEF LockStep, rows, history, Same, SameRequests, Grows
<1>3. \A x \in Request : x # r => Kept(x)' /\ req'[x] = req[x]
  BY <1>0, LockRely, RelyKeeps DEF Same
<1>4. \A x \in Request : x # r => Holds(x)' = Holds(x)
  BY DEF LockStep, Holds
<1>5. \A y, x \in Request : y # x => Apart(y, x)'
  <2> SUFFICES ASSUME NEW y \in Request, NEW x \in Request, y # x
               PROVE  Apart(y, x)'
    OBVIOUS
  <2>1. Apart(y, x)
    BY <1>0
  <2>2. Holds(y)' \cap Holds(x)' = {}
    BY <1>4, <2>1 DEF Apart
  <2> QED BY <1>2, <2>1, <2>2 DEF Apart, SameRequests
<1>6. \A x \in Request : TraceInv(x)'
  BY <1>0, <1>2, TraceKept DEF LockStep, rows
<1>7. \A x \in Request : x # r => StartInv(x)'
  BY <1>0, <1>2, <1>3, StartKept DEF Underway
<1>8. \A x \in Request : x # r => DeletionInv(x)'
  BY <1>0, <1>3 DEF LockStep, rows, history, DeletionInv, At
<1> QED BY <1>1, <1>3, <1>5, <1>6, <1>7, <1>8, Parts DEF IInv, Kept

LEMMA LeaveInnerKeeps ==
  ASSUME IInv, NEW r \in Request, LeaveInner(r)
  PROVE  IInv'
<1>0. /\ Typed /\ Kept(r) /\ StartInv(r) /\ DeletionInv(r)
      /\ \A x \in Request : x # r => Apart(r, x)
  BY Parts
<1>1. /\ req' = req /\ req[r].pc = "leaving"
      /\ UNCHANGED <<rows, rwc, faults, history>>
      /\ held' = [held EXCEPT ![<<r, "inner">>] = {}]
  BY DEF LeaveInner, M!Leave
<1>2. /\ held \in [Scope -> SUBSET (Run \cup {Family})]
      /\ \A x \in Request : <<x, "inner">> \in Scope /\ <<x, "outer">> \in Scope
  BY <1>0 DEF Typed, Scope
<1>3. /\ held'[<<r, "inner">>] = {} /\ held'[<<r, "outer">>] = held[<<r, "outer">>]
      /\ LockStep(r)
  BY <1>1, <1>2 DEF LockStep
<1>4. Same(r)
  BY <1>0, <1>1 DEF Same, Typed
<1>5. LockInv(r)'
  BY <1>0, <1>1, <1>3 DEF Kept, LockInv, rows, Doing, OuterKeys, CreationKeys
<1>6. RequestInv(r)' /\ CreationInv(r)' /\ SubmissionInv(r)' /\ StartInv(r)'
  BY <1>0, <1>1 DEF rows, history, Kept, RequestInv, CreationInv, Failed, Gone,
                    SubmissionInv, Subject, Underway, StartInv
<1>7. PromotionInv(r)' /\ RestartInv(r)' /\ RetentionInv(r)' /\ DeletionInv(r)'
  BY <1>0, <1>1 DEF rows, history, Kept, PromotionInv, Promoted, Unpromoted,
     RestartInv, At,
                    Undone, RetentionInv, DeletionInv
<1>8. \A x \in Request : x # r => Holds(r)' \cap Holds(x) = {}
  BY <1>0, <1>3 DEF Apart, Holds
<1> QED BY <1>1, <1>3, <1>4, <1>5, <1>6, <1>7, <1>8, SettleLocks DEF Kept

LEMMA LeaveKeeps ==
  ASSUME IInv, NEW r \in Request, Leave(r)
  PROVE  IInv'
<1>0. /\ Typed /\ Kept(r) /\ StartInv(r) /\ DeletionInv(r)
      /\ \A x \in Request : x # r => Apart(r, x)
  BY Parts
<1>1. /\ req[r].pc = "leaving" /\ held[<<r, "inner">>] = {}
      /\ UNCHANGED <<rows, rwc, faults, history>>
      /\ held' = [held EXCEPT ![<<r, "outer">>] = {}]
      /\ Goto(r, "done")
  BY DEF Leave, M!Leave, InnerIsLeft
<1>2. /\ held \in [Scope -> SUBSET (Run \cup {Family})]
      /\ \A x \in Request : <<x, "inner">> \in Scope /\ <<x, "outer">> \in Scope
  BY <1>0 DEF Typed, Scope
<1>3. /\ held'[<<r, "inner">>] = {} /\ held'[<<r, "outer">>] = {}
      /\ LockStep(r)
  BY <1>1, <1>2 DEF LockStep
<1>4. Local(r) /\ req'[r].pc = "done" /\ req'[r].result = req[r].result
  BY <1>0, <1>1, GotoLocal DEF Typed, Steps
<1>5. /\ req'[r].kind = req[r].kind /\ req'[r].run = req[r].run
      /\ req'[r].clone = req[r].clone /\ req'[r].captured = req[r].captured
      /\ req'[r].backup = req[r].backup
  BY <1>4 DEF Local, Same
<1>6. LockInv(r)'
  BY <1>3, <1>4 DEF LockInv, Doing
<1>7. RequestInv(r)'
  <2>1. "done" \in Places(req[r].kind)
    BY <1>0, <1>1, KindsAt, PlacesOf DEF Kept, Kind, Creating, Deleting
  <2> QED BY <1>0, <1>1, <1>4, <1>5, <2>1 DEF rows, Kept, RequestInv, Unstarted
<1>8. CreationInv(r)' /\ SubmissionInv(r)' /\ StartInv(r)'
  BY <1>0, <1>1, <1>4, <1>5 DEF rows, history, Kept, CreationInv, Failed, Gone,
     SubmissionInv, Underway, StartInv, Creating, Restarting
<1>9. PromotionInv(r)' /\ RestartInv(r)' /\ RetentionInv(r)' /\ DeletionInv(r)'
  BY <1>4 DEF PromotionInv, Promoted, Unpromoted, RestartInv, At, RetentionInv,
              DeletionInv
<1>10. \A x \in Request : x # r => Holds(r)' \cap Holds(x) = {}
  BY <1>3 DEF Holds
<1> QED BY <1>1, <1>3, <1>4, <1>5, <1>6, <1>7, <1>8, <1>9, <1>10, SettleLocks
           DEF Kept, Local

\* No other request has a key that a scope enters with.
LEMMA FreeKeys ==
  ASSUME NEW s \in Scope, NEW keys, M!Enter(s, keys), NEW x \in Request
  PROVE  Holds(x) \cap keys = {}
<1>1. <<x, "outer">> \in Scope /\ <<x, "inner">> \in Scope
  BY DEF Scope
<1>2. held[<<x, "outer">>] \cap keys = {} /\ held[<<x, "inner">>] \cap keys = {}
  BY <1>1 DEF M!Enter
<1> QED BY <1>2 DEF Holds

LEMMA EnterInnerKeeps ==
  ASSUME IInv, NEW r \in Request, EnterInner(r)
  PROVE  IInv'
<1> DEFINE keys == {home[u] : u \in {v \in Run : status[v] # "none"}}
<1>0. /\ Typed /\ Kept(r) /\ StartInv(r) /\ DeletionInv(r)
      /\ \A x \in Request : x # r => Apart(r, x)
  BY Parts
<1>1. /\ req[r].pc = "paths" /\ M!Enter(<<r, "inner">>, keys)
      /\ UNCHANGED <<rows, rwc, faults, history>>
      /\ Goto(r, "call")
  BY DEF EnterInner
<1>2. /\ held \in [Scope -> SUBSET (Run \cup {Family})]
      /\ \A x \in Request : <<x, "inner">> \in Scope /\ <<x, "outer">> \in Scope
      /\ keys \subseteq Run
  BY <1>0 DEF Typed, Scope
<1>3. req[r].kind = "delete_all"
  BY <1>0, <1>1, KindsAt DEF Kept
<1>4. Local(r) /\ req'[r].pc = "call"
  BY <1>0, <1>1, GotoLocal DEF Typed, Steps
<1>5. /\ req'[r].kind = req[r].kind /\ req'[r].run = req[r].run
      /\ req'[r].clone = req[r].clone /\ req'[r].captured = req[r].captured
      /\ req'[r].backup = req[r].backup
  BY <1>4 DEF Local, Same
<1>6. \A x \in Request : Holds(x) \cap keys = {}
  BY <1>1, <1>2, FreeKeys
<1> HIDE DEF keys
<1>7. /\ held'[<<r, "inner">>] = keys /\ held'[<<r, "outer">>] = held[<<r, "outer">>]
      /\ held[<<r, "inner">>] = {}
      /\ LockStep(r)
  BY <1>1, <1>2 DEF LockStep, M!Enter
<1>8. LockInv(r)'
  BY <1>0, <1>1, <1>3, <1>4, <1>5, <1>7
     DEF Kept, LockInv, Doing, OuterKeys, Creating
<1>9. RequestInv(r)'
  BY <1>0, <1>1, <1>3, <1>4, <1>5, PlacesOf DEF rows, Kept, RequestInv,
     Unstarted
<1>10. CreationInv(r)' /\ SubmissionInv(r)' /\ StartInv(r)'
  BY <1>3, <1>5 DEF CreationInv, SubmissionInv, StartInv, Underway, Creating,
     Restarting
<1>11. PromotionInv(r)' /\ RestartInv(r)' /\ RetentionInv(r)'
  BY <1>3, <1>4, <1>5 DEF PromotionInv, RestartInv, At, RetentionInv,
     Restarting
<1>12. DeletionInv(r)'
  BY <1>1, <1>7 DEF rows, history, DeletionInv, keys
<1>13. \A x \in Request : x # r => Holds(r)' \cap Holds(x) = {}
  BY <1>0, <1>6, <1>7 DEF Apart, Holds
<1> QED BY <1>1, <1>4, <1>5, <1>7, <1>8, <1>9, <1>10, <1>11, <1>12, <1>13,
           SettleLocks
           DEF Kept, Local

LEMMA EnterKeeps ==
  ASSUME IInv, NEW r \in Request, Enter(r)
  PROVE  IInv'
<1> DEFINE keys == OuterKeys(r)
           one == [req[r] EXCEPT !.pc = FirstStep(r)]
           two == [one EXCEPT !.seen = Refreshed(r)]
<1>0. /\ Typed /\ RowInv /\ StartInv(r) /\ DeletionInv(r)
      /\ \A x \in Request : Kept(x)
      /\ \A x \in Request : x # r => Apart(r, x)
  BY Parts
<1>1. /\ req[r].pc = "enter" /\ M!Enter(<<r, "outer">>, keys)
      /\ UNCHANGED <<rows, rwc, faults, history>>
      /\ req' = [req EXCEPT ![r] = two]
  BY DEF Enter
<1>2. /\ held \in [Scope -> SUBSET (Run \cup {Family})]
      /\ \A x \in Request : <<x, "inner">> \in Scope /\ <<x, "outer">> \in Scope
      /\ req[r] \in Variables /\ req \in [Request -> Variables]
      /\ home \in [Run -> Run] /\ status \in [Run -> Status]
  BY <1>0 DEF Typed, Scope
<1>3. req[r].kind \in Kind /\ req[r].run \in Run /\ req[r].clone = NoRun
  BY <1>0, <1>1, KindsAt DEF Kept, RequestInv, Unstarted
<1>4. keys \subseteq Run \cup {Family}
  BY <1>2, <1>3 DEF OuterKeys, CreationKeys
<1>5. FirstStep(r) \in Places(req[r].kind) \cap {"call", "paths", "apply", "check"}
  BY <1>3, PlacesOf DEF FirstStep, Kind, Creating, Restarting, Deleting
<1>6. one \in Variables
  BY <1>2, <1>5 DEF Variables, Steps
<1>7. /\ one.kind = req[r].kind /\ one.run = req[r].run /\ one.pc = FirstStep(r)
      /\ one.clone = req[r].clone /\ one.captured = req[r].captured
      /\ one.backup = req[r].backup
  BY <1>2 DEF Variables
<1>8. Refreshed(r) \in Status
  BY <1>2, <1>3 DEF Refreshed
<1> HIDE DEF one
<1>9. two \in Variables
  BY <1>6, <1>8 DEF Variables
<1>10. /\ two.kind = req[r].kind /\ two.run = req[r].run /\ two.pc = FirstStep(r)
       /\ two.clone = req[r].clone /\ two.captured = req[r].captured
       /\ two.backup = req[r].backup /\ two.seen = status[req[r].run]
  BY <1>6, <1>7 DEF Variables, Refreshed
<1> HIDE DEF two
<1>11. /\ req' \in [Request -> Variables] /\ req'[r] = two
       /\ \A x \in Request : x # r => req'[x] = req[x]
  BY <1>1, <1>2, <1>9
<1>12. Same(r)
  BY <1>10, <1>11 DEF Same
<1>13. \A x \in Request : Holds(x) \cap keys = {}
  BY <1>1, <1>2, FreeKeys
<1>14. held[<<r, "inner">>] = {}
  BY <1>0, <1>1 DEF Kept, LockInv, Doing
<1> HIDE DEF keys
<1>15. /\ held'[<<r, "outer">>] = keys
       /\ held'[<<r, "inner">>] = {}
       /\ LockStep(r)
  BY <1>1, <1>2, <1>4, <1>14 DEF LockStep, M!Enter
<1>16. LockInv(r)'
  <2>1. OuterKeys(r)' = keys
    BY <1>1, <1>10, <1>11 DEF rows, OuterKeys, CreationKeys, keys
  <2>2. Doing(r)'
    BY <1>5, <1>10, <1>11 DEF Doing
  <2> QED BY <1>15, <2>1, <2>2 DEF LockInv
<1>17. RequestInv(r)'
  <2>1. req[r].kind \in Restarting => FirstStep(r) = "check"
    BY <1>5, PlacesOf
  <2>2. RequestInv(r) /\ rwc'[r] = "idle"
    BY <1>0, <1>1 DEF Kept, RequestInv
  <2>3. req[r].backup = "none"
    BY <1>1, <2>2 DEF RequestInv, Unstarted
  <2> QED BY <1>1, <1>3, <1>5, <1>10, <1>11, <2>1, <2>2, <2>3
             DEF rows, RequestInv, Unstarted
<1>18. CreationInv(r)'
  BY <1>0, <1>1, <1>5, <1>10, <1>11 DEF rows, history, Kept, CreationInv
<1>19. SubmissionInv(r)'
  <2>1. CASE req[r].kind \in Creating
    <3>1. Underway(r)
      BY <1>1, <2>1 DEF Underway
    <3>2. SubmissionInv(r) /\ Subject(r)' = Subject(r)
      BY <1>0, <1>10, <1>11 DEF Kept, Subject
    <3> QED BY <1>1, <1>5, <1>10, <1>11, <3>1, <3>2 DEF rows, history,
               SubmissionInv
  <2>2. CASE req[r].kind \notin Creating
    <3> SUFFICES ASSUME Underway(r)'
                 PROVE  SubmissionInv(r)'
      BY DEF SubmissionInv
    <3>1. status[req[r].run] = "created" /\ Subject(r)' = req[r].run
          /\ req'[r].pc # "publish"
      BY <1>3, <1>5, <1>10, <1>11, <2>2 DEF Underway, Subject
    <3>2. submitted[req[r].run] = 0
      BY <1>0, <1>3, <3>1 DEF RowInv
    <3> QED BY <1>1, <3>1, <3>2 DEF rows, SubmissionInv
  <2> QED BY <2>1, <2>2
\* A creation that shares the run holds its key while it is under way; when it
\* has failed there is no run to start.
<1>20. StartInv(r)'
  <2> SUFFICES ASSUME Underway(r)', req'[r].kind = "start", NEW y \in Request,
                      req'[y].kind \in Creating, req'[y].run = req'[r].run
               PROVE  req'[y].pc = "done" /\ ~Failed(y)'
    BY DEF StartInv
  <2>1. req[r].kind = "start" /\ status[req[r].run] = "created"
    BY <1>5, <1>10, <1>11 DEF Underway, Creating, Restarting
  <2>2. y # r /\ req'[y] = req[y] /\ req[y].kind \in Creating
        /\ req[y].run = req[r].run
    BY <1>10, <1>11, <2>1 DEF Creating
  <2>3. RequestInv(y) /\ LockInv(y) /\ CreationInv(y)
    BY <1>0 DEF Kept
  <2>4. home[req[r].run] = req[r].run /\ rwc[y] = "committed"
    BY <2>1, <2>2, <2>3 DEF CreationInv
  <2>5. keys = {req[r].run}
    BY <2>1, <2>4 DEF keys, OuterKeys, Creating
  <2>6. ~Doing(y)
    <3>1. Doing(y) => req[r].run \in Holds(y)
      BY <2>2, <2>3 DEF LockInv, OuterKeys, CreationKeys, Holds, Creating
    <3> QED BY <1>13, <2>5, <3>1
  <2>7. req[y].pc = "done"
    BY <2>2, <2>3, <2>4, <2>6, PlacesOf DEF RequestInv, Doing, Creating
  <2>8. ~Failed(y)
    BY <2>1, <2>2, <2>3, <2>7 DEF CreationInv, Gone
  <2> QED BY <1>1, <2>2, <2>7, <2>8 DEF history, Failed
<1>21. PromotionInv(r)' /\ RestartInv(r)' /\ RetentionInv(r)'
  BY <1>5, <1>10, <1>11 DEF PromotionInv, Promoted, Unpromoted, RestartInv, At,
                            RetentionInv
<1>22. DeletionInv(r)'
  BY <1>10, <1>11 DEF DeletionInv, At, FirstStep, Creating
<1>23. \A x \in Request : x # r => Holds(r)' \cap Holds(x) = {}
  BY <1>13, <1>15 DEF Holds
<1> QED BY <1>1, <1>10, <1>11, <1>12, <1>15, <1>16, <1>17, <1>18, <1>19, <1>20,
           <1>21, <1>22, <1>23, SettleLocks DEF Kept

\* The variables of a request that begins.
Begun(v, k, u, b, s, c) ==
  [v EXCEPT !.kind = k, !.run = u, !.pc = "enter", !.byName = b, !.seen = s,
            !.captured = c]

LEMMA BeginVariables ==
  ASSUME NEW v \in Variables, NEW k \in Kind, NEW u \in Run, NEW b \in BOOLEAN,
         NEW s \in Status, NEW c \in [Run -> Rule]
  PROVE  LET w == Begun(v, k, u, b, s, c) IN
         /\ w \in Variables
         /\ w.kind = k /\ w.run = u /\ w.pc = "enter" /\ w.captured = c
         /\ w.clone = v.clone /\ w.backup = v.backup
<1> DEFINE one == [v EXCEPT !.kind = k]
           two == [one EXCEPT !.run = u]
           three == [two EXCEPT !.pc = "enter"]
           four == [three EXCEPT !.byName = b]
           five == [four EXCEPT !.seen = s]
           six == [five EXCEPT !.captured = c]
<1>1. Begun(v, k, u, b, s, c) = six
  BY DEF Begun
<1>2. one \in Variables /\ one.kind = k /\ one.clone = v.clone
      /\ one.backup = v.backup
  BY DEF Variables
<1> HIDE DEF one
<1>3. two \in Variables /\ two.kind = k /\ two.run = u /\ two.clone = v.clone
      /\ two.backup = v.backup
  BY <1>2 DEF Variables
<1> HIDE DEF two
<1>4. three \in Variables /\ three.kind = k /\ three.run = u /\ three.clone = v.clone
      /\ three.backup = v.backup /\ three.pc = "enter"
  BY <1>3 DEF Variables, Steps
<1> HIDE DEF three
<1>5. four \in Variables
  BY <1>4 DEF Variables
<1>6. four.kind = k /\ four.run = u /\ four.clone = v.clone
      /\ four.backup = v.backup /\ four.pc = "enter"
  BY <1>4 DEF Variables
<1> HIDE DEF four
<1>7. five \in Variables /\ five.kind = k /\ five.run = u /\ five.clone = v.clone
      /\ five.backup = v.backup /\ five.pc = "enter"
  BY <1>5, <1>6 DEF Variables
<1> HIDE DEF five
<1>8. six \in Variables /\ six.kind = k /\ six.run = u /\ six.clone = v.clone
      /\ six.backup = v.backup /\ six.pc = "enter" /\ six.captured = c
  BY <1>7 DEF Variables
<1> QED BY <1>1, <1>8

LEMMA BeginKeeps ==
  ASSUME IInv, NEW r \in Request, Begin(r)
  PROVE  IInv'
<1>0. /\ Typed /\ RowInv /\ UnlockedInv
      /\ \A x \in Request : /\ Kept(x) /\ StartInv(x) /\ TraceInv(x)
                            /\ DeletionInv(x)
      /\ \A y, x \in Request : y # x => Apart(y, x)
  BY Parts
<1>1. /\ req[r].pc = "idle" /\ held' = held /\ rwc' = rwc /\ faults' = faults
      /\ status' = status /\ home' = home /\ rule' = rule /\ file' = file
      /\ submitted' = submitted /\ latest' = latest
      /\ late' = late /\ stray' = stray /\ unlocked' = unlocked
      /\ spoiled' = spoiled
  BY DEF Begin, rows, history
<1>2. req \in [Request -> Variables] /\ req[r] \in Variables
      /\ status \in [Run -> Status] /\ home \in [Run -> Run]
      /\ rule \in [Run -> Rule]
  BY <1>0 DEF Typed
<1>3. PICK k \in Kind, u \in Run, b \in BOOLEAN :
       /\ IF k \in Creating THEN u \in Fresh ELSE status[u] # "none"
       /\ b => k = "delete" /\ u = latest
       /\ k = "retention" => \E v \in Sharing(home[u]) : IsDue(rule[v])
       /\ req' = [req EXCEPT ![r].kind = k, ![r].run = u, ![r].pc = "enter",
                    ![r].byName = b, ![r].seen = status[u],
                    ![r].captured = IF k = "retention"
                                     THEN RulesOf(home[u]) ELSE NoRules]
  BY Zenon DEF Begin
<1> DEFINE c == IF k = "retention" THEN RulesOf(home[u]) ELSE NoRules
           w == Begun(req[r], k, u, b, status[u], c)
<1>4. c \in [Run -> Rule] /\ status[u] \in Status
  BY <1>2 DEF RulesOf, NoRules, Rule
<1>5. \A v \in Run : c[v] # "none" =>
        k = "retention" /\ status[v] # "none" /\ home[v] = home[u]
  BY DEF RulesOf, NoRules, Sharing
<1>6. req' = [req EXCEPT ![r] = w]
  BY <1>3 DEF Begun
<1> HIDE DEF c
<1>7. /\ w \in Variables
      /\ w.kind = k /\ w.run = u /\ w.pc = "enter" /\ w.captured = c
      /\ w.clone = req[r].clone /\ w.backup = req[r].backup
  BY <1>2, <1>4, BeginVariables
<1> HIDE DEF w
<1>8. /\ req' \in [Request -> Variables] /\ req'[r] = w
      /\ \A x \in Request : x # r => req'[x] = req[x]
  BY <1>2, <1>6, <1>7
<1>9. req[r].clone = NoRun /\ req[r].backup = "none" /\ rwc[r] = "idle"
  BY <1>0, <1>1 DEF Kept, RequestInv, Unstarted
<1>10. \A x \in Request : x # r => Kept(x)' /\ req'[x] = req[x]
  <2>1. Quiet(r)
    BY <1>0, <1>1, FaultyBound DEF Quiet, rows, Typed
  <2> QED BY <1>0, <1>8, <2>1, QuietRely, RelyKeeps
<1>11. Typed' /\ RowInv' /\ UnlockedInv'
  BY <1>0, <1>1, <1>8 DEF Typed, RowInv, UnlockedInv
<1>12. RequestInv(r)'
  <2>1. "enter" \in Places(k)
    BY PlacesOf DEF Kind, Creating, Deleting
  <2>2. k \notin Creating => status[u] # "none"
    BY <1>3
  <2>3. \A v \in Run : v # NoRun
    BY FamilyAssumption
  <2>4. \A v \in Run : req'[r].captured[v] # "none" =>
          /\ req'[r].kind \in Restarting \cup {"retention"}
          /\ status'[v] # "none" /\ home'[v] = home'[req'[r].run]
          /\ v # req'[r].clone
    BY <1>1, <1>5, <1>7, <1>8, <1>9, <2>3
  <2>5. req'[r].pc = "enter" /\ req'[r].run = u /\ req'[r].kind = k
        /\ req'[r].clone = NoRun /\ req'[r].backup = "none" /\ rwc'[r] = "idle"
    BY <1>1, <1>7, <1>8, <1>9
  <2> QED BY <1>1, <2>1, <2>2, <2>4, <2>5 DEF RequestInv, Unstarted
<1>13. LockInv(r)'
  BY <1>0, <1>1, <1>7, <1>8 DEF Kept, LockInv, Doing
<1>14. CreationInv(r)' /\ SubmissionInv(r)'
  <2>1. CASE k \in Creating
    <3>1. status[u] = "none" /\ home[u] = u /\ submitted[u] = 0
      BY <1>0, <1>3, <2>1 DEF Fresh, RowInv
    <3> QED BY <1>1, <1>7, <1>8, <1>9, <2>1, <3>1
               DEF CreationInv, SubmissionInv, Subject, Failed, Gone
  <2>2. CASE k \notin Creating
    BY <1>7, <1>8, <2>2 DEF CreationInv, SubmissionInv, Underway
  <2> QED BY <2>1, <2>2
<1>15. PromotionInv(r)' /\ RestartInv(r)' /\ RetentionInv(r)' /\ DeletionInv(r)'
  BY <1>7, <1>8 DEF PromotionInv, Promoted, Unpromoted, RestartInv, At,
                    RetentionInv, DeletionInv
<1>16. StartInv(r)'
  BY <1>7, <1>8 DEF StartInv, Underway, Creating, Restarting
<1>17. \A x \in Request : x # r => req[x].run # u \/ k \notin Creating
  BY <1>3 DEF Fresh
<1>18. \A x \in Request : x # r => StartInv(x)' /\ DeletionInv(x)'
  <2> SUFFICES ASSUME NEW x \in Request, x # r
               PROVE  StartInv(x)' /\ DeletionInv(x)'
    OBVIOUS
  <2>1. StartInv(x) /\ DeletionInv(x) /\ req'[x] = req[x]
    BY <1>0, <1>8
  <2>2. DeletionInv(x)'
    BY <1>1, <2>1 DEF DeletionInv, At
  <2>3. ASSUME Underway(x)', req'[x].kind = "start", NEW y \in Request,
               req'[y].kind \in Creating, req'[y].run = req'[x].run
        PROVE  req'[y].pc = "done" /\ ~Failed(y)'
    <3>1. y # r
      BY <1>7, <1>8, <1>17, <2>1, <2>3
    <3>2. Underway(x) /\ req'[y] = req[y]
      BY <1>8, <2>1, <2>3, <3>1 DEF Underway
    <3> QED BY <1>1, <2>1, <2>3, <3>2 DEF StartInv, Failed
  <2> QED BY <2>2, <2>3 DEF StartInv
<1>19. \A x \in Request : TraceInv(x)'
  BY <1>0, <1>1, <1>7, <1>8 DEF TraceInv
<1>20. \A y, x \in Request : y # x => Apart(y, x)'
  <2>1. \A x \in Request : req[x].clone # NoRun => status[req[x].clone] # "none"
    BY <1>0 DEF Kept, RequestInv
  <2>2. k \in Creating => status[u] = "none"
    BY <1>3 DEF Fresh
  <2>3. u # NoRun
    BY FamilyAssumption
  <2>4. \A x \in Request : Holds(x)' = Holds(x)
    BY <1>1 DEF Holds
  <2> SUFFICES ASSUME NEW y \in Request, NEW x \in Request, y # x
               PROVE  Apart(y, x)'
    OBVIOUS
  <2>5. Apart(y, x)
    BY <1>0
  <2>6. CASE y = r
    BY <1>7, <1>8, <1>9, <1>17, <2>1, <2>2, <2>3, <2>4, <2>5, <2>6 DEF Apart
  <2>7. CASE x = r
    <3>1. req[y].kind \in Creating => req[y].run \in Run
      BY <1>0, PlacesOf DEF Kept, RequestInv, Creating
    <3> QED BY <1>7, <1>8, <1>9, <1>17, <2>4, <2>5, <2>7, <3>1,
               FamilyAssumption
               DEF Apart
  <2>8. CASE y # r /\ x # r
    BY <1>8, <2>4, <2>5, <2>8 DEF Apart
  <2> QED BY <2>6, <2>7, <2>8
<1> QED BY <1>10, <1>11, <1>12, <1>13, <1>14, <1>15, <1>16, <1>18, <1>19,
           <1>20,
           Parts DEF IInv, Kept

----------------------------------------------------------------------------
(* Steps that change rows, workspaces or messages.                         *)

\* No key of one request is a key of another.
LEMMA Disjoint ==
  ASSUME IInv, NEW r \in Request, NEW x \in Request, x # r,
         NEW k \in held[<<r, "outer">>]
  PROVE  k \notin held[<<x, "outer">>]
  BY Parts DEF Apart, Holds

\* The requests W move; for the others it is enough what they rely on.
LEMMA Assemble ==
  ASSUME IInv, NEW W \in SUBSET Request,
         Typed', RowInv', UnlockedInv', SameRequests, Grows, held' = held,
         \A x \in Request : x \notin W => Rely(x),
         \A x \in W : Kept(x)' /\ StartInv(x)' /\ DeletionInv(x)',
         \A x \in Request : x \notin W /\ (\/ At(x, {"delete_all"}, "call")
                                          \/ At(x, {"delete_all"}, "waiting"))
           => NewRowsListed,
         \A x \in Request : TraceInv(x)'
  PROVE  IInv'
<1>0. /\ \A x \in Request : Kept(x) /\ StartInv(x) /\ DeletionInv(x)
      /\ \A y, x \in Request : y # x => Apart(y, x)
      /\ Typed
  BY Parts
<1>1. \A x \in Request : x \notin W => Kept(x)' /\ req'[x] = req[x]
  BY <1>0, RelyKeeps DEF Rely, Still
<1>2. \A y, x \in Request : y # x => Apart(y, x)'
  BY <1>0, ApartKept DEF Holds
<1>3. \A x \in Request : x \notin W => StartInv(x)' /\ DeletionInv(x)'
  <2> SUFFICES ASSUME NEW x \in Request, x \notin W
               PROVE  StartInv(x)' /\ DeletionInv(x)'
    OBVIOUS
  <2>1. StartInv(x)'
    BY <1>0, <1>1, StartKept DEF Underway
  <2>2. DeletionInv(x)'
    BY <1>0, <1>1, DeletionKept DEF At
  <2> QED BY <2>1, <2>2
<1> QED BY <1>1, <1>2, <1>3, Parts DEF IInv, Kept

LEMMA SameAfter ==
  ASSUME NEW r \in Request, Local(r), req[r].pc # "done"
  PROVE  SameRequests
  BY DEF SameRequests, Local, Same

\* What r keeps when its request stays what it is.
LEMMA OwnKeeps ==
  ASSUME Typed, NEW r \in Request, Local(r), Grows, held' = held,
         rwc'[r] = rwc[r], RequestInv(r), LockInv(r), Doing(r), Doing(r)',
         req'[r].pc \in Places(req[r].kind),
         req'[r].pc \notin Unstarted \cup {"call", "paths", "validate", "promote"},
         req[r].kind \in Restarting => req[r].clone # NoRun
  PROVE  RequestInv(r)' /\ LockInv(r)'
<1>1. /\ req'[r].kind = req[r].kind /\ req'[r].run = req[r].run
      /\ req'[r].clone = req[r].clone /\ req'[r].captured = req[r].captured
      /\ req'[r].backup = req[r].backup
  BY DEF Local, Same
<1>2. /\ req[r].kind \in Kind /\ req[r].run \in Run
      /\ req[r].clone \in Run \cup {NoRun}
      /\ held[<<r, "outer">>] = OuterKeys(r)
      /\ home \in [Run -> Run]
  BY Doings
<1>3. \A u \in Run : status[u] # "none" => status'[u] # "none" /\ home'[u] = home[u]
  BY DEF Grows
<1>4. req[r].kind \notin Creating =>
        status[req[r].run] # "none" /\ home'[req[r].run] = home[req[r].run]
  BY <1>2, <1>3 DEF RequestInv, Kind, Creating, Restarting, Deleting
<1>5. req[r].clone # NoRun =>
        /\ req[r].kind \in Restarting /\ status'[req[r].clone] # "none"
        /\ home'[req[r].clone] = home'[req[r].run]
  BY <1>2, <1>3, <1>4 DEF RequestInv, Restarting, Creating
<1>6. \A u \in Run : req[r].captured[u] # "none" =>
        /\ req[r].kind \in Restarting \cup {"retention"}
        /\ status'[u] # "none" /\ home'[u] = home'[req[r].run] /\ u # req[r].clone
  BY <1>2, <1>3, <1>4 DEF RequestInv, Restarting, Creating
<1>7. RequestInv(r)'
  BY <1>1, <1>2, <1>3, <1>4, <1>5, <1>6 DEF RequestInv, Doing, Unstarted
<1>8. OuterKeys(r)' = OuterKeys(r)
  BY <1>1, <1>4 DEF OuterKeys, CreationKeys, Creating
<1>9. LockInv(r)'
  BY <1>1, <1>2, <1>8 DEF LockInv
<1> QED BY <1>7, <1>9

\* The run of another request that creates stays as it is.
LEMMA OwnCreationKept ==
  ASSUME NEW x \in Request, CreationInv(x),
         req[x].kind \in Creating =>
           LET u == req[x].run IN
           /\ status[u] = "none" => status'[u] = "none" /\ home'[u] = home[u]
           /\ Gone(u) /\ Failed(x) /\ req[x].pc \in {"leaving", "done"} =>
                status'[u] \in {"none", "deleted"} /\ file'[u] = "gone"
  PROVE  OwnCreation(x)
  BY DEF OwnCreation, CreationInv, Gone

LEMMA SeedKeeps ==
  ASSUME IInv, NEW r \in Request, Seed(r)
  PROVE  IInv'
<1>0. /\ Typed /\ RowInv /\ UnlockedInv
      /\ \A x \in Request : /\ Kept(x) /\ StartInv(x) /\ TraceInv(x)
                            /\ DeletionInv(x)
      /\ \A y, x \in Request : y # x => Apart(y, x)
  BY Parts
<1> DEFINE u == req[r].run
<1>1. /\ RequestInv(r) /\ LockInv(r) /\ CreationInv(r) /\ SubmissionInv(r)
      /\ req[r].pc = "seed" /\ Doing(r)
  BY <1>0 DEF Kept, Seed, Doing
<1>2. req[r].kind \in Creating /\ rwc[r] = "committed" /\ u \in Run
      /\ status[u] # "none"
  BY <1>0, <1>1, KindsAt DEF RequestInv, CreationInv
<1>3. CASE Goto(r, "compensate") /\ UNCHANGED <<file, faults, spoiled>>
  <2>1. Quiet(r)
    BY <1>0, <1>3, FaultyBound DEF Seed, Quiet, Typed, rows
  <2> QED BY <1>1, <1>2, <1>3, <2>1, ReconciledKeeps DEF Reconciled
<1>4. CASE Faulty /\ Uncompensated(r) /\ UNCHANGED file
  <2>1. spoiled \subseteq spoiled' /\ spoiled' \subseteq Run
    BY <1>0, <1>2, <1>4 DEF Uncompensated, Typed
  <2>2. Quiet(r)
    BY <1>0, <1>4, <2>1, FaultyBound DEF Seed, Quiet, Typed, rows
  <2> QED BY <1>1, <1>2, <1>4, <2>2, ReconciledKeeps
<1>5. CASE /\ file' = [file EXCEPT ![u] = "own"]
           /\ Goto(r, "quota")
           /\ UNCHANGED <<faults, spoiled>>
  <2>1. /\ status' = status /\ home' = home /\ rule' = rule /\ latest' = latest
        /\ submitted' = submitted /\ held' = held /\ rwc' = rwc
        /\ late' = late /\ stray' = stray /\ unlocked' = unlocked
        /\ faults' = faults /\ spoiled' = spoiled
    BY <1>5 DEF Seed
  <2>2. Local(r) /\ req'[r].pc = "quota" /\ req'[r].result = req[r].result
    BY <1>0, <1>5, GotoLocal DEF Typed, Steps
  <2>3. /\ file' \in [Run -> File]
        /\ \A h \in Run : file'[h] = IF h = u THEN "own" ELSE file[h]
    BY <1>0, <1>5 DEF Typed, File
  <2>4. Typed' /\ RowInv' /\ UnlockedInv'
    BY <1>0, <1>2, <2>1, <2>2, <2>3 DEF Typed, RowInv, UnlockedInv, Local, Same
  <2>5. SameRequests /\ Grows /\ NewRowsListed
    BY <1>1, <2>1, <2>2, SameAfter DEF Grows, NewRowsListed
  <2>6. \A x \in Request : TraceInv(x)'
    BY <1>0, <2>3, <2>5, TraceKept
  <2>7. RequestInv(r)' /\ LockInv(r)'
    BY <1>0, <1>1, <1>2, <2>1, <2>2, <2>5, OwnKeeps, PlacesOf
       DEF Doing, Unstarted, Creating, Restarting
  <2>8. CreationInv(r)' /\ SubmissionInv(r)' /\ StartInv(r)'
    BY <1>1, <1>2, <2>1, <2>2 DEF CreationInv, SubmissionInv, StartInv,
       Underway,
         Subject, Local, Same, Creating, Restarting
  <2>9. PromotionInv(r)' /\ RestartInv(r)' /\ RetentionInv(r)' /\ DeletionInv(r)'
    BY <2>2 DEF PromotionInv, Promoted, Unpromoted, RestartInv, At,
       RetentionInv,
                DeletionInv
  <2>10. ASSUME NEW x \in Request, x # r
         PROVE  Rely(x)
    <3>1. Still(x)
      BY <2>1, <2>2, <2>10 DEF Still, Local, Same
    <3>2. OwnRows(x) /\ OwnMessages(x)
      BY <2>1 DEF OwnRows, OwnMessages
    <3>3. OwnFile(x)
      <4>1. u \in held[<<r, "outer">>]
        BY <1>1, <1>2 DEF LockInv, OuterKeys, CreationKeys, Creating
      <4> QED BY <2>3, <2>10, <4>1, Disjoint DEF OwnFile
    <3>4. OwnCreation(x)
      <4>1. req[x].kind \in Creating => req[x].run # u
        BY <1>0, <1>2, <2>10 DEF Apart
      <4>2. req[x].kind \in Creating => req[x].run \in Run
        BY <1>0, PlacesOf DEF Kept, RequestInv, Creating
      <4>3. CreationInv(x)
        BY <1>0 DEF Kept
      <4> QED BY <2>1, <2>3, <4>1, <4>2, <4>3, OwnCreationKept DEF Gone
    <3> QED BY <2>5, <3>1, <3>2, <3>3, <3>4 DEF Rely
  <2> DEFINE W == {r}
  <2>11. W \in SUBSET Request /\ \A x \in Request : x \notin W => x # r
    OBVIOUS
  <2> QED BY <2>1, <2>4, <2>5, <2>6, <2>7, <2>8, <2>9, <2>10, <2>11,
             Assemble DEF Kept
<1> QED BY <1>3, <1>4, <1>5 DEF Seed

LEMMA CompensateCreationKeeps ==
  ASSUME IInv, NEW r \in Request, CompensateCreation(r)
  PROVE  IInv'
<1>0. /\ Typed /\ RowInv /\ UnlockedInv
      /\ \A x \in Request : /\ Kept(x) /\ StartInv(x) /\ TraceInv(x)
                            /\ DeletionInv(x)
      /\ \A y, x \in Request : y # x => Apart(y, x)
  BY Parts
<1> DEFINE u == req[r].run
<1>1. /\ RequestInv(r) /\ LockInv(r) /\ CreationInv(r)
      /\ req[r].pc = "compensate" /\ req[r].kind \in Creating /\ Doing(r)
  BY <1>0 DEF Kept, CompensateCreation, Doing, At
<1>2. rwc[r] = "committed" /\ u \in Run /\ status[u] # "none"
  BY <1>1 DEF RequestInv, CreationInv
<1>3. /\ home' = home /\ rule' = rule /\ latest' = latest
      /\ submitted' = submitted /\ held' = held /\ rwc' = rwc
      /\ late' = late /\ stray' = stray /\ unlocked' = unlocked
      /\ faults' \in 0..MaxFaults
      /\ Finish(r, "failed")
  BY <1>0, FaultyBound DEF CompensateCreation
<1>4. /\ status' \in [Run -> Status] /\ file' \in [Run -> File]
      /\ \A v \in Run : v # u => status'[v] = status[v] /\ file'[v] = file[v]
      /\ status'[u] \in {status[u], "deleted"}
      /\ file'[u] \in {file[u], "gone"}
      /\ (status'[u] = "deleted" /\ file'[u] = "gone") \/ u \in spoiled'
      /\ spoiled \subseteq spoiled' /\ spoiled' \subseteq Run
  <2>1. CASE /\ status' = [status EXCEPT ![u] = "deleted"]
             /\ file' = [file EXCEPT ![u] = "gone"]
             /\ UNCHANGED <<faults, spoiled>>
    BY <1>0, <1>2, <2>1 DEF Typed, Status, File
  <2>2. CASE /\ Faulty
             /\ file' \in {file, [file EXCEPT ![u] = "gone"]}
             /\ spoiled' = spoiled \cup {u}
             /\ UNCHANGED status
    BY <1>0, <1>2, <2>2 DEF Typed, Status, File
  <2> QED BY <2>1, <2>2 DEF CompensateCreation
<1>5. Local(r) /\ req'[r].pc = "leaving" /\ req'[r].result = "failed"
  BY <1>0, <1>3, FinishLocal DEF Typed, Result
<1>6. Typed' /\ RowInv' /\ UnlockedInv'
  BY <1>0, <1>2, <1>3, <1>4, <1>5 DEF Typed, RowInv, UnlockedInv, Local, Same
<1>7. SameRequests /\ Grows /\ NewRowsListed
  BY <1>1, <1>2, <1>3, <1>4, <1>5, SameAfter DEF Grows, NewRowsListed
<1>8. \A x \in Request : TraceInv(x)'
  BY <1>0, <1>4, <1>7, TraceKept
<1>9. RequestInv(r)' /\ LockInv(r)'
  BY <1>0, <1>1, <1>3, <1>5, <1>7, OwnKeeps, PlacesOf
     DEF Doing, Unstarted, Creating, Restarting
<1>10. CreationInv(r)' /\ SubmissionInv(r)' /\ StartInv(r)'
  BY <1>1, <1>2, <1>3, <1>4, <1>5 DEF CreationInv, SubmissionInv, StartInv,
     Underway,
     Local, Same, Creating, Restarting, Failed, Gone
<1>11. PromotionInv(r)' /\ RestartInv(r)' /\ RetentionInv(r)' /\ DeletionInv(r)'
  BY <1>1, <1>5 DEF PromotionInv, Local, Same, RestartInv, At, RetentionInv,
                    DeletionInv, Creating, Restarting
<1>12. ASSUME NEW x \in Request, x # r
       PROVE  Rely(x)
  <2>1. Still(x)
    BY <1>3, <1>5, <1>12 DEF Still, Local, Same
  <2>2. u \notin held[<<x, "outer">>]
    <3>1. u \in held[<<r, "outer">>]
      BY <1>1, <1>2 DEF LockInv, OuterKeys, CreationKeys, Creating
    <3> QED BY <1>12, <3>1, Disjoint
  <2>3. OwnRows(x) /\ OwnFile(x) /\ OwnMessages(x)
    <3>1. home[u] = u
      BY <1>1 DEF CreationInv
    <3> QED BY <1>3, <1>4, <2>2, <3>1 DEF OwnRows, Owns, OwnFile, OwnMessages
  <2>4. OwnCreation(x)
    <3>1. req[x].kind \in Creating => req[x].run # u /\ req[x].run \in Run
      BY <1>0, <1>1, <1>12, PlacesOf DEF Apart, Kept, RequestInv, Creating
    <3>2. CreationInv(x)
      BY <1>0 DEF Kept
    <3> QED BY <1>3, <1>4, <3>1, <3>2, OwnCreationKept DEF Gone
  <2> QED BY <1>7, <2>1, <2>3, <2>4 DEF Rely
<1> DEFINE W == {r}
<1>13. W \in SUBSET Request /\ \A x \in Request : x \notin W => x # r
  OBVIOUS
<1> QED BY <1>3, <1>6, <1>7, <1>8, <1>9, <1>10, <1>11, <1>12, <1>13,
           Assemble DEF Kept

\* A request that submits holds its subject, and the submission of it belongs
\* to no other request.
LEMMA OwnSubject ==
  ASSUME IInv, NEW r \in Request, Underway(r), req[r].pc \in {"mark", "publish"}
  PROVE  /\ Subject(r) \in Run /\ status[Subject(r)] # "none"
         /\ Doing(r) /\ Owns(r, Subject(r))
         /\ \A x \in Request : x # r /\ Underway(x) => Subject(x) # Subject(r)
         /\ \A x \in Request : x # r =>
              ~Owns(x, Subject(r)) /\ home[Subject(r)] \notin held[<<x, "outer">>]
         /\ \A x \in Request :
              /\ x # r /\ req[x].kind \in Creating
              /\ req[x].pc \in {"leaving", "done"} /\ Failed(x)
              => req[x].run # Subject(r)
<1>0. /\ Typed /\ RowInv
      /\ \A x \in Request : Kept(x) /\ StartInv(x)
      /\ \A y, x \in Request : y # x => Apart(y, x)
  BY Parts
<1>1. RequestInv(r) /\ LockInv(r) /\ CreationInv(r)
  BY <1>0 DEF Kept
<1>2. Subject(r) \in Run /\ status[Subject(r)] # "none"
      /\ Doing(r) /\ Owns(r, Subject(r))
  BY <1>0, <1>1, Owned DEF CreationInv
<1>3. \A x \in Request : x # r =>
        ~Owns(x, Subject(r)) /\ home[Subject(r)] \notin held[<<x, "outer">>]
  BY <1>2, Disjoint DEF Owns
<1>4. \A x \in Request : x # r /\ Underway(x) => Subject(x) # Subject(r)
  BY <1>0, <1>2, <1>3, Owned DEF Kept
<1>5. ASSUME NEW x \in Request, x # r, req[x].kind \in Creating,
             req[x].pc \in {"leaving", "done"}, Failed(x)
      PROVE  req[x].run # Subject(r)
  <2>0. Apart(r, x) /\ Apart(x, r) /\ StartInv(r)
    BY <1>0, <1>5
  <2>1. CASE req[r].kind \in Creating
    <3>1. Subject(r) = req[r].run
      BY <1>1, <2>1 DEF Subject, RequestInv, Creating, Restarting
    <3> QED BY <1>5, <2>0, <2>1, <3>1 DEF Apart
  <2>2. CASE req[r].kind = "start"
    <3>1. Subject(r) = req[r].run
      BY <1>1, <2>2 DEF Subject, RequestInv, Restarting
    <3> QED BY <1>5, <2>0, <2>2, <3>1 DEF StartInv
  <2>3. CASE req[r].kind \in Restarting
    <3>1. Subject(r) = req[r].clone
      BY <1>1, <2>3 DEF Subject, RequestInv, Unstarted
    <3> QED BY <1>5, <2>0, <3>1 DEF Apart
  <2> QED BY <2>1, <2>2, <2>3 DEF Underway
<1> QED BY <1>2, <1>3, <1>4, <1>5

\* Whoever is at the last steps of a submission submits.
LEMMA Submits ==
  ASSUME IInv, NEW r \in Request, req[r].pc \in {"mark", "publish"}
  PROVE  /\ Underway(r) /\ Doing(r) /\ req[r].kind \in {"submit"} \cup Submitters
         /\ req[r].kind \in Restarting => req[r].clone # NoRun
         /\ req[r].kind \notin Restarting => req[r].clone = NoRun
         /\ req[r].run \in Run
<1>1. Typed /\ RequestInv(r)
  BY Parts DEF Kept
<1>2. req[r].kind \in {"submit"} \cup Submitters
  BY <1>1, KindsAt
<1> QED BY <1>1, <1>2 DEF Underway, Doing, Submitters, Creating, Restarting,
           RequestInv,
           Unstarted

LEMMA MarkKeeps ==
  ASSUME IInv, NEW r \in Request, Mark(r)
  PROVE  IInv'
<1>0. /\ Typed /\ RowInv /\ UnlockedInv
      /\ \A x \in Request : /\ Kept(x) /\ StartInv(x) /\ TraceInv(x)
                            /\ DeletionInv(x)
      /\ \A y, x \in Request : y # x => Apart(y, x)
  BY Parts
<1> DEFINE s == Subject(r)
<1>1. /\ RequestInv(r) /\ LockInv(r) /\ CreationInv(r) /\ SubmissionInv(r)
      /\ PromotionInv(r) /\ req[r].pc = "mark"
  BY <1>0 DEF Kept, Mark
<1>2. /\ Underway(r) /\ Doing(r) /\ req[r].kind \in {"submit"} \cup Submitters
      /\ req[r].kind \in Restarting => req[r].clone # NoRun
      /\ req[r].run \in Run
  BY <1>1, Submits
<1>3. CASE FailFrom(r) /\ Abandoned(r) /\ UNCHANGED status
  <2>1. spoiled \subseteq spoiled' /\ spoiled' \subseteq Run
    BY <1>0, <1>2, <1>3 DEF Abandoned, Typed
  <2>2. req[r].kind \in Creating => req[r].run \in spoiled'
    BY <1>2, <1>3 DEF Abandoned, Submitters, Restarting, Creating
  <2>3. Quiet(r)
    BY <1>0, <1>3, <2>1, FaultyBound DEF Mark, Quiet, Typed, rows
  <2> QED BY <1>1, <1>2, <1>3, <2>2, <2>3, FailFromKeeps
<1>4. CASE /\ status' = [status EXCEPT ![s] = "queued"]
           /\ Goto(r, "publish")
           /\ UNCHANGED spoiled
  <2>1. /\ home' = home /\ rule' = rule /\ latest' = latest /\ file' = file
        /\ submitted' = submitted /\ held' = held /\ rwc' = rwc
        /\ late' = late /\ stray' = stray /\ unlocked' = unlocked
        /\ faults' = faults /\ spoiled' = spoiled
    BY <1>4 DEF Mark
  <2>2. Local(r) /\ req'[r].pc = "publish" /\ req'[r].result = req[r].result
    BY <1>0, <1>4, GotoLocal DEF Typed, Steps
  <2>3. /\ s \in Run /\ status[s] # "none"
        /\ \A x \in Request : x # r =>
             ~Owns(x, s) /\ home[s] \notin held[<<x, "outer">>]
        /\ \A x \in Request :
             /\ x # r /\ req[x].kind \in Creating
             /\ req[x].pc \in {"leaving", "done"} /\ Failed(x)
             => req[x].run # s
    BY <1>1, <1>2, OwnSubject
  <2> HIDE DEF s
  <2>4. /\ status' \in [Run -> Status] /\ status'[s] = "queued"
        /\ \A v \in Run : v # s => status'[v] = status[v]
    BY <1>0, <1>4, <2>3 DEF Typed, Status
  <2>5. submitted[s] = 0
    BY <1>1, <1>2 DEF SubmissionInv, s
  <2>6. Typed' /\ RowInv' /\ UnlockedInv'
    BY <1>0, <2>1, <2>2, <2>3, <2>4, <2>5 DEF Typed, RowInv, UnlockedInv,
       Local, Same
  <2>7. SameRequests /\ Grows /\ NewRowsListed
    BY <1>1, <2>1, <2>2, <2>3, <2>4, SameAfter DEF Grows, NewRowsListed
  <2>8. \A x \in Request : TraceInv(x)'
    BY <1>0, <2>1, <2>7, TraceKept
  <2>9. RequestInv(r)' /\ LockInv(r)'
    <3>1. "publish" \in Places(req[r].kind)
      BY <1>2, PlacesOf DEF Submitters
    <3>2. Doing(r)'
      BY <2>2 DEF Doing
    <3> QED BY <1>0, <1>1, <1>2, <2>1, <2>2, <2>7, <3>1, <3>2, OwnKeeps
               DEF Unstarted
  <2>10. CreationInv(r)'
    BY <1>1, <1>2, <2>1, <2>2, <2>3, <2>4 DEF CreationInv, Local, Same
  <2>11. SubmissionInv(r)'
    <3>1. Subject(r)' = s
      BY <2>2 DEF Subject, Local, Same, s
    <3> QED BY <2>1, <2>4, <2>5, <3>1 DEF SubmissionInv
  <2>12. StartInv(r)'
    BY <1>0, <1>2, <2>7, StartKept
  <2>13. PromotionInv(r)'
    BY <1>1, <2>1, <2>2 DEF PromotionInv, Promoted, Unpromoted, Local, Same
  <2>14. RestartInv(r)' /\ RetentionInv(r)' /\ DeletionInv(r)'
    BY <2>2 DEF RestartInv, At, RetentionInv, DeletionInv
  <2>15. ASSUME NEW x \in Request, x # r
         PROVE  Rely(x)
    <3>1. Still(x)
      BY <2>1, <2>2, <2>15 DEF Still, Local, Same
    <3>2. OwnRows(x) /\ OwnFile(x) /\ OwnMessages(x)
      BY <2>1, <2>3, <2>4, <2>15 DEF OwnRows, OwnFile, OwnMessages
    <3>3. OwnCreation(x)
      <4>1. CreationInv(x) /\ (req[x].kind \in Creating => req[x].run \in Run)
        BY <1>0, PlacesOf DEF Kept, RequestInv, Creating
      <4> QED BY <2>1, <2>3, <2>4, <2>15, <4>1, OwnCreationKept DEF Gone
    <3> QED BY <2>7, <3>1, <3>2, <3>3 DEF Rely
  <2> DEFINE W == {r}
  <2>16. W \in SUBSET Request /\ \A x \in Request : x \notin W => x # r
    OBVIOUS
  <2> QED BY <2>1, <2>6, <2>7, <2>8, <2>9, <2>10, <2>11, <2>12, <2>13, <2>14,
             <2>15,
             <2>16, Assemble DEF Kept
<1> QED BY <1>3, <1>4 DEF Mark

\* The message goes out, and the request ends or fails.
LEMMA SentKeeps ==
  ASSUME IInv, NEW r \in Request, req[r].pc = "publish", Sent(r),
         UNCHANGED <<status, home, rule, file, latest, held, rwc, late, stray,
                     unlocked>>,
         spoiled \subseteq spoiled', spoiled' \subseteq Run,
         faults' \in 0..MaxFaults, Local(r),
         \/ req'[r].pc = "leaving" /\ req'[r].result = "ok"
         \/ /\ req'[r].pc = "leaving" /\ req'[r].result = "failed"
            /\ req[r].clone = NoRun
            /\ req[r].kind \in Creating => req[r].run \in spoiled'
         \/ req'[r].pc = "unwind" /\ req[r].clone # NoRun
  PROVE  IInv'
<1>0. /\ Typed /\ RowInv /\ UnlockedInv
      /\ \A x \in Request : /\ Kept(x) /\ StartInv(x) /\ TraceInv(x)
                            /\ DeletionInv(x)
      /\ \A y, x \in Request : y # x => Apart(y, x)
  BY Parts
<1> DEFINE s == Subject(r)
<1>1. /\ RequestInv(r) /\ LockInv(r) /\ CreationInv(r) /\ SubmissionInv(r)
      /\ PromotionInv(r)
  BY <1>0 DEF Kept
<1>2. /\ Underway(r) /\ Doing(r) /\ req[r].kind \in {"submit"} \cup Submitters
      /\ req[r].kind \in Restarting => req[r].clone # NoRun
      /\ req[r].kind \notin Restarting => req[r].clone = NoRun
      /\ req[r].run \in Run
  BY Submits
<1>3. /\ s \in Run
      /\ \A x \in Request : x # r /\ Underway(x) => Subject(x) # s
  BY <1>2, OwnSubject
<1>4. submitted[s] = 0 /\ status[s] \notin {"none", "created"}
      /\ (status[s] # "deleted" \/ home[s] \in stray)
  BY <1>1, <1>2 DEF SubmissionInv
<1> HIDE DEF s
<1>5. /\ submitted' \in [Run -> Nat] /\ submitted'[s] = 1
      /\ \A v \in Run : v # s => submitted'[v] = submitted[v]
  BY <1>0, <1>3, <1>4 DEF Sent, Typed, s
<1>6. Typed' /\ RowInv' /\ UnlockedInv'
  BY <1>0, <1>3, <1>4, <1>5 DEF Typed, RowInv, UnlockedInv, Local, Same
<1>7. SameRequests /\ Grows /\ NewRowsListed
  BY SameAfter DEF Grows, NewRowsListed
<1>8. \A x \in Request : TraceInv(x)'
  BY <1>0, <1>7, TraceKept
<1>9. /\ req'[r].kind = req[r].kind /\ req'[r].run = req[r].run
      /\ req'[r].clone = req[r].clone /\ req'[r].captured = req[r].captured
      /\ req'[r].backup = req[r].backup
  BY DEF Local, Same
<1>10. RequestInv(r)' /\ LockInv(r)'
  <2>1. req'[r].pc \in Places(req[r].kind)
    <3>1. req[r].clone # NoRun => req[r].kind \in Restarting
      BY <1>1 DEF RequestInv
    <3> QED BY <1>2, <3>1, PlacesOf DEF Submitters
  <2>2. Doing(r)'
    BY DEF Doing
  <2> QED BY <1>0, <1>1, <1>2, <1>7, <2>1, <2>2, OwnKeeps DEF Unstarted
<1>11. CreationInv(r)'
  <2>1. req[r].clone # NoRun => req[r].kind \notin Creating
    BY <1>2 DEF Creating, Restarting
  <2> QED BY <1>1, <1>9, <2>1 DEF CreationInv, Failed, Gone
<1>12. SubmissionInv(r)' /\ StartInv(r)' /\ RetentionInv(r)' /\ DeletionInv(r)'
  <2>1. ~Underway(r)'
    <3>1. req[r].clone # NoRun => req[r].kind \in Restarting
      BY <1>1 DEF RequestInv
    <3> QED BY <1>9, <3>1 DEF Underway, Creating, Restarting
  <2> QED BY <2>1 DEF SubmissionInv, StartInv, RetentionInv, DeletionInv, At
<1>13. PromotionInv(r)'
  BY <1>1, <1>2, <1>9 DEF PromotionInv, Promoted, Unpromoted, Restarting
<1>14. RestartInv(r)'
  <2>1. ASSUME req[r].kind \in Restarting
        PROVE  \/ status[req[r].clone] \in {"queued", "running", "finished"}
               \/ home[req[r].clone] \in stray
    <3>1. s = req[r].clone
      BY <1>2, <2>1 DEF Subject, s
    <3> QED BY <1>0, <1>3, <1>4, <3>1 DEF Typed, Status
  <2> QED BY <1>2, <1>9, <2>1 DEF RestartInv, At
<1>15. ASSUME NEW x \in Request, x # r
       PROVE  Rely(x)
  <2>1. Still(x)
    BY <1>15 DEF Still, Local, Same
  <2>2. OwnRows(x) /\ OwnFile(x)
    BY DEF OwnRows, OwnFile
  <2>3. OwnMessages(x)
    <3>1. Underway(x) => Subject(x) \in Run
      BY <1>0, Owned DEF Kept
    <3> QED BY <1>3, <1>5, <1>15, <3>1 DEF OwnMessages
  <2>4. OwnCreation(x)
    BY <1>0, OwnCreationKept DEF Kept, Gone
  <2> QED BY <1>7, <2>1, <2>2, <2>3, <2>4 DEF Rely
<1> DEFINE W == {r}
<1>16. W \in SUBSET Request /\ \A x \in Request : x \notin W => x # r
  OBVIOUS
<1> QED BY <1>6, <1>7, <1>8, <1>10, <1>11, <1>12, <1>13, <1>14, <1>15, <1>16,
           Assemble
           DEF Kept

LEMMA PublishKeeps ==
  ASSUME IInv, NEW r \in Request, Publish(r)
  PROVE  IInv'
<1>1. Typed
  BY Parts
<1>2. Local(r) /\ req'[r].pc = "leaving" /\ req'[r].result = "ok"
  BY <1>1, FinishLocal DEF Publish, Typed, Result
<1>3. spoiled' = spoiled /\ spoiled \subseteq Run /\ faults' \in 0..MaxFaults
  BY <1>1, FaultyBound DEF Publish, history, Typed
<1>4. UNCHANGED <<status, home, rule, file, latest, held, rwc, late, stray, unlocked>>
  BY DEF Publish, history
<1> QED BY <1>2, <1>3, <1>4, SentKeeps DEF Publish

LEMMA PublishFailsKeeps ==
  ASSUME IInv, NEW r \in Request, PublishFails(r)
  PROVE  IInv'
<1>1. Typed /\ req[r].pc = "publish"
  BY Parts DEF PublishFails
<1>2. /\ Underway(r) /\ Doing(r) /\ req[r].kind \in {"submit"} \cup Submitters
      /\ req[r].run \in Run
  BY <1>1, Submits
<1>3. spoiled \subseteq spoiled' /\ spoiled' \subseteq Run
  BY <1>1, <1>2 DEF PublishFails, Abandoned, Typed
<1>4. req[r].kind \in Creating => req[r].run \in spoiled'
  BY <1>2 DEF PublishFails, Abandoned, Submitters, Restarting, Creating
<1>5. CASE Faulty /\ Sent(r)
  <2>1. UNCHANGED <<status, home, rule, file, latest, held, rwc, late, stray, unlocked>>
        /\ faults' \in 0..MaxFaults
    BY <1>1, <1>5, FaultyBound DEF PublishFails
  <2>2. CASE req[r].clone # NoRun /\ Goto(r, "unwind")
    <3>1. Local(r) /\ req'[r].pc = "unwind"
      BY <1>1, <2>2, GotoLocal DEF Typed, Steps
    <3> QED BY <1>1, <1>3, <1>5, <2>1, <2>2, <3>1, SentKeeps
  <2>3. CASE req[r].clone = NoRun /\ Finish(r, "failed")
    <3>1. Local(r) /\ req'[r].pc = "leaving" /\ req'[r].result = "failed"
      BY <1>1, <2>3, FinishLocal DEF Typed, Result
    <3> QED BY <1>1, <1>3, <1>4, <1>5, <2>1, <2>3, <3>1, SentKeeps
  <2> QED BY <2>2, <2>3 DEF PublishFails, FailFrom
<1>6. CASE UNCHANGED <<faults, submitted>>
  <2>1. Quiet(r)
    BY <1>1, <1>3, <1>6, FaultyBound DEF PublishFails, Quiet, Typed, rows
  <2> QED BY <1>1, <1>2, <1>4, <2>1, FailFromKeeps DEF PublishFails
<1> QED BY <1>5, <1>6 DEF PublishFails

\* A request that has locked the workspace of its run has it for itself.
LEMMA OwnWorkspace ==
  ASSUME IInv, NEW r \in Request, Doing(r),
         req[r].kind \in Submitters \cup {"retention"}
  PROVE  /\ req[r].run \in Run /\ home[req[r].run] \in Run
         /\ status[req[r].run] # "none"
         /\ \A x \in Request : x # r =>
              /\ home[req[r].run] \notin held[<<x, "outer">>]
              /\ \A u \in Run : Owns(x, u) => home[u] # home[req[r].run]
<1>1. Typed /\ RequestInv(r) /\ LockInv(r) /\ CreationInv(r)
  BY Parts DEF Kept
<1>2. /\ held[<<r, "outer">>] = {home[req[r].run]}
      /\ req[r].run \in Run /\ Owns(r, req[r].run)
  BY <1>1, Owned
<1>3. home[req[r].run] \in Run
  BY <1>1, <1>2 DEF Typed
<1> QED BY <1>2, <1>3, Disjoint DEF Owns

LEMMA PromoteKeeps ==
  ASSUME IInv, NEW r \in Request, Promote(r)
  PROVE  IInv'
<1>0. /\ Typed /\ RowInv /\ UnlockedInv
      /\ \A x \in Request : /\ Kept(x) /\ StartInv(x) /\ TraceInv(x)
                            /\ DeletionInv(x)
      /\ \A y, x \in Request : y # x => Apart(y, x)
  BY Parts
<1> DEFINE h == home[req[r].run]
<1>1. /\ RequestInv(r) /\ LockInv(r) /\ SubmissionInv(r)
      /\ req[r].pc = "promote" /\ Doing(r)
  BY <1>0 DEF Kept, Promote, Doing
<1>2. /\ req[r].kind \in Restarting /\ req[r].clone # NoRun
      /\ req[r].backup = "none" /\ Underway(r)
  BY <1>0, <1>1, KindsAt DEF RequestInv, Unstarted, Underway
<1>3. CASE FailFrom(r) /\ UNCHANGED file
  <2>1. Quiet(r)
    BY <1>0, <1>3, FaultyBound DEF Promote, Quiet, Typed, rows, history
  <2> QED BY <1>1, <1>2, <1>3, <2>1, FailFromKeeps DEF Creating, Restarting
<1>4. CASE /\ file[h] # "gone"
           /\ file' = [file EXCEPT ![h] = r]
           /\ req' = [req EXCEPT ![r].pc = "mark", ![r].backup = file[h]]
  <2>1. /\ home' = home /\ rule' = rule /\ latest' = latest /\ status' = status
        /\ submitted' = submitted /\ held' = held /\ rwc' = rwc
        /\ late' = late /\ stray' = stray /\ unlocked' = unlocked
        /\ faults' = faults /\ spoiled' = spoiled
    BY DEF Promote, history
  <2>2. /\ req[r].run \in Run /\ h \in Run /\ status[req[r].run] # "none"
        /\ \A x \in Request : x # r =>
              /\ h \notin held[<<x, "outer">>]
              /\ \A u \in Run : Owns(x, u) => home[u] # h
    BY <1>1, <1>2, OwnWorkspace DEF Submitters
  <2>3. /\ req \in [Request -> Variables] /\ req[r] \in Variables
        /\ file[h] \in File /\ file[h] # r /\ file[h] # "none" /\ r # "none"
    BY <1>0, <1>2, <2>2, FamilyAssumption DEF Typed, TraceInv, File
  <2> DEFINE one == [req[r] EXCEPT !.pc = "mark"]
             two == [one EXCEPT !.backup = file[h]]
  <2>4. req' = [req EXCEPT ![r] = two]
    BY <1>4
  <2>5. /\ one \in Variables /\ one.kind = req[r].kind /\ one.run = req[r].run
        /\ one.pc = "mark" /\ one.clone = req[r].clone
        /\ one.captured = req[r].captured
    BY <2>3 DEF Variables, Steps
  <2> HIDE DEF one
  <2>6. /\ two \in Variables /\ two.kind = req[r].kind /\ two.run = req[r].run
        /\ two.pc = "mark" /\ two.clone = req[r].clone
        /\ two.captured = req[r].captured /\ two.backup = file[h]
    BY <2>3, <2>5 DEF Variables
  <2> HIDE DEF two
  <2>7. /\ req' \in [Request -> Variables] /\ req'[r] = two
        /\ \A x \in Request : x # r => req'[x] = req[x]
    BY <2>3, <2>4, <2>6
  <2> HIDE DEF h
  <2>8. /\ file' \in [Run -> File] /\ file'[h] = r
        /\ \A v \in Run : v # h => file'[v] = file[v]
    BY <1>0, <1>4, <2>2 DEF Typed, File
  <2>9. Typed' /\ UnlockedInv'
    BY <1>0, <2>1, <2>7, <2>8 DEF Typed, UnlockedInv
  <2>10. RowInv'
    <3>1. status[h] # "none"
      BY <1>0, <2>2 DEF RowInv, h
    <3> QED BY <1>0, <2>1, <2>8, <3>1 DEF RowInv
  <2>11. Grows /\ NewRowsListed
    BY <2>1 DEF Grows, NewRowsListed
  <2>12. \A x \in Request : TraceInv(x)'
    <3> SUFFICES ASSUME NEW x \in Request
                 PROVE  TraceInv(x)'
      OBVIOUS
    <3>1. CASE x = r
      BY <2>3, <2>6, <2>7, <3>1 DEF TraceInv
    <3>2. CASE x # r
      <4>1. TraceInv(x) /\ req'[x] = req[x]
        BY <1>0, <2>7, <3>2
      <4>2. req[x].backup = "none" => \A y \in Request : req'[y].backup # x
        BY <2>2, <2>6, <2>7, <4>1 DEF TraceInv
      <4> QED BY <2>8, <3>2, <4>1, <4>2 DEF TraceInv
    <3> QED BY <3>1, <3>2
  <2>13. \A y, x \in Request : y # x => Apart(y, x)'
    <3>1. \A x \in Request : /\ req'[x].kind = req[x].kind
                              /\ req'[x].run = req[x].run
                              /\ req'[x].clone = req[x].clone
      BY <2>6, <2>7
    <3>2. \A x \in Request : Holds(x)' = Holds(x)
      BY <2>1 DEF Holds
    <3> SUFFICES ASSUME NEW y \in Request, NEW x \in Request, y # x
                 PROVE  Apart(y, x)'
      OBVIOUS
    <3>3. Apart(y, x)
      BY <1>0
    <3> QED BY <3>1, <3>2, <3>3 DEF Apart
  <2>14. RequestInv(r)'
    <3>1. "mark" \in Places(req[r].kind)
      BY <1>2, PlacesOf
    <3> QED BY <1>1, <1>2, <2>1, <2>6, <2>7, <3>1 DEF RequestInv, Unstarted
  <2>15. LockInv(r)'
    BY <1>1, <2>1, <2>6, <2>7 DEF LockInv, Doing, OuterKeys, CreationKeys
  <2>16. CreationInv(r)' /\ StartInv(r)'
    BY <1>2, <2>6, <2>7 DEF CreationInv, StartInv, Creating, Restarting
  <2>17. SubmissionInv(r)'
    <3>1. Subject(r)' = Subject(r)
      BY <2>6, <2>7 DEF Subject
    <3> QED BY <1>1, <1>2, <2>1, <2>6, <2>7, <3>1 DEF SubmissionInv
  <2>18. PromotionInv(r)'
    BY <2>1, <2>6, <2>7, <2>8 DEF PromotionInv, Unpromoted, h
  <2>19. RestartInv(r)' /\ RetentionInv(r)' /\ DeletionInv(r)'
    BY <2>6, <2>7 DEF RestartInv, At, RetentionInv, DeletionInv
  <2>20. ASSUME NEW x \in Request, x # r
         PROVE  Kept(x)' /\ StartInv(x)' /\ DeletionInv(x)'
    <3>1. Still(x) /\ req'[x] = req[x]
      BY <2>1, <2>7, <2>20 DEF Still
    <3>2. OwnRows(x) /\ OwnFile(x) /\ OwnMessages(x)
      BY <2>1, <2>2, <2>8, <2>20 DEF OwnRows, OwnFile, OwnMessages
    <3>3. OwnCreation(x)
      <4>1. CreationInv(x) /\ (req[x].kind \in Creating => req[x].run \in Run)
        BY <1>0, PlacesOf DEF Kept, RequestInv, Creating
      <4>2. Gone(req[x].run) /\ req[x].run \in Run => req[x].run # h
        BY <1>4 DEF Gone, h
      <4> QED BY <2>1, <2>8, <4>1, <4>2, OwnCreationKept DEF Gone
    <3>4. Kept(x)'
      BY <1>0, <2>11, <3>1, <3>2, <3>3, RelyKeeps DEF Rely
    <3>5. StartInv(x)'
      <4>1. StartInv(x)
        BY <1>0
      <4>2. \A y \in Request : /\ req'[y].kind = req[y].kind
                               /\ req'[y].run = req[y].run
                               /\ y = r \/ req'[y] = req[y]
        BY <2>6, <2>7
      <4>3. Underway(x)' => Underway(x)
        BY <3>1 DEF Underway
      <4> QED BY <1>1, <1>2, <2>1, <3>1, <4>1, <4>2, <4>3
                 DEF StartInv, Failed, Creating, Restarting
    <3>6. DeletionInv(x)'
      BY <1>0, <2>1, <3>1 DEF DeletionInv, At
    <3> QED BY <3>4, <3>5, <3>6
  <2> QED BY <2>9, <2>10, <2>12, <2>13, <2>14, <2>15, <2>16, <2>17, <2>18,
             <2>19,
             <2>20, Parts DEF IInv, Kept
<1> QED BY <1>3, <1>4 DEF Promote

LEMMA UnwindKeeps ==
  ASSUME IInv, NEW r \in Request, Unwind(r)
  PROVE  IInv'
<1>0. /\ Typed /\ RowInv /\ UnlockedInv
      /\ \A x \in Request : /\ Kept(x) /\ StartInv(x) /\ TraceInv(x)
                            /\ DeletionInv(x)
      /\ \A y, x \in Request : y # x => Apart(y, x)
  BY Parts
<1> DEFINE h == home[req[r].run]
<1>1. /\ RequestInv(r) /\ LockInv(r) /\ req[r].pc = "unwind" /\ Doing(r)
  BY <1>0 DEF Kept, Unwind, Doing
<1>2. req[r].kind \in Restarting /\ req[r].clone # NoRun
  BY <1>0, <1>1, KindsAt DEF RequestInv, Unstarted
<1>3. /\ home' = home /\ rule' = rule /\ latest' = latest /\ status' = status
      /\ submitted' = submitted /\ held' = held /\ rwc' = rwc
      /\ late' = late /\ stray' = stray /\ unlocked' = unlocked
      /\ faults' = faults /\ spoiled' = spoiled
  BY DEF Unwind, history
<1>4. Local(r) /\ req'[r].pc = "compensate" /\ req'[r].result = req[r].result
  BY <1>0, GotoLocal DEF Unwind, Typed, Steps
<1>5. /\ req[r].run \in Run /\ h \in Run /\ status[req[r].run] # "none"
      /\ \A x \in Request : x # r => h \notin held[<<x, "outer">>]
  BY <1>1, <1>2, OwnWorkspace DEF Submitters
<1>6. req[r].backup \in File \cup {"none"} /\ req[r].backup # r
  <2>1. req[r] \in Variables
    BY <1>0 DEF Typed
  <2> QED BY <1>0, <2>1 DEF TraceInv, Variables
<1>7. /\ req'[r].kind = req[r].kind /\ req'[r].run = req[r].run
      /\ req'[r].clone = req[r].clone /\ req'[r].backup = req[r].backup
  BY <1>4 DEF Local, Same
<1>8. \/ file' = file /\ (req[r].backup = "none" \/ file[h] = "gone")
      \/ /\ req[r].backup # "none" /\ file[h] # "gone"
         /\ file' = [file EXCEPT ![h] = req[r].backup]
  BY DEF Unwind, Unwound
<1>9. home[req[r].run] = h
  OBVIOUS
<1> HIDE DEF h
<1>10. /\ file' \in [Run -> File]
       /\ \A v \in Run : v # h \/ file[v] = "gone" => file'[v] = file[v]
       /\ \A v \in Run : file'[v] \in {file[v], req[r].backup}
       /\ \A v \in Run : req[r].backup = "none" => file'[v] = file[v]
       /\ file'[h] # r
  <2>1. CASE file' = file /\ (req[r].backup = "none" \/ file[h] = "gone")
    BY <1>0, <1>5, <2>1, FamilyAssumption DEF Typed, TraceInv
  <2>2. CASE /\ req[r].backup # "none" /\ file[h] # "gone"
             /\ file' = [file EXCEPT ![h] = req[r].backup]
    BY <1>0, <1>5, <1>6, <2>2 DEF Typed
  <2> QED BY <1>8, <2>1, <2>2
<1>11. Typed' /\ UnlockedInv'
  BY <1>0, <1>3, <1>4, <1>10 DEF Typed, UnlockedInv, Local, Same
<1>12. RowInv'
  BY <1>0, <1>3, <1>10 DEF RowInv
<1>13. SameRequests /\ Grows /\ NewRowsListed
  BY <1>1, <1>3, <1>4, SameAfter DEF Grows, NewRowsListed
<1>14. \A x \in Request : TraceInv(x)'
  <2> SUFFICES ASSUME NEW x \in Request
               PROVE  TraceInv(x)'
    OBVIOUS
  <2>1. TraceInv(x) /\ \A y \in Request : req'[y].backup = req[y].backup
    BY <1>0, <1>13 DEF SameRequests
  <2> QED BY <1>10, <2>1 DEF TraceInv
<1>15. RequestInv(r)' /\ LockInv(r)'
  <2>1. "compensate" \in Places(req[r].kind) /\ Doing(r)'
    BY <1>2, <1>4, PlacesOf DEF Doing
  <2> QED BY <1>0, <1>1, <1>2, <1>3, <1>4, <1>13, <2>1, OwnKeeps DEF Unstarted
<1>16. CreationInv(r)' /\ SubmissionInv(r)' /\ StartInv(r)'
  BY <1>2, <1>4, <1>7 DEF CreationInv, SubmissionInv, StartInv, Underway,
     Creating,
     Restarting
<1>17. PromotionInv(r)'
  BY <1>3, <1>4, <1>7, <1>9, <1>10 DEF PromotionInv, Promoted
<1>18. RestartInv(r)' /\ RetentionInv(r)' /\ DeletionInv(r)'
  BY <1>4 DEF RestartInv, At, RetentionInv, DeletionInv
<1>19. ASSUME NEW x \in Request, x # r
       PROVE  Rely(x)
  <2>1. Still(x)
    BY <1>3, <1>4, <1>19 DEF Still, Local, Same
  <2>2. OwnRows(x) /\ OwnMessages(x)
    BY <1>3 DEF OwnRows, OwnMessages
  <2>3. OwnFile(x)
    BY <1>5, <1>10, <1>19 DEF OwnFile
  <2>4. OwnCreation(x)
    <3>1. CreationInv(x) /\ (req[x].kind \in Creating => req[x].run \in Run)
      BY <1>0, PlacesOf DEF Kept, RequestInv, Creating
    <3> QED BY <1>3, <1>10, <3>1, OwnCreationKept DEF Gone
  <2> QED BY <1>13, <2>1, <2>2, <2>3, <2>4 DEF Rely
<1> DEFINE W == {r}
<1>20. W \in SUBSET Request /\ \A x \in Request : x \notin W => x # r
  OBVIOUS
<1> QED BY <1>3, <1>11, <1>12, <1>13, <1>14, <1>15, <1>16, <1>17, <1>18,
           <1>19, <1>20,
           Assemble DEF Kept

LEMMA CompensateRestartKeeps ==
  ASSUME IInv, NEW r \in Request, CompensateRestart(r)
  PROVE  IInv'
<1>0. /\ Typed /\ RowInv /\ UnlockedInv
      /\ \A x \in Request : /\ Kept(x) /\ StartInv(x) /\ TraceInv(x)
                            /\ DeletionInv(x)
      /\ \A y, x \in Request : y # x => Apart(y, x)
  BY Parts
<1> DEFINE c == req[r].clone
<1>1. /\ RequestInv(r) /\ LockInv(r) /\ CreationInv(r) /\ PromotionInv(r)
      /\ req[r].pc = "compensate" /\ Doing(r) /\ req[r].kind \in Restarting
  BY <1>0 DEF Kept, CompensateRestart, Doing, At
<1>2. req[r].clone # NoRun
  BY <1>1 DEF RequestInv, Unstarted
<1>3. /\ home' = home /\ latest' = latest /\ file' = file
      /\ submitted' = submitted /\ held' = held /\ rwc' = rwc
      /\ late' = late /\ stray' = stray /\ unlocked' = unlocked
      /\ Finish(r, "failed")
  BY DEF CompensateRestart
<1>4. Local(r) /\ req'[r].pc = "leaving" /\ req'[r].result = "failed"
  BY <1>0, <1>3, FinishLocal DEF Typed, Result
<1>5. /\ req'[r].kind = req[r].kind /\ req'[r].run = req[r].run
      /\ req'[r].clone = req[r].clone /\ req'[r].captured = req[r].captured
  BY <1>4 DEF Local, Same
<1>6. /\ c \in Run /\ status[c] # "none" /\ home[c] = home[req[r].run]
      /\ \A u \in Run : req[r].captured[u] # "none" =>
           status[u] # "none" /\ home[u] = home[req[r].run] /\ u # c
      /\ \A x \in Request : x # r =>
           \A u \in Run : Owns(x, u) => home[u] # home[req[r].run]
  <2>1. \A x \in Request : x # r =>
           \A u \in Run : Owns(x, u) => home[u] # home[req[r].run]
    BY <1>1, OwnWorkspace DEF Submitters
  <2>2. c \in Run
    BY <1>0, <1>1, <1>2, Doings
  <2> QED BY <1>1, <1>2, <2>1, <2>2 DEF RequestInv
<1>7. /\ status' \in [Run -> Status] /\ rule' \in [Run -> Rule]
      /\ spoiled \subseteq spoiled' /\ spoiled' \subseteq Run
      /\ faults' \in 0..MaxFaults
      /\ \A v \in Run : v # c => status'[v] = status[v]
      /\ \A v \in Run : v # c /\ req[r].captured[v] = "none" => rule'[v] = rule[v]
      /\ status'[c] \in {status[c], "deleted"}
      /\ \/ c \in spoiled'
         \/ /\ status'[c] = "deleted" /\ rule'[c] = "inactive"
            /\ \A v \in Run : req[r].captured[v] # "none" =>
                 rule'[v] = req[r].captured[v]
  <2>1. CASE /\ status' = [status EXCEPT ![c] = "deleted"]
             /\ rule' = Restored(r)
             /\ UNCHANGED <<faults, spoiled>>
    <3>1. req[r].captured \in [Run -> Rule]
      <4>1. req[r] \in Variables
        BY <1>0 DEF Typed
      <4> QED BY <4>1 DEF Variables
    <3>2. rule' \in [Run -> Rule]
      BY <1>0, <2>1, <3>1 DEF Restored, Typed, Rule
    <3> QED BY <1>0, <1>6, <2>1, <3>2 DEF Restored, Typed, Status
  <2>2. CASE /\ Faulty
             /\ spoiled' = spoiled \cup {c}
             /\ UNCHANGED <<status, rule>>
    BY <1>0, <1>6, <2>2, FaultyBound DEF Typed
  <2> QED BY <2>1, <2>2 DEF CompensateRestart
<1> HIDE DEF c
<1>8. Typed' /\ UnlockedInv'
  BY <1>0, <1>3, <1>4, <1>7 DEF Typed, UnlockedInv, Local, Same
<1>9. RowInv'
  <2>1. \A v \in Run : /\ status'[v] = "none" <=> status[v] = "none"
                       /\ status'[v] = "created" => status[v] = "created"
                       /\ status[v] = "none" => rule'[v] = rule[v]
                       /\ home[v] \in Run
    BY <1>0, <1>6, <1>7 DEF Typed
  <2> QED BY <1>0, <1>3, <2>1 DEF RowInv
<1>10. SameRequests /\ Grows /\ NewRowsListed
  <2>1. \A u \in Run : status'[u] # "none" <=> status[u] # "none"
    BY <1>6, <1>7
  <2> QED BY <1>1, <1>3, <1>4, <1>7, <2>1, SameAfter DEF Grows, NewRowsListed
<1>11. \A x \in Request : TraceInv(x)'
  BY <1>0, <1>3, <1>10, TraceKept
<1>12. RequestInv(r)' /\ LockInv(r)'
  <2>1. "leaving" \in Places(req[r].kind) /\ Doing(r)'
    BY <1>1, <1>4, PlacesOf DEF Doing
  <2> QED BY <1>0, <1>1, <1>2, <1>3, <1>4, <1>10, <2>1, OwnKeeps DEF Unstarted
<1>13. CreationInv(r)' /\ SubmissionInv(r)' /\ StartInv(r)'
  BY <1>1, <1>4, <1>5 DEF CreationInv, SubmissionInv, StartInv, Underway,
     Creating,
     Restarting
<1>14. file[home[req[r].run]] # r
  BY <1>1 DEF PromotionInv, Unpromoted
<1>15. PromotionInv(r)'
  BY <1>3, <1>4, <1>5, <1>14 DEF PromotionInv, Promoted
<1>16. RestartInv(r)'
  <2> SUFFICES ASSUME c \notin spoiled'
               PROVE  RestartInv(r)'
    BY <1>5 DEF RestartInv, c
  <2>1. /\ status'[c] = "deleted" /\ rule'[c] = "inactive"
        /\ \A v \in Run : req[r].captured[v] # "none" =>
             rule'[v] = req[r].captured[v]
    BY <1>7
  <2>2. file'[home'[c]] # r
    BY <1>3, <1>6, <1>14
  <2>3. req'[r].clone = c
    BY <1>5 DEF c
  <2>4. Undone(r)'
    BY <1>5, <2>1, <2>2, <2>3 DEF Undone
  <2> QED BY <1>4, <2>4 DEF RestartInv
<1>17. RetentionInv(r)' /\ DeletionInv(r)'
  BY <1>4 DEF At, RetentionInv, DeletionInv
<1>18. ASSUME NEW x \in Request, x # r
       PROVE  Rely(x)
  <2>1. Still(x)
    BY <1>3, <1>4, <1>18 DEF Still, Local, Same
  <2>2. OwnFile(x) /\ OwnMessages(x)
    BY <1>3 DEF OwnFile, OwnMessages
  <2>3. OwnRows(x)
    BY <1>6, <1>7, <1>18 DEF OwnRows
  <2>4. OwnCreation(x)
    <3>1. CreationInv(x) /\ (req[x].kind \in Creating => req[x].run \in Run)
      BY <1>0, PlacesOf DEF Kept, RequestInv, Creating
    <3> QED BY <1>3, <1>6, <1>7, <3>1, OwnCreationKept DEF Gone
  <2> QED BY <1>10, <2>1, <2>2, <2>3, <2>4 DEF Rely
<1> DEFINE W == {r}
<1>19. W \in SUBSET Request /\ \A x \in Request : x \notin W => x # r
  OBVIOUS
<1> QED BY <1>3, <1>8, <1>9, <1>10, <1>11, <1>12, <1>13, <1>15, <1>16, <1>17,
           <1>18,
           <1>19, Assemble DEF Kept

----------------------------------------------------------------------------
(* The steps of a retention run.                                           *)

LEMMA MarkPendingKeeps ==
  ASSUME IInv, NEW r \in Request, MarkPending(r)
  PROVE  IInv'
<1>0. /\ Typed /\ RowInv /\ UnlockedInv
      /\ \A x \in Request : /\ Kept(x) /\ StartInv(x) /\ TraceInv(x)
                            /\ DeletionInv(x)
      /\ \A y, x \in Request : y # x => Apart(y, x)
  BY Parts
<1> DEFINE h == home[req[r].run]
           due == Due(r)
           marked == [u \in Run |-> IF u \in due THEN "pending" ELSE "none"]
<1>1. /\ RequestInv(r) /\ LockInv(r) /\ req[r].pc = "apply" /\ Doing(r)
  BY <1>0 DEF Kept, MarkPending, Doing
<1>2. /\ req[r].kind = "retention" /\ req[r].clone = NoRun
  BY <1>0, <1>1, KindsAt DEF RequestInv, Restarting
<1>3. /\ home' = home /\ latest' = latest /\ status' = status /\ file' = file
      /\ submitted' = submitted /\ held' = held /\ rwc' = rwc
      /\ late' = late /\ stray' = stray /\ unlocked' = unlocked
      /\ faults' = faults /\ spoiled' = spoiled
  BY DEF MarkPending, history
<1>4. /\ req[r].run \in Run /\ status[req[r].run] # "none"
      /\ \A x \in Request : x # r =>
           \A u \in Run : Owns(x, u) => home[u] # h
  BY <1>1, <1>2, OwnWorkspace
<1>5. \A u \in Run : u \in due => status[u] # "none" /\ home[u] = h
  BY DEF Due, Sharing
<1> DEFINE one == [req[r] EXCEPT !.pc = "pending"]
           two == [one EXCEPT !.captured = marked]
<1>6. req' = [req EXCEPT ![r] = two]
  BY DEF MarkPending
<1>7. req \in [Request -> Variables] /\ req[r] \in Variables
  BY <1>0 DEF Typed
<1>8. /\ one \in Variables /\ one.kind = req[r].kind /\ one.run = req[r].run
      /\ one.pc = "pending" /\ one.clone = req[r].clone
      /\ one.backup = req[r].backup
  BY <1>7 DEF Variables, Steps
<1> HIDE DEF one
<1>9. marked \in [Run -> Rule]
  BY DEF Rule
<1>10. \A u \in Run : marked[u] = IF u \in due THEN "pending" ELSE "none"
  OBVIOUS
<1>11. rule' = [u \in Run |-> IF u \in due THEN "pending" ELSE rule[u]]
  BY DEF MarkPending
<1>12. h = home[req[r].run]
  OBVIOUS
<1> HIDE DEF marked, due, h
<1>13. /\ two \in Variables /\ two.kind = req[r].kind /\ two.run = req[r].run
       /\ two.pc = "pending" /\ two.clone = req[r].clone
       /\ two.backup = req[r].backup /\ two.captured = marked
  BY <1>8, <1>9 DEF Variables
<1> HIDE DEF two
<1>14. /\ req' \in [Request -> Variables] /\ req'[r] = two
       /\ \A x \in Request : x # r => req'[x] = req[x]
  BY <1>6, <1>7, <1>13
<1>15. /\ rule' \in [Run -> Rule]
       /\ \A u \in Run : rule'[u] = IF u \in due THEN "pending" ELSE rule[u]
  BY <1>0, <1>11 DEF Typed, Rule
<1>16. Typed' /\ RowInv' /\ UnlockedInv'
  BY <1>0, <1>3, <1>5, <1>14, <1>15 DEF Typed, RowInv, UnlockedInv
<1>17. SameRequests /\ Grows /\ NewRowsListed
  BY <1>1, <1>3, <1>13, <1>14 DEF SameRequests, Grows, NewRowsListed
<1>18. \A x \in Request : TraceInv(x)'
  BY <1>0, <1>3, <1>17, TraceKept
<1>19. RequestInv(r)'
  <2>1. "pending" \in Places(req[r].kind)
    BY <1>2, PlacesOf
  <2>2. ASSUME NEW u \in Run, marked[u] # "none"
        PROVE  status[u] # "none" /\ home[u] = home[req[r].run] /\ u # NoRun
    BY <1>5, <1>10, <1>12, <2>2, FamilyAssumption
  <2> QED BY <1>1, <1>2, <1>3, <1>4, <1>13, <1>14, <2>1, <2>2
             DEF RequestInv, Unstarted, Creating, Restarting
<1>20. LockInv(r)'
  BY <1>1, <1>3, <1>13, <1>14 DEF LockInv, Doing, OuterKeys, CreationKeys
<1>21. CreationInv(r)' /\ SubmissionInv(r)' /\ StartInv(r)' /\ PromotionInv(r)'
       /\ RestartInv(r)' /\ DeletionInv(r)'
  BY <1>2, <1>13, <1>14 DEF CreationInv, SubmissionInv, StartInv, Underway,
     PromotionInv, RestartInv, DeletionInv, At, Creating, Restarting
<1>22. RetentionInv(r)'
  BY <1>10, <1>13, <1>14, <1>15 DEF RetentionInv
<1>23. ASSUME NEW x \in Request, x # r
       PROVE  Rely(x)
  <2>1. Still(x)
    BY <1>3, <1>14, <1>23 DEF Still
  <2>2. OwnFile(x) /\ OwnMessages(x)
    BY <1>3 DEF OwnFile, OwnMessages
  <2>3. OwnRows(x)
    BY <1>3, <1>4, <1>5, <1>15, <1>23 DEF OwnRows
  <2>4. OwnCreation(x)
    BY <1>0, <1>3, OwnCreationKept DEF Kept, Gone
  <2> QED BY <1>17, <2>1, <2>2, <2>3, <2>4 DEF Rely
<1> DEFINE W == {r}
<1>24. W \in SUBSET Request /\ \A x \in Request : x \notin W => x # r
  OBVIOUS
<1> QED BY <1>3, <1>16, <1>17, <1>18, <1>19, <1>20, <1>21, <1>22, <1>23, <1>24,
           Assemble DEF Kept

LEMMA ApplyKeeps ==
  ASSUME IInv, NEW r \in Request, Apply(r)
  PROVE  IInv'
<1>0. /\ Typed /\ RowInv /\ UnlockedInv
      /\ \A x \in Request : /\ Kept(x) /\ StartInv(x) /\ TraceInv(x)
                            /\ DeletionInv(x)
      /\ \A y, x \in Request : y # x => Apart(y, x)
  BY Parts
<1>1. /\ RequestInv(r) /\ LockInv(r) /\ req[r].pc = "pending" /\ Doing(r)
  BY <1>0 DEF Kept, Apply, Doing
<1>2. /\ req[r].kind = "retention" /\ req[r].clone = NoRun
  BY <1>0, <1>1, KindsAt DEF RequestInv, Restarting
<1>3. /\ home' = home /\ latest' = latest /\ status' = status /\ file' = file
      /\ submitted' = submitted /\ held' = held /\ rwc' = rwc
      /\ late' = late /\ stray' = stray /\ unlocked' = unlocked
      /\ faults' = faults /\ spoiled' = spoiled
  BY DEF Apply, history
<1>4. Local(r) /\ req'[r].pc = "leaving" /\ req'[r].result = "ok"
  BY <1>0, FinishLocal DEF Apply, Typed, Result
<1>5. \A x \in Request : x # r =>
        \A u \in Run : Owns(x, u) => home[u] # home[req[r].run]
  BY <1>1, <1>2, OwnWorkspace
<1>6. \A u \in Run : req[r].captured[u] = "pending" =>
        status[u] # "none" /\ home[u] = home[req[r].run]
  BY <1>1 DEF RequestInv
<1> DEFINE chosen == {u \in Run : req[r].captured[u] = "pending"}
<1>7. PICK applied \in SUBSET chosen :
        rule' = [u \in Run |-> IF u \in applied THEN "applied"
                               ELSE IF u \in chosen THEN "active"
                               ELSE rule[u]]
  BY DEF Apply
<1>8. /\ rule' \in [Run -> Rule]
      /\ \A u \in Run : req[r].captured[u] # "pending" => rule'[u] = rule[u]
  BY <1>0, <1>7 DEF Typed, Rule
<1>9. Typed' /\ RowInv' /\ UnlockedInv'
  BY <1>0, <1>3, <1>4, <1>6, <1>8 DEF Typed, RowInv, UnlockedInv, Local, Same
<1>10. SameRequests /\ Grows /\ NewRowsListed
  BY <1>1, <1>3, <1>4, SameAfter DEF Grows, NewRowsListed
<1>11. \A x \in Request : TraceInv(x)'
  BY <1>0, <1>3, <1>10, TraceKept
<1>12. RequestInv(r)' /\ LockInv(r)'
  <2>1. "leaving" \in Places(req[r].kind) /\ Doing(r)'
    BY <1>2, <1>4, PlacesOf DEF Doing
  <2> QED BY <1>0, <1>1, <1>2, <1>3, <1>4, <1>10, <2>1, OwnKeeps
             DEF Unstarted, Restarting
<1>13. CreationInv(r)' /\ SubmissionInv(r)' /\ StartInv(r)' /\ PromotionInv(r)'
       /\ RestartInv(r)' /\ DeletionInv(r)' /\ RetentionInv(r)'
  <2>1. req'[r].kind = "retention"
    BY <1>2, <1>4 DEF Local, Same
  <2> QED BY <1>4, <2>1 DEF CreationInv, SubmissionInv, StartInv, Underway,
       PromotionInv, RestartInv, DeletionInv, RetentionInv, At, Creating, Restarting
<1>14. ASSUME NEW x \in Request, x # r
       PROVE  Rely(x)
  <2>1. Still(x)
    BY <1>3, <1>4, <1>14 DEF Still, Local, Same
  <2>2. OwnFile(x) /\ OwnMessages(x)
    BY <1>3 DEF OwnFile, OwnMessages
  <2>3. OwnRows(x)
    BY <1>3, <1>5, <1>6, <1>8, <1>14 DEF OwnRows
  <2>4. OwnCreation(x)
    BY <1>0, <1>3, OwnCreationKept DEF Kept, Gone
  <2> QED BY <1>10, <2>1, <2>2, <2>3, <2>4 DEF Rely
<1> DEFINE W == {r}
<1>15. W \in SUBSET Request /\ \A x \in Request : x \notin W => x # r
  OBVIOUS
<1> QED BY <1>3, <1>9, <1>10, <1>11, <1>12, <1>13, <1>14, <1>15, Assemble
           DEF Kept

----------------------------------------------------------------------------
(* The scheduler and the controller.                                       *)

LEMMA StartKeeps ==
  ASSUME IInv, NEW u \in Run, Start(u)
  PROVE  IInv'
<1>0. /\ Typed /\ RowInv /\ UnlockedInv
      /\ \A x \in Request : Kept(x) /\ TraceInv(x)
  BY Parts
<1>1. /\ home' = home /\ latest' = latest /\ rule' = rule /\ file' = file
      /\ submitted' = submitted /\ held' = held /\ rwc' = rwc /\ req' = req
      /\ late' = late /\ stray' = stray /\ unlocked' = unlocked
      /\ faults' = faults /\ spoiled' = spoiled /\ status[u] = "queued"
  BY DEF Start, history
<1>2. /\ status' \in [Run -> Status] /\ status'[u] = "running"
      /\ \A v \in Run : v # u => status'[v] = status[v]
  BY <1>0 DEF Start, Typed, Status
<1>3. Typed' /\ RowInv' /\ UnlockedInv'
  BY <1>0, <1>1, <1>2 DEF Typed, RowInv, UnlockedInv
<1>4. SameRequests /\ Grows /\ NewRowsListed
  BY <1>1, <1>2 DEF SameRequests, Grows, NewRowsListed
<1>5. \A x \in Request : TraceInv(x)'
  BY <1>0, <1>1, <1>4, TraceKept
<1>6. ASSUME NEW x \in Request
      PROVE  Rely(x)
  <2>1. Still(x) /\ OwnFile(x) /\ OwnMessages(x)
    BY <1>1 DEF Still, OwnFile, OwnMessages
  <2>2. OwnRows(x)
    BY <1>1, <1>2 DEF OwnRows
  <2>3. OwnCreation(x)
    <3>1. CreationInv(x) /\ (req[x].kind \in Creating => req[x].run \in Run)
      BY <1>0, PlacesOf DEF Kept, RequestInv, Creating
    <3> QED BY <1>1, <1>2, <3>1, OwnCreationKept DEF Gone
  <2> QED BY <1>4, <2>1, <2>2, <2>3 DEF Rely
<1> DEFINE W == {}
<1>7. W \in SUBSET Request /\ \A x \in Request : x \notin W
  OBVIOUS
<1> QED BY <1>1, <1>3, <1>4, <1>5, <1>6, <1>7, Assemble

LEMMA EndKeeps ==
  ASSUME IInv, NEW u \in Run, End(u)
  PROVE  IInv'
<1>0. /\ Typed /\ RowInv /\ UnlockedInv
      /\ \A x \in Request : Kept(x) /\ TraceInv(x)
  BY Parts
<1>1. /\ home' = home /\ latest' = latest /\ file' = file
      /\ submitted' = submitted /\ held' = held /\ rwc' = rwc /\ req' = req
      /\ late' = late /\ stray' = stray /\ unlocked' = unlocked
      /\ faults' = faults /\ spoiled' = spoiled /\ status[u] = "running"
  BY DEF End, history
<1>2. /\ status' \in [Run -> Status] /\ status'[u] = "finished"
      /\ \A v \in Run : v # u => status'[v] = status[v]
  BY <1>0 DEF End, Typed, Status
<1>3. /\ rule' \in [Run -> Rule]
      /\ \A v \in Run : \/ rule'[v] = rule[v]
                        \/ v = u /\ rule[v] = "created" /\ rule'[v] = "active"
  BY <1>0 DEF End, Typed, Rule
<1>4. Typed' /\ RowInv' /\ UnlockedInv'
  BY <1>0, <1>1, <1>2, <1>3 DEF Typed, RowInv, UnlockedInv
<1>5. SameRequests /\ Grows /\ NewRowsListed
  BY <1>1, <1>2 DEF SameRequests, Grows, NewRowsListed
<1>6. \A x \in Request : TraceInv(x)'
  BY <1>0, <1>1, <1>5, TraceKept
<1>7. ASSUME NEW x \in Request
      PROVE  Rely(x)
  <2>1. Still(x) /\ OwnFile(x) /\ OwnMessages(x)
    BY <1>1 DEF Still, OwnFile, OwnMessages
  <2>2. OwnRows(x)
    BY <1>1, <1>2, <1>3 DEF OwnRows
  <2>3. OwnCreation(x)
    <3>1. CreationInv(x) /\ (req[x].kind \in Creating => req[x].run \in Run)
      BY <1>0, PlacesOf DEF Kept, RequestInv, Creating
    <3> QED BY <1>1, <1>2, <3>1, OwnCreationKept DEF Gone
  <2> QED BY <1>5, <2>1, <2>2, <2>3 DEF Rely
<1> DEFINE W == {}
<1>8. W \in SUBSET Request /\ \A x \in Request : x \notin W
  OBVIOUS
<1> QED BY <1>1, <1>4, <1>5, <1>6, <1>7, <1>8, Assemble

LEMMA RwcCreatesKeeps ==
  ASSUME IInv, NEW r \in Request, RwcCreates(r)
  PROVE  IInv'
<1>0. /\ Typed /\ RowInv /\ UnlockedInv
      /\ \A x \in Request : /\ Kept(x) /\ StartInv(x) /\ TraceInv(x)
                            /\ DeletionInv(x)
      /\ \A y, x \in Request : y # x => Apart(y, x)
  BY Parts
<1> DEFINE u == req[r].run
<1>1. /\ RequestInv(r) /\ LockInv(r) /\ CreationInv(r) /\ SubmissionInv(r)
      /\ rwc[r] = "working" /\ req[r].kind \in Creating
  BY <1>0 DEF Kept, RwcCreates
<1>2. /\ req[r].pc \in {"waiting", "reconcile", "leaving", "done"}
      /\ u \in Run /\ status[u] = "none" /\ home[u] = u
      /\ submitted[u] = 0 /\ req[r].clone = NoRun
      /\ \A v \in Run : req[r].captured[v] = "none"
  <2>1. req[r].pc \in Places(req[r].kind) /\ req[r].pc \notin {"idle", "enter", "call"}
    BY <1>1 DEF RequestInv
  <2>2. req[r].pc \notin {"seed", "quota", "mark", "publish", "compensate"}
        /\ status[u] = "none" /\ home[u] = u
    BY <1>1 DEF CreationInv
  <2>3. req[r].pc \in {"waiting", "reconcile", "leaving", "done"}
    BY <1>1, <2>1, <2>2, PlacesOf DEF Creating
  <2>4. u \in Run /\ req[r].clone = NoRun /\ \A v \in Run : req[r].captured[v] = "none"
    BY <1>1, <2>3 DEF RequestInv, Creating, Restarting
  <2> QED BY <1>0, <2>2, <2>3, <2>4 DEF RowInv
<1>3. /\ home' = home /\ submitted' = submitted /\ held' = held /\ req' = req
      /\ faults' = faults /\ stray' = stray /\ unlocked' = unlocked
      /\ spoiled' = spoiled
  BY DEF RwcCreates
<1>4. /\ status' = [status EXCEPT ![u] = "created"]
      /\ rule' = [rule EXCEPT ![u] = "created"]
      /\ file' = [file EXCEPT ![u] = "empty"]
      /\ latest' = u
      /\ late' = IF req[r].pc \in {"waiting", "reconcile"} THEN late
                 ELSE late \cup {u}
      /\ rwc' = [rwc EXCEPT ![r] = "committed"]
  BY DEF RwcCreates
<1> HIDE DEF u
<1>5. /\ status' \in [Run -> Status] /\ status'[u] = "created"
      /\ \A v \in Run : v # u => status'[v] = status[v]
  BY <1>0, <1>2, <1>4 DEF Typed, Status
<1>6. /\ rule' \in [Run -> Rule]
      /\ \A v \in Run : v # u => rule'[v] = rule[v]
  BY <1>0, <1>2, <1>4 DEF Typed, Rule
<1>7. /\ file' \in [Run -> File] /\ file'[u] = "empty"
      /\ \A v \in Run : v # u => file'[v] = file[v]
  BY <1>0, <1>2, <1>4 DEF Typed, File
<1>8. /\ rwc' \in [Request -> {"idle", "working", "committed", "refused"}]
      /\ rwc'[r] = "committed"
      /\ \A x \in Request : x # r => rwc'[x] = rwc[x]
  BY <1>0, <1>4 DEF Typed
<1>9. /\ late \subseteq late' /\ late' \subseteq Run
      /\ req[r].pc \in {"leaving", "done"} => u \in late'
  BY <1>0, <1>2, <1>4 DEF Typed
<1>10. Typed' /\ UnlockedInv'
  BY <1>0, <1>2, <1>3, <1>4, <1>5, <1>6, <1>7, <1>8, <1>9 DEF Typed,
     UnlockedInv
<1>11. RowInv'
  <2>1. \A v \in Run : home[v] \in Run
    BY <1>0 DEF Typed
  <2> QED BY <1>0, <1>2, <1>3, <1>5, <1>6, <1>7, <2>1 DEF RowInv
<1>12. SameRequests /\ Grows
  BY <1>2, <1>3, <1>5, <1>9 DEF SameRequests, Grows
<1>13. \A x \in Request : TraceInv(x)'
  BY <1>0, <1>7, <1>12, TraceKept
<1>14. ASSUME NEW x \in Request,
              At(x, {"delete_all"}, "call") \/ At(x, {"delete_all"}, "waiting")
       PROVE  NewRowsListed
  <2>1. Family \in held[<<x, "outer">>] /\ x # r
    <3>1. Doing(x) /\ req[x].kind = "delete_all" /\ LockInv(x)
      BY <1>0, <1>14 DEF At, Doing, Kept
    <3> QED BY <1>1, <3>1 DEF LockInv, OuterKeys, Creating
  <2>2. Doing(r) => Family \in held[<<r, "outer">>]
    BY <1>1 DEF LockInv, OuterKeys, CreationKeys
  <2>3. ~Doing(r)
    BY <2>1, <2>2, Disjoint
  <2>4. u \in late'
    BY <1>2, <1>9, <2>3 DEF Doing
  <2> QED BY <1>2, <1>3, <1>5, <2>4 DEF NewRowsListed
<1>15. RequestInv(r)'
  BY <1>1, <1>2, <1>3, FamilyAssumption DEF RequestInv, Creating, Restarting
<1>16. LockInv(r)'
  BY <1>1, <1>3 DEF LockInv, Doing, OuterKeys, CreationKeys
<1>17. CreationInv(r)'
  <2>1. req[r].pc \in {"leaving", "done"} => ~Failed(r)'
    BY <1>3, <1>9 DEF Failed, u
  <2> QED BY <1>2, <1>3, <1>5, <1>8, <2>1 DEF CreationInv, u
<1>18. SubmissionInv(r)'
  <2>1. Subject(r)' = u
    BY <1>2, <1>3 DEF Subject, u
  <2> QED BY <1>2, <1>3, <1>5, <2>1 DEF SubmissionInv
<1>19. StartInv(r)' /\ PromotionInv(r)' /\ RestartInv(r)' /\ RetentionInv(r)'
       /\ DeletionInv(r)'
  BY <1>1, <1>2, <1>3 DEF StartInv, PromotionInv, RestartInv, RetentionInv,
     DeletionInv,
     At, Creating, Restarting
<1>20. ASSUME NEW x \in Request, x # r
       PROVE  Rely(x)
  <2>1. Still(x)
    BY <1>3, <1>8, <1>20 DEF Still
  <2>2. OwnRows(x) /\ OwnMessages(x)
    BY <1>2, <1>3, <1>5, <1>6 DEF OwnRows, Owns, OwnMessages
  <2>3. req[x].kind \in Creating => req[x].run # u
    BY <1>0, <1>1, <1>20 DEF Apart, u
  <2>4. RequestInv(x) /\ LockInv(x) /\ CreationInv(x)
    BY <1>0 DEF Kept
  <2>5. u \notin held[<<x, "outer">>]
    <3>1. CASE ~Doing(x)
      BY <2>4, <3>1 DEF LockInv
    <3>2. CASE Doing(x) /\ req[x].kind \in Creating
      BY <1>2, <2>3, <2>4, <3>2, FamilyAssumption DEF LockInv, OuterKeys,
         CreationKeys
    <3>3. CASE Doing(x) /\ req[x].kind = "delete_all"
      BY <1>2, <2>4, <3>3, FamilyAssumption DEF LockInv, OuterKeys, Creating
    <3>4. CASE Doing(x) /\ req[x].kind \notin Creating \cup {"delete_all"}
      <4>1. req[x].kind \in Kind /\ req[x].run \in Run
            /\ held[<<x, "outer">>] = OuterKeys(x)
        BY <1>0, <2>4, <3>4, Doings
      <4>2. status[req[x].run] # "none"
        BY <2>4, <3>4, <4>1 DEF RequestInv, Kind, Creating, Restarting,
           Deleting
      <4>3. status[home[req[x].run]] # "none"
        BY <1>0, <4>1, <4>2 DEF RowInv
      <4> QED BY <1>2, <3>4, <4>1, <4>3 DEF OuterKeys
    <3> QED BY <3>1, <3>2, <3>3, <3>4
  <2>6. OwnFile(x)
    BY <1>7, <2>5 DEF OwnFile
  <2>7. OwnCreation(x)
    <3>1. req[x].kind \in Creating => req[x].run \in Run
      BY <2>4, PlacesOf DEF RequestInv, Creating
    <3> QED BY <1>3, <1>5, <1>7, <2>3, <2>4, <3>1, OwnCreationKept DEF Gone
  <2> QED BY <1>12, <2>1, <2>2, <2>6, <2>7 DEF Rely
<1> DEFINE W == {r}
<1>21. W \in SUBSET Request /\ \A x \in Request : x \notin W => x # r
  OBVIOUS
<1> QED BY <1>3, <1>10, <1>11, <1>12, <1>13, <1>14, <1>15, <1>16, <1>17,
           <1>18, <1>19,
           <1>20, <1>21, Assemble DEF Kept

LEMMA RwcDeletesKeeps ==
  ASSUME IInv, NEW r \in Request, RwcDeletes(r)
  PROVE  IInv'
<1>0. /\ Typed /\ RowInv /\ UnlockedInv
      /\ \A x \in Request : /\ Kept(x) /\ StartInv(x) /\ TraceInv(x)
                            /\ DeletionInv(x)
      /\ \A y, x \in Request : y # x => Apart(y, x)
  BY Parts
<1> DEFINE D == Doomed(r)
           reached == {home[u] : u \in D}
           outside == reached \ Holds(r)
<1>1. /\ RequestInv(r) /\ LockInv(r) /\ DeletionInv(r)
      /\ rwc[r] = "working" /\ req[r].kind \in Deleting
  BY <1>0 DEF Kept, RwcDeletes
<1>2. req[r].pc \in {"waiting", "leaving", "done"} /\ req[r].run \in Run
  <2>1. req[r].pc \in Places(req[r].kind)
        /\ req[r].pc \notin {"idle", "enter", "call", "paths"}
    BY <1>1 DEF RequestInv
  <2>2. req[r].pc \in {"waiting", "leaving", "done"}
    BY <1>1, <2>1, PlacesOf DEF Deleting
  <2> QED BY <1>1, <2>2 DEF RequestInv
<1>3. /\ home' = home /\ rule' = rule /\ latest' = latest
      /\ submitted' = submitted /\ held' = held /\ req' = req
      /\ faults' = faults /\ late' = late /\ spoiled' = spoiled
      /\ rwc' = [rwc EXCEPT ![r] = "committed"]
  BY DEF RwcDeletes
<1>4. PICK workspaceToo \in BOOLEAN :
        /\ status' = [u \in Run |-> IF u \in D THEN "deleted" ELSE status[u]]
        /\ file' = [h \in Run |-> IF workspaceToo /\ h \in reached
                                  THEN "gone" ELSE file[h]]
        /\ stray' = stray \cup outside
        /\ unlocked' = IF req[r].pc = "waiting"
                       THEN unlocked \cup ({req[r].kind} \X outside)
                       ELSE unlocked
  BY Zenon DEF RwcDeletes
<1>5. D \subseteq Run /\ \A u \in D : status[u] \notin {"none", "running"}
  <2>1. latest \in Run
    BY <1>0 DEF Typed
  <2> QED BY <1>2, <2>1 DEF Doomed, Addressed
<1> HIDE DEF D
<1>6. /\ reached \subseteq Run /\ outside \subseteq Run
      /\ \A h \in reached : \E u \in D : h = home[u]
      /\ \A u \in D : home[u] \in reached
      /\ \A h : h \in outside <=> h \in reached /\ h \notin Holds(r)
  BY <1>0, <1>5 DEF Typed
<1> HIDE DEF reached, outside
<1>7. /\ status' \in [Run -> Status]
      /\ \A u \in Run : status'[u] = IF u \in D THEN "deleted" ELSE status[u]
  BY <1>0, <1>4 DEF Typed, Status
<1>8. /\ file' \in [Run -> File]
      /\ \A h \in Run : file'[h] = file[h] \/ (h \in reached /\ file'[h] = "gone")
  BY <1>0, <1>4 DEF Typed, File
<1>9. /\ rwc' \in [Request -> {"idle", "working", "committed", "refused"}]
      /\ rwc'[r] = "committed"
      /\ \A x \in Request : x # r => rwc'[x] = rwc[x]
  BY <1>0, <1>3 DEF Typed
<1>10. /\ stray' \subseteq Run /\ stray \subseteq stray'
       /\ unlocked' \subseteq Deleting \X Run
  BY <1>0, <1>1, <1>4, <1>6 DEF Typed
<1>11. Typed'
  BY <1>0, <1>3, <1>7, <1>8, <1>9, <1>10 DEF Typed
<1>12. \A u \in Run : status'[u] = "none" <=> status[u] = "none"
  BY <1>5, <1>7
<1>13. RowInv'
  <2>1. \A v \in Run : home[v] \in Run
    BY <1>0 DEF Typed
  <2>2. \A v \in Run : status'[v] = "created" => status[v] = "created"
    BY <1>7
  <2>3. \A v \in Run : file[v] = "gone" => file'[v] = "gone"
    BY <1>8
  <2> QED BY <1>0, <1>3, <1>12, <2>1, <2>2, <2>3 DEF RowInv
<1>14. UnlockedInv'
  <2> SUFFICES ASSUME NEW y \in unlocked', y[1] = "delete_all"
               PROVE  y[2] \in late
    BY <1>3 DEF UnlockedInv
  <2>1. CASE y \in unlocked
    BY <1>0, <2>1 DEF UnlockedInv
  <2>2. CASE y \notin unlocked
    <3>1. /\ req[r].pc = "waiting" /\ req[r].kind = "delete_all"
          /\ y[2] \in outside
      BY <1>4, <2>2
    <3>2. \A u \in Run : status[u] # "none" =>
            home[u] \in held[<<r, "inner">>] \cup late
      BY <1>1, <3>1 DEF DeletionInv, At
    <3> QED BY <1>5, <1>6, <3>1, <3>2 DEF Holds
  <2> QED BY <2>1, <2>2
<1>15. SameRequests /\ Grows /\ NewRowsListed
  BY <1>3, <1>10, <1>12 DEF SameRequests, Grows, NewRowsListed
<1>16. \A x \in Request : TraceInv(x)'
  BY <1>0, <1>8, <1>15, TraceKept
<1>17. RequestInv(r)'
  <2>1. req[r].clone = NoRun /\ \A v \in Run : req[r].captured[v] = "none"
    BY <1>1 DEF RequestInv, Deleting, Restarting
  <2>2. status[req[r].run] # "none"
    BY <1>1 DEF RequestInv, Deleting, Creating
  <2>3. status'[req[r].run] # "none"
    BY <1>2, <1>12, <2>2
  <2> QED BY <1>1, <1>2, <1>3, <2>1, <2>3 DEF RequestInv, Deleting, Restarting
<1>18. LockInv(r)'
  BY <1>1, <1>3 DEF LockInv, Doing, OuterKeys, CreationKeys
<1>19. CreationInv(r)' /\ SubmissionInv(r)' /\ StartInv(r)' /\ PromotionInv(r)'
       /\ RestartInv(r)' /\ RetentionInv(r)'
  BY <1>1, <1>2, <1>3 DEF CreationInv, SubmissionInv, StartInv, Underway,
     PromotionInv,
     RestartInv, RetentionInv, At, Creating, Restarting, Deleting
<1>20. DeletionInv(r)'
  BY <1>1, <1>3, <1>15, DeletionKept DEF At
<1>21. ASSUME NEW x \in Request, x # r
       PROVE  Rely(x)
  <2>1. Still(x)
    BY <1>3, <1>9, <1>21 DEF Still
  <2>2. \A h \in reached : h \in held[<<x, "outer">>] => h \in stray'
    <3>1. Holds(r) \cap Holds(x) = {}
      BY <1>0, <1>21 DEF Apart
    <3> QED BY <1>4, <1>6, <3>1 DEF Holds
  <2>3. OwnRows(x)
    BY <1>3, <1>6, <1>7, <2>2 DEF OwnRows, Owns
  <2>4. OwnFile(x)
    BY <1>8, <2>2 DEF OwnFile
  <2>5. OwnMessages(x)
    BY <1>3 DEF OwnMessages
  <2>6. OwnCreation(x)
    <3>1. CreationInv(x) /\ (req[x].kind \in Creating => req[x].run \in Run)
      BY <1>0, PlacesOf DEF Kept, RequestInv, Creating
    <3> QED BY <1>3, <1>7, <1>8, <1>12, <3>1, OwnCreationKept DEF Gone
  <2> QED BY <1>15, <2>1, <2>3, <2>4, <2>5, <2>6 DEF Rely
<1> DEFINE W == {r}
<1>22. W \in SUBSET Request /\ \A x \in Request : x \notin W => x # r
  OBVIOUS
<1> QED BY <1>3, <1>11, <1>13, <1>14, <1>15, <1>16, <1>17, <1>18, <1>19,
           <1>20, <1>21,
           <1>22, Assemble DEF Kept

\* A new run appears beside the others of the workspace that r has locked.
LEMMA CloneKeeps ==
  ASSUME IInv, NEW r \in Request, Clone(r)
  PROVE  IInv'
<1>0. /\ Typed /\ RowInv /\ UnlockedInv
      /\ \A x \in Request : /\ Kept(x) /\ StartInv(x) /\ TraceInv(x)
                            /\ DeletionInv(x)
      /\ \A y, x \in Request : y # x => Apart(y, x)
  BY Parts
<1> DEFINE h == home[req[r].run]
<1>1. /\ RequestInv(r) /\ LockInv(r) /\ req[r].pc = "clone" /\ Doing(r)
  BY <1>0 DEF Kept, Clone, Doing
<1>2. /\ req[r].kind \in Restarting /\ req[r].clone = NoRun
      /\ req[r].backup = "none"
  BY <1>0, <1>1, KindsAt DEF RequestInv, Unstarted
<1>3. /\ file' = file /\ submitted' = submitted /\ held' = held /\ rwc' = rwc
      /\ late' = late /\ stray' = stray /\ unlocked' = unlocked
      /\ faults' = faults /\ spoiled' = spoiled
  BY DEF Clone, history
<1>4. CASE Finish(r, "failed") /\ UNCHANGED <<status, home, rule, latest>>
  <2>1. Quiet(r)
    BY <1>0, <1>3, <1>4, FaultyBound DEF Quiet, Typed, rows
  <2> QED BY <1>1, <1>2, <1>4, <2>1, FinishKeeps
             DEF Creating, Restarting, Unstarted, Result
<1>5. ASSUME NEW c \in Fresh,
             status' = [status EXCEPT ![c] = "created"],
             home' = [home EXCEPT ![c] = h],
             rule' = [u \in Run |->
                 IF u = c THEN "created"
                 ELSE IF u \in Sharing(h) /\ rule[u] \in {"created", "active"}
                 THEN "inactive" ELSE rule[u]],
             latest' = IF home[latest] = h THEN c ELSE latest,
             req' = [req EXCEPT ![r].pc = "validate", ![r].clone = c]
      PROVE  IInv'
  <2>1. /\ req[r].run \in Run /\ h \in Run /\ status[req[r].run] # "none"
        /\ \A x \in Request : x # r =>
             \A u \in Run : Owns(x, u) => home[u] # h
    BY <1>1, <1>2, OwnWorkspace DEF Submitters
  <2>2. /\ c \in Run /\ status[c] = "none" /\ c # NoRun
        /\ \A x \in Request : req[x].run # c
    BY <1>5, FamilyAssumption DEF Fresh
  <2>3. submitted[c] = 0 /\ rule[c] = "none" /\ status[h] # "none"
    BY <1>0, <2>1, <2>2 DEF RowInv
  <2> DEFINE one == [req[r] EXCEPT !.pc = "validate"]
             two == [one EXCEPT !.clone = c]
  <2>4. req' = [req EXCEPT ![r] = two]
    BY <1>5
  <2>5. req \in [Request -> Variables] /\ req[r] \in Variables
    BY <1>0 DEF Typed
  <2>6. /\ one \in Variables /\ one.kind = req[r].kind /\ one.run = req[r].run
        /\ one.pc = "validate" /\ one.captured = req[r].captured
        /\ one.backup = req[r].backup
    BY <2>5 DEF Variables, Steps
  <2> HIDE DEF one
  <2>7. /\ two \in Variables /\ two.kind = req[r].kind /\ two.run = req[r].run
        /\ two.pc = "validate" /\ two.captured = req[r].captured
        /\ two.backup = req[r].backup /\ two.clone = c
    BY <2>2, <2>6 DEF Variables
  <2> HIDE DEF two
  <2>8. /\ req' \in [Request -> Variables] /\ req'[r] = two
        /\ \A x \in Request : x # r => req'[x] = req[x]
    BY <2>4, <2>5, <2>7
  <2>9. h = home[req[r].run]
    OBVIOUS
  <2> HIDE DEF h
  <2>10. /\ status' \in [Run -> Status] /\ status'[c] = "created"
         /\ \A v \in Run : v # c => status'[v] = status[v]
    BY <1>0, <1>5, <2>2 DEF Typed, Status
  <2>11. /\ home' \in [Run -> Run] /\ home'[c] = h
         /\ \A v \in Run : v # c => home'[v] = home[v]
    BY <1>0, <1>5, <2>1, <2>2 DEF Typed
  <2>12. /\ rule' \in [Run -> Rule]
         /\ \A v \in Run : v # c /\ ~(status[v] # "none" /\ home[v] = h) =>
              rule'[v] = rule[v]
    BY <1>0, <1>5, <2>2 DEF Typed, Rule, Sharing
  <2>13. latest' \in Run
    BY <1>0, <1>5, <2>2 DEF Typed
  <2>14. Typed' /\ UnlockedInv'
    BY <1>0, <1>3, <2>8, <2>10, <2>11, <2>12, <2>13 DEF Typed, UnlockedInv
  <2>15. RowInv'
    <3>1. \A v \in Run : home[v] \in Run
      BY <1>0 DEF Typed
    <3> QED BY <1>0, <1>3, <2>2, <2>3, <2>10, <2>11, <2>12, <3>1 DEF RowInv
  <2>16. Grows
    BY <1>3, <2>2, <2>10, <2>11 DEF Grows
  <2>17. NewRowsListed
    BY <2>1, <2>9, <2>10, <2>11 DEF NewRowsListed
  <2>18. \A x \in Request : TraceInv(x)'
    <3>1. \A x \in Request : req'[x].backup = req[x].backup
      BY <2>7, <2>8
    <3> QED BY <1>0, <1>3, <3>1 DEF TraceInv
  <2>19. RequestInv(r)'
    <3>1. "validate" \in Places(req[r].kind)
      BY <1>2, PlacesOf
    <3>2. req[r].run # c /\ home'[req[r].run] = h /\ status'[req[r].run] # "none"
      BY <2>1, <2>2, <2>9, <2>10, <2>11
    <3>3. ASSUME NEW u \in Run, req[r].captured[u] # "none"
          PROVE  /\ status'[u] # "none" /\ home'[u] = h /\ u # c
      <4>1. status[u] # "none" /\ home[u] = h
        BY <1>1, <2>9, <3>3 DEF RequestInv
      <4> QED BY <2>2, <2>10, <2>11, <4>1
    <3>4. /\ req'[r].kind = req[r].kind /\ req'[r].run = req[r].run
          /\ req'[r].pc = "validate" /\ req'[r].backup = "none"
          /\ req'[r].clone = c /\ req'[r].captured = req[r].captured
      BY <1>2, <2>7, <2>8
    <3>5. \A u \in Run : req'[r].captured[u] # "none" =>
            /\ req'[r].kind \in Restarting \cup {"retention"}
            /\ status'[u] # "none" /\ home'[u] = home'[req'[r].run]
            /\ u # req'[r].clone
      BY <1>2, <3>2, <3>3, <3>4
    <3>6. /\ req'[r].clone # NoRun /\ status'[req'[r].clone] # "none"
          /\ home'[req'[r].clone] = home'[req'[r].run]
      BY <2>2, <2>10, <2>11, <3>2, <3>4
    <3> QED BY <1>2, <2>1, <3>1, <3>2, <3>4, <3>5, <3>6 DEF RequestInv,
               Unstarted
  <2>20. LockInv(r)'
    <3>1. home'[req[r].run] = home[req[r].run]
      BY <2>1, <2>2, <2>11
    <3> QED BY <1>1, <1>3, <2>7, <2>8, <3>1
               DEF LockInv, Doing, OuterKeys, CreationKeys
  <2>21. SubmissionInv(r)'
    <3>1. Subject(r)' = c
      BY <2>2, <2>7, <2>8 DEF Subject
    <3> QED BY <1>3, <2>3, <2>7, <2>8, <2>10, <3>1 DEF SubmissionInv
  <2>22. /\ CreationInv(r)' /\ StartInv(r)' /\ PromotionInv(r)' /\ RestartInv(r)'
         /\ RetentionInv(r)' /\ DeletionInv(r)'
    BY <1>2, <2>7, <2>8 DEF CreationInv, StartInv, PromotionInv, Promoted,
       Unpromoted,
       RestartInv, RetentionInv, DeletionInv, At, Creating, Restarting
  <2>23. ASSUME NEW x \in Request, x # r
         PROVE  Kept(x)' /\ StartInv(x)' /\ DeletionInv(x)'
    <3>1. Still(x) /\ req'[x] = req[x]
      BY <1>3, <2>8, <2>23 DEF Still
    <3>2. OwnFile(x) /\ OwnMessages(x)
      BY <1>3 DEF OwnFile, OwnMessages
    <3>3. OwnRows(x)
      BY <2>1, <2>2, <2>10, <2>12, <2>23 DEF OwnRows, Owns
    <3>4. OwnCreation(x)
      <4>1. CreationInv(x) /\ (req[x].kind \in Creating => req[x].run \in Run)
        BY <1>0, PlacesOf DEF Kept, RequestInv, Creating
      <4> QED BY <1>3, <2>2, <2>10, <2>11, <4>1, OwnCreationKept DEF Gone
    <3>5. Kept(x)'
      BY <1>0, <2>16, <3>1, <3>2, <3>3, <3>4, RelyKeeps DEF Rely
    <3>6. StartInv(x)'
      <4>1. StartInv(x)
        BY <1>0
      <4>2. \A y \in Request : /\ req'[y].kind = req[y].kind
                               /\ req'[y].run = req[y].run
                               /\ y = r \/ req'[y] = req[y]
        BY <2>7, <2>8
      <4>3. Underway(x)' => Underway(x)
        BY <3>1 DEF Underway
      <4> QED BY <1>2, <1>3, <3>1, <4>1, <4>2, <4>3
                 DEF StartInv, Failed, Creating, Restarting
    <3>7. DeletionInv(x)'
      BY <1>0, <1>3, <2>16, <2>17, <3>1, DeletionKept DEF At
    <3> QED BY <3>5, <3>6, <3>7
  <2>24. \A y, x \in Request : y # x => Apart(y, x)'
    <3>1. \A x \in Request : req[x].clone # c
      BY <1>0, <2>2 DEF Kept, RequestInv
    <3>2. \A x \in Request : /\ Holds(x)' = Holds(x)
                             /\ req'[x].kind = req[x].kind
                             /\ req'[x].run = req[x].run
                             /\ x # r => req'[x].clone = req[x].clone
      BY <1>3, <2>7, <2>8 DEF Holds
    <3> SUFFICES ASSUME NEW y \in Request, NEW x \in Request, y # x
                 PROVE  Apart(y, x)'
      OBVIOUS
    <3>3. Apart(y, x)
      BY <1>0
    <3>4. CASE y = r
      BY <1>2, <2>7, <2>8, <3>1, <3>2, <3>3, <3>4 DEF Apart, Creating,
         Restarting
    <3>5. CASE x = r
      BY <2>2, <2>7, <2>8, <3>1, <3>2, <3>3, <3>5 DEF Apart
    <3>6. CASE y # r /\ x # r
      BY <3>2, <3>3, <3>6 DEF Apart
    <3> QED BY <3>4, <3>5, <3>6
  <2> QED BY <2>14, <2>15, <2>18, <2>19, <2>20, <2>21, <2>22, <2>23, <2>24,
             Parts
             DEF IInv, Kept
<1>6. \/ Finish(r, "failed") /\ UNCHANGED <<status, home, rule, latest>>
      \/ \E c \in Fresh :
           /\ status' = [status EXCEPT ![c] = "created"]
           /\ home' = [home EXCEPT ![c] = h]
           /\ rule' = [u \in Run |->
                IF u = c THEN "created"
                ELSE IF u \in Sharing(h) /\ rule[u] \in {"created", "active"}
                THEN "inactive" ELSE rule[u]]
           /\ latest' = IF home[latest] = h THEN c ELSE latest
           /\ req' = [req EXCEPT ![r].pc = "validate", ![r].clone = c]
  BY Zenon DEF Clone
<1> QED BY <1>4, <1>5, <1>6

----------------------------------------------------------------------------
(* The invariant holds initially, and every step keeps it.                 *)

LEMMA InitIInv == Init => IInv
<1> SUFFICES ASSUME Init
             PROVE  IInv
  OBVIOUS
<1>1. PICK a \in Run, b \in Run, s \in {"created", "finished"},
          t \in {"created", "finished"}, shared \in BOOLEAN :
       /\ shared => a # b /\ t = "finished"
       /\ status = [u \in Run |-> IF u = a THEN s ELSE
                                  IF u = b THEN t ELSE "none"]
       /\ home = [u \in Run |-> IF u = b /\ shared THEN a ELSE u]
       /\ rule = [u \in Run |-> IF status[u] = "none" THEN "none" ELSE
                    IF status[u] = "created" THEN "created" ELSE
                    IF u = a /\ shared THEN "inactive" ELSE "active"]
       /\ file = [h \in Run |->
            IF \E u \in {a, b} : home[u] = h THEN "own" ELSE "gone"]
       /\ latest = b
  BY Zenon DEF Init
<1>2. /\ submitted = [u \in Run |-> IF status[u] = "finished" THEN 1 ELSE 0]
      /\ held = [x \in Scope |-> {}]
      /\ req = [r \in Request |-> Idle] /\ rwc = [r \in Request |-> "idle"]
      /\ faults = 0
      /\ late = {} /\ stray = {} /\ unlocked = {} /\ spoiled = {}
  BY DEF Init
<1>3. /\ status \in [Run -> Status] /\ home \in [Run -> Run]
      /\ \A u \in Run : /\ status[u] = "none" <=> u \notin {a, b}
                        /\ home[u] # u => u = b /\ shared /\ home[u] = a
  BY <1>1 DEF Status
<1>4. /\ rule \in [Run -> Rule]
      /\ \A u \in Run : status[u] = "none" => rule[u] = "none"
  BY <1>1, <1>3 DEF Rule
<1>5. /\ file \in [Run -> File]
      /\ \A u \in Run : /\ file[u] \in {"own", "gone"}
                        /\ u \notin {a, b} => file[u] = "gone"
  BY <1>1, <1>3 DEF File
<1>6. /\ submitted \in [Run -> Nat]
      /\ \A u \in Run : submitted[u] <= 1
                        /\ (status[u] # "finished" => submitted[u] = 0)
  BY <1>2
<1>7. Idle \in Variables
  BY DEF Idle, Variables, NoRules, Rule, Steps, Status, Result
<1>8. req \in [Request -> Variables] /\ \A r \in Request : req[r] = Idle
  BY <1>2, <1>7
<1>9. /\ Idle.kind = "none" /\ Idle.pc = "idle" /\ Idle.clone = NoRun
      /\ Idle.backup = "none" /\ \A u \in Run : Idle.captured[u] = "none"
  BY DEF Idle, NoRules
<1>10. /\ held \in [Scope -> SUBSET (Run \cup {Family})]
       /\ \A r \in Request : held[<<r, "outer">>] = {} /\ held[<<r, "inner">>] = {}
  BY <1>2 DEF Scope
<1>11. Typed
  BY <1>1, <1>2, <1>3, <1>4, <1>5, <1>6, <1>8, <1>10, FamilyAssumption
     DEF Typed
<1>12. RowInv
  BY <1>3, <1>4, <1>5, <1>6 DEF RowInv
<1>13. UnlockedInv
  BY <1>2 DEF UnlockedInv
<1>14. ASSUME NEW r \in Request
       PROVE  /\ RequestInv(r) /\ LockInv(r) /\ CreationInv(r) /\ SubmissionInv(r)
              /\ StartInv(r) /\ TraceInv(r) /\ PromotionInv(r) /\ RestartInv(r)
              /\ RetentionInv(r) /\ DeletionInv(r)
  <2>1. RequestInv(r)
    BY <1>2, <1>8, <1>9, PlacesOf DEF RequestInv, Creating, Restarting
  <2>2. LockInv(r)
    BY <1>8, <1>9, <1>10 DEF LockInv, Doing
  <2>3. TraceInv(r)
    BY <1>5, <1>8, <1>9, FamilyAssumption DEF TraceInv
  <2>4. /\ CreationInv(r) /\ SubmissionInv(r) /\ StartInv(r) /\ PromotionInv(r)
        /\ RestartInv(r) /\ RetentionInv(r) /\ DeletionInv(r)
    BY <1>8, <1>9 DEF CreationInv, SubmissionInv, StartInv, Underway,
       PromotionInv,
       RestartInv, RetentionInv, DeletionInv, At, Creating, Restarting
  <2> QED BY <2>1, <2>2, <2>3, <2>4
<1>15. ASSUME NEW r \in Request, NEW x \in Request
       PROVE  Apart(r, x)
  BY <1>8, <1>9, <1>10 DEF Apart, Holds, Creating
<1> QED BY <1>11, <1>12, <1>13, <1>14, <1>15 DEF IInv

LEMMA StutterKeeps ==
  ASSUME IInv, UNCHANGED vars
  PROVE  IInv'
<1>0. /\ Typed /\ RowInv /\ UnlockedInv
      /\ \A x \in Request : Kept(x) /\ TraceInv(x)
  BY Parts
<1>1. /\ home' = home /\ latest' = latest /\ file' = file /\ status' = status
      /\ rule' = rule /\ submitted' = submitted /\ held' = held /\ rwc' = rwc
      /\ req' = req /\ late' = late /\ stray' = stray /\ unlocked' = unlocked
      /\ faults' = faults /\ spoiled' = spoiled
  BY DEF vars, rows, history
<1>2. Typed' /\ RowInv' /\ UnlockedInv'
  BY <1>0, <1>1 DEF Typed, RowInv, UnlockedInv
<1>3. SameRequests /\ Grows /\ NewRowsListed
  BY <1>1 DEF SameRequests, Grows, NewRowsListed
<1>4. \A x \in Request : TraceInv(x)'
  BY <1>0, <1>1, <1>3, TraceKept
<1>5. ASSUME NEW x \in Request
      PROVE  Rely(x)
  <2>1. Still(x) /\ OwnFile(x) /\ OwnMessages(x) /\ OwnRows(x)
    BY <1>1 DEF Still, OwnFile, OwnMessages, OwnRows
  <2>2. OwnCreation(x)
    BY <1>0, <1>1, OwnCreationKept DEF Kept, Gone
  <2> QED BY <1>3, <2>1, <2>2 DEF Rely
<1> DEFINE W == {}
<1>6. W \in SUBSET Request /\ \A x \in Request : x \notin W
  OBVIOUS
<1> QED BY <1>1, <1>2, <1>3, <1>4, <1>5, <1>6, Assemble

LEMMA StepKeeps ==
  ASSUME IInv, [Next]_vars
  PROVE  IInv'
<1>1. ASSUME NEW r \in Request, Locking(r)
      PROVE  IInv'
  BY <1>1, BeginKeeps, EnterKeeps, RefuseKeeps, LeaveInnerKeeps, LeaveKeeps,
     CrashKeeps DEF Locking
<1>2. ASSUME NEW r \in Request, Calling(r)
      PROVE  IInv'
  BY <1>2, CallKeeps, AnsweredKeeps, AnsweredServerErrorKeeps, TimedOutKeeps,
     ReconcileKeeps DEF Calling
<1>3. ASSUME NEW r \in Request, Controlling(r)
      PROVE  IInv'
  BY <1>3, RwcCreatesKeeps, RwcDeletesKeeps, RwcRefusesKeeps DEF Controlling
<1>4. ASSUME NEW r \in Request, CreatingSteps(r)
      PROVE  IInv'
  BY <1>4, SeedKeeps, ChargeQuotaKeeps, CompensateCreationKeeps
     DEF CreatingSteps
<1>5. ASSUME NEW r \in Request, Submitting(r)
      PROVE  IInv'
  BY <1>5, CheckKeeps, CloneKeeps, ValidateKeeps, PromoteKeeps, MarkKeeps,
     PublishKeeps,
     PublishFailsKeeps, UnwindKeeps, CompensateRestartKeeps DEF Submitting
<1>6. ASSUME NEW r \in Request, Others(r)
      PROVE  IInv'
  BY <1>6, EnterInnerKeeps, MarkPendingKeeps, ApplyKeeps DEF Others
<1>7. ASSUME NEW u \in Run, Start(u) \/ End(u)
      PROVE  IInv'
  BY <1>7, StartKeeps, EndKeeps
<1> QED BY <1>1, <1>2, <1>3, <1>4, <1>5, <1>6, <1>7, StutterKeeps DEF Next

LEMMA Invariance == Spec => []IInv
<1>1. Init => IInv
  BY InitIInv
<1>2. IInv /\ [Next]_vars => IInv'
  BY StepKeeps
<1> QED BY <1>1, <1>2, PTL DEF Spec

----------------------------------------------------------------------------
(* The theorems.                                                           *)

\* However many requests submit it at once, and whatever fails in between, no
\* run is submitted twice (_submit_workflow refreshes the row under the lock).
THEOREM SubmittedOnceTheorem == Spec => []SubmittedOnce
<1>1. IInv => SubmittedOnce
  BY DEF IInv, RowInv, SubmittedOnce
<1> QED BY <1>1, Invariance, PTL

\* A creation that was reported as failed leaves neither a run nor a workspace,
\* except as the property says: a commit after the server looked, or a failure
\* of or without a compensation.
THEOREM FailureLeavesNothing == Spec => []FailedCreationIsGone
<1>1. IInv => FailedCreationIsGone
  BY DEF IInv, CreationInv, Failed, Gone, FailedCreationIsGone, At
<1> QED BY <1>1, Invariance, PTL

\* A restart that fails has been undone, and one that succeeds done entirely,
\* before its lock is released.
THEOREM RestartIsAtomic == Spec => []RestartAllOrNothing
<1>1. IInv => RestartAllOrNothing
  <2> SUFFICES ASSUME IInv, NEW r \in Request, At(r, Restarting, "leaving"),
                      req[r].clone \notin spoiled \cup {NoRun}
               PROVE  /\ req[r].result = "failed" => Undone(r)
                      /\ req[r].result = "ok" =>
                           Done(r) \/ home[req[r].clone] \in stray
    BY DEF RestartAllOrNothing
  <2>1. RestartInv(r) /\ PromotionInv(r) /\ RequestInv(r)
    BY DEF IInv
  <2>2. home[req[r].clone] = home[req[r].run]
    BY <2>1 DEF RequestInv
  <2>3. ASSUME req[r].result = "ok"
        PROVE  Done(r) \/ home[req[r].clone] \in stray
    <3>1. req[r].kind = "replace" =>
            file[home[req[r].clone]] = r \/ home[req[r].clone] \in stray
      BY <2>1, <2>2, <2>3 DEF PromotionInv, Promoted, At
    <3> QED BY <2>1, <2>3, <3>1 DEF RestartInv, Done
  <2> QED BY <2>1, <2>3 DEF RestartInv
<1> QED BY <1>1, Invariance, PTL

\* A deletion of all runs reaches no workspace that it has not locked, except
\* of a run that was created after its request had given up; and only requests
\* that are under way hold locks.
THEOREM DeletionIsClosed == Spec => []ClosedDeletion
<1>1. IInv => ClosedDeletion
  <2> SUFFICES ASSUME IInv
               PROVE  ClosedDeletion
    OBVIOUS
  <2>1. Typed /\ UnlockedInv /\ \A r \in Request : LockInv(r)
    BY DEF IInv
  <2>2. TypeOK
    BY <2>1 DEF Typed, Variables, LockInv, Doing, TypeOK
  <2> QED BY <2>1, <2>2 DEF UnlockedInv, ClosedDeletion
<1> QED BY <1>1, Invariance, PTL

\* Nothing revives a deleted run, unless its workspace was deleted by a call
\* that does not hold its lock.
THEOREM DeletionIsFinal == Spec => DeletedIsFinal
<1>1. ASSUME IInv, [Next]_vars, NEW u \in Run,
             status[u] = "deleted", home[u] \notin stray
      PROVE  status'[u] = "deleted"
  <2>1. Typed /\ \A r \in Request : Kept(r)
    BY <1>1, Parts
  <2>2. status \in [Run -> Status]
    BY <2>1 DEF Typed
  <2>3. ASSUME NEW r \in Request, Locking(r) \/ Calling(r) \/ Others(r)
        PROVE  status' = status
    BY <2>3 DEF Locking, Calling, Others, Begin, Enter, Refuse, LeaveInner,
       Leave,
       Crash, Call, Answered, AnsweredServerError, TimedOut, Reconcile, EnterInner,
       MarkPending, Apply, rows
  <2>4. ASSUME NEW r \in Request, Controlling(r)
        PROVE  status'[u] = "deleted"
    <3>1. CASE RwcCreates(r)
      <4>1. CreationInv(r) /\ rwc[r] = "working" /\ req[r].kind \in Creating
        BY <2>1, <3>1 DEF Kept, RwcCreates
      <4>2. status[req[r].run] = "none"
        BY <4>1 DEF CreationInv
      <4> QED BY <1>1, <2>2, <3>1, <4>2 DEF RwcCreates
    <3>2. CASE RwcDeletes(r)
      <4>1. status' = [v \in Run |->
                         IF v \in Doomed(r) THEN "deleted" ELSE status[v]]
        BY <3>2 DEF RwcDeletes
      <4> QED BY <1>1, <4>1
    <3>3. CASE RwcRefuses(r)
      BY <1>1, <3>3 DEF RwcRefuses, rows
    <3> QED BY <2>4, <3>1, <3>2, <3>3 DEF Controlling
  <2>5. ASSUME NEW r \in Request, CreatingSteps(r)
        PROVE  status'[u] = "deleted"
    <3>1. status' \in {status, [status EXCEPT ![req[r].run] = "deleted"]}
      BY <2>5 DEF CreatingSteps, Seed, ChargeQuota, CompensateCreation, rows
    <3> QED BY <1>1, <2>2, <3>1
  <2>6. ASSUME NEW r \in Request, Submitting(r)
        PROVE  status'[u] = "deleted"
    <3>1. CASE Clone(r)
      <4>1. \/ status' = status
            \/ \E c \in Fresh : status' = [status EXCEPT ![c] = "created"]
        BY <3>1 DEF Clone
      <4> QED BY <1>1, <2>2, <4>1 DEF Fresh
    <3>2. CASE Mark(r)
      <4>1. Underway(r)
        BY <1>1, <3>2, Submits DEF Mark
      <4>2. status[Subject(r)] # "deleted" \/ home[Subject(r)] \in stray
        BY <2>1, <4>1 DEF Kept, SubmissionInv
      <4> QED BY <1>1, <2>2, <3>2, <4>2 DEF Mark
    <3>3. CASE CompensateRestart(r)
      BY <1>1, <2>2, <3>3 DEF CompensateRestart
    <3>4. CASE Check(r) \/ Validate(r) \/ Promote(r) \/ Publish(r) \/ PublishFails(r)
               \/ Unwind(r)
      BY <1>1, <3>4 DEF Check, Validate, Promote, Publish, PublishFails,
         Unwind, rows
    <3> QED BY <2>6, <3>1, <3>2, <3>3, <3>4 DEF Submitting
  <2>7. ASSUME NEW v \in Run, Start(v) \/ End(v)
        PROVE  status'[u] = "deleted"
    BY <1>1, <2>2, <2>7 DEF Start, End
  <2>8. UNCHANGED vars => status' = status
    BY DEF vars, rows
  <2> QED BY <1>1, <2>3, <2>4, <2>5, <2>6, <2>7, <2>8 DEF Next
<1>2. IInv /\ [Next]_vars =>
        [\A u \in Run : status[u] = "deleted" /\ home[u] \notin stray
           => status'[u] = "deleted"]_vars
  BY <1>1
<1> QED BY <1>2, Invariance, PTL DEF Spec, DeletedIsFinal

\* A rule that a restart has made inactive is not applied any more; only the
\* compensation of a restart brings it back, as it was before that restart.
THEOREM InactiveRulesStay == Spec => InactiveStaysInactive
<1>1. ASSUME IInv, [Next]_vars, NEW u \in Run,
             rule[u] = "inactive", rule'[u] # "inactive"
      PROVE  \E r \in Request : At(r, Restarting, "compensate")
                                /\ rule'[u] = req[r].captured[u]
  <2>1. Typed /\ RowInv /\ \A r \in Request : Kept(r)
    BY <1>1, Parts
  <2>2. rule \in [Run -> Rule] /\ status[u] # "none"
    BY <1>1, <2>1 DEF Typed, RowInv
  <2>3. ASSUME NEW r \in Request,
               Locking(r) \/ Calling(r) \/ RwcDeletes(r) \/ RwcRefuses(r)
                 \/ CreatingSteps(r) \/ EnterInner(r)
        PROVE  rule' = rule
    BY <2>3 DEF Locking, Calling, Begin, Enter, Refuse, LeaveInner, Leave,
       Crash, Call, Answered, AnsweredServerError, TimedOut, Reconcile, EnterInner,
       RwcDeletes, RwcRefuses, CreatingSteps, Seed, ChargeQuota, CompensateCreation,
       rows
  <2>4. ASSUME NEW r \in Request, RwcCreates(r)
        PROVE  rule'[u] = "inactive"
    <3>1. CreationInv(r) /\ rwc[r] = "working" /\ req[r].kind \in Creating
      BY <2>1, <2>4 DEF Kept, RwcCreates
    <3>2. status[req[r].run] = "none"
      BY <3>1 DEF CreationInv
    <3> QED BY <1>1, <2>2, <2>4, <3>2 DEF RwcCreates
  <2>5. ASSUME NEW r \in Request,
               Check(r) \/ Validate(r) \/ Promote(r) \/ Mark(r) \/ Publish(r)
                 \/ PublishFails(r) \/ Unwind(r)
        PROVE  rule' = rule
    BY <2>5 DEF Check, Validate, Promote, Mark, Publish, PublishFails, Unwind,
       rows
  <2>6. ASSUME NEW r \in Request, Clone(r)
        PROVE  rule'[u] = "inactive"
    <3>1. \/ rule' = rule
          \/ \E c \in Fresh :
               rule' = [v \in Run |->
                 IF v = c THEN "created"
                 ELSE IF v \in Sharing(home[req[r].run])
                         /\ rule[v] \in {"created", "active"}
                 THEN "inactive" ELSE rule[v]]
      BY Zenon, <2>6 DEF Clone
    <3> QED BY <1>1, <2>2, <3>1 DEF Fresh
  <2>7. ASSUME NEW r \in Request, CompensateRestart(r)
        PROVE  /\ At(r, Restarting, "compensate")
               /\ rule'[u] = req[r].captured[u]
    BY <1>1, <2>7 DEF CompensateRestart, Restored
  <2>8. ASSUME NEW r \in Request, MarkPending(r)
        PROVE  rule'[u] = "inactive"
    BY <1>1, <2>8 DEF MarkPending, Due, IsDue
  <2>9. ASSUME NEW r \in Request, Apply(r)
        PROVE  rule'[u] = "inactive"
    <3> DEFINE chosen == {v \in Run : req[r].captured[v] = "pending"}
    <3>1. PICK applied \in SUBSET chosen :
            rule' = [v \in Run |-> IF v \in applied THEN "applied"
                                   ELSE IF v \in chosen THEN "active"
                                   ELSE rule[v]]
      BY <2>9 DEF Apply
    <3>2. RetentionInv(r) /\ req[r].pc = "pending"
      BY <2>1, <2>9 DEF Kept, Apply
    <3>3. u \notin chosen
      BY <1>1, <3>2 DEF RetentionInv
    <3> QED BY <1>1, <3>1, <3>3
  <2>10. ASSUME NEW v \in Run, Start(v) \/ End(v)
         PROVE  rule'[u] = "inactive"
    BY <1>1, <2>2, <2>10 DEF Start, End
  <2>11. UNCHANGED vars => rule' = rule
    BY DEF vars, rows
  <2> QED BY <1>1, <2>3, <2>4, <2>5, <2>6, <2>7, <2>8, <2>9, <2>10, <2>11
             DEF Next, Controlling, Submitting, Others
<1>2. IInv /\ [Next]_vars =>
        [\A u \in Run : rule[u] = "inactive" /\ rule'[u] # "inactive"
           => \E r \in Request : At(r, Restarting, "compensate")
                /\ rule'[u] = req[r].captured[u]]_vars
  BY <1>1
<1> QED BY <1>2, Invariance, PTL DEF Spec, InactiveStaysInactive

----------------------------------------------------------------------------
(* The requests use the locks as their abstract specification says.        *)

LEMMA OuterKeysAreKeys ==
  ASSUME IInv, NEW r \in Request, req[r].pc = "enter"
  PROVE  OuterKeys(r) \subseteq Run \cup {Family}
<1>1. Typed /\ RequestInv(r)
  BY Parts DEF Kept
<1>2. req[r].kind \in Kind /\ req[r].run \in Run /\ home \in [Run -> Run]
  BY <1>1, KindsAt DEF Typed, RequestInv, Unstarted
<1> QED BY <1>2 DEF OuterKeys, CreationKeys

LEMMA FamilyStep ==
  ASSUME IInv, [Next]_vars
  PROVE  [M!Next]_held
<1>1. ASSUME NEW r \in Request, Enter(r)
      PROVE  M!Next
  <2>1. /\ OuterKeys(r) \in SUBSET (Run \cup {Family}) /\ <<r, "outer">> \in Scope
        /\ M!Enter(<<r, "outer">>, OuterKeys(r))
    BY <1>1, OuterKeysAreKeys DEF Enter, Scope
  <2> QED BY <2>1 DEF M!Next
<1>2. ASSUME NEW r \in Request, EnterInner(r)
      PROVE  M!Next
  <2> DEFINE keys == {home[u] : u \in {v \in Run : status[v] # "none"}}
  <2>1. home \in [Run -> Run]
    BY Parts DEF Typed
  <2>2. keys \in SUBSET (Run \cup {Family}) /\ <<r, "inner">> \in Scope
    BY <2>1 DEF Scope
  <2>3. M!Enter(<<r, "inner">>, keys)
    BY <1>2 DEF EnterInner
  <2> HIDE DEF keys
  <2> QED BY <2>2, <2>3 DEF M!Next
<1>3. ASSUME NEW r \in Request, LeaveInner(r) \/ Leave(r)
      PROVE  M!Next
  <2>1. M!Leave(<<r, "inner">>) \/ M!Leave(<<r, "outer">>)
    BY <1>3 DEF LeaveInner, Leave
  <2>2. <<r, "inner">> \in Scope /\ <<r, "outer">> \in Scope
    BY DEF Scope
  <2> QED BY <2>1, <2>2 DEF M!Next
<1>4. ASSUME NEW r \in Request,
             Begin(r) \/ Refuse(r) \/ Crash(r) \/ Calling(r) \/ Controlling(r)
      PROVE  held' = held
  BY <1>4 DEF Begin, Refuse, Crash, Calling, Call, Answered, AnsweredServerError,
     TimedOut, Reconcile, Controlling, RwcCreates, RwcDeletes, RwcRefuses
<1>5. ASSUME NEW r \in Request, CreatingSteps(r) \/ MarkPending(r) \/ Apply(r)
      PROVE  held' = held
  BY <1>5 DEF CreatingSteps, Seed, ChargeQuota, CompensateCreation, MarkPending,
     Apply
<1>6. ASSUME NEW r \in Request, Submitting(r)
      PROVE  held' = held
  BY <1>6 DEF Submitting, Check, Clone, Validate, Promote, Mark, Publish,
     PublishFails, Unwind, CompensateRestart
<1>7. ASSUME NEW u \in Run, Start(u) \/ End(u)
      PROVE  held' = held
  BY <1>7 DEF Start, End
<1>8. UNCHANGED vars => held' = held
  BY DEF vars
<1> QED BY <1>1, <1>2, <1>3, <1>4, <1>5, <1>6, <1>7, <1>8
           DEF Next, Locking, Others

\* Every request enters with all the keys it needs, none of them anyone's, or
\* not at all, and leaves with all of them; no other step of a request, of the
\* controller or of the scheduler takes a key or gives one away, whatever
\* fails.  This is what WorkspaceLocks implements with leases and heartbeats.
THEOREM FamilyUsesTheMutex == Spec => M!Spec
<1>1. Init => M!Init
  BY DEF Init, M!Init
<1>2. IInv /\ [Next]_vars => [M!Next]_held
  BY FamilyStep
<1> QED BY <1>1, <1>2, Invariance, PTL DEF Spec, M!Spec
=============================================================================
