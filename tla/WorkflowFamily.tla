--------------------------- MODULE WorkflowFamily ---------------------------
(***************************************************************************)
(* The runs of one workflow name, and the requests that create, submit,    *)
(* restart and delete them or apply their retention rules.  Every request  *)
(* works inside scopes of workspace_mutations (here the abstract mutex).   *)
(* The workflow controller (RWC) commits rows on its own: it may do so     *)
(* after the request that asked it has given up.                           *)
(*                                                                         *)
(* A workspace is known by the run it was created for; restarts share it.  *)
(* Of a workspace only its reana.yaml matters.  Quotas are not computed,   *)
(* but the steps that charge them may fail.                                *)
(***************************************************************************)
EXTENDS Integers

CONSTANTS
  Run,       \* identifiers of runs
  Request,   \* requests, each made at most once
  NoRun,
  Family,    \* the key of the family lock
  MaxFaults  \* bound on crashes, timeouts, lost answers, failing stores

ASSUME FamilyAssumption ==
  /\ NoRun \notin Run /\ Family \notin Run
  /\ Request \cap {"gone", "empty", "own", "none"} = {}
  /\ MaxFaults \in Nat

VARIABLES
  status,     \* status[u]: the row of run u, "none" when there is no row
  home,       \* home[u]: the run whose workspace u uses
  rule,       \* rule[u]: the status of u's retention rule
  file,       \* file[h]: reana.yaml of workspace h
  latest,     \* the run that the bare workflow name stands for
  submitted,  \* submitted[u]: messages published for u
  held,       \* held[s]: the keys of lock scope s
  req,        \* req[r]: local variables of request r
  rwc,        \* rwc[r]: what the controller does about r's call
  faults,
  \* history
  late,       \* runs created after their request had given up
  stray,      \* workspaces deleted by a call that does not own their lock
  unlocked,   \* <<kind, workspace>>: deletions during their request that
              \* reach a workspace the request has not locked
  spoiled     \* runs whose compensation failed, or for whose failure the
              \* code has none

rows == <<status, home, rule, file, latest, submitted>>
history == <<late, stray, unlocked, spoiled>>
vars == <<rows, held, req, rwc, faults, history>>

Scope == Request \X {"outer", "inner"}
M == INSTANCE WorkspaceMutex WITH Scope <- Scope, Path <- Run \cup {Family},
                                  inside <- held

Creating == {"bundle", "submit"}     \* submit: GitLab and launch
Restarting == {"restart", "replace"} \* replace: with a new specification
Deleting == {"delete", "delete_all"}
Kind == Creating \cup Restarting \cup Deleting \cup {"start", "retention"}
Status == {"none", "created", "queued", "running", "finished", "deleted"}
Rule == {"none", "created", "active", "pending", "applied", "inactive"}
File == {"gone", "empty", "own"} \cup Request
Result == {"none", "ok", "failed", "conflict", "crashed"}
Steps == {"idle", "enter", "call", "waiting", "reconcile", "seed", "quota",
          "check", "clone", "validate", "promote", "mark", "publish",
          "unwind", "compensate", "paths", "apply", "pending",
          "leaving", "done"}

TypeOK ==
  /\ status \in [Run -> Status] /\ rule \in [Run -> Rule]
  /\ home \in [Run -> Run] /\ file \in [Run -> File]
  /\ latest \in Run /\ submitted \in [Run -> Nat]
  /\ held \in [Scope -> SUBSET (Run \cup {Family})]
  /\ req \in [Request ->
       [kind: Kind \cup {"none"}, run: Run \cup {NoRun}, byName: BOOLEAN,
        pc: Steps, seen: Status, clone: Run \cup {NoRun},
        captured: [Run -> Rule], backup: File \cup {"none"},
        result: Result]]
  /\ rwc \in [Request -> {"idle", "working", "committed", "refused"}]
  /\ faults \in 0..MaxFaults
  /\ late \subseteq Run /\ stray \subseteq Run /\ spoiled \subseteq Run
  /\ unlocked \subseteq Deleting \X Run
  \* Locks belong to requests that are under way.
  /\ \A r \in Request : req[r].pc \in {"idle", "enter", "done"} =>
       held[<<r, "outer">>] = {} /\ held[<<r, "inner">>] = {}

NoRules == [u \in Run |-> "none"]
Idle == [kind |-> "none", run |-> NoRun, byName |-> FALSE, pc |-> "idle",
         seen |-> "none", clone |-> NoRun, captured |-> NoRules,
         backup |-> "none", result |-> "none"]

\* A family of one run, or of two that share a workspace or do not.
Init ==
  /\ \E a, b \in Run, s, t \in {"created", "finished"}, shared \in BOOLEAN :
       /\ shared => a # b /\ t = "finished"
       /\ status = [u \in Run |-> IF u = a THEN s ELSE
                                  IF u = b THEN t ELSE "none"]
       /\ home = [u \in Run |-> IF u = b /\ shared THEN a ELSE u]
       /\ rule = [u \in Run |-> IF status[u] = "none" THEN "none" ELSE
                    IF status[u] = "created" THEN "created" ELSE
                    IF u = a /\ shared THEN "inactive" ELSE "active"]
       /\ file = [h \in Run |->
            IF \E u \in {a, b} : home[u] = h THEN "own" ELSE "gone"]
       /\ latest = b
  /\ submitted = [u \in Run |-> IF status[u] = "finished" THEN 1 ELSE 0]
  /\ held = [s \in Scope |-> {}]
  /\ req = [r \in Request |-> Idle] /\ rwc = [r \in Request |-> "idle"]
  /\ faults = 0
  /\ late = {} /\ stray = {} /\ unlocked = {} /\ spoiled = {}

----------------------------------------------------------------------------
(* Helpers.                                                                *)

Goto(r, step) == req' = [req EXCEPT ![r].pc = step]
Finish(r, result) ==
  req' = [req EXCEPT ![r].pc = "leaving", ![r].result = result]
At(r, kinds, step) == req[r].kind \in kinds /\ req[r].pc = step
Faulty == faults < MaxFaults /\ faults' = faults + 1
Sharing(h) == {u \in Run : status[u] # "none" /\ home[u] = h}
RulesOf(h) == [u \in Run |-> IF u \in Sharing(h) THEN rule[u] ELSE "none"]
IsDue(x) == x \in {"active", "pending"}  \* expired, or left over by a crash
Fresh == {u \in Run : status[u] = "none" /\ \A r \in Request : req[r].run # u}
\* The run that is submitted.
Subject(r) == IF req[r].clone # NoRun THEN req[r].clone ELSE req[r].run
Holds(r) == held[<<r, "outer">>] \cup held[<<r, "inner">>]

----------------------------------------------------------------------------
(* Entering and leaving the lock scopes.                                   *)

\* What is read before the lock is taken; a creation reserves its run.
Begin(r) ==
  /\ req[r].pc = "idle"
  /\ \E k \in Kind, u \in Run, byName \in BOOLEAN :
       /\ IF k \in Creating THEN u \in Fresh ELSE status[u] # "none"
       /\ byName => k = "delete" /\ u = latest
       /\ k = "retention" => \E v \in Sharing(home[u]) : IsDue(rule[v])
       /\ req' = [req EXCEPT ![r].kind = k, ![r].run = u, ![r].pc = "enter",
                    ![r].byName = byName, ![r].seen = status[u],
                    ![r].captured = IF k = "retention"
                                     THEN RulesOf(home[u]) ELSE NoRules]
  /\ UNCHANGED <<rows, held, rwc, faults, history>>

CreationKeysWithoutFamily(r) == {req[r].run}
CreationKeys(r) == {Family, req[r].run}

OuterKeys(r) ==
  CASE req[r].kind \in Creating   -> CreationKeys(r)
    [] req[r].kind = "delete_all" -> {Family}
    [] OTHER                      -> {home[req[r].run]}

\* Submission decides on the row refreshed under the lock.
RefreshedNever(r) == req[r].seen
Refreshed(r) == status[req[r].run]

FirstStep(r) ==
  CASE req[r].kind \in Creating \cup {"delete"} -> "call"
    [] req[r].kind = "delete_all" -> "paths"
    [] req[r].kind = "retention"  -> "apply"
    [] OTHER                      -> "check"

Enter(r) ==
  /\ req[r].pc = "enter"
  /\ M!Enter(<<r, "outer">>, OuterKeys(r))
  /\ req' = [req EXCEPT ![r].pc = FirstStep(r), ![r].seen = Refreshed(r)]
  /\ UNCHANGED <<rows, rwc, faults, history>>

\* The lock is busy or cannot be had; nothing waits.
Refuse(r) ==
  /\ \/ /\ req[r].pc = "enter"
        /\ req' = [req EXCEPT ![r].pc = "done", ![r].result = "conflict"]
     \/ req[r].pc = "paths" /\ Finish(r, "conflict")
  /\ UNCHANGED <<rows, held, rwc, faults, history>>

LeaveInner(r) ==
  /\ req[r].pc = "leaving"
  /\ M!Leave(<<r, "inner">>)
  /\ UNCHANGED <<rows, req, rwc, faults, history>>

InnerIsLeft(r) == held[<<r, "inner">>] = {}

Leave(r) ==
  /\ req[r].pc = "leaving" /\ InnerIsLeft(r)
  /\ M!Leave(<<r, "outer">>)
  /\ Goto(r, "done")
  /\ UNCHANGED <<rows, rwc, faults, history>>

\* A crash of the worker ends the lock connection.
Crash(r) ==
  /\ req[r].pc \notin {"idle", "enter", "leaving", "done"}
  /\ Faulty
  /\ Finish(r, "crashed")
  /\ UNCHANGED <<rows, held, rwc, history>>

----------------------------------------------------------------------------
(* The controller, asked to create or to delete.                           *)

Call(r) ==
  /\ req[r].pc = "call"
  /\ rwc' = [rwc EXCEPT ![r] = "working"]
  /\ Goto(r, "waiting")
  /\ UNCHANGED <<rows, held, faults, history>>

\* The row and the empty workspace appear, whether or not r still waits.
RwcCreates(r) ==
  /\ rwc[r] = "working" /\ req[r].kind \in Creating
  /\ LET u == req[r].run IN
       /\ status' = [status EXCEPT ![u] = "created"]
       /\ rule' = [rule EXCEPT ![u] = "created"]
       /\ file' = [file EXCEPT ![u] = "empty"]
       /\ latest' = u
       /\ late' = IF req[r].pc \in {"waiting", "reconcile"} THEN late
                  ELSE late \cup {u}
  /\ rwc' = [rwc EXCEPT ![r] = "committed"]
  /\ UNCHANGED <<home, submitted, held, req, faults, stray, unlocked, spoiled>>

\* The controller resolves the name itself.
Addressed(r) == IF req[r].byName THEN latest ELSE req[r].run
Doomed(r) ==
  {u \in IF req[r].kind = "delete_all" THEN Run ELSE {Addressed(r)} :
     status[u] \notin {"none", "running"}}

RwcDeletes(r) ==
  /\ rwc[r] = "working" /\ req[r].kind \in Deleting /\ Doomed(r) # {}
  /\ \E workspaceToo \in BOOLEAN :
       LET reached == {home[u] : u \in Doomed(r)}
           outside == reached \ Holds(r)
       IN
         /\ status' = [u \in Run |->
                         IF u \in Doomed(r) THEN "deleted" ELSE status[u]]
         /\ file' = [h \in Run |-> IF workspaceToo /\ h \in reached
                                   THEN "gone" ELSE file[h]]
         /\ stray' = stray \cup outside
         /\ unlocked' = IF req[r].pc = "waiting"
                        THEN unlocked \cup ({req[r].kind} \X outside)
                        ELSE unlocked
  /\ rwc' = [rwc EXCEPT ![r] = "committed"]
  /\ UNCHANGED <<home, rule, latest, submitted, held, req, faults, late,
                 spoiled>>

RwcRefuses(r) ==
  /\ rwc[r] = "working"
  /\ rwc' = [rwc EXCEPT ![r] = "refused"]
  /\ UNCHANGED <<rows, held, req, faults, history>>

Answered(r) ==
  /\ req[r].pc = "waiting"
  /\ \/ /\ rwc[r] = "committed"
        /\ IF req[r].kind \in Creating THEN Goto(r, "seed") ELSE Finish(r, "ok")
     \/ rwc[r] = "refused" /\ Finish(r, "failed")
  /\ UNCHANGED <<rows, held, rwc, faults, history>>

\* A failure that the code does not undo.
Uncompensated(r) ==
  Finish(r, "failed") /\ spoiled' = spoiled \cup {req[r].run}

\* Is there a row to compensate?
ReconciledNever(r) == Finish(r, "failed")
Reconciled(r) ==
  IF rwc[r] = "committed" THEN Goto(r, "compensate") ELSE Finish(r, "failed")

\* A 5xx may hide a commit, or one still to come: the row is looked for once.
AnsweredServerError(r) ==
  /\ req[r].pc = "waiting" /\ rwc[r] \in {"working", "committed"} /\ Faulty
  /\ IF req[r].kind \in Creating
     THEN (Reconciled(r) /\ UNCHANGED spoiled) \/ Uncompensated(r)
     ELSE Finish(r, "failed") /\ UNCHANGED spoiled
  /\ UNCHANGED <<rows, held, rwc, late, stray, unlocked>>

\* After any other error the row is looked for until a deadline.
TimedOut(r) ==
  /\ req[r].pc = "waiting" /\ rwc[r] \in {"working", "committed"} /\ Faulty
  /\ IF req[r].kind \in Creating THEN Goto(r, "reconcile")
                                 ELSE Finish(r, "failed")
  /\ UNCHANGED <<rows, held, rwc, history>>

Reconcile(r) ==
  /\ req[r].pc = "reconcile"
  /\ \/ Reconciled(r) /\ UNCHANGED <<faults, spoiled>>
     \/ Faulty /\ Uncompensated(r)
  /\ UNCHANGED <<rows, held, rwc, late, stray, unlocked>>

----------------------------------------------------------------------------
(* create_workflow and launch, after the controller's answer.              *)

\* The row is looked up, which nothing compensates when it fails; then the
\* workspace is seeded (and made again, should it be gone).
Seed(r) ==
  /\ req[r].pc = "seed"
  /\ \/ /\ file' = [file EXCEPT ![req[r].run] = "own"]
        /\ Goto(r, "quota")
        /\ UNCHANGED <<faults, spoiled>>
     \/ Goto(r, "compensate") /\ UNCHANGED <<file, faults, spoiled>>
     \/ Faulty /\ Uncompensated(r) /\ UNCHANGED file
  /\ UNCHANGED <<status, home, rule, latest, submitted, held, rwc, late, stray,
                 unlocked>>

\* Only the bundle branch guards its quota update.
ChargeQuota(r) ==
  /\ At(r, Creating, "quota")
  /\ \/ /\ IF req[r].kind = "bundle" THEN Finish(r, "ok") ELSE Goto(r, "mark")
        /\ UNCHANGED <<faults, history>>
     \/ /\ Faulty
        /\ IF req[r].kind = "bundle"
           THEN Goto(r, "compensate") /\ UNCHANGED spoiled
           ELSE Uncompensated(r)
        /\ UNCHANGED <<late, stray, unlocked>>
  /\ UNCHANGED <<rows, held, rwc>>

\* The row is marked deleted and the workspace removed; each may fail.
CompensateCreation(r) ==
  /\ At(r, Creating, "compensate")
  /\ LET u == req[r].run IN
       \/ /\ status' = [status EXCEPT ![u] = "deleted"]
          /\ file' = [file EXCEPT ![u] = "gone"]
          /\ UNCHANGED <<faults, spoiled>>
       \/ /\ Faulty
          /\ file' \in {file, [file EXCEPT ![u] = "gone"]}
          /\ spoiled' = spoiled \cup {u}
          /\ UNCHANGED status
  /\ Finish(r, "failed")
  /\ UNCHANGED <<home, rule, latest, submitted, held, rwc, late, stray,
                 unlocked>>

----------------------------------------------------------------------------
(* _submit_workflow_locked: start and restart.                             *)

Check(r) ==
  /\ req[r].pc = "check"
  /\ LET h == home[req[r].run] IN
       IF req[r].kind = "start"
       THEN IF req[r].seen = "created" THEN Goto(r, "validate")
                                       ELSE Finish(r, "conflict")
       ELSE IF req[r].seen = "finished"
               /\ \A u \in Sharing(h) : rule[u] # "pending"
            THEN req' = [req EXCEPT ![r].pc = "clone",
                           ![r].captured = RulesOf(h)]
            ELSE Finish(r, "conflict")
  /\ UNCHANGED <<rows, held, rwc, faults, history>>

\* One transaction: the new row, the old rules inactive, the new rule.
Clone(r) ==
  /\ req[r].pc = "clone"
  /\ \/ \E c \in Fresh :
          LET h == home[req[r].run] IN
            /\ status' = [status EXCEPT ![c] = "created"]
            /\ home' = [home EXCEPT ![c] = h]
            /\ rule' = [u \in Run |->
                 IF u = c THEN "created"
                 ELSE IF u \in Sharing(h) /\ rule[u] \in {"created", "active"}
                 THEN "inactive" ELSE rule[u]]
            /\ latest' = IF home[latest] = h THEN c ELSE latest
            /\ req' = [req EXCEPT ![r].pc = "validate", ![r].clone = c]
     \/ Finish(r, "failed") /\ UNCHANGED <<status, home, rule, latest>>
  /\ UNCHANGED <<file, submitted, held, rwc, faults, history>>

\* A failure once there is a clone must be undone.
FailFrom(r) ==
  IF req[r].clone # NoRun THEN Goto(r, "unwind") ELSE Finish(r, "failed")

Validate(r) ==
  /\ req[r].pc = "validate"
  /\ \/ Goto(r, IF req[r].kind = "replace" THEN "promote" ELSE "mark")
     \/ FailFrom(r)
  /\ UNCHANGED <<rows, held, rwc, faults, history>>

\* The replacement is renamed into place; a copy of the original is kept.
Promote(r) ==
  /\ req[r].pc = "promote"
  /\ LET h == home[req[r].run] IN
       \/ /\ file[h] # "gone"
          /\ file' = [file EXCEPT ![h] = r]
          /\ req' = [req EXCEPT ![r].pc = "mark", ![r].backup = file[h]]
       \/ FailFrom(r) /\ UNCHANGED file
  /\ UNCHANGED <<status, home, rule, latest, submitted, held, rwc, faults,
                 history>>

----------------------------------------------------------------------------
(* publish_workflow_submission, shared by submit, start and restart.       *)

\* A GitLab or launched workflow that fails here has no compensation.
Abandoned(r) ==
  spoiled' = IF req[r].kind = "submit" THEN spoiled \cup {req[r].run}
                                       ELSE spoiled

Mark(r) ==
  /\ req[r].pc = "mark"
  /\ \/ /\ status' = [status EXCEPT ![Subject(r)] = "queued"]
        /\ Goto(r, "publish")
        /\ UNCHANGED spoiled
     \/ FailFrom(r) /\ Abandoned(r) /\ UNCHANGED status
  /\ UNCHANGED <<home, rule, file, latest, submitted, held, rwc, faults,
                 late, stray, unlocked>>

Sent(r) == submitted' = [submitted EXCEPT ![Subject(r)] = @ + 1]

Publish(r) ==
  /\ req[r].pc = "publish"
  /\ Sent(r)
  /\ Finish(r, "ok")
  /\ UNCHANGED <<status, home, rule, file, latest, held, rwc, faults, history>>

\* An exception: memory limits that are checked only now, or the broker.  The
\* message may have gone out all the same.
PublishFails(r) ==
  /\ req[r].pc = "publish"
  /\ \/ Faulty /\ Sent(r)
     \/ UNCHANGED <<faults, submitted>>
  /\ FailFrom(r) /\ Abandoned(r)
  /\ UNCHANGED <<status, home, rule, file, latest, held, rwc, late, stray,
                 unlocked>>

\* The original specification goes back where the promotion was made.
UnwoundNever(r) == file
Unwound(r) ==
  LET h == home[req[r].run] IN
    IF req[r].backup = "none" \/ file[h] = "gone" THEN file
    ELSE [file EXCEPT ![h] = req[r].backup]

Unwind(r) ==
  /\ req[r].pc = "unwind"
  /\ file' = Unwound(r)
  /\ Goto(r, "compensate")
  /\ UNCHANGED <<status, home, rule, latest, submitted, held, rwc, faults,
                 history>>

\* One transaction: the clone is deleted, its rule inactive, and the rules of
\* the other runs as they were read before the clone was made.
RestoredCloneOnly(r) == [rule EXCEPT ![req[r].clone] = "inactive"]
Restored(r) ==
  [u \in Run |-> IF u = req[r].clone THEN "inactive"
                 ELSE IF req[r].captured[u] # "none" THEN req[r].captured[u]
                 ELSE rule[u]]

CompensateRestart(r) ==
  /\ At(r, Restarting, "compensate")
  /\ \/ /\ status' = [status EXCEPT ![req[r].clone] = "deleted"]
        /\ rule' = Restored(r)
        /\ UNCHANGED <<faults, spoiled>>
     \/ /\ Faulty
        /\ spoiled' = spoiled \cup {req[r].clone}
        /\ UNCHANGED <<status, rule>>
  /\ Finish(r, "failed")
  /\ UNCHANGED <<home, file, latest, submitted, held, rwc, late, stray,
                 unlocked>>

----------------------------------------------------------------------------
(* Deletion of all runs, and retention-rules-apply.                        *)

\* Under the family lock, every row's workspace.
EnterInner(r) ==
  /\ req[r].pc = "paths"
  /\ M!Enter(<<r, "inner">>, {home[u] : u \in {v \in Run : status[v] # "none"}})
  /\ Goto(r, "call")
  /\ UNCHANGED <<rows, rwc, faults, history>>

\* Of the rules found before the lock was taken, those that are still due.
DueWhenQueried(r) ==
  {u \in Sharing(home[req[r].run]) :
     IsDue(req[r].captured[u])}
Due(r) ==
  {u \in Sharing(home[req[r].run]) :
     IsDue(req[r].captured[u]) /\ IsDue(rule[u])}

MarkPending(r) ==
  /\ req[r].pc = "apply"
  /\ rule' = [u \in Run |-> IF u \in Due(r) THEN "pending" ELSE rule[u]]
  /\ req' = [req EXCEPT ![r].pc = "pending",
               ![r].captured = [u \in Run |->
                  IF u \in Due(r) THEN "pending" ELSE "none"]]
  /\ UNCHANGED <<status, home, file, latest, submitted, held, rwc, faults,
                 history>>

\* Each rule is applied, or fails and is active again.  Without a workspace
\* there is nothing left to apply.
Apply(r) ==
  LET chosen == {u \in Run : req[r].captured[u] = "pending"} IN
  /\ req[r].pc = "pending"
  /\ \E applied \in SUBSET chosen :
       /\ file[home[req[r].run]] = "gone" => applied = chosen
       /\ rule' = [u \in Run |-> IF u \in applied THEN "applied"
                                 ELSE IF u \in chosen THEN "active"
                                 ELSE rule[u]]
  /\ Finish(r, "ok")
  /\ UNCHANGED <<status, home, file, latest, submitted, held, rwc, faults,
                 history>>

----------------------------------------------------------------------------
(* The scheduler and the controller run what was submitted; they take no   *)
(* workspace lock.                                                         *)

Start(u) ==
  /\ status[u] = "queued" /\ submitted[u] > 0
  /\ status' = [status EXCEPT ![u] = "running"]
  /\ UNCHANGED <<home, rule, file, latest, submitted, held, req, rwc, faults,
                 history>>

\* The controller activates the rules of a run that ends.
End(u) ==
  /\ status[u] = "running"
  /\ status' = [status EXCEPT ![u] = "finished"]
  /\ rule' = [rule EXCEPT ![u] = IF @ = "created" THEN "active" ELSE @]
  /\ UNCHANGED <<home, file, latest, submitted, held, req, rwc, faults,
                 history>>

Locking(r) == Begin(r) \/ Enter(r) \/ Refuse(r) \/ LeaveInner(r) \/ Leave(r)
              \/ Crash(r)
Calling(r) == Call(r) \/ Answered(r) \/ AnsweredServerError(r) \/ TimedOut(r)
              \/ Reconcile(r)
Controlling(r) == RwcCreates(r) \/ RwcDeletes(r) \/ RwcRefuses(r)
CreatingSteps(r) == Seed(r) \/ ChargeQuota(r) \/ CompensateCreation(r)
Submitting(r) == Check(r) \/ Clone(r) \/ Validate(r) \/ Promote(r) \/ Mark(r)
                 \/ Publish(r) \/ PublishFails(r) \/ Unwind(r)
                 \/ CompensateRestart(r)
Others(r) == EnterInner(r) \/ MarkPending(r) \/ Apply(r)

Next ==
  \/ \E r \in Request : Locking(r) \/ Calling(r) \/ Controlling(r)
                        \/ CreatingSteps(r) \/ Submitting(r) \/ Others(r)
  \/ \E u \in Run : Start(u) \/ End(u)

Spec == Init /\ [][Next]_vars

----------------------------------------------------------------------------
(* Properties.                                                             *)

\* However many requests submit it at once, a run is submitted at most once
\* (_submit_workflow refreshes the row under the lock).
SubmittedOnce == \A u \in Run : submitted[u] <= 1

\* A creation that was reported as failed leaves neither a run nor a
\* workspace, unless the controller committed it later than the server looked,
\* the compensation itself failed or the code has none (submissions that fail
\* after the workspace was seeded).
FailedCreationIsGone ==
  \A r \in Request :
    (At(r, Creating, "done") /\ req[r].result = "failed"
       /\ req[r].run \notin late \cup spoiled)
      => /\ status[req[r].run] \in {"none", "deleted"}
         /\ file[req[r].run] = "gone"

\* When a restart fails, then before its lock is released its clone is
\* deleted, the replaced specification is back and so are the retention rules
\* of the runs that share the workspace.  When it succeeds, its clone is
\* submitted and the replacement is in place.  Compensations that fail and
\* workspaces deleted without their lock are excepted.
Undone(r) ==
  LET c == req[r].clone IN
    /\ status[c] = "deleted" /\ rule[c] = "inactive"
    /\ file[home[c]] # r
    /\ \A u \in Run : req[r].captured[u] # "none" =>
         \/ rule[u] = req[r].captured[u]
         \/ rule[u] = "active" /\ req[r].captured[u] = "created"
Done(r) ==
  LET c == req[r].clone IN
    /\ status[c] \in {"queued", "running", "finished"}
    /\ req[r].kind = "replace" => file[home[c]] = r

RestartAllOrNothing ==
  \A r \in Request :
    (At(r, Restarting, "leaving") /\ req[r].clone \notin spoiled \cup {NoRun})
      => /\ req[r].result = "failed" => Undone(r)
         /\ req[r].result = "ok" =>
              Done(r) \/ home[req[r].clone] \in stray

\* A deletion of all runs reaches no workspace that it has not locked, except
\* one of a run that was created after its request had given up: creations
\* and the deletion exclude each other by the family lock.  With the type of the
\* state, in which only requests that are under way hold locks.
ClosedDeletion ==
  /\ TypeOK
  /\ \A x \in unlocked : x[1] = "delete_all" => x[2] \in late

\* Every workspace that a deletion reaches is one that
\* _deletion_workspace_paths resolved.
ResolvesEveryWorkspace == unlocked = {}

\* Nothing revives a deleted run, unless its workspace was deleted by a call
\* that does not hold its lock.
DeletedIsFinal ==
  [][\A u \in Run : status[u] = "deleted" /\ home[u] \notin stray
       => status'[u] = "deleted"]_vars

\* A rule that a restart has made inactive is not applied any more; only the
\* compensation of that restart brings it back (retention-rules-apply decides
\* again under the lock).
InactiveStaysInactive ==
  [][\A u \in Run : rule[u] = "inactive" /\ rule'[u] # "inactive"
       => \E r \in Request : At(r, Restarting, "compensate")
            /\ rule'[u] = req[r].captured[u]]_vars
=============================================================================
