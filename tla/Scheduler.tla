------------------------------ MODULE Scheduler ------------------------------
(***************************************************************************)
(* How a workflow gets from "start" to the workflow controller.            *)
(*                                                                         *)
(*   REST server --(workflow-submission queue)--> scheduler --HTTP--> RWC  *)
(*                                                    |                    *)
(*                                                    +--(status events)-> *)
(*                                                                         *)
(* utils.publish_workflow_submission marks the workflow queued, commits,   *)
(* and only then publishes the submission message.  The single scheduler   *)
(* process takes one unacknowledged message at a time (prefetch_count=1),  *)
(* checks that the cluster is ready, asks the workflow controller (RWC) to *)
(* start the workflow, and acknowledges the message or rejects it (without *)
(* broker requeue) and republishes a copy whose retry_count is one larger. *)
(*                                                                         *)
(* The broker, RWC and the consumer of status events are external: they    *)
(* are modelled by what the scheduler's code expects of them.  Message     *)
(* priorities only order deliveries; the queue here is a set, so that      *)
(* every delivery order is allowed.                                        *)
(***************************************************************************)
EXTENDS Integers, FiniteSets

CONSTANTS
  Workflow,        \* workflows that may be submitted
  Resource,        \* compute backends and the Dask cluster: what has a cap
  Dask,            \* the member of Resource that stands for the Dask cluster
  Supported,       \* SUPPORTED_COMPUTE_BACKENDS; {} when not configured
  Uses,            \* Uses[w]: backends (and Dask) that workflow w consumes
  Cap,             \* Cap[r]: get_concurrent_workflows_cap(r); 0 closes r
  Policy,          \* REANA_WORKFLOW_SCHEDULING_POLICY
  ReadinessCheck,  \* REANA_WORKFLOW_SCHEDULING_READINESS_CHECK_VALUE
  JobMemory,       \* JobMemory[w]: memories of w's initial Kubernetes jobs
  MaxUserMemory,   \* maximum job memory a user may ask for; 0 if unlimited
  NodeMemory,      \* amounts of memory a node may have available
  RequeueCount,    \* REANA_SCHEDULER_REQUEUE_COUNT
  MaxCopies,       \* bound: copies of one submission that the broker delivers
  MaxFaults        \* bound: crashes, failed publications, lost answers,
                   \* duplicated messages and messages a queue tool takes

ASSUME SchedulerAssumption ==
  /\ IsFiniteSet(Workflow)
  /\ Dask \in Resource
  /\ Supported \subseteq Resource
  /\ Uses \in [Workflow -> SUBSET Resource]
  /\ Cap \in [Resource -> Nat]
  /\ Policy \in {"fifo", "balanced"}
  /\ ReadinessCheck \in {"no_checks", "concurrent", "memory", "all_checks"}
  /\ NodeMemory \subseteq Nat
  /\ JobMemory \in [Workflow -> SUBSET Nat]
  /\ MaxUserMemory \in Nat
  /\ RequeueCount \in Nat
  /\ MaxCopies \in Nat \ {0}
  /\ MaxFaults \in Nat

VARIABLES
  status,      \* status[w]: Workflow.status in the database
  request,     \* request[w]: where the server is in publish_workflow_submission
  queue,       \* ready messages of the workflow-submission queue
  inflight,    \* the message delivered to the scheduler and not acknowledged
  inTool,      \* the message delivered to a queue tool of the administrator
  pc,          \* where the scheduler is in on_message
  failEvents,  \* workflows with a published, not yet consumed "failed" event
  limbo,       \* start requests RWC still executes after the caller gave up
  copies,      \* copies[w]: identifiers of copies handed out for w
  faults,      \* faults so far
  \* history
  attempts,    \* attempts[w]: how many deliveries of w were handled
  gaveUp,      \* workflows the scheduler gave up on
  late,        \* workflows started by a request in limbo
  stranded,    \* workflows whose submission was lost in a known window
  purged       \* workflows of which the administrator deleted a message

brokerVars  == <<queue, copies>>
toolVars    == <<inTool, purged>>
historyVars == <<attempts, gaveUp, late, stranded>>
vars == <<status, request, queue, inflight, inTool, pc, failEvents, limbo,
          copies, faults, attempts, gaveUp, late, stranded, purged>>

Status == {"created", "queued", "pending", "running", "finished", "failed",
           "stopped", "deleted"}
Active == {"pending", "running"}
Alive  == {"created", "queued"} \cup Active

\* A submission message.  "copy" is not in the message body: it tells apart the
\* copies of one submission that an unreliable publication leaves in the queue.
Message == [wf : Workflow, retry : 0..RequeueCount, copy : 0..MaxCopies-1]
NoMessage == [wf |-> "none", retry |-> 0, copy |-> 0]

ActiveUsing(r) == {w \in Workflow : status[w] \in Active /\ r \in Uses[w]}

-----------------------------------------------------------------------------
(* The REST server: utils.publish_workflow_submission                      *)

\* The compute backends of the workflow's steps; the Dask cluster is not one.
workflow_compute_backends(w) == Uses[w] \ {Dask}

BackendsEnabled(w) ==
  Supported # {} => workflow_compute_backends(w) \subseteq Supported

\* validate_job_memory_limits raises; only consulted when not "fifo".
MemoryLimitExceeded(w) ==
  /\ Policy # "fifo"
  /\ MaxUserMemory # 0
  /\ \E mem \in JobMemory[w] : mem > MaxUserMemory

\* A backend that is not enabled is refused before the workflow is queued.
RefuseDisabledBackend(w) ==
  /\ status[w] = "created" /\ request[w] = "none"
  /\ ~BackendsEnabled(w)
  /\ request' = [request EXCEPT ![w] = "refused"]
  /\ UNCHANGED <<toolVars, status, brokerVars, inflight, pc, failEvents, limbo,
                 faults, historyVars>>

\* Workflow.update_workflow_status(queued); Session.commit()
MarkQueued(w) ==
  /\ status[w] = "created" /\ request[w] = "none"
  /\ BackendsEnabled(w)
  /\ status' = [status EXCEPT ![w] = "queued"]
  /\ request' = [request EXCEPT ![w] = "publishing"]
  /\ UNCHANGED <<toolVars, brokerVars, inflight, pc, failEvents, limbo, faults,
                 historyVars>>

\* The memory limits are validated after the status has been committed.
RefuseMemoryLimit(w) ==
  /\ request[w] = "publishing"
  /\ MemoryLimitExceeded(w)
  /\ request' = [request EXCEPT ![w] = "refused"]
  /\ stranded' = stranded \cup {w}
  /\ UNCHANGED <<toolVars, status, brokerVars, inflight, pc, failEvents, limbo,
                 faults, attempts, gaveUp, late>>

NewMessage(w) == [wf |-> w, retry |-> 0, copy |-> 0]

PublishSubmission(w) ==
  /\ request[w] = "publishing"
  /\ ~MemoryLimitExceeded(w)
  /\ request' = [request EXCEPT ![w] = "accepted"]
  /\ queue' = queue \cup {NewMessage(w)}
  /\ copies' = [copies EXCEPT ![w] = 1]
  /\ UNCHANGED <<toolVars, status, inflight, pc, failEvents, limbo, faults,
                 historyVars>>

\* The publication raises, or the server stops, after the status was committed;
\* the broker may have taken the message all the same.
PublicationFails(w) ==
  /\ request[w] = "publishing"
  /\ faults < MaxFaults
  /\ faults' = faults + 1
  /\ request' = [request EXCEPT ![w] = "refused"]
  /\ \/ /\ stranded' = stranded \cup {w}
        /\ UNCHANGED brokerVars
     \/ /\ ~MemoryLimitExceeded(w)
        /\ queue' = queue \cup {NewMessage(w)}
        /\ copies' = [copies EXCEPT ![w] = 1]
        /\ UNCHANGED stranded
  /\ UNCHANGED <<toolVars, status, inflight, pc, failEvents, limbo, attempts,
                 gaveUp, late>>

ServerStep(w) ==
  \/ RefuseDisabledBackend(w) \/ MarkQueued(w)
  \/ RefuseMemoryLimit(w) \/ PublishSubmission(w)

-----------------------------------------------------------------------------
(* The scheduler: WorkflowExecutionScheduler.on_message                    *)

\* The broker hands over one message and waits for its acknowledgement.
Deliver(m) ==
  /\ pc = "idle"
  /\ m \in queue
  /\ queue' = queue \ {m}
  /\ inflight' = m
  /\ pc' = "received"
  /\ attempts' = [attempts EXCEPT ![m.wf] = @ + 1]
  /\ UNCHANGED <<toolVars, status, request, failEvents, limbo, copies, faults,
                 gaveUp, late, stranded>>

\* TRUE when a node can hold the smallest initial job.  Skipped for "fifo", for
\* workflows without Kubernetes jobs, and when the nodes cannot be inspected.
check_memory_availability(w, nodes) ==
  \/ Policy = "fifo"
  \/ JobMemory[w] = {}
  \/ nodes = {}
  \/ \E node \in nodes, mem \in JobMemory[w] : node >= mem

\* TRUE when every resource the workflow consumes is below its cap.
CheckOffByOne(w) == \A r \in Uses[w] : Cardinality(ActiveUsing(r)) <= Cap[r]
check_concurrent_workflows_limit(w) ==
  \A r \in Uses[w] : Cardinality(ActiveUsing(r)) < Cap[r]

ChecksConcurrency == ReadinessCheck \in {"concurrent", "all_checks"}
ChecksMemory == ReadinessCheck \in {"memory", "all_checks"}

reana_ready(w, nodes) ==
  /\ ChecksConcurrency => check_concurrent_workflows_limit(w)
  /\ ChecksMemory => check_memory_availability(w, nodes)

CheckReady ==
  /\ pc = "received"
  /\ \E nodes \in SUBSET NodeMemory :
       IF reana_ready(inflight.wf, nodes) THEN pc' = "starting"
                                          ELSE pc' = "reject"
  /\ UNCHANGED <<toolVars, status, request, brokerVars, inflight, failEvents,
                 limbo, faults, historyVars>>

\* Counting the active workflows fails: reported as "not ready".
CountingFails ==
  /\ pc = "received" /\ ChecksConcurrency
  /\ faults < MaxFaults
  /\ faults' = faults + 1
  /\ pc' = "reject"
  /\ UNCHANGED <<toolVars, status, request, brokerVars, inflight, failEvents,
                 limbo, historyVars>>

(* RWC's answer to set_workflow_status(status="start"), with its effect.   *)

\* RWC starts a queued workflow and answers.
RwcStarts ==
  /\ pc = "starting"
  /\ status[inflight.wf] = "queued"
  /\ status' = [status EXCEPT ![inflight.wf] = "pending"]
  /\ pc' = "ack"
  /\ UNCHANGED <<toolVars, request, brokerVars, inflight, failEvents, limbo,
                 faults, historyVars>>

\* HTTPConflict for a workflow that is not queued (any more), HTTPNotFound for
\* one that was deleted: neither is retried.
RwcConflictOrNotFound ==
  /\ pc = "starting"
  /\ status[inflight.wf] # "queued"
  /\ pc' = "ack"
  /\ UNCHANGED <<toolVars, status, request, brokerVars, inflight, failEvents,
                 limbo, faults, historyVars>>

\* HTTPBadRequest: not retried; the workflow has to be failed.
RwcBadRequest ==
  /\ pc = "starting"
  /\ status[inflight.wf] = "queued"
  /\ pc' = "failing"
  /\ UNCHANGED <<toolVars, status, request, brokerVars, inflight, failEvents,
                 limbo, faults, historyVars>>

\* HTTPBadGateway, or any other exception before RWC changed anything: retried.
RwcError ==
  /\ pc = "starting"
  /\ pc' = "reject"
  /\ UNCHANGED <<toolVars, status, request, brokerVars, inflight, failEvents,
                 limbo, faults, historyVars>>

\* RWC starts the workflow but its answer is lost or unreadable: the scheduler
\* cannot tell this from an error and retries.
RwcAnswerLost ==
  /\ pc = "starting"
  /\ status[inflight.wf] = "queued"
  /\ faults < MaxFaults
  /\ faults' = faults + 1
  /\ status' = [status EXCEPT ![inflight.wf] = "pending"]
  /\ pc' = "reject"
  /\ UNCHANGED <<toolVars, request, brokerVars, inflight, failEvents, limbo,
                 historyVars>>

\* The connection breaks while RWC is still working on the request.
RwcConnectionLost ==
  /\ pc = "starting"
  /\ faults < MaxFaults
  /\ faults' = faults + 1
  /\ limbo' = limbo \cup {inflight.wf}
  /\ pc' = "reject"
  /\ UNCHANGED <<toolVars, status, request, brokerVars, inflight, failEvents,
                 historyVars>>

\* _fail_workflow in the HTTPBadRequest handler.
FailWorkflow ==
  /\ pc = "failing"
  /\ failEvents' = failEvents \cup {inflight.wf}
  /\ pc' = "ack"
  /\ UNCHANGED <<toolVars, status, request, brokerVars, inflight, limbo,
                 faults, historyVars>>

\* _fail_workflow raises inside the handler; "finally" acknowledges regardless.
FailWorkflowRaises ==
  /\ pc = "failing"
  /\ faults < MaxFaults
  /\ faults' = faults + 1
  /\ pc' = "ack"
  /\ stranded' = stranded \cup {inflight.wf}
  /\ UNCHANGED <<toolVars, status, request, brokerVars, inflight, failEvents,
                 limbo, attempts, gaveUp, late>>

\* message.ack(): the broker forgets the message.
Ack ==
  /\ pc = "ack"
  /\ inflight' = NoMessage
  /\ pc' = "idle"
  /\ UNCHANGED <<toolVars, status, request, brokerVars, failEvents, limbo,
                 faults, historyVars>>

\* message.reject() without requeue: the broker forgets the message, only the
\* scheduler's memory still holds the submission.
RejectWithRequeue ==
  /\ pc = "reject"
  /\ pc' = "rejected"
  /\ queue' = queue \cup {inflight}
  /\ UNCHANGED <<toolVars, status, request, copies, inflight, failEvents,
                 limbo, faults, historyVars>>
Reject ==
  /\ pc = "reject"
  /\ pc' = "rejected"
  /\ UNCHANGED <<toolVars, status, request, brokerVars, inflight, failEvents,
                 limbo, faults, historyVars>>

\* _retry_submission: all retries used?
RetriesExhaustedEarly(m) == m.retry + 1 >= RequeueCount
RetriesExhaustedLate(m) == m.retry > RequeueCount
RetriesExhausted(m) == m.retry >= RequeueCount

\* _retry_submission gives up: the workflow is failed.
GiveUpSilently ==
  /\ pc = "rejected"
  /\ RetriesExhausted(inflight)
  /\ gaveUp' = gaveUp \cup {inflight.wf}
  /\ inflight' = NoMessage
  /\ pc' = "idle"
  /\ UNCHANGED <<toolVars, status, request, brokerVars, failEvents, limbo,
                 faults, attempts, late, stranded>>
GiveUp ==
  /\ pc = "rejected"
  /\ RetriesExhausted(inflight)
  /\ failEvents' = failEvents \cup {inflight.wf}
  /\ gaveUp' = gaveUp \cup {inflight.wf}
  /\ inflight' = NoMessage
  /\ pc' = "idle"
  /\ UNCHANGED <<toolVars, status, request, brokerVars, limbo, faults,
                 attempts, late, stranded>>

\* _retry_submission publishes the submission again, counting the retry.
Republish ==
  /\ pc = "rejected"
  /\ ~RetriesExhausted(inflight)
  /\ queue' = queue \cup {[inflight EXCEPT !.retry = @ + 1]}
  /\ inflight' = NoMessage
  /\ pc' = "idle"
  /\ UNCHANGED <<toolVars, status, request, copies, failEvents, limbo, faults,
                 historyVars>>

\* Until ack() or reject() the broker keeps the message for redelivery.
UnackedIfAckedOnReceipt == {"received"}
Unacked == {"received", "starting", "failing", "ack", "reject"}

\* The scheduler stops: the broker makes an unacknowledged message ready again,
\* unchanged.  After reject(), the process (or the publication in
\* _retry_submission) failing loses the submission.
Crash ==
  /\ pc # "idle"
  /\ faults < MaxFaults
  /\ faults' = faults + 1
  /\ queue' = queue \cup (IF pc \in Unacked THEN {inflight} ELSE {})
  /\ stranded' = stranded \cup (IF pc = "rejected" THEN {inflight.wf} ELSE {})
  /\ inflight' = NoMessage
  /\ pc' = "idle"
  /\ UNCHANGED <<toolVars, status, request, failEvents, limbo, copies,
                 attempts, gaveUp, late>>

SchedulerStep ==
  \/ \E m \in queue : Deliver(m)
  \/ CheckReady
  \/ RwcStarts \/ RwcConflictOrNotFound \/ RwcBadRequest \/ RwcError
  \/ FailWorkflow \/ Ack \/ Reject \/ GiveUp \/ Republish

SchedulerFault ==
  \/ CountingFails \/ RwcAnswerLost \/ RwcConnectionLost
  \/ FailWorkflowRaises \/ Crash

-----------------------------------------------------------------------------
(* The administrator's queue tools: "reana-admin queue-consume" (a          *)
(* MessageConsumer) and the collection of "check-workflows" (a              *)
(* CollectingConsumer) are further consumers of the submission queue, each   *)
(* with one unacknowledged message at a time.                               *)

\* The broker delivers a message to the tool instead of the scheduler.
ToolTakes(m) ==
  /\ inTool = {}
  /\ m \in queue
  /\ faults < MaxFaults
  /\ faults' = faults + 1
  /\ queue' = queue \ {m}
  /\ inTool' = {m}
  /\ UNCHANGED <<status, request, copies, inflight, pc, failEvents, limbo,
                 historyVars, purged>>

\* message.reject(requeue=True): KEEP_MESSAGE, and every collected message.
\* STOP_CONSUMER and a tool that dies close the connection without an answer:
\* the broker makes the message ready again as well.
ToolDrops ==
  /\ inTool # {}
  /\ inTool' = {}
  /\ UNCHANGED <<status, request, brokerVars, inflight, pc, failEvents, limbo,
                 faults, historyVars, purged>>
ToolKeeps ==
  /\ inTool # {}
  /\ queue' = queue \cup inTool
  /\ inTool' = {}
  /\ UNCHANGED <<status, request, copies, inflight, pc, failEvents, limbo,
                 faults, historyVars, purged>>

\* message.ack(): the value filter or the operator selected the message.
ToolDeletes ==
  /\ inTool # {}
  /\ purged' = purged \cup {m.wf : m \in inTool}
  /\ inTool' = {}
  /\ UNCHANGED <<status, request, brokerVars, inflight, pc, failEvents, limbo,
                 faults, historyVars>>

-----------------------------------------------------------------------------
(* The broker, RWC and the users.                                          *)

\* The broker keeps a second copy of a message that was published.
Duplicate(m) ==
  /\ m \in queue
  /\ copies[m.wf] < MaxCopies
  /\ faults < MaxFaults
  /\ faults' = faults + 1
  /\ queue' = queue \cup {[m EXCEPT !.copy = copies[m.wf]]}
  /\ copies' = [copies EXCEPT ![m.wf] = @ + 1]
  /\ UNCHANGED <<toolVars, status, request, inflight, pc, failEvents, limbo,
                 historyVars>>

\* RWC consumes a "failed" event; it only fails workflows that are alive.
ConsumeFailEvent(w) ==
  /\ w \in failEvents
  /\ failEvents' = failEvents \ {w}
  /\ status' = [status EXCEPT ![w] = IF @ \in Alive THEN "failed" ELSE @]
  /\ UNCHANGED <<toolVars, request, brokerVars, inflight, pc, limbo, faults,
                 historyVars>>

\* RWC finishes a start request whose caller has stopped waiting.
LateStart(w) ==
  /\ w \in limbo
  /\ limbo' = limbo \ {w}
  /\ IF status[w] = "queued"
     THEN /\ status' = [status EXCEPT ![w] = "pending"]
          /\ late' = late \cup {w}
     ELSE UNCHANGED <<status, late>>
  /\ UNCHANGED <<toolVars, request, brokerVars, inflight, pc, failEvents,
                 faults, attempts, gaveUp, stranded>>

\* A started workflow runs and ends, or is stopped by its owner.
Progress(w) ==
  /\ \/ status[w] = "pending" /\ status' = [status EXCEPT ![w] = "running"]
     \/ status[w] = "running"
        /\ \E s \in {"finished", "failed", "stopped"} :
             status' = [status EXCEPT ![w] = s]
  /\ UNCHANGED <<toolVars, request, brokerVars, inflight, pc, failEvents,
                 limbo, faults, historyVars>>

\* The owner deletes a workflow that is not running.
Delete(w) ==
  /\ status[w] \in {"created", "queued", "finished", "failed", "stopped"}
  /\ request[w] # "publishing"
  /\ status' = [status EXCEPT ![w] = "deleted"]
  /\ UNCHANGED <<toolVars, request, brokerVars, inflight, pc, failEvents,
                 limbo, faults, historyVars>>

Init ==
  /\ status = [w \in Workflow |-> "created"]
  /\ request = [w \in Workflow |-> "none"]
  /\ queue = {}
  /\ inflight = NoMessage
  /\ inTool = {}
  /\ pc = "idle"
  /\ failEvents = {}
  /\ limbo = {}
  /\ copies = [w \in Workflow |-> 0]
  /\ faults = 0
  /\ attempts = [w \in Workflow |-> 0]
  /\ gaveUp = {}
  /\ late = {}
  /\ stranded = {}
  /\ purged = {}

Next ==
  \/ \E w \in Workflow : ServerStep(w) \/ PublicationFails(w)
  \/ SchedulerStep
  \/ SchedulerFault
  \/ \E m \in queue : Duplicate(m)
  \/ \E w \in Workflow : \/ ConsumeFailEvent(w) \/ LateStart(w)
                         \/ Progress(w) \/ Delete(w)
  \/ \E m \in queue : ToolTakes(m)
  \/ ToolKeeps \/ ToolDeletes

Spec == Init /\ [][Next]_vars

\* The server finishes the requests it began, the scheduler process is kept
\* running by its deployment, RWC consumes the status events, and an
\* administrator does not leave a queue tool at its prompt for ever.  Nothing
\* is assumed of the users, of running workflows, or of faults.
Fairness ==
  /\ \A w \in Workflow : WF_vars(RefuseMemoryLimit(w) \/ PublishSubmission(w))
  /\ WF_vars(SchedulerStep)
  /\ WF_vars(ToolKeeps \/ ToolDeletes)
  /\ \A w \in Workflow : WF_vars(ConsumeFailEvent(w))

FairSpec == Spec /\ Fairness

-----------------------------------------------------------------------------
(* Properties                                                              *)

\* Type invariant.
TypeOK ==
  /\ status \in [Workflow -> Status]
  /\ request \in [Workflow -> {"none", "publishing", "accepted", "refused"}]
  /\ queue \subseteq Message
  /\ pc \in {"idle", "received", "starting", "failing", "ack", "reject",
             "rejected"}
  /\ IF pc = "idle" THEN inflight = NoMessage ELSE inflight \in Message
  /\ inTool \subseteq Message
  /\ failEvents \subseteq Workflow
  /\ limbo \subseteq Workflow
  /\ copies \in [Workflow -> 0..MaxCopies]
  /\ faults \in 0..MaxFaults
  /\ attempts \in [Workflow -> Nat]
  /\ gaveUp \subseteq Workflow
  /\ late \subseteq Workflow
  /\ stranded \subseteq Workflow
  /\ purged \subseteq Workflow

\* Where the submission of a workflow can be while it is still to be decided.
InQueue(w) == \E m \in queue \cup inTool : m.wf = w
InHand(w)  == /\ pc \in {"received", "starting", "failing", "reject", "rejected"}
              /\ inflight.wf = w
SubmissionExists(w) ==
  request[w] = "publishing" \/ InQueue(w) \/ InHand(w) \/ w \in failEvents

\* A queued workflow always has a submission on its way (a message, the
\* scheduler's hand, or a "failed" event), whatever crashes, except when it was
\* lost in one of the windows the code leaves open: between committing "queued"
\* and publishing, between reject() and republishing, and when publishing the
\* "failed" event raises.  The queue tools lose only what the administrator
\* deletes with them.
NoSilentLoss ==
  \A w \in Workflow :
    status[w] = "queued" => SubmissionExists(w) \/ w \in stranded \cup purged

\* What "reana-admin check-workflows" requires of a queued workflow, relaxed to
\* a submission anywhere on its way: the windows above are not excused.
QueuedWorkflowHasSubmission ==
  \A w \in Workflow : status[w] = "queued" => SubmissionExists(w)

\* The scheduler never multiplies a submission: of one copy there is at most
\* one message, ready or in hand, even across crashes, because the message is
\* rejected before its successor is published.
Outstanding == queue \cup inTool \cup IF pc = "idle" THEN {} ELSE {inflight}
NoAmplification ==
  \A m, n \in Outstanding : m.wf = n.wf /\ m.copy = n.copy => m = n

\* Concurrency caps: the workflows the scheduler started never exceed the cap of
\* any resource they use.  Only a start that RWC completes after the scheduler
\* stopped waiting can come on top, because the check counts it too late.
CapRespected ==
  ChecksConcurrency =>
    \A r \in Resource : Cardinality(ActiveUsing(r) \ late) <= Cap[r]

\* The scheduler gives up on a workflow only after the first attempt and
\* RequeueCount retries.
GaveUpAfterAllRetries ==
  \A w \in gaveUp : attempts[w] > RequeueCount

\* A submission that was published comes to an end: the workflow is eventually
\* started, failed or deleted, unless the submission was lost in a window or
\* deleted by the administrator.
SubmissionSettles ==
  \A w \in Workflow :
    status[w] = "queued" ~> (status[w] # "queued" \/ w \in stranded \cup purged)
=============================================================================
