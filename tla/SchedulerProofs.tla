--------------------------- MODULE SchedulerProofs ---------------------------
(* What Scheduler promises for every number of workflows, resources,        *)
(* retries, duplicated messages and faults.                                 *)
EXTENDS Scheduler, FiniteSetTheorems, TLAPS

USE SchedulerAssumption

\* The type invariant: in particular retry_count never exceeds RequeueCount,
\* and the scheduler holds a message exactly while it is handling one.
THEOREM TypeCorrect == Spec => []TypeOK
<1>1. Init => TypeOK
  BY DEF Init, TypeOK, Status
<1>2. ASSUME TypeOK, [Next]_vars
      PROVE  TypeOK'
  <2> USE <1>2 DEF TypeOK, brokerVars, historyVars, toolVars
  <2>1. ASSUME NEW w \in Workflow, ServerStep(w) \/ PublicationFails(w)
        PROVE  TypeOK'
    BY <2>1 DEF ServerStep, RefuseDisabledBackend, MarkQueued,
         RefuseMemoryLimit, PublishSubmission, PublicationFails, NewMessage,
         Message, Status
  <2>2. CASE SchedulerStep
    <3>1. ASSUME NEW m \in queue, Deliver(m) PROVE TypeOK'
      BY <3>1 DEF Deliver, Message
    <3>2. CASE CheckReady
      BY <3>2 DEF CheckReady
    <3>3. CASE RwcStarts \/ RwcConflictOrNotFound \/ RwcBadRequest \/ RwcError
      BY <3>3 DEF RwcStarts, RwcConflictOrNotFound, RwcBadRequest, RwcError,
           Message, Status
    <3>4. CASE FailWorkflow \/ Ack \/ Reject
      BY <3>4 DEF FailWorkflow, Ack, Reject, Message
    <3>5. CASE GiveUp
      BY <3>5 DEF GiveUp, Message
    <3>6. CASE Republish
      BY <3>6 DEF Republish, RetriesExhausted, Message
    <3> QED BY <2>2, <3>1, <3>2, <3>3, <3>4, <3>5, <3>6 DEF SchedulerStep
  <2>3. CASE SchedulerFault
    BY <2>3 DEF SchedulerFault, CountingFails, RwcAnswerLost,
         RwcConnectionLost, FailWorkflowRaises, Crash, Message, Status
  <2>4. ASSUME NEW m \in queue, Duplicate(m) PROVE TypeOK'
    BY <2>4 DEF Duplicate, Message
  <2>5. ASSUME NEW w \in Workflow,
               \/ ConsumeFailEvent(w) \/ LateStart(w)
               \/ Progress(w) \/ Delete(w)
        PROVE  TypeOK'
    BY <2>5 DEF ConsumeFailEvent, LateStart, Progress, Delete, Status
  <2>6. CASE UNCHANGED vars
    BY <2>6 DEF vars
  <2>7. ASSUME \/ \E m \in queue : ToolTakes(m)
               \/ ToolKeeps \/ ToolDeletes
        PROVE  TypeOK'
    BY <2>7 DEF ToolTakes, ToolKeeps, ToolDeletes, Message
  <2> QED BY <2>1, <2>2, <2>3, <2>4, <2>5, <2>6, <2>7 DEF Next
<1> QED BY <1>1, <1>2, PTL DEF Spec

\* A queued workflow keeps a submission on its way through every crash,
\* duplicate and error answer, outside the windows recorded in "stranded".
THEOREM NoLossTheorem == Spec => []NoSilentLoss
<1>1. Init => NoSilentLoss
  BY DEF Init, NoSilentLoss
<1>2. ASSUME TypeOK, NoSilentLoss, [Next]_vars
      PROVE  NoSilentLoss'
  <2> USE <1>2 DEF TypeOK, NoSilentLoss, SubmissionExists, InQueue, InHand,
                   brokerVars, historyVars, toolVars
  <2>1. ASSUME NEW w \in Workflow, ServerStep(w) \/ PublicationFails(w)
        PROVE  NoSilentLoss'
    <3>1. CASE RefuseDisabledBackend(w) \/ MarkQueued(w) \/ RefuseMemoryLimit(w)
      BY <2>1, <3>1 DEF RefuseDisabledBackend, MarkQueued, RefuseMemoryLimit
    <3>2. ASSUME \/ UNCHANGED queue /\ stranded' = stranded \cup {w}
                 \/ queue' = queue \cup {NewMessage(w)} /\ UNCHANGED stranded,
                 UNCHANGED <<status, inflight, pc, failEvents, inTool, purged>>,
                 \A v \in Workflow \ {w} : request'[v] = request[v]
          PROVE  NoSilentLoss'
      <4>1. NewMessage(w).wf = w
        BY DEF NewMessage
      <4>2. ASSUME NEW v \in Workflow, status'[v] = "queued"
            PROVE  SubmissionExists(v)' \/ v \in stranded' \cup purged'
        BY <3>2, <4>1, <4>2
      <4> QED BY <4>2
    <3>3. CASE PublishSubmission(w) \/ PublicationFails(w)
      BY <3>2, <3>3 DEF PublishSubmission, PublicationFails
    <3> QED BY <2>1, <3>1, <3>3 DEF ServerStep
  <2>2. CASE SchedulerStep
    <3>1. ASSUME NEW m \in queue, Deliver(m) PROVE NoSilentLoss'
      BY <3>1 DEF Deliver, Message
    <3>2. CASE CheckReady
      BY <3>2 DEF CheckReady
    <3>3. CASE RwcStarts \/ RwcConflictOrNotFound \/ RwcBadRequest \/ RwcError
      BY <3>3 DEF RwcStarts, RwcConflictOrNotFound, RwcBadRequest, RwcError
    <3>4. CASE FailWorkflow \/ Ack \/ Reject
      BY <3>4 DEF FailWorkflow, Ack, Reject
    <3>5. CASE GiveUp
      BY <3>5 DEF GiveUp
    <3>6. CASE Republish
      <4>1. [inflight EXCEPT !.retry = @ + 1].wf = inflight.wf
        BY <3>6 DEF Republish, Message
      <4> QED BY <3>6, <4>1 DEF Republish
    <3> QED BY <2>2, <3>1, <3>2, <3>3, <3>4, <3>5, <3>6 DEF SchedulerStep
  <2>3. CASE SchedulerFault
    BY <2>3 DEF SchedulerFault, CountingFails, RwcAnswerLost,
         RwcConnectionLost, FailWorkflowRaises, Crash, Unacked
  <2>4. ASSUME NEW m \in queue, Duplicate(m) PROVE NoSilentLoss'
    BY <2>4 DEF Duplicate
  <2>5. ASSUME NEW w \in Workflow,
               \/ ConsumeFailEvent(w) \/ LateStart(w)
               \/ Progress(w) \/ Delete(w)
        PROVE  NoSilentLoss'
    BY <2>5 DEF ConsumeFailEvent, LateStart, Progress, Delete, Alive
  <2>6. CASE UNCHANGED vars
    BY <2>6 DEF vars
  <2>7. ASSUME \/ \E m \in queue : ToolTakes(m)
               \/ ToolKeeps \/ ToolDeletes
        PROVE  NoSilentLoss'
    BY <2>7 DEF ToolTakes, ToolKeeps, ToolDeletes
  <2> QED BY <2>1, <2>2, <2>3, <2>4, <2>5, <2>6, <2>7 DEF Next
<1> QED BY <1>1, <1>2, TypeCorrect, PTL DEF Spec

-----------------------------------------------------------------------------
(* At most one message per copy of a submission.                           *)

\* Every outstanding copy has been handed out, and a workflow whose submission
\* is not yet published has none.  No message is at two places at once.
OnePlace ==
  /\ pc # "idle" => inflight \notin queue \cup inTool
  /\ queue \cap inTool = {}
CopiesInv ==
  /\ NoAmplification
  /\ OnePlace
  /\ \A m \in Outstanding : m.copy < copies[m.wf]
  /\ \A w \in Workflow : request[w] \in {"none", "publishing"} => copies[w] = 0

\* A step that adds no message, but may move or retag the one in hand.
LEMMA OutstandingShrinks ==
  ASSUME TypeOK, CopiesInv, UNCHANGED <<request, copies>>,
         \A m \in Outstanding' :
           \E n \in Outstanding : m.wf = n.wf /\ m.copy = n.copy,
         \A m, n \in Outstanding' :
           m # n => m \in Outstanding /\ n \in Outstanding,
         OnePlace'
  PROVE  CopiesInv'
<1>1. NoAmplification'
  BY DEF CopiesInv, NoAmplification
<1>2. ASSUME NEW m \in Outstanding' PROVE m.copy < copies'[m.wf]
  BY <1>2 DEF CopiesInv
<1> QED BY <1>1, <1>2 DEF CopiesInv

\* The scheduler never multiplies a submission.
THEOREM NoAmplificationTheorem == Spec => []NoAmplification
<1>1. Init => CopiesInv
  BY DEF Init, CopiesInv, OnePlace, NoAmplification, Outstanding
<1>2. ASSUME TypeOK, CopiesInv, [Next]_vars
      PROVE  CopiesInv'
  <2> USE <1>2 DEF TypeOK, brokerVars, historyVars, toolVars
  <2>1. ASSUME NEW w \in Workflow, ServerStep(w) \/ PublicationFails(w)
        PROVE  CopiesInv'
    <3>1. CASE UNCHANGED <<queue, copies, inflight, pc>>
      BY <2>1, <3>1 DEF CopiesInv, OnePlace, NoAmplification, Outstanding, ServerStep,
           RefuseDisabledBackend, MarkQueued, RefuseMemoryLimit,
           PublishSubmission, PublicationFails
    <3>2. CASE /\ request[w] = "publishing"
               /\ queue' = queue \cup {NewMessage(w)}
               /\ copies' = [copies EXCEPT ![w] = 1]
               /\ \E r \in {"accepted", "refused"} :
                    request' = [request EXCEPT ![w] = r]
               /\ UNCHANGED <<inflight, pc, inTool>>
      <4>1. \A m \in Outstanding : m.wf # w
        BY <3>2 DEF CopiesInv, Outstanding, Message
      <4>2. Outstanding' = Outstanding \cup {NewMessage(w)}
        BY <3>2 DEF Outstanding
      <4>3. NewMessage(w).wf = w /\ NewMessage(w).copy = 0
        BY DEF NewMessage
      <4>4. NoAmplification'
        BY <4>1, <4>2, <4>3 DEF CopiesInv, NoAmplification
      <4>5. \A m \in Outstanding' : m.copy < copies'[m.wf]
        BY <3>2, <4>1, <4>2, <4>3 DEF CopiesInv, Outstanding, Message
      <4>6. \A v \in Workflow :
              request'[v] \in {"none", "publishing"} => copies'[v] = 0
        BY <3>2 DEF CopiesInv
      <4>7. OnePlace'
        BY <3>2, <4>1, <4>3 DEF CopiesInv, OnePlace, Outstanding
      <4> QED BY <4>4, <4>5, <4>6, <4>7 DEF CopiesInv
    <3> QED
      BY <2>1, <3>1, <3>2 DEF ServerStep, RefuseDisabledBackend, MarkQueued,
           RefuseMemoryLimit, PublishSubmission, PublicationFails
  <2>2. CASE SchedulerStep \/ SchedulerFault
    <3>1. ASSUME NEW m \in queue, Deliver(m) PROVE CopiesInv'
      <4>1. OnePlace'
        BY <3>1 DEF Deliver, CopiesInv, OnePlace
      <4> QED BY <3>1, <4>1, OutstandingShrinks DEF Deliver, Outstanding
    <3>2. CASE UNCHANGED <<request, queue, copies, inflight, inTool>>
               /\ pc # "idle" /\ pc' # "idle"
      BY <3>2, OutstandingShrinks DEF Outstanding, CopiesInv, OnePlace
    <3>3. CASE UNCHANGED <<request, queue, copies, inTool>>
               /\ pc # "idle" /\ pc' = "idle"
      BY <3>3, OutstandingShrinks DEF Outstanding, CopiesInv, OnePlace
    <3>4. CASE Crash
      <4>1. OnePlace'
        BY <3>4 DEF Crash, CopiesInv, OnePlace
      <4> QED BY <3>4, <4>1, OutstandingShrinks DEF Crash, Outstanding
    <3>5. CASE Republish
      <4> DEFINE successor == [inflight EXCEPT !.retry = @ + 1]
      <4>1. inflight \in Message /\ pc # "idle"
        BY <3>5 DEF Republish
      <4>2. successor.wf = inflight.wf /\ successor.copy = inflight.copy
        BY <4>1 DEF Message
      <4>3. Outstanding' = queue \cup inTool \cup {successor}
        BY <3>5 DEF Republish, Outstanding
      <4>4. Outstanding = queue \cup inTool \cup {inflight}
        BY <4>1 DEF Outstanding
      <4> HIDE DEF successor
      <4>5. NoAmplification'
        <5>1. ASSUME NEW m \in queue \cup inTool, m.wf = successor.wf,
                     m.copy = successor.copy
              PROVE  m = inflight
          BY <4>2, <4>4, <5>1 DEF CopiesInv, NoAmplification
        <5>2. inflight \notin queue \cup inTool
          BY <4>1 DEF CopiesInv, OnePlace
        <5> QED BY <4>3, <4>4, <5>1, <5>2 DEF CopiesInv, NoAmplification
      <4>6. \A m \in Outstanding' : m.copy < copies'[m.wf]
        BY <3>5, <4>2, <4>3, <4>4 DEF CopiesInv, Republish
      <4>7. OnePlace'
        <5>1. successor \notin inTool
          BY <4>1, <4>2, <4>4, <3>5 DEF CopiesInv, NoAmplification, successor, OnePlace, Republish
        <5> QED BY <3>5, <5>1 DEF Republish, CopiesInv, OnePlace, successor
      <4> QED BY <3>5, <4>5, <4>6, <4>7 DEF CopiesInv, Republish
    <3>6. CASE RwcStarts \/ RwcConflictOrNotFound \/ RwcBadRequest \/ RwcError
               \/ CheckReady \/ CountingFails \/ FailWorkflow \/ Reject
               \/ RwcAnswerLost \/ RwcConnectionLost \/ FailWorkflowRaises
      BY <3>2, <3>6 DEF RwcStarts, RwcConflictOrNotFound, RwcBadRequest,
           RwcError, CheckReady, CountingFails, FailWorkflow, Reject,
           RwcAnswerLost, RwcConnectionLost, FailWorkflowRaises
    <3>7. CASE Ack \/ GiveUp
      BY <3>3, <3>7 DEF Ack, GiveUp
    <3> QED BY <2>2, <3>1, <3>4, <3>5, <3>6, <3>7 DEF SchedulerStep, SchedulerFault
  <2>3. ASSUME NEW m \in queue, Duplicate(m) PROVE CopiesInv'
    <3> DEFINE twin == [m EXCEPT !.copy = copies[m.wf]]
    <3>1. twin.wf = m.wf /\ twin.copy = copies[m.wf] /\ m.wf \in Workflow
      BY DEF Message
    <3>2. Outstanding' = Outstanding \cup {twin}
      BY <2>3 DEF Duplicate, Outstanding
    <3> HIDE DEF twin
    <3>3. \A n \in Outstanding : n.wf = twin.wf => n.copy # twin.copy
      BY <3>1 DEF CopiesInv, Outstanding, Message
    <3>4. NoAmplification'
      BY <3>2, <3>3 DEF CopiesInv, NoAmplification
    <3>5. \A n \in Outstanding' : n.copy < copies'[n.wf]
      BY <2>3, <3>1, <3>2 DEF CopiesInv, Duplicate, Outstanding, Message
    <3>6. m \in Outstanding /\ m.copy \in Nat
      BY DEF Outstanding, Message
    <3>7. \A w \in Workflow :
            request'[w] \in {"none", "publishing"} => copies'[w] = 0
      BY <2>3, <3>6 DEF CopiesInv, Duplicate
    <3>8. OnePlace'
      <4>1. queue' = queue \cup {twin} /\ UNCHANGED <<pc, inflight, inTool>>
        BY <2>3 DEF Duplicate, twin
      <4>2. pc # "idle" => inflight # twin
        BY <3>1, <3>3 DEF Outstanding
      <4>3. twin \notin inTool
        BY <3>1, <3>3 DEF Outstanding
      <4> QED BY <4>1, <4>2, <4>3 DEF CopiesInv, OnePlace
    <3> QED BY <3>4, <3>5, <3>7, <3>8 DEF CopiesInv
  <2>4. CASE UNCHANGED <<request, queue, copies, inflight, pc, inTool>>
    BY <2>4 DEF CopiesInv, OnePlace, NoAmplification, Outstanding
  <2>5. ASSUME NEW w \in Workflow,
               \/ ConsumeFailEvent(w) \/ LateStart(w)
               \/ Progress(w) \/ Delete(w)
        PROVE  CopiesInv'
    BY <2>4, <2>5 DEF ConsumeFailEvent, LateStart, Progress, Delete
  <2>6. CASE UNCHANGED vars
    BY <2>4, <2>6 DEF vars
  <2>7. ASSUME \/ \E m \in queue : ToolTakes(m)
               \/ ToolKeeps \/ ToolDeletes
        PROVE  CopiesInv'
    <3>1. OnePlace'
      BY <2>7 DEF ToolTakes, ToolKeeps, ToolDeletes, CopiesInv, OnePlace,
           Outstanding
    <3>2. Outstanding' \subseteq Outstanding /\ UNCHANGED <<request, copies>>
      BY <2>7 DEF ToolTakes, ToolKeeps, ToolDeletes, Outstanding
    <3> QED BY <3>1, <3>2, OutstandingShrinks
  <2> QED BY <2>1, <2>2, <2>3, <2>5, <2>6, <2>7 DEF Next
<1>3. CopiesInv => NoAmplification
  BY DEF CopiesInv
<1> QED BY <1>1, <1>2, <1>3, TypeCorrect, PTL DEF Spec

-----------------------------------------------------------------------------
(* Giving up.                                                              *)

\* A message on its k-th retry has been handled k times; the one in hand is
\* being handled once more.
RetryInv ==
  /\ \A m \in queue \cup inTool : m.retry <= attempts[m.wf]
  /\ pc # "idle" => inflight.retry < attempts[inflight.wf]
  /\ GaveUpAfterAllRetries

\* The scheduler gives up only after RequeueCount + 1 attempts.
THEOREM GaveUpTheorem == Spec => []GaveUpAfterAllRetries
<1>1. Init => RetryInv
  BY DEF Init, RetryInv, GaveUpAfterAllRetries
<1>2. ASSUME TypeOK, RetryInv, [Next]_vars
      PROVE  RetryInv'
  <2> USE <1>2 DEF TypeOK, RetryInv, GaveUpAfterAllRetries, brokerVars,
                   historyVars, toolVars
  <2>1. ASSUME NEW w \in Workflow, ServerStep(w) \/ PublicationFails(w)
        PROVE  RetryInv'
    <3>1. queue' \subseteq queue \cup {NewMessage(w)}
          /\ UNCHANGED <<inflight, pc, attempts, gaveUp, inTool>>
      BY <2>1 DEF ServerStep, RefuseDisabledBackend, MarkQueued,
           RefuseMemoryLimit, PublishSubmission, PublicationFails
    <3>2. NewMessage(w).retry = 0 /\ NewMessage(w).wf = w
      BY DEF NewMessage
    <3> QED BY <3>1, <3>2
  <2>2. CASE SchedulerStep \/ SchedulerFault
    <3>1. ASSUME NEW m \in queue, Deliver(m) PROVE RetryInv'
      BY <3>1 DEF Deliver, Message
    <3>2. CASE /\ UNCHANGED <<inflight, attempts, gaveUp, inTool>>
               /\ queue' = queue /\ pc # "idle"
      BY <3>2
    <3>3. CASE RwcStarts \/ RwcConflictOrNotFound \/ RwcBadRequest \/ RwcError
               \/ CheckReady \/ CountingFails \/ FailWorkflow \/ Reject
               \/ RwcAnswerLost \/ RwcConnectionLost \/ FailWorkflowRaises
      BY <3>2, <3>3 DEF RwcStarts, RwcConflictOrNotFound, RwcBadRequest,
           RwcError, CheckReady, CountingFails, FailWorkflow, Reject,
           RwcAnswerLost, RwcConnectionLost, FailWorkflowRaises
    <3>4. CASE Ack \/ GiveUp
      BY <3>4 DEF Ack, GiveUp, RetriesExhausted, Message
    <3>5. CASE Republish
      BY <3>5 DEF Republish, Message
    <3>6. CASE Crash
      BY <3>6 DEF Crash, Message
    <3> QED BY <2>2, <3>1, <3>3, <3>4, <3>5, <3>6 DEF SchedulerStep, SchedulerFault
  <2>3. ASSUME NEW m \in queue, Duplicate(m) PROVE RetryInv'
    BY <2>3 DEF Duplicate, Message
  <2>4. CASE UNCHANGED <<queue, inflight, pc, attempts, gaveUp, inTool>>
    BY <2>4
  <2>5. ASSUME NEW w \in Workflow,
               \/ ConsumeFailEvent(w) \/ LateStart(w)
               \/ Progress(w) \/ Delete(w)
        PROVE  RetryInv'
    BY <2>4, <2>5 DEF ConsumeFailEvent, LateStart, Progress, Delete
  <2>6. CASE UNCHANGED vars
    BY <2>4, <2>6 DEF vars
  <2>7. ASSUME \/ \E m \in queue : ToolTakes(m)
               \/ ToolKeeps \/ ToolDeletes
        PROVE  RetryInv'
    BY <2>7 DEF ToolTakes, ToolKeeps, ToolDeletes, Message
  <2> QED BY <2>1, <2>2, <2>3, <2>5, <2>6, <2>7 DEF Next
<1>3. RetryInv => GaveUpAfterAllRetries
  BY DEF RetryInv
<1> QED BY <1>1, <1>2, <1>3, TypeCorrect, PTL DEF Spec

-----------------------------------------------------------------------------
(* Concurrency caps.                                                       *)

\* The workflows of resource r that were not started behind the scheduler's back.
Counted(r) == ActiveUsing(r) \ late

\* Between the readiness check and RWC's answer there is still room for the
\* workflow in hand, because only the scheduler adds to Counted.
CapInv ==
  /\ CapRespected
  /\ pc = "starting" /\ ChecksConcurrency =>
       \A r \in Uses[inflight.wf] : Cardinality(Counted(r)) < Cap[r]

LEMMA CountedIsFinite ==
  ASSUME NEW r \in Resource
  PROVE  /\ IsFiniteSet(Counted(r)) /\ Cardinality(Counted(r)) \in Nat
         /\ IsFiniteSet(Counted(r)') /\ Cardinality(Counted(r)') \in Nat
<1>1. Counted(r) \subseteq Workflow /\ Counted(r)' \subseteq Workflow
  BY DEF Counted, ActiveUsing
<1> QED BY <1>1, FS_Subset, FS_CardinalityType

\* A step after which no resource counts a new workflow, and that does not take
\* the scheduler past the readiness check, preserves the caps.
LEMMA CountedShrinks ==
  ASSUME CapInv,
         \A r \in Resource : Counted(r)' \subseteq Counted(r),
         pc' = "starting" => pc = "starting" /\ inflight' = inflight,
         pc' = "starting" => inflight.wf \in Workflow
  PROVE  CapInv'
<1>1. ASSUME NEW r \in Resource
      PROVE  Cardinality(Counted(r)') <= Cardinality(Counted(r))
  BY CountedIsFinite, FS_Subset
<1>2. ASSUME NEW r \in Resource, ChecksConcurrency
      PROVE  Cardinality(Counted(r)') <= Cap[r]
  <2>1. Cardinality(Counted(r)) <= Cap[r]
    BY <1>2 DEF CapInv, CapRespected, Counted
  <2> QED BY <1>1, <2>1, CountedIsFinite
<1>3. ASSUME pc' = "starting", ChecksConcurrency,
             NEW r \in Uses[inflight.wf]
      PROVE  Cardinality(Counted(r)') < Cap[r]
  <2>1. r \in Resource
    BY <1>3
  <2>2. Cardinality(Counted(r)) < Cap[r]
    BY <1>3 DEF CapInv
  <2> QED BY <1>1, <2>1, <2>2, CountedIsFinite
<1> QED BY <1>2, <1>3 DEF CapInv, CapRespected, Counted, ChecksConcurrency

\* Starting the workflow in hand uses up the room that was checked.
LEMMA StartKeepsCaps ==
  ASSUME CapInv, inflight.wf \in Workflow, pc = "starting", pc' # "starting",
         \A r \in Resource :
           Counted(r)' \subseteq
             Counted(r) \cup (IF r \in Uses[inflight.wf] THEN {inflight.wf} ELSE {})
  PROVE  CapInv'
<1>1. ASSUME NEW r \in Resource, ChecksConcurrency
      PROVE  Cardinality(Counted(r)') <= Cap[r]
  <2>1. CASE r \in Uses[inflight.wf]
    <3>1. Cardinality(Counted(r)) < Cap[r]
      BY <1>1, <2>1 DEF CapInv
    <3>2. /\ IsFiniteSet(Counted(r) \cup {inflight.wf})
          /\ Cardinality(Counted(r) \cup {inflight.wf}) <= Cardinality(Counted(r)) + 1
          /\ Cardinality(Counted(r) \cup {inflight.wf}) \in Nat
      <4>1. IsFiniteSet(Counted(r)) /\ Cardinality(Counted(r)) \in Nat
        BY CountedIsFinite
      <4>2. /\ IsFiniteSet(Counted(r) \cup {inflight.wf})
            /\ \/ Cardinality(Counted(r) \cup {inflight.wf}) = Cardinality(Counted(r))
               \/ Cardinality(Counted(r) \cup {inflight.wf}) = Cardinality(Counted(r)) + 1
        BY <4>1, FS_AddElement
      <4> QED BY <4>1, <4>2
    <3>3. Cardinality(Counted(r)') <= Cardinality(Counted(r) \cup {inflight.wf})
      BY <2>1, <3>2, FS_Subset
    <3> QED BY <3>1, <3>2, <3>3, CountedIsFinite
  <2>2. CASE r \notin Uses[inflight.wf]
    <3>1. Cardinality(Counted(r)) <= Cap[r]
      BY <1>1 DEF CapInv, CapRespected, Counted
    <3>2. Cardinality(Counted(r)') <= Cardinality(Counted(r))
      BY <2>2, CountedIsFinite, FS_Subset
    <3> QED BY <3>1, <3>2, CountedIsFinite
  <2> QED BY <2>1, <2>2
<1> QED BY <1>1 DEF CapInv, CapRespected, Counted, ChecksConcurrency

\* No resource is ever used beyond its cap by workflows the scheduler started,
\* for any caps and any mix of resources per workflow.
THEOREM CapTheorem == Spec => []CapRespected
<1>1. Init => CapInv
  <2>1. Init => \A r \in Resource : ActiveUsing(r) \ late = {}
    BY DEF Init, ActiveUsing, Active
  <2> QED BY <2>1, FS_EmptySet DEF Init, CapInv, CapRespected
<1>2. ASSUME TypeOK, CapInv, [Next]_vars
      PROVE  CapInv'
  <2> USE <1>2 DEF TypeOK, brokerVars, historyVars, toolVars
  <2> DEFINE NoneAdded == \A r \in Resource : Counted(r)' \subseteq Counted(r)
  <2>0. ASSUME NoneAdded, UNCHANGED inflight,
               pc' = "starting" => pc = "starting"
        PROVE  CapInv'
    <3>1. pc' = "starting" => inflight.wf \in Workflow
      BY <2>0 DEF Message
    <3> QED BY <2>0, <3>1, CountedShrinks
  <2>1. ASSUME NEW w \in Workflow,
               \/ ServerStep(w) \/ PublicationFails(w)
               \/ ConsumeFailEvent(w) \/ Progress(w) \/ Delete(w)
        PROVE  CapInv'
    <3>1. \A v \in Workflow : status'[v] \in Active => status[v] \in Active
      BY <2>1 DEF ServerStep, RefuseDisabledBackend, MarkQueued,
           RefuseMemoryLimit, PublishSubmission, PublicationFails,
           ConsumeFailEvent, Progress, Delete, Active
    <3>2. UNCHANGED <<inflight, pc, late>>
      BY <2>1 DEF ServerStep, RefuseDisabledBackend, MarkQueued,
           RefuseMemoryLimit, PublishSubmission, PublicationFails,
           ConsumeFailEvent, Progress, Delete
    <3>3. NoneAdded
      BY <3>1, <3>2 DEF Counted, ActiveUsing
    <3> QED BY <2>0, <3>2, <3>3
  <2>2. ASSUME NEW w \in Workflow, LateStart(w)
        PROVE  CapInv'
    <3>1. NoneAdded /\ UNCHANGED <<inflight, pc>>
      BY <2>2 DEF LateStart, Counted, ActiveUsing
    <3> QED BY <2>0, <3>1
  <2>3. CASE CheckReady
    <3>1. UNCHANGED <<status, late, inflight>> /\ pc = "received"
      BY <2>3 DEF CheckReady
    <3>2. \A r \in Resource : Counted(r)' = Counted(r)
      BY <3>1 DEF Counted, ActiveUsing
    <3>3. CASE pc' # "starting"
      BY <2>0, <3>1, <3>2, <3>3
    <3>4. CASE pc' = "starting"
      <4>1. inflight.wf \in Workflow
        BY <3>1 DEF Message
      <4>2. ASSUME ChecksConcurrency, NEW r \in Uses[inflight.wf]
            PROVE  Cardinality(Counted(r)') < Cap[r]
        <5>1. r \in Resource
          BY <4>1
        <5>2. Cardinality(ActiveUsing(r)) < Cap[r]
          BY <2>3, <3>4, <4>2 DEF CheckReady, reana_ready,
               check_concurrent_workflows_limit
        <5>3. IsFiniteSet(ActiveUsing(r))
          BY FS_Subset DEF ActiveUsing
        <5>4. /\ Cardinality(Counted(r)) <= Cardinality(ActiveUsing(r))
              /\ Cardinality(ActiveUsing(r)) \in Nat
          BY <5>3, FS_Subset, FS_CardinalityType DEF Counted
        <5> QED BY <3>2, <5>1, <5>2, <5>4, CountedIsFinite
      <4>3. CapRespected'
        BY <3>2 DEF CapInv, CapRespected, Counted, ChecksConcurrency
      <4> QED BY <3>1, <4>2, <4>3 DEF CapInv, ChecksConcurrency
    <3> QED BY <3>3, <3>4
  <2>4. CASE RwcStarts \/ RwcAnswerLost
    <3>1. /\ pc = "starting" /\ pc' # "starting"
          /\ inflight.wf \in Workflow
          /\ status' = [status EXCEPT ![inflight.wf] = "pending"]
          /\ UNCHANGED late
      BY <2>4 DEF RwcStarts, RwcAnswerLost, Message
    <3>2. ASSUME NEW r \in Resource
          PROVE  Counted(r)' \subseteq Counted(r) \cup
                   (IF r \in Uses[inflight.wf] THEN {inflight.wf} ELSE {})
      BY <3>1 DEF Counted, ActiveUsing
    <3> QED BY <3>1, <3>2, StartKeepsCaps
  <2>5. CASE UNCHANGED <<status, late>> /\ pc' # "starting"
    <3>1. NoneAdded
      BY <2>5 DEF Counted, ActiveUsing
    <3> QED BY <2>5, <3>1, CountedShrinks
  <2>6. CASE UNCHANGED <<status, late, inflight, pc>>
    <3>1. NoneAdded
      BY <2>6 DEF Counted, ActiveUsing
    <3> QED BY <2>0, <2>6, <3>1
  <2>7. CASE SchedulerStep \/ SchedulerFault
    <3>1. \/ CheckReady \/ RwcStarts \/ RwcAnswerLost
          \/ UNCHANGED <<status, late>> /\ pc' # "starting"
      BY <2>7 DEF SchedulerStep, SchedulerFault, Deliver, RwcConflictOrNotFound,
           RwcBadRequest, RwcError, FailWorkflow, Ack, Reject, GiveUp, Republish,
           CountingFails, RwcConnectionLost, FailWorkflowRaises, Crash
    <3> QED BY <2>3, <2>4, <2>5, <3>1
  <2>8. ASSUME NEW m \in queue, Duplicate(m) PROVE CapInv'
    BY <2>6, <2>8 DEF Duplicate
  <2>9. CASE UNCHANGED vars
    BY <2>6, <2>9 DEF vars
  <2>10. ASSUME \/ \E m \in queue : ToolTakes(m)
                \/ ToolKeeps \/ ToolDeletes
         PROVE  CapInv'
    BY <2>6, <2>10 DEF ToolTakes, ToolKeeps, ToolDeletes
  <2> QED BY <2>1, <2>2, <2>7, <2>8, <2>9, <2>10 DEF Next
<1>3. CapInv => CapRespected
  BY DEF CapInv
<1> QED BY <1>1, <1>2, <1>3, TypeCorrect, PTL DEF Spec
=============================================================================
