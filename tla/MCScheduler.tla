---------------------------- MODULE MCScheduler ----------------------------
(* A small instance of Scheduler.                                           *)
EXTENDS Scheduler, TLC

CONSTANTS w1, w2, w3, w4

\* Two workflows that compete for Kubernetes, one of them with Dask and with a
\* job that may not fit on a node; one that asks for more memory than its user
\* may have, and one of a backend that is not enabled.
MCWorkflow == {w1, w2, w3, w4}
MCResource == {"kubernetes", "htcondor", "dask"}
MCSupported == {"kubernetes"}
MCUses == (w1 :> {"kubernetes"}) @@ (w2 :> {"kubernetes", "dask"})
            @@ (w3 :> {"kubernetes"}) @@ (w4 :> {"htcondor"})
MCCap == [r \in MCResource |-> 1]
MCMemory == [w \in MCWorkflow |-> CASE w = w2 -> {1, 2} [] w = w3 -> {1, 3}
                                    [] OTHER -> {1}]
MCNodeMemory == {1, 2}

\* w3 and w4 never reach the scheduler, so they are explored on their own.  The
\* end "stopped" differs from "finished" in name only.
Reduced ==
  /\ \E group \in {{w1, w2}, {w3, w4}} : \A w \in Workflow \ group :
       status'[w] = "created" /\ request'[w] = "none"
  /\ \A w \in Workflow : status'[w] # "stopped"
MCSpec == Init /\ [][Next /\ Reduced]_vars /\ Fairness
=============================================================================
