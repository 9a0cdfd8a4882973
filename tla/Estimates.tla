----------------------------- MODULE Estimates ------------------------------
(***************************************************************************)
(* complexity.py: what a workflow asks of the cluster, from its            *)
(* specification: the jobs that can start at once on Kubernetes with their *)
(* memory, and the backends of all its steps.  The first decides whether   *)
(* the user may submit it and whether there is memory for it, the second   *)
(* whether the backends are enabled and which cap counts it; nothing but   *)
(* the traversals relates them.                                            *)
(*                                                                         *)
(* The steps of a workflow and of the workflows inside it are numbered as  *)
(* they are met: each says which one it is within, 0 for none.  A          *)
(* complexity is a set of [jobs, memory], as nothing asks how often one    *)
(* occurs.  A backend that is not declared is NoBackend; a memory limit    *)
(* that is not is 0 and becomes DefaultMemory.  A mean of memory is        *)
(* rounded down.                                                           *)
(***************************************************************************)
EXTENDS Integers, FiniteSets, Sequences

CONSTANTS
  NoBackend,
  DefaultMemory,      \* REANA_KUBERNETES_JOBS_MEMORY_LIMIT
  UserMemory          \* the most a user may ask for, 0 for no limit

ASSUME EstimatesAssumption ==
  DefaultMemory \in Nat \ {0} /\ UserMemory \in Nat /\ NoBackend # "kubernetes"

Hints == Seq(STRING \cup {NoBackend})

\* A step that no other has to end before is initial.  The length of what it is
\* scattered over is -1 where it is not.  A CWL step runs a tool, whose hints
\* come with it, or something that is no job.
SpecStep ==
  [within : Nat, initial : BOOLEAN, declared : Hints, tool : Hints,
   memory : Nat, scatter : Nat \cup {-1}, job : BOOLEAN]

\* "tool" is a CWL document that is a single tool; a packed one has its workflows
\* side by side.  needs[j]: the steps that the j-th job of Snakemake waits for.
Workflow ==
  {w \in [type : {"serial", "yadage", "cwl", "tool", "snakemake"},
          steps : Seq(SpecStep), hints : Hints, packed : BOOLEAN,
          needs : Seq(SUBSET Nat)] :
     /\ \A k \in DOMAIN w.steps : w.steps[k].within < k
     /\ \A j \in DOMAIN w.needs :
          w.needs[j] \subseteq DOMAIN w.steps \cap DOMAIN w.needs}

Asks(jobs, memory) == [jobs |-> jobs, memory |-> memory]

\* Backend of a step: the first one declared, or the last.
Backend(declared) == IF declared = NoBackend THEN "kubernetes" ELSE declared
Given(hints) == {k \in DOMAIN hints : hints[k] # NoBackend}
FirstOf(hints) ==
  IF Given(hints) = {} THEN NoBackend
  ELSE hints[CHOOSE k \in Given(hints) : \A j \in Given(hints) : k <= j]
LastOf(hints) ==
  IF Given(hints) = {} THEN NoBackend
  ELSE hints[CHOOSE k \in Given(hints) : \A j \in Given(hints) : j <= k]

_get_number_of_jobs(declared) == IF Backend(declared) = "kubernetes" THEN 1 ELSE 0
_get_memory_limit(step) == IF step.memory = 0 THEN DefaultMemory ELSE step.memory

_calculate_complexity(of, steps) == UNION {of[k] : k \in steps}
Own(step, backend) ==
  {Asks(_get_number_of_jobs(backend), _get_memory_limit(step))}
Times(complexity, n) == {Asks(c.jobs * n, c.memory) : c \in complexity}
Collected(backends) == IF backends = {} THEN {"kubernetes"} ELSE backends

Inner(steps, k) == {c \in DOMAIN steps : steps[c].within = k}
Initial(steps, k) == {c \in Inner(steps, k) : steps[c].initial}
Leaves(steps) == {k \in DOMAIN steps : Inner(steps, k) = {}}

-----------------------------------------------------------------------------
(* Serial: the first step starts                                           *)

SerialComplexity(steps) ==
  IF steps = <<>> THEN {} ELSE Own(steps[1], FirstOf(steps[1].declared))
FlatBackends(steps) ==
  Collected({Backend(FirstOf(steps[k].declared)) : k \in DOMAIN steps})

-----------------------------------------------------------------------------
(* Yadage: stages that depend on nothing start; the last backend declared  *)
(* counts, the stages inside a stage replace it if one of them can start,  *)
(* and a scatter multiplies it.                                            *)

StageComplexity(stages) ==
  LET of[k \in DOMAIN stages] ==
        LET stage == stages[k]
            inner == Initial(stages, k)
            base == IF inner = {} THEN Own(stage, LastOf(stage.declared))
                    ELSE _calculate_complexity(of, inner)
        IN IF stage.scatter < 0 THEN base ELSE Times(base, stage.scatter)
  IN of

YadageComplexity(stages) ==
  _calculate_complexity(StageComplexity(stages), Initial(stages, 0))
YadageBackends(stages) ==
  Collected({Backend(LastOf(stages[k].declared)) : k \in Leaves(stages)})

-----------------------------------------------------------------------------
(* CWL: the hints of the enclosing workflows come before those of a step,  *)
(* and the tool's last, the first declaration counting; the estimate looks *)
(* at the step's own only.  A scatter over nothing leaves the step as it   *)
(* would be without the workflow inside it.  In a packed document all      *)
(* steps are looked at alike.                                              *)

CwlStepComplexity(steps) ==
  LET of[k \in DOMAIN steps] ==
        LET step == steps[k]
            own == Own(step, FirstOf(step.declared))
            base == IF Inner(steps, k) = {} THEN own
                    ELSE _calculate_complexity(of, Initial(steps, k))
        IN CASE step.scatter = -1 -> base
             [] step.scatter = 0 -> own
             [] OTHER -> Times(base, step.scatter)
  IN of

Unpacked(steps) == [k \in DOMAIN steps |-> [steps[k] EXCEPT !.within = 0]]
CwlComplexity(steps, packed) ==
  LET parsed == IF packed THEN Unpacked(steps) ELSE steps
  IN _calculate_complexity(CwlStepComplexity(parsed), Initial(parsed, 0))

\* All hints for a step or what is inside it.
AllHints(steps, hints) ==
  LET given[k \in 0..Len(steps)] ==
        IF k = 0 THEN hints
        ELSE given[steps[k].within] \o steps[k].declared \o steps[k].tool
  IN given
CwlBackends(steps, hints) ==
  Collected({Backend(FirstOf(AllHints(steps, hints)[k])) :
               k \in {j \in Leaves(steps) : steps[j].job}})

-----------------------------------------------------------------------------
(* Snakemake: the jobs that another one waits for may run together; of     *)
(* these groups the heaviest counts, with the mean of its memory.          *)

_filter_repeated_dependencies(needs) ==
  [j \in DOMAIN needs |-> needs[j] \ UNION {needs[d] : d \in needs[j]}]

OnKubernetes(steps, group) ==
  {d \in group : _get_number_of_jobs(FirstOf(steps[d].declared)) = 1}
Together(steps, group) ==
  LET sum[n \in 0..Len(steps)] ==
        IF n = 0 THEN Asks(0, 0)
        ELSE IF n \in group
        THEN Asks(sum[n - 1].jobs + 1,
                  sum[n - 1].memory + _get_memory_limit(steps[n]))
        ELSE sum[n - 1]
  IN sum[Len(steps)]

GroupComplexityOfAll(steps, group) ==
  LET jobs == Together(steps, OnKubernetes(steps, group)).jobs
      memory == Together(steps, group).memory
  IN Asks(jobs, IF jobs = 0 THEN memory ELSE memory \div jobs)
GroupComplexity(steps, group) ==
  LET all == Together(steps, OnKubernetes(steps, group))
  IN Asks(all.jobs, IF all.jobs = 0 THEN 0 ELSE all.memory \div all.jobs)

\* None to choose from raises, which estimates nothing.
Weight(c) == c.jobs * c.memory
SnakemakeComplexity(steps, needs) ==
  LET groups == _filter_repeated_dependencies(needs)
      of(j) == GroupComplexity(steps, groups[j])
      waiting == {j \in DOMAIN groups : groups[j] # {}}
      heaviest == CHOOSE j \in waiting : \A i \in waiting :
                    /\ Weight(of(i)) <= Weight(of(j))
                    /\ i < j => Weight(of(i)) < Weight(of(j))
  IN IF waiting = {} THEN {} ELSE {of(heaviest)}

-----------------------------------------------------------------------------
(* What is decided                                                         *)

estimate_complexity(w) ==
  CASE w.type = "serial" -> SerialComplexity(w.steps)
    [] w.type = "yadage" -> YadageComplexity(w.steps)
    [] w.type = "cwl" -> CwlComplexity(w.steps, w.packed)
    [] w.type = "tool" -> {}
    [] w.type = "snakemake" -> SnakemakeComplexity(w.steps, w.needs)
compute_backends(w) ==
  CASE w.type = "yadage" -> YadageBackends(w.steps)
    [] w.type = "cwl" -> CwlBackends(w.steps, w.hints)
    [] w.type = "tool" -> {Backend(FirstOf(w.hints))}
    [] OTHER -> FlatBackends(w.steps)

Memories(complexity) == {c.memory : c \in {d \in complexity : d.jobs > 0}}
ExceedsUserMemory(complexity) ==
  UserMemory # 0 /\ \E m \in Memories(complexity) : m > UserMemory
get_workflow_min_job_memory(complexity) ==
  LET memories == Memories(complexity)
  IN IF memories = {} THEN 0
     ELSE CHOOSE m \in memories : \A n \in memories : m <= n

-----------------------------------------------------------------------------
\* What the steps of a workflow ask for, those inside others included.
Asked(w) == {_get_memory_limit(w.steps[k]) : k \in DOMAIN w.steps}

\* Where estimate and backends look at different things: hints of the workflow or
\* the tool, a CWL step that is no job, one that is looked at itself and not what
\* is inside; a stage that holds others none of which can start.
Hidden(w) ==
  \/ w.type = "cwl" /\ w.hints # <<>>
  \/ \E k \in DOMAIN w.steps :
       LET step == w.steps[k]
           outer == Inner(w.steps, k) # {}
       IN \/ w.type = "cwl" /\ step.tool # <<>>
          \/ w.type = "cwl" /\ ~outer /\ ~step.job
          \/ w.type = "cwl" /\ outer
               /\ (w.packed \/ step.declared # <<>> \/ step.scatter = 0)
          \/ w.type = "yadage" /\ outer /\ Initial(w.steps, k) = {}

(* A workflow none of whose steps runs on Kubernetes is neither refused for *)
(* its memory nor made to wait for some, unless its backends are hidden     *)
(* from the estimate.  One is refused only if one of its steps asks for too *)
(* much, and it waits for no less memory than the least and no more than    *)
(* the most that one asks for.                                              *)
(* complexity.py 23-614.                                                    *)
EstimatesSound(w) ==
  LET complexity == estimate_complexity(w)
      least == get_workflow_min_job_memory(complexity)
  IN
  /\ "kubernetes" \notin compute_backends(w) /\ ~Hidden(w) =>
       least = 0 /\ ~ExceedsUserMemory(complexity)
  /\ ExceedsUserMemory(complexity) => \E m \in Asked(w) : m > UserMemory
  /\ least # 0 => \E m, n \in Asked(w) : m <= least /\ least <= n
=============================================================================
