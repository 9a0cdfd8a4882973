SPECIFICATION Spec
CONSTANTS
  w1 = w1
  w2 = w2
  w3 = w3
  w4 = w4
  Workflow <- MCWorkflow
  Resource <- MCResource
  Dask = "dask"
  Supported <- MCSupported
  Uses <- MCUses
  Cap <- MCCap
  Policy = "balanced"
  ReadinessCheck = "all_checks"
  JobMemory <- MCMemory
  MaxUserMemory = 2
  NodeMemory <- MCNodeMemory
  RequeueCount = 1
  MaxCopies = 1
  MaxFaults = 0
INVARIANT
  QueuedWorkflowHasSubmission
CHECK_DEADLOCK FALSE
