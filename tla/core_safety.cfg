SPECIFICATION Spec
CONSTANTS
  None = None
  r1 = r1
  r2 = r2
  c1 = c1
  c2 = c2
  h1 = h1
  h2 = h2
  Job <- MCJob
  Repo = {r1}
  Client = {c1, c2}
  Hypervisor = {h1, h2}
  TypeOf <- MCTypeOf
  RepoOf <- MCRepoOf
  ClientOf <- MCClientOf
  PolicyRepo <- MCPolicyRepo
  HypervisorOf <- MCHypervisorOf
  Dependency <- MCDependency
  Prepares <- MCPrepares
  Scheduler = {s1}
  Slot = {1}
  Workers = 2
  MaxConcurrency = 2
  InspectReplies = {"job_worker", "other_worker", "none"}
  BuildOutcome <- AnyBuild
  RunOutcome <- AnyRun
  Updatable = {c1}
  CancelFrom <- RunningCancels
  StartFrom <- NoRequests
  Commands = {}
  Faults = {"scheduler", "worker"}
  Origins <- CoreOrigins
INVARIANTS TypeOK ExclusiveExecution NoOvertaking RunningIsRecorded PreparedFirst
CHECK_DEADLOCK FALSE
PROPERTY ImplementsRuns
