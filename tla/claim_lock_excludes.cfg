SPECIFICATION Spec
CONSTANTS
  None = None
  r1 = r1
  r2 = r2
  c1 = c1
  c2 = c2
  h1 = h1
  h2 = h2
  Job <- PairJob
  Repo = {r1}
  Client = {c1}
  Hypervisor = {}
  TypeOf <- PairTypeOf
  RepoOf <- PairRepoOf
  ClientOf <- PairClientOf
  PolicyRepo <- PairPolicyRepo
  HypervisorOf <- PairHypervisorOf
  Dependency <- PairDependency
  Prepares <- PairPrepares
  Scheduler = {s1, s2}
  Slot = {1, 2}
  Workers = 2
  MaxConcurrency = 2
  InspectReplies = {"job_worker"}
  BuildOutcome <- AnyBuild
  RunOutcome <- AnyRun
  Updatable = {}
  CancelFrom <- NoRequests
  StartFrom <- NoRequests
  Commands = {}
  Faults = {}
  Origins <- PairOrigins
INVARIANT ExclusiveExecution
CHECK_DEADLOCK FALSE
