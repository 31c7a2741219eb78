SPECIFICATION FairSpec
CONSTANTS
  None = None
  r1 = r1
  r2 = r2
  c1 = c1
  c2 = c2
  h1 = h1
  h2 = h2
  Job <- ChainJob
  Repo = {r1}
  Client = {c1}
  Hypervisor = {}
  TypeOf <- ChainTypeOf
  RepoOf <- ChainRepoOf
  ClientOf <- ChainClientOf
  PolicyRepo <- ChainPolicyRepo
  HypervisorOf <- ChainHypervisorOf
  Dependency <- ChainDependency
  Prepares <- ChainPrepares
  Scheduler = {s1, s2}
  Slot = {1, 2}
  Workers = 2
  MaxConcurrency = 2
  InspectReplies = {"job_worker"}
  BuildOutcome <- AnyBuild
  RunOutcome <- AnyRun
  Updatable = {}
  CancelFrom <- ChainCancels
  StartFrom <- NoRequests
  Commands = {}
  Faults = {}
  Origins <- ChainOrigins
INVARIANTS NoRowDeadlock BusyIsHandled
PROPERTY EveryJobFinishes
CHECK_DEADLOCK FALSE
