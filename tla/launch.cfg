SPECIFICATION FairLaunchSpec
CONSTANTS
  None = None
  r1 = r1
  c1 = c1
  Job <- MCJob
  Repo = {r1}
  Client = {c1}
  Hypervisor = {}
  TypeOf <- MCTypeOf
  RepoOf <- MCRepoOf
  ClientOf <- MCClientOf
  PolicyRepo <- MCPolicyRepo
  HypervisorOf <- MCHypervisorOf
  Dependency <- MCDependency
  Prepares <- MCPrepares
  Scheduler = {s1}
  Slot = {1}
  Workers = 2
  MaxConcurrency = 2
  InspectReplies = {"job_worker"}
  BuildOutcome <- BuildsOk
  RunOutcome <- RunsOk
  Updatable = {}
  CancelFrom <- NoRequests
  StartFrom <- NoRequests
  Commands = {}
  Faults = {}
  Origins <- MCOrigins
  Launcher = {l1}
  Requests = {"policy", "schedule", "relaunch", "restore"}
  PolicyClients = {c1}
  EnabledSets = {{c1}, {}}
  LaunchRepo = r1
  CatalogEnabled = TRUE
  AutoPrune = TRUE
  KeepsSome = TRUE
  MayRaise = TRUE
INVARIANTS MasterFirst LaunchedAlone
PROPERTIES LaunchedJobsFinish
CHECK_DEADLOCK FALSE
