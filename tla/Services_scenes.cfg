SPECIFICATION Spec
CONSTANTS
  Scenes = {"log", "search", "store", "gateway", "pull", "tools", "echo", "follow", "host", "server", "transcript", "text"}
  ui = ui
  cli = cli
  k1 = k1
  c1 = c1
  h1 = h1
  r1 = r1
  r2 = r2
  readTool = readTool
  writeTool = writeTool
  sendTool = sendTool
  LogProcs = {ui, cli}
  Registries = {v1, v2}
  Devices = {d1, d2}
  EventBodies = {b1}
  Cadence = 2
  KeepCount = 2
  MaxLog = 6
  MaxDamage = 1
  NoDigest = NoDigest
  Undecodable = Undecodable
  NoTx = NoTx
  NoProc = NoProc
  Minutes = 3
  Hours = 2
  Days = 2
  Zones <- MCZones
  StepMax <- MCStepMax
  RunMax = 20
  StoreProcs = {ui, cli}
  Writers = {u1, k1}
  ProcOf <- MCProcOf
  Contents = {c1, c2}
  Fanout <- MCFanout
  Writes <- MCAnyContent
  OldDirs = {"aa"}
  MaxKills = 1
  MaxLosses = 1
  NoContent = NoContent
  Callers = {g1}
  Routings <- MCRoutings
  Policies = {"local_only", "cloud_allowed", "custom_endpoints"}
  AllowedBases = {"b3"}
  Providers = {"anthropic", "compatible", "google"}
  AdapterUrl <- MCAdapterUrl
  Engines = {"embed"}
  HasRemote = TRUE
  Requests <- MCRequests
  Bodies <- MCBodies
  Statuses = {200, 429}
  OutputCap = 1
  LedgerMax = 1
  MaxCalls = 2
  NoChoice = NoChoice
  Pulls = {p1, p2}
  Artifact <- MCArtifact
  HopsMax = 1
  Sources = {"https", "file"}
  MaxPulls = 3
  MaxBad = 2
  AuthRuns = {r1, r2}
  AuthTools = {readTool, writeTool, sendTool}
  Builds <- MCBuilds
  Allowlists <- MCAllowlists
  CallPlan <- MCCallPlan
  Receipts <- MCReceipts
  Executors = {"device", "cloud"}
  LineageMax = 1
  MaxClock = 1
  MaxRestarts = 1
  NoTool = NoTool
  NoToolCall = NoToolCall
  Hosts = {h1, h2}
  Clients = {l1}
  Outputs = {ok, bad}
  Marked = {ok}
  FrameWindow = 1
  StepBudget = 3
  MaxHostKills = 1
  MaxDrops = 2
  NoOutput = NoOutput
  Projects = {p1, p2}
  Connections = {o1, o2}
  OpenMax = 1
  RegistryMax = 1
  MaxJobs = 1
  MaxFaults = 1
  MaxStarts = 2
  NoProject = NoProject
  Emails = {m1, m2}
  Accounts = {a1, a2}
  Conns = {n1}
  SessionTtl = 1
  RuntimeMax = 1
  Requested = {"create", "open", "health", "jobs", "import"}
  MaxEntries = 2
  MaxRequests = 2
  MaxDisturbed = 1
  NoOne = NoOne
  Recordings <- MCRecordings
  Transcribers = {t1, t2}
  SamplesPerMs = 2
  PacketSamples = 3
  WindowMs = 8
  Overlap = 4
  WindowMin = 2
  WindowMax = 17
  MaxOverrun = 1
  BatchMax = 2
  PageRows = 2
  SegmentMax = 3
  Speakers = {1}
  MaxLost = 1
  MaxEdits = 1
  NoEdit = NoEdit
  NoAttempt = NoAttempt
  Documents <- MCDocuments
  RecordMax = 5
  BytesTarget = 3
  BytesMax = 4
  ChunkCountMax = 4
  SegmentCountMax = 3
  CueCountMax = 2
CHECK_DEADLOCK FALSE
INVARIANTS
  LogSound
  SearchSound
  StoreSound
  GatewaySound
  PullSound
  DispatchSanctioned
  EchoSound
  SessionAgrees
  RequestsSanctioned
  TranscriptSound
  CitationsSound
PROPERTIES
  EventsEternal
