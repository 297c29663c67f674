SPECIFICATION Spec
CONSTANTS
  IngestScenes = {"pipeline", "embed", "intake", "stream", "audio"}
  Items = {e1}
  Media <- MCMedia
  Registered = {"normalize", "transcribe", "chunk", "embed"}
  StageWorkers = {i1, i2}
  Connectors = {k1, k2}
  Requesters = {r1}
  RewindTo = {"chunk", "extract"}
  ChunkPlan <- MCChunkPlan
  ListMax = 2
  StageRetryMax = 1
  MaxPass = 1
  MaxStageFaults = 1
  NoRow = NoRow
  Idle = Idle
  EmbedWorkers = {w1, w2}
  ChunksOf <- MCChunksOf
  EmbedRoutes = {"local", "cloud"}
  SequenceMax = 3
  PaddedMax = 4
  BatchCountMax = 2
  EmbedCountMax = 3
  MaxEmbedFaults = 1
  NoVector = NoVector
  Trees <- MCTrees
  Root = 0
  FileBytes <- MCFileBytes
  FileMagic <- MCFileMagic
  FileContent <- MCFileContent
  FileCountMax = 4
  DepthMax = 1
  FileBytesMax = 8
  TextBytesMax = 2
  RowCountMax = 3
  MaxVanish = 1
  Streams = {s1, s2}
  ContentLen = 4
  BufferMax = 3
  ReadMax = 2
  Wants = {1, 3}
  NoWant = NoWant
  Tracks <- MCTracks
  RateMin = 2
  RateMax = 25
  ChannelMax = 2
  EngineRate = 4
  HalfTaps = 2
  Grains = 2
  Rounding = 1
  PacketFrames = {1, 3}
  MaxFrames = 7
CHECK_DEADLOCK FALSE
INVARIANTS
  IngestSound
  VectorsSound
  NothingLeftOut
  StreamSound
  ResampleSound
PROPERTIES
  CalmPassGrows
  IngestSettles
