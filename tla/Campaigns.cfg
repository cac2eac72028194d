SPECIFICATION Spec
CONSTANTS
  Logs = {1, 2}
  Digest <- MCDigest
  Threshold = 1
  Hashers = {scheduled, manual}
  Scheduled = scheduled
  MaxLogsPerRun = 2
  ChunkSize = 1
  FileLogs = {2}
  MaxFilesPerRun = 1
  ClusterIds = {c1, c2, c3}
  MaxEvents = 1
  None = None
  Matching = {2}
  BatchSize = 2
  DeleteBatchSize = 1
INVARIANTS
  SkipsOnlyOvertaken
  CampaignsApart
  CountCoversMembers
PROPERTIES
  GetsACampaign
  ReleasedIfRoom
