SPECIFICATION Spec
CONSTANTS
  LongTexts = {"given"}
  MaxCpus = 3
  MaxForkFails = 1
  CpuOptions <- MCCpuOptions
  BlockSize = 2
  DriveSizes = {2, 6, 8}
  TestSizes = {1, 2, 3, 99}
  MaxSize = 50
  ULongLong = 1024
  FaultyPlaces = {{}, {1}, {5}, {0, 3, 5}}
  MaxIoFails = 1
  DeviceTables <- MCTables
  DiskStats <- MCStats
  Settings = 2
  patterns <- MCPatterns
  MaxLateBytes = 2
  MaxRetries = 3
  MaxKeys = 2
INVARIANT RowsInv
INVARIANT CpuPassHonest
INVARIANT DriveRestored
INVARIANT DriveVerdictHonest
INVARIANT AnswersJudgedRight
PROPERTY AskedColourShown
