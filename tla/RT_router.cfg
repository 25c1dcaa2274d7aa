SPECIFICATION Spec
CONSTANTS
  Buckets <- MC_Buckets
  Window = 2
  Default = 4
  MinSamples = 2
  Transfer = 1
  Alpha = 2
  Beta = 2
  BatchThresh = 2
  Gamma = 3
  PromptLens = {2, 5}
  OutputLens = {0, 1, 4}
  MaxLoad = 3
  MaxUpdates = 5
INVARIANTS TypeOK RecentOnly LoadMonotone
CHECK_DEADLOCK FALSE
