SPECIFICATION FairSpec
CONSTANTS
  PHHBCI_MAX_LEN_DATA_MOSI = 2
  PHHIF_MAX_IMAGE_SZ = 5
  BufferSz = 5
  FWD_MAX_RETRY_COUNT = 2
  Kinds <- BothKinds
  FileSizes = {0, 2, 4, 5, 6}
  Mishaps <- EveryMishap
  MaxFaults = 2
INVARIANTS
  TypeOK
  SuccessIsLoaded
  SegmentsInOrder
  RetriesSuffice
PROPERTIES
  DownloadReturns
CHECK_DEADLOCK FALSE
