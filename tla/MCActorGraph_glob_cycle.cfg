SPECIFICATION Spec
CONSTANTS
  Jobs <- CycleJobs
  FilesOf <- MCFiles
  MetaOf <- MCMeta
  CommandOf <- MCArgs
  TrueSends <- MCSends
  InLen = 3
  OutLen = 3
  PipeCap = 1
INVARIANT
  NamesAreRust
