SPECIFICATION Spec
CONSTANTS
  Jobs <- AllJobs
  FilesOf <- MCFiles
  MetaOf <- MCMeta
  CommandOf <- MCArgs
  TrueSends <- MCSends
  InLen = 3
  OutLen = 3
  PipeCap = 1
INVARIANTS
  EdgesAreTrue
  NoSendVanishes
  NamesAreRust
  NothingHidden
  NeverStuck
  SvgIsComplete
PROPERTY
  FocusIsNeighbourhood
