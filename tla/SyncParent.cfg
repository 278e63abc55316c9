SPECIFICATION Spec
CONSTANTS
  Names = {"a", "b"}
  Root = "/"
  Dirs <- Tree
  WorkDir = "/"
  Targets <- SomeTargets
  Links = 3
  maxLinks = 3
  PathMax = 5
INVARIANTS
  SyncsTheFilesDirectory
  OpensWhatTheKernelOpens
CHECK_DEADLOCK FALSE
