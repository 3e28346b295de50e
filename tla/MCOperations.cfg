SPECIFICATION Spec
CONSTANTS
  data = data
  Data = Data
  datatxt = datatxt
  f = f
  g = g
  Names = {data, Data, datatxt}
  FoldOf <- MCFoldOf
  Sorted <- MCSorted
  GitSorted <- MCGitSorted
  Missing = Missing
  Failed = Failed
  NoPlan = NoPlan
  NoTag = NoTag
  Commits = {c1, c2, c3, c4}
  Files = {f, g}
  AddPaths <- MCAddPaths
  Folders <- MCFolders
  CopyPaths <- MCCopyPaths
  Uploads <- MCUploads
  MaxOps = 2
  MaxFiles = 2
  MaxTagged = 1
  MaxDepth = 3
SYMMETRY Symmetry
INVARIANTS
  ViewsAgree
  SameFilesSameTree
  CommitsMeanTheirOperations
  FolderUploadsMirror
CHECK_DEADLOCK FALSE
