SPECIFICATION Spec
CONSTANTS
  Handlers = {h1, h2, h3}
  Ids = {i1}
  NumTitles = 1
  Contents <- TwoContents
  PreviewRunes = 1
  Faults <- LeavesNoFile
  Sentinel = Sentinel
  None = None
SYMMETRY HandlerSymmetry
INVARIANTS
  NoOrphanFile
  AckedIsStored
PROPERTIES
  MissesOnlyDeleted
  ImplementsNoteStore
