SPECIFICATION Spec
CONSTANTS
  Handlers = {h1, h2, h3}
  Ids = {i1}
  NumTitles = 3
  Contents <- OneContent
  PreviewRunes = 1
  Faults <- RolledBack
  Sentinel = Sentinel
  None = None
SYMMETRY HandlerSymmetry
INVARIANTS
  RowHasFile
