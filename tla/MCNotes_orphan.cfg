SPECIFICATION Spec
CONSTANTS
  Handlers = {h1, h2}
  Ids = {i1}
  NumTitles = 2
  Contents <- OneContent
  PreviewRunes = 1
  Faults = {}
  Sentinel = Sentinel
  None = None
SYMMETRY HandlerSymmetry
INVARIANTS
  NoOrphanFile
