SPECIFICATION Spec
CONSTANTS
  Handlers = {h1, h2, h3}
  Ids = {i1}
  NumTitles = 2
  Contents <- OneContent
  PreviewRunes = 1
  Faults <- AllFaults
  Sentinel = Sentinel
  None = None
SYMMETRY HandlerSymmetry
INVARIANTS
  TypeOK
  AtMostOneFile
  SentinelNeverRead
