SPECIFICATION FairSpec
CONSTANTS
  Handlers = {h1, h2}
  Ids = {i1}
  NumTitles = 2
  Contents <- TwoContents
  PreviewRunes = 1
  Faults = {}
  Sentinel = Sentinel
  None = None
INVARIANTS
  PreviewMatches
PROPERTIES
  EveryRequestAnswered
