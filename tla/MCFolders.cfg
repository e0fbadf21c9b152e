SPECIFICATION Spec
CONSTANTS
  Chars <- MCChars
  Slash = "/"
  Dot = "."
  Forbidden = {}
  Wildcards = {}
  Width <- MCWidth
  Lower <- MCLower
  MaxNameLen = 2
  Handlers = {h1, h2}
  Notes = {n1}
  Lists = {l1}
  Folders <- MCFolders
  Names <- MCNames
  Faults <- AllFaults
  MaxRequests = 5
  None = None
SYMMETRY HandlerSymmetry
INVARIANTS
  TypeOK
  NotesInPlace
  ListsInPlace
  ListingTrue
PROPERTIES
  ListsFollowFolders
