CONSTANTS
  None = None
  Blank = Blank
  HostPatterns <- PatternsOfFile
  Covers <- MatchesOfFile
  Excludes <- NegationsOfFile
  LocalUser = "me"
  Connections = {c1, c2}
  Groups = {g1}
  Edits <- EditsOfUser
  ImportFile <- FileOfUser
  MaxWrites = 4
SPECIFICATION RepositorySpec
PROPERTIES
  ImportOverwritesOnlyEndpoint
