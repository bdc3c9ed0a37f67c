CONSTANTS
  Null = Null
  Texts <- TextsOfClients
  Blank = {"", " ", "tab"}
  Spaces = {"", " "}
  HexColors = {"#00ff00"}
  MaxPort = 65535
  Values = {5, 6}
  ConnectionIds = {"c1", "c2"}
  GroupIds = {"g1"}
  StoredKeys = {"k1"}
  Configs <- ConfigsOfClients
  GroupConfigs <- GroupsOfClients
  MaxImported = 2
SPECIFICATION RecordsSpec
INVARIANTS
  CatalogIsReadable
  NearestIsInForce
CHECK_DEADLOCK FALSE
