SPECIFICATION Spec
CONSTANTS
  MaxStreams = 2
  MaxPlayers = 3
  UniqueTeams = FALSE
  NumColors = 3
  Looks <- OtherLook
  DefaultLook <- Red
  MaxChanges = 1
  MaxMishaps = 1
INVARIANTS TypeOK ListsMatchClients TopologyConverges ChatInfoConverges SameTopologyAtStart ColorsDistinct NobodyWaitsInVain
CHECK_DEADLOCK FALSE
