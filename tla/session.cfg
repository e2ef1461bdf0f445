CONSTANTS
  PoolSize = 2
  Address = {east, west}
  Name = {good, typo}
  AddressOf <- MCAddressOf
  Task = {"spoke", "hub"}
  QueueSize = 2
  MaxSessions = 2
  MaxGames = 2
  MaxTicks = 3
  east = east
  west = west
  good = good
  typo = typo
SPECIFICATION HubFairSpec
INVARIANTS OwnTry JoinsWhomItWasTold NothingGoneIsTouched LevelsStayApart
CHECK_DEADLOCK FALSE
PROPERTIES GetsThrough TearDownEnds ImplementsFifo
