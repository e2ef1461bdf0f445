SPECIFICATION FairSpec
CONSTANTS
  NumPlayers = 2
  LocalPlayer = 0
  FirstTick = 0
  RealTick = 1
  LastTick = 1
  Capacity = 2
  PregameWindow = 1
  SendPeriod = 1
  MinSendPeriod = 1
  RecoveryPeriod = 1
  PregameSilence = 1
  InGameSilence = 1
  MaxSilence = 2
  BandwidthReduction = TRUE
  IncrementalTicks = 1
  RecoveryTicks = 2
  Zombies = {}
  OutgoingSize = 2
  SpokeRecovery = 1
  SpokePregameSilence = 1
  SpokeInGameSilence = 1
  MaxHubSilence = 2
  InFlight = 1
  Rooms = {2}
  Adjustments = {0}
  Crashes <- AtMostOneCrashes
PROPERTY NobodyWaitsForEver
