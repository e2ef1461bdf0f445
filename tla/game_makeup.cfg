SPECIFICATION GameSpec
CONSTANTS
  NumPlayers = 3
  LocalPlayer = 0
  FirstTick = 0
  RealTick = 1
  LastTick = 2
  Capacity = 2
  PregameWindow = 1
  SendPeriod = 1
  MinSendPeriod = 1
  RecoveryPeriod = 1
  PregameSilence = 1
  InGameSilence = 1
  MaxSilence = 0
  BandwidthReduction = TRUE
  IncrementalTicks = 1
  RecoveryTicks = 2
  Zombies = {}
  OutgoingSize = 1
  SpokeRecovery = 1
  SpokePregameSilence = 1
  SpokeInGameSilence = 1
  MaxHubSilence = 0
  InFlight = 1
  Rooms = {2}
  Adjustments = {0}
INVARIANTS SameGame CatchesUp
