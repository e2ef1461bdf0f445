SPECIFICATION LoneSpec
CONSTANTS
  NumPlayers = 3
  LocalPlayer = 0
  FirstTick = 0
  RealTick = 1
  LastTick = 5
  Capacity = 4
  PregameWindow = 1
  SendPeriod = 1
  MinSendPeriod = 1
  RecoveryPeriod = 1
  PregameSilence = 3
  InGameSilence = 1
  MaxSilence = 4
  BandwidthReduction = TRUE
  IncrementalTicks = 1
  RecoveryTicks = 4
  Zombies = {}
  OutgoingSize = 4
  SpokeRecovery = 1
  SpokePregameSilence = 1
  SpokeInGameSilence = 1
  MaxHubSilence = 0
  InFlight = 2
  Rooms = {4}
  Adjustments = {0}
INVARIANT SpokeAssertionsHold
CHECK_DEADLOCK FALSE
