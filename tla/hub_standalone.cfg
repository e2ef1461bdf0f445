SPECIFICATION SpecInGame
CONSTANTS
  NumPlayers = 3
  LocalPlayer <- NoLocalPlayer
  FirstTick = 0
  RealTick = 1
  LastTick = 2
  Capacity = 2
  PregameWindow = 1
  SendPeriod = 1
  MinSendPeriod = 1
  RecoveryPeriod = 1
  PregameSilence = 1
  InGameSilence = 1
  MaxSilence = 2
  BandwidthReduction = TRUE
  IncrementalTicks = 1
  RecoveryTicks = 2
  SpokeWindow = 2
  Adjustments = {0}
INVARIANTS AwaitedExactly ReferenceConnected
PROPERTIES NobodyLeftAlone
