SPECIFICATION Spec
CONSTANTS
  ByteMod = 4
  SINE_TABLE_LENGTH = 4
  sin_table <- MCSinTable
  FLT_MANT = 256
  FLT_ULPS <- MCUlps
  FLT_ONE = 64
  COS_THETA0 = 401
  DacBufLen = 12
  AdcBufLen = 6
  Stride = 2
  Reading <- MCReading
  AdcRequests <- MCAdcRequests
  DacRequests <- MCDacRequests
  EchoContent <- MCEchoContent
  UserRequests <- MCUserRequests
  MaxScripts = 2
  MaxTrouble = 1
  MaxDown = 2
  MaxUp = 1
INVARIANTS TypeOK EchoNeverRaises CaptureExact PendingMatches RequestObeyed WaveTracks
CHECK_DEADLOCK FALSE
PROPERTIES CaptureEnds EchoAnswered
