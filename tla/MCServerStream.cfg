CONSTANTS
  Kinds <- NativeBufferedNative
  MaxUsage = 2
  HasDeadline = TRUE
SPECIFICATION ServerFairSpec
INVARIANTS ServerTypeOK OneRecord OneVoice StreamsClosed KnownUsageCharged
INVARIANTS ResponseHonest BodyEndsStream
PROPERTY RequestEnds
