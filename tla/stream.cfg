SPECIFICATION StreamSpec
CONSTANTS
  kMaxPayload = 2
  kMaxFrame = 2
  Messages <- SomeMessages
  Noise <- SomeNoise
  Capacity = 6
  MaxSent = 3
  MaxDamage = 1
CHECK_DEADLOCK FALSE
INVARIANTS
  InStep
  BufferIsBounded
PROPERTIES
  ChannelRefined
  EveryFrameArrives
