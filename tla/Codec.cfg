\* Every cut of up to three frames.
SPECIFICATION Spec
CONSTANTS
  Base = 8
  LenWidth = 1
  LenLimit = 8
  LongWidth = 2
  LongLimit = 64
  KeyWidth = 3
  WriteBE <- BigEndian
  ReadBE <- Number
  XorByte <- BitXor
  Frame <- Frames
  MaxFrames = 3
CHECK_DEADLOCK FALSE
INVARIANTS DecodedAsSent DecodedAtOnce
PROPERTIES ImplementsChannel
