SPECIFICATION Bounded
CONSTANTS
  CR = CR
  LF = LF
  NUL = NUL
  Text = {x}
  LineMax = 2
  Room = 2
  ReplySizes = {0, 2}
  CastSizes = {1, 2}
  ChunkMax = 3
  Budget = 6
INVARIANTS
  LinesClean
  FramingExact
  BufferBounded
  PollOutArmed
  StreamExact
PROPERTIES
  MarkedIsNotServed
  ImplementsSendProgress
