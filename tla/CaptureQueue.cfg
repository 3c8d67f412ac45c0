SPECIFICATION FairSpec
CONSTANTS
  Consumers = {stream, snapshot}
  Loopers = {stream}
  Buffers = {b1, b2, b3}
  NoBuf = NoBuf
  Depth = 2
INVARIANTS Ownership NoLostWakeup
PROPERTIES ImplementsFifo FramesComeBack
