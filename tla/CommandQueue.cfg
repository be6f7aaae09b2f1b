SPECIFICATION MCSpec
CONSTANTS
  Commands = {c1, c2, c3}
  Blank = Blank
  InitialCapacity = 3
  MaxCapacity = 6
  Slots = {1}
  Lengths = {2, 7}
  ChunkSize = 4
  MaxBuffer = 6
  MaxSent = 4
SYMMETRY Symmetry
INVARIANT RingInv
INVARIANT HeldCommandIntact
INVARIANT FramingInv
PROPERTY RefinesFifo
