SPECIFICATION Spec
CONSTANTS
  RingSize = 5
  ChunkMax = 2
  Lengths = {1, 3}
  MaxLines = 6
  MaxClients = 2
INVARIANT RingInv
PROPERTY ClientIsServed
