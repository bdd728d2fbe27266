CONSTANTS
  Value = {a, b}
  Node = {n1, n2, n3, n4}
  Null = null
  SizeMod = 8
SPECIFICATION Spec
INVARIANTS TypeOK MemorySafe SizeCounts
PROPERTY IsFifo
