\* Byte = 4: S = 3 is the largest size with uint8_t indices (255 in the program).
SPECIFICATION RingSpec
CONSTANTS
  S = 3
  Byte = 4
  ET = {a, b, z}
  Zero = z
INVARIANT RingTypeOK
PROPERTY ImplementsFifo
