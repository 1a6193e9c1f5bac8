SPECIFICATION Spec
CONSTANTS
  S = 2
  Byte = 2
  NCols = 3
  MaxSamples = 5
  ET <- SampleIds
  Zero = 0
CHECK_DEADLOCK FALSE
INVARIANTS TypeOK RowsAlignedUnlessRaced NothingLostUnlessRaced SkewBounded
PROPERTIES RowsInOrderUnlessRaced DrainsWhenDisabled
