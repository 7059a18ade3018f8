SPECIFICATION FairDecodeSpec
CONSTANTS
  Messages <- MCMessages
  MaxLabel = 3
  MaxName = 8
  MaxJumps = 2
  MaxEncodedLabel = 3
  MaxEncodedName = 8
INVARIANTS ReadsInside DecodesByDefinition LookupUnderstood
PROPERTIES DecodeEnds
CHECK_DEADLOCK FALSE
