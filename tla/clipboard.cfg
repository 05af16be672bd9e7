SPECIFICATION LiveSpec
CONSTANTS
  Formats <- MCFormats
  OurFormat = 2
  Chunks = 2
  MaxWrites = 2
  MaxTakes = 2
  MaxReads = 1
  MaxRequests = 1
INVARIANTS OwnerHasData ReadIsFirstFormat
PROPERTY CallsReturn
CHECK_DEADLOCK FALSE
