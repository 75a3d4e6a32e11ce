SPECIFICATION FairSpec
CONSTANTS
  Size = 8
  Margin = 3
  Chunks = {1, 4}
  MaxBytes = 16
INVARIANTS
  MarginServed
PROPERTIES
  ImplementsByteQueue
  ReadyIsDelivered
