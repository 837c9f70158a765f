SPECIFICATION HackerNewsSpec
CONSTANTS
  MaxItems = 3
  ItemBatch = 2
INVARIANT AtLeastOnce
