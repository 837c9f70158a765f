CONSTANTS
  MaxRetries = 2
  MaxRecordSizeBytes = 4
  MaxBatchSizeBytes = 4
  MaxBatchRecords = 2
  Sizes = {1, 2, 4, 5}
  MaxRows = 2
SPECIFICATION Spec
INVARIANT GivesUpWithRecords
