CONSTANTS
  MaxRetries = 2
  MaxRecordSizeBytes = 4
  MaxBatchSizeBytes = 3
  MaxBatchRecords = 2
  Sizes = {1, 2, 4, 5}
  MaxRows = 4
SPECIFICATION FairSpec
INVARIANTS TypeOK RecordLimit ByteLimit NoRowTwice CompleteOnOk
PROPERTY WriteEnds
