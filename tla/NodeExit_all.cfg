CONSTANTS
    None = None
    Signal = {SIGINT, SIGTERM}
    Size = {1, 2, 3}
    MaxWritten = 3
    MaxRecordBytes = 2
    MaxRecords = 3
    MaxBytes = 4
    BatchRecords = 2
    BatchBytes = 2
    MaxAttempts = 2
SPECIFICATION Spec
CHECK_DEADLOCK FALSE
INVARIANT RecordsKept
PROPERTY ExitsInTheEnd
