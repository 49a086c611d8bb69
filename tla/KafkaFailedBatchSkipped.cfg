\* One partition; a batch whose callback returns false is followed by a
\* batch whose callback returns true.
CONSTANTS
    p1 = p1
    p2 = p2
    Nil = Nil
    Partitions <- OnePartition
    NumRecords = 3
    BatchSize = 2
    BufferLength = 1
    ClaimCap = 2
    MaxSessions = 2
SPECIFICATION Spec
CHECK_DEADLOCK FALSE
INVARIANT CommitOnlyPastSuccess
