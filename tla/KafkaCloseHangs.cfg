\* One partition; the interrupt arrives while the claim goroutine is sending
\* to a full callBackBuffer.
CONSTANTS
    p1 = p1
    p2 = p2
    Nil = Nil
    Partitions <- OnePartition
    NumRecords = 3
    BatchSize = 1
    BufferLength = 1
    ClaimCap = 2
    MaxSessions = 1
SPECIFICATION Spec
CHECK_DEADLOCK FALSE
PROPERTY CloseCompletes
