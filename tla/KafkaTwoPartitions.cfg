\* Two claimed partitions of one topic feed the same batchConsumer from two
\* ConsumeClaim goroutines, in one session.
CONSTANTS
    p1 = p1
    p2 = p2
    Nil = Nil
    Partitions <- TwoPartitions
    NumRecords = 2
    BatchSize = 2
    BufferLength = 1
    ClaimCap = 1
    MaxSessions = 1
SPECIFICATION Spec
\* A panicking goroutine stops the whole process.
CHECK_DEADLOCK FALSE
INVARIANT AtLeastOnce
