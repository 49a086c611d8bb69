\* One claimed partition: the ConsumeClaim goroutine is alone on the
\* batchConsumer, 4 records, batches of 2, a callBackBuffer of 1 so that
\* backpressure blocks attach.
CONSTANTS
    p1 = p1
    p2 = p2
    Nil = Nil
    Partitions <- OnePartition
    NumRecords = 3
    BatchSize = 2
    BufferLength = 1
    ClaimCap = 2
    MaxSessions = 2
SPECIFICATION Spec
\* The consumer stops once the bounded log is consumed.
CHECK_DEADLOCK FALSE
INVARIANTS TypeOK
PROPERTY EventuallyDispatched
