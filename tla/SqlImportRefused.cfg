\* As SqlWrites, with entities whose ids are 3, 4 and -1: an ImportData of
\* entities whose id is set can still fail for want of their shard table.
CONSTANTS
    e1 = e1
    e2 = e2
    e3 = e3
    e4 = e4
    IntBits = 8
    Entities <- SignedEntities
    BaseOf <- UserTable
    Field <- SignedIds
    TableConfs <- UserByIdInTwo
    Driver = "mssql"
    Stmts <- TwoStmts
    MaxArgs = 2
    MaxReqs = 2
    BatchNums <- DefaultAndOne
    DefaultBatch = 1000
    MaxCalls = 2
    MaxFaults = 1
SPECIFICATION Spec
PROPERTY
    ImportOfSetFieldsSucceeds
\* The caller makes MaxCalls calls and then stops.
CHECK_DEADLOCK FALSE
