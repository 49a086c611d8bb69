\* Two calls of the caller goroutine, with up to two entities or requests
\* each, against a mssql database with user split in two by id, and one
\* driver fault: every call is all-or-nothing and returns its count.
CONSTANTS
    e1 = e1
    e2 = e2
    e3 = e3
    e4 = e4
    IntBits = 8
    Entities <- FourEntities
    BaseOf <- UserTable
    Field <- FourIds
    TableConfs <- UserByIdInTwo
    Driver = "mssql"
    Stmts <- TwoStmts
    MaxArgs = 2
    MaxReqs = 2
    BatchNums <- DefaultAndOne
    DefaultBatch = 1000
    MaxCalls = 2
    MaxFaults = 1
SPECIFICATION Spec
INVARIANT
    TypeOK
    TableIdxLocatesRows
PROPERTY
    StoreSpec
\* The caller makes MaxCalls calls and then stops.
CHECK_DEADLOCK FALSE
