SPECIFICATION FairSpec
CONSTANTS
    p1 = p1
    Producers = {p1}
    QueueLimit = 2
    Limit = 1
    DelNum = 1
    DbErrors = TRUE
    MaxItems = 4
    MaxBoots = 1
INVARIANTS
    TypeOK
    NoOrphanTransaction
    RowsInOrder
PROPERTIES
    LogSpec
    CloseKeepsRows
    RetentionRestored
    RowsReachDisk
