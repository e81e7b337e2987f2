\* Two imports of files in different orders, batches of two, one fault.
SPECIFICATION FairSpec
\* An import ends.
CHECK_DEADLOCK FALSE
CONSTANTS
    i1 = i1
    i2 = i2
    b1 = b1
    b2 = b2
    c1 = c1
    c2 = c2
    Importers = {i1, i2}
    Bdus = {b1, b2}
    Cves = {c1, c2}
    Files <- MCFiles
    Batch = 2
    MaxFaults = 1
INVARIANTS
    SeenStubsExist
    LinksOfLastImport
    LossBounded
PROPERTIES
    ImportsEnd
    ImplementsRecordStore
