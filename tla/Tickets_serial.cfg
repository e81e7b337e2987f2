\* A manager and a writer on two tickets; requests on the same ticket do not overlap,
\* and the group is deleted while none is on a ticket of its.
SPECIFICATION Spec
CONSTANTS
    boss = boss
    ann = ann
    t1 = t1
    t2 = t2
    v1 = v1
    Nobody = Nobody
    Users = {boss, ann}
    Managers = {boss}
    Writers = {boss, ann}
    Members = {ann}
    TicketIds = {t1, t2}
    Vulns = {v1}
    Overlap = FALSE
    MaxEvents = 2
SYMMETRY TicketSymmetry
VIEW Watched
INVARIANTS
    HistoryIsPath
PROPERTIES
    ReopenManageOnly
    AccessAtCommit
    ImplementsTicketBoard
