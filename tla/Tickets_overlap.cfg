\* Any two requests and the deletion of the group may overlap.
SPECIFICATION Spec
CONSTANTS
    boss = boss
    ann = ann
    vic = vic
    t1 = t1
    v1 = v1
    Nobody = Nobody
    Users = {boss, ann, vic}
    Managers = {boss}
    Writers = {boss, ann}
    Members = {ann, vic}
    TicketIds = {t1}
    Vulns = {v1}
    Overlap = TRUE
    MaxEvents = 3
VIEW Watched
INVARIANTS
    StatusIsLastEvent
    EventsLegal
    AssignmentRecorded
