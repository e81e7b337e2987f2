\* One CVE that NVD pages bring while the mock scores are written.
SPECIFICATION Spec
CONSTANTS
    h1 = h1
    h2 = h2
    c1 = c1
    e1 = e1
    v1 = v1
    Null = Null
    Handlers = {h1, h2}
    Cves = {c1}
    Sample = {c1}
    MaxDay = 2
    Batch = 2
    Exploits = {e1}
    Contents = {v1}
    MaxFile = 1
    MaxGroups = 1
    MaxPlain = 1
    CveIds = {}
    Shapes <- SomeShapes
    MaxOthers = 0
    PageSizes = {2}
INVARIANTS
    PreviousGenerationFirst
CHECK_DEADLOCK FALSE
