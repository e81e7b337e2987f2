\* Two requests at once on each of the parts.
SPECIFICATION Spec
CONSTANTS
    h1 = h1
    h2 = h2
    ann = ann
    bob = bob
    p1 = p1
    l1 = l1
    l2 = l2
    y1 = y1
    y2 = y2
    v1 = v1
    d1 = d1
    v2 = v2
    Null = Null
    NoRow = NoRow
    Classic = Classic
    Handlers = {h1, h2}
    Owners = {ann, bob}
    Presets = {p1}
    LayoutIds = {l1, l2}
    Series = {y1, y2}
    MaxNumber = 3
    Limit = 2
    MaxHits = 4
    MaxFailures = 2
    Form <- FormFields
    Versions = {v1, v2}
    Devices = {d1}
    Members = {ann}
    Names = {"analysts", "local"}
    Directory <- AdGroups
    MaxGroups = 2
INVARIANTS
    PresetsUnique
    ActiveVisible
    IdsInOrder
    FieldsAsSaved
    NewDeviceOnce
    GroupsAsChosen
    ListedKept
    PassedBounded
PROPERTIES
    BlockLifted
