\* Two jobs at once on two CVEs, two days, two exploits; queries of up to seven
\* groups of tokens, of eight plain ones; a search of two CVEs and two records of each
\* other kind, in pages of one to three.
SPECIFICATION Spec
CONSTANTS
    h1 = h1
    h2 = h2
    c1 = c1
    c2 = c2
    e1 = e1
    e2 = e2
    v1 = v1
    v2 = v2
    Null = Null
    Handlers = {h1, h2}
    Cves = {c1, c2}
    Sample = {c1}
    MaxDay = 2
    Batch = 2
    Exploits = {e1, e2}
    Contents = {v1, v2}
    MaxFile = 2
    MaxGroups = 7
    MaxPlain = 8
    CveIds = {1, 2}
    Shapes <- SomeShapes
    MaxOthers = 2
    PageSizes = {1, 2, 3}
CONSTRAINT StillPromised
INVARIANTS
    ListedFlagged
    ScoresInOrder
    LastFileWins
    ParsesTheGrammar
    PagesMakeResult
CHECK_DEADLOCK FALSE
