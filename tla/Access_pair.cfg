\* One account, two requests in flight, two recovery codes.
SPECIFICATION Spec
CONSTANTS
    ann = ann
    h1 = h1
    h2 = h2
    p1 = p1
    s1 = s1
    s2 = s2
    c1 = c1
    c2 = c2
    k1 = k1
    Null = Null
    Users = {ann}
    Handlers = {h1, h2}
    Passwords = {p1}
    Secrets = {s1, s2}
    Codes = {c1, c2}
    Keys = {k1}
    PerEnable = 1
SYMMETRY Symmetry
INVARIANTS
    SecondFactorWhole
    CodeSpentOnce
PROPERTIES
    RevocationStays
    ImplementsSecondFactor
