\* One run after the other, two pages at most in each, failures anywhere.
SPECIFICATION FairSpec
CONSTANTS
    w1 = w1
    Workers = {w1}
    FirstPages = 4
    MaxPages = 5
    PageLimit = 2
    EmptyPages = FALSE
PROPERTIES
    MirrorCompletes
