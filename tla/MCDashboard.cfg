CONSTANTS
    MaxVersion = 2
    Broken     = {1}
    Windows    = {"24h", "7d"}
SPECIFICATION FairSpec
INVARIANTS TypeOK PageIsCurrent
PROPERTIES NeverBack CatchesUp
