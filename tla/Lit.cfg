SPECIFICATION Spec
CHECK_DEADLOCK FALSE
CONSTANTS
    Near = 7
    Far = 9
    PoolMax = 9
    LdmMax = 7
    ShortStr = 2
    Sizes = {0, 6}
    MulSizes = {7}
    Blocks = {8}
    Tables = {4}
    Numbers = {1}
    Adcons = {"x"}
    Pairs <- OneDouble
    Strings <- Tails
    Offsets = {0,1}
    MaxCode = 11
PROPERTIES TableWhole InReachOrKnown
INVARIANTS FindsLiteralOrKnown OneCopy PoolHasRefs
