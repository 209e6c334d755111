SPECIFICATION Spec
CONSTANTS
    apex = apex
    sub = sub
    ext1 = ext1
    ext2 = ext2
    Names <- MCNames
    Apex = apex
    Below = {sub}
    MaxChain = 2
SYMMETRY OutsideSymmetry
INVARIANTS TypeOK LoopsExact DanglingExact LongChainsCovered
CHECK_DEADLOCK FALSE
