SPECIFICATION Spec
CONSTANTS
    Names = {apex, sub, ext}
    Apex = apex
    Below = {sub}
    MaxChain = 8
INVARIANT SameReport
CHECK_DEADLOCK FALSE
