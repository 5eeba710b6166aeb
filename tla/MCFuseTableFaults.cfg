\* Calls are lost and repeated.
SPECIFICATION Spec
CONSTANTS
    s1 = s1
    s2 = s2
    s3 = s3
    None = None
    Session <- Two
    Plans <- AnyTwo
    Fault <- Faults
    Sizes = {1}
    MaxRetries = 1
SYMMETRY SymmetryOfTwo
INVARIANTS
    HistoryIsLinear
    OkIsReal
