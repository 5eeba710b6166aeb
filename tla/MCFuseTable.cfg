\* Any three statements, with retries.
SPECIFICATION Spec
CONSTANTS
    s1 = s1
    s2 = s2
    s3 = s3
    None = None
    Session <- Three
    Plans <- AnyPlan
    Fault <- NoFault
    Sizes = {0, 1}
    MaxRetries = 1
SYMMETRY Symmetry
INVARIANTS
    FuseInv
    OutcomeIsReal
    AbortLeavesNothing
    CurrentIsReadable
PROPERTY TableSpec
