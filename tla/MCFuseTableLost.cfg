\* The answer to a commit is lost.
SPECIFICATION Spec
CONSTANTS
    s1 = s1
    s2 = s2
    s3 = s3
    None = None
    Session <- Three
    Plans <- InsertPlans
    Fault <- LostReply
    Sizes = {1}
    MaxRetries = 0
INVARIANT CurrentIsReadable
