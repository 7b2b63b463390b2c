\* Behaviours stop once all runs and approvals are over.
CONSTANTS
    MaxRun = 3
    AtOnce = 2
    MaxRow = 3
    MaxApproval = 2
    Scopes <- Instances
    Batches <- OneOp
SPECIFICATION Spec
INVARIANTS MirrorMatches ContributionKept DecisionsHold
CHECK_DEADLOCK FALSE
