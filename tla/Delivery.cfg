SPECIFICATION FairDeliverySpec
CONSTANTS
    MaxRework = 3
    Automatic = TRUE
    Outputs <- MCOutputs
    fr1 = fr1
    fr2 = fr2
    f1 = f1
    f2 = f2
    Hosts = {h1, h2}
    Files <- MCFiles
    Unsafe = Unsafe
    Specifications <- MCSpecifications
    SecurityReviews <- MCSecurityReviews
    TestPlans <- MCTestPlans
    Plans <- MCPlans
    MaxFiles = 2
    MaxRecoveries = 1
INVARIANTS
    TypeOK
    GuardedImplementation
    ReworkBounded
    CompletedIsValidated
    StopsDefinitely
    TracedBeforeImplementation
    CompletedIsClean
    DeliversLastBuild
PROPERTIES
    PolicyIndexHolds
    DeliveryStops
\* A thread ends.
CHECK_DEADLOCK FALSE
