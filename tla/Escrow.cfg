SPECIFICATION LiveSpec
CONSTANTS
    Holders = {alice, bob, carol, self}
    Signers = {alice, bob, carol}
    Self = self
    NoArbiter = NoArbiter
    U64Max = 5
    GracePeriod = 2
    Supply = 3
    Freezable = {alice}
    Strays = 1
    I128Max = 9
    BpsDenominator = 4
    Amounts = {0, 2, 3}
INVARIANTS
    TypeOK
    Solvency
    PaidExactlyOnce
    DisputeHasNeutralArbiter
    ExitOpen
    EventsTellTheStory
PROPERTIES
    NoUnilateralExit
    ImplementsCustody
    FundsEventuallyLeave
