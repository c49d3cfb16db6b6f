SPECIFICATION LiveHostSpec
CONSTANTS
    Holders = {alice, bob, carol, self}
    Signers = {alice, bob}
    Self = self
    NoArbiter = NoArbiter
    U64Max = 2
    GracePeriod = 1
    Supply = 2
    Freezable = {alice}
    Strays = 0
    I128Max = 4
    BpsDenominator = 2
    Amounts = {2}
    Threshold = 2
    Bump = 3
    MinTtl = 0
    MaxDepth = 2
INVARIANTS
    HostTypeOK
    Settling
    TendedStaysLive
PROPERTIES
    ActsAtomically
    FundsEventuallyPaid
