SPECIFICATION Spec
CONSTANTS
    Holders = {alice, bob, self}
    Signers = {alice, bob}
    Self = self
    NoAuthorization = NoAuthorization
    U64Max = 5
    U32Max = 2
    Supply = 2
    Freezable = {bob}
    Strays = 1
    I128Max = 9
    BpsDenominator = 1
    Approvers = {alice}
    Approvals = {0, 2}
    Amounts = {0, 1, 2}
INVARIANTS
    TypeOK
    PullInvariant
    OnePerPeriod
    ViewsAgree
PROPERTIES
    ConsentKept
