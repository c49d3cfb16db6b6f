SPECIFICATION LiveSpec
CONSTANTS
    Holders = {alice, bob, self}
    Signers = {alice, bob}
    Self = self
    NoGrant = NoGrant
    U64Max = 5
    Supply = 5
    Freezable = {alice}
    Strays = 1
    I128Max = 9
    BpsDenominator = 1
    Amounts = {0, 2, 5}
INVARIANTS
    TypeOK
    Conservation
    ClaimableIsHeld
    PaysTheProportion
    NeverLocked
PROPERTIES
    VestedIsKept
    ImplementsCustody
    BeneficiaryIsPaid
