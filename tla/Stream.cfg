SPECIFICATION LiveSpec
CONSTANTS
    Holders = {alice, bob, self}
    Signers = {alice, bob}
    Self = self
    NoStream = NoStream
    U64Max = 5
    Supply = 9
    Freezable = {alice}
    Strays = 1
    I128Max = 9
    BpsDenominator = 1
    Rates = {0, 1, 2, 3}
    Amounts = {0, 1, 2, 3}
INVARIANTS
    TypeOK
    FullyFunded
    Solvency
    AccountsAddUp
    NeverBricked
PROPERTIES
    PromiseKept
    ImplementsCustody
    RecipientIsPaid
