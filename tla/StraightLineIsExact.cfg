SPECIFICATION Spec
CONSTANTS
    Holders = {alice, bob, self}
    Signers = {alice, bob}
    Self = self
    NoGrant = NoGrant
    U64Max = 5
    Supply = 5
    Freezable = {alice}
    Strays = 1
    I128Max = 9
    BpsDenominator = 1
    Amounts = {2, 3, 5}
INVARIANT StraightLineIsExact
