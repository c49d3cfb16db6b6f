SPECIFICATION Spec
CONSTANTS
    Holders = {alice, bob, self}
    Signers = {alice, bob}
    Self = self
    U64Max = 1
    Supply = 4
    Freezable = {bob}
    Strays = 1
    I128Max = 5
    BpsDenominator = 1
    MaxRecipients = 2
    PayAmounts = {0, 1, 3}
    NoReceipt = NoReceipt
INVARIANTS
    TypeOK
    ReceiptIsExact
    PreviewAgrees
    CoveredBatchesPay
PROPERTIES
    ImplementsPayout
