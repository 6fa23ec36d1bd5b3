SPECIFICATION Spec
CONSTANTS
    None = None
    h1 = h1
    i1 = i1
    Procs = {p1, p2}
    Holds = {h1, h2}
    Invoices = {}
    Intents = {}
    Adjustments = {a1}
    Amounts = {1, 2}
    LedgerCap = 1
    MaxCrashes = 1
    HoldAmount <- MCHoldAmount
    InvoiceTotal <- MCInvoiceTotal
    IntentAmount <- MCIntentAmount
    IntentInvoice <- MCIntentInvoice
SYMMETRY Symmetry
INVARIANTS
    LockedSpendingCovered
    HoldSettledOnce
    HeldBalanceMatchesLedger
PROPERTIES
    ImplementsAccount
