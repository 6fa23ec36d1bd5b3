SPECIFICATION Spec
CONSTANTS
    None = None
    h1 = h1
    i1 = i1
    Procs = {p1, p2}
    Holds = {}
    Invoices = {v1}
    Intents = {i1, i2}
    Adjustments = {a1}
    Amounts = {1, 2}
    LedgerCap = 0
    MaxCrashes = 0
    HoldAmount <- MCHoldAmount
    InvoiceTotal <- MCInvoiceTotal
    IntentAmount <- MCIntentAmount
    IntentInvoice <- MCIntentInvoice
SYMMETRY Symmetry
INVARIANTS
    TypeOK
    InvoiceMatchesLedger
    CreditedOnce
    CheckedStillHolds
PROPERTIES
    CompletedIsFinal
