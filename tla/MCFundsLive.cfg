SPECIFICATION FairSpec
CONSTANTS
    None = None
    h1 = h1
    i1 = i1
    Procs = {p1, p2}
    Holds = {h2}
    Invoices = {}
    Intents = {i1}
    Adjustments = {}
    Amounts = {}
    LedgerCap = 0
    MaxCrashes = 1
    HoldAmount <- MCHoldAmount
    InvoiceTotal <- MCInvoiceTotal
    IntentAmount <- MCIntentAmount
    IntentInvoice <- MCIntentInvoice
INVARIANTS
    ReceiptHonoured
PROPERTIES
    RequestsFinish
    PaidIsCredited
