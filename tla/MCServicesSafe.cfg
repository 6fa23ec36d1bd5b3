SPECIFICATION Spec
CONSTANTS
    None = None
    n1 = n1
    q1 = q1
    Procs = {p1, p2}
    MaxFaults = 1
    Focuses = {"numbers", "access", "rmb", "payouts", "rewards", "growth", "telecom",
               "invoices", "links", "vouchers", "reviews", "delivery"}
    VNumbers = {n1}
    VNRenewals = {r1}
    VNRenews <- MCRenews
    DARequests = {d1}
    DAApprovals = {a1, a2}
    Admins = {u1, u2}
    Guests = {g1}
    Payments = {m1, m2}
    RmbOrderIds = {o1}
    Remittances = {t1, t2}
    Withdrawals = {w1}
    Quotes = {q1}
    PoQuote <- MCQuote
    Participants = {b1, b2}
    RwTasks = {k1}
    RwTotals = {2}
    RwStatuses = {"ACTIVE"}
    MaxReturns = 1
    GrowthOrders = {s1}
    TelecomOrders = {e1, e2}
    ByRequestId = {e1}
    Invoices = {i1}
    Links = {l1}
    Charges = {h1, h2}
    VoucherIds = {v1}
    Campaigns = {c1}
    Reviews = {j1, j2}
    AdminStatuses = {"PENDING_REVIEW", "APPROVED", "REJECTED", "RUNNING", "COMPLETED"}
INVARIANTS
    TypeOK
    VNSettled
    RefundNeedsTwo
    RmbRefundJustified
    PayoutsHonest
    RewardsCovered
    GrowthBacked
    TelecomHonest
    ReceivablesHonest
    VoucherHonest
    ReviewHonoured
    HoldBacked
PROPERTIES
    SellersKeepPromise
SYMMETRY MCSymmetry
CHECK_DEADLOCK FALSE
