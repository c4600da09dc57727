SPECIFICATION Spec
CHECK_DEADLOCK FALSE
CONSTANTS
  Accounts = {5001, 2001, 4001, 4002}
  Guarded = {5001}
  Refs = {1, 2, k1, k2}
  BillingAccounts = {5001}
  OperatorRevenue = 2001
  Periods <- MCPeriods
  ChargedAt = {0, 1}
  Fares = {1}
  MaxCharges = 3
  MaxInvoices = 2
  Tellers = {t1, t2}
  AtRest = AtRest
  Topics = {"carbon"}
  Payloads <- MCPayloads
  MaxRecords = 3
  Credits = {k1, k2}
  Kilograms = {0, 1, 2}
  CarbonIssuance = 4002
  CarbonAccount = 4001
  CarbonTopic = "carbon"
  Campaigns = {c1, c2}
  Slots = {s1, s2}
  Budgets = {2}
  Costs = {1, 2}
  AdWindows <- MCAdWindows
  Bookers = {w1, w2}
  MaxPlacements = 3
  NotBooking = NotBooking
  Members = {m1, m2}
  Offers = {o1, o2}
  Cost <- MCCost
  RedeemKeys = {q1, q2}
  PointGrants = {1, 3}
  Counters = {x1, x2}
  MaxGranted = 4
  NotRedeeming = NotRedeeming
  Funds = {1}
  MaxFunded = 2
  MaxFaults = 2
INVARIANTS
  CommerceTypeOK InvoicesAddUp PaidInvoicesArePosted CreditsFundedOnce
  SpendWithinBudget PointsSpentOnce
PROPERTIES EndedTakesNoPlacement
