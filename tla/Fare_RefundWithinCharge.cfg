SPECIFICATION Spec
CONSTANTS
  Riders = {r1}
  Keys = {k1, k2}
  TopUpKeys = {u1}
  Operator = operator
  Funding = funding
  Tellers = {w1, w2}
  Refunders = {q1, q2}
  NoTeller = none
  NoRequest = idle
  Fares = {2}
  TopUps = {4}
  UseMojaloop = {FALSE}
  Cap = 3
  PointUnit = 1
  PoolSize = 3
  MaxDay = 0
  Accounts <- MCAccounts
  Guarded <- MCRiders
  Refs <- MCRefs
  Products <- MCNoProducts
SYMMETRY Symmetry
CHECK_DEADLOCK FALSE
INVARIANT RefundWithinCharge
