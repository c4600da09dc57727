SPECIFICATION Spec
CONSTANTS
  Riders = {r1}
  Keys = {k1, k2}
  TopUpKeys = {u1}
  Operator = operator
  Funding = funding
  Tellers = {w1, w2}
  Refunders = {q1}
  NoTeller = none
  NoRequest = idle
  Fares = {2}
  TopUps = {4}
  UseMojaloop = {FALSE}
  Cap = 3
  PointUnit = 2
  PoolSize = 3
  MaxDay = 1
  Accounts <- MCAccounts
  Guarded <- MCRiders
  Refs <- MCRefs
  Products <- MCNoProducts
SYMMETRY Symmetry
INVARIANTS TypeOK SettledWithinCap
CHECK_DEADLOCK FALSE
