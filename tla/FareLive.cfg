SPECIFICATION FairSpec
CONSTANTS
  Riders = {r1, r2}
  Keys = {k1}
  TopUpKeys = {u1}
  Operator = operator
  Funding = funding
  Tellers = {w1, w2}
  Refunders = {q1}
  NoTeller = none
  NoRequest = idle
  Fares = {2}
  TopUps = {4}
  UseMojaloop = {TRUE}
  Cap = 3
  PointUnit = 2
  PoolSize = 3
  MaxDay = 0
  Accounts <- MCAccounts
  Guarded <- MCRiders
  Refs <- MCRefs
  Products <- MCDiscount

PROPERTY RequestsFinish
CHECK_DEADLOCK FALSE
