SPECIFICATION Spec
CHECK_DEADLOCK FALSE
CONSTANTS
  StationIds = {1, 2}
  EvStations = {}
  StockLevels = {2}
  Buses = {b1, b2}
  Attendants = {w1, w2}
  Dispensed = {1}
  MaxTickets = 2
  Idle = Idle
  Accounts = {Clearing, Revenue}
  Guarded = {Clearing}
  Clearing = Clearing
  Revenue = Revenue
  Refs = {k1, k2}
  TradeKeys = {k1, k2}
  Kinds = {"h2-sale", "h2-purchase"}
  Quantities = {2}
  Prices = {1}
  MaxCounts = 3
  MaxLoad = 3
INVARIANTS EnergyTypeOK StockAccounted TradesAreBacked
SYMMETRY Symmetry
