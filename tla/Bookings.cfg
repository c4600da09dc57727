SPECIFICATION Spec
CHECK_DEADLOCK FALSE
CONSTANTS
  Drivers = {d1}
  Vehicles = {v1, v2}
  Windows <- MCWindows
  CharterWindows <- MCCharterWindows
  Requested = {v1}
  MaxShift = 3
  MaxDaily = 3
  Charters = {c1}
  Desks = {k1, k2}
  MaxJobs = 2
  Null = Null
  NoRequest = NoRequest
  Topics = {"drt", "maintenance"}
  Payloads = {r1, r2, p1}
  MaxRecords = 2
  Rides = {r1, r2}
  WheelchairRides = {r1}
  Accessible = {v1}
  RideOperators = {o1}
  Soon = 1
  RideTopic = "drt"
  NotAssigning = NotAssigning
  Bays = {y1}
  DepotBuses = {b1}
  Predictions = {p1}
  Clerks = {m1, m2}
  PredictionTopic = "maintenance"
  MaxOrders = 2
  NoBus = NoBus
  NoPrediction = NoPrediction
  NoTask = NoTask
  MaxFaults = 1
  MaxLoad = 4
  MaxRideLoad = 3
INVARIANTS
  BookingsTypeOK NoDoubleBooking CancelledCharterIsFree
  OneOpenOrderPerPrediction CrashLosesNoRecord
PROPERTIES OfferIsDecided RidesAreAssignedOnce
