SPECIFICATION Spec
CHECK_DEADLOCK FALSE
CONSTANTS
  StationIds = {1}
  EvStations = {}
  StockLevels = {0}
  Subscribers = {u1}
  Senders = {h1,h2}
  MaxDeliveries = 1
  MaxAttempts = 2
  NotSending = NotSending
  MaxFaults = 1
  MaxLoad = 4
  OpenTypes = {"fire"}
  Filed = {2}
  Places = {1}
  Readings = {1000, 20000}
  Sensors = {x1}
  MaxIncidents = 2
  NotHandling = NotHandling
  NoSensor = NoSensor
  NoStation = NoStation
INVARIANTS SafetyTypeOK EmergencyHolds DeliveredWasReceived
PROPERTIES IncidentsOnlyEscalate UnansweredEscalates
