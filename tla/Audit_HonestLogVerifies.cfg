SPECIFICATION Spec
CONSTANTS
  Focuses = {"audit"}
  MaxFaults = 1
  Emails = {"admin", "ann"}
  Founder = "admin"
  Personas = {"citizen", "operator"}
  Citizen = "citizen"
  RealmRoles = {"platform-admin", "citizen", "operator"}
  Admin = "platform-admin"
  RealmRole <- MCRealmRole
  MaxPerEmail = 2
  Agents = {g1, g2}
  MaxRequests = 2
  Idle = Idle
  Actors = {a1}
  Texts = {"compact", "canonical"}
  Normal <- MCNormal
  Writers = {w1, w2}
  Precision = 2
  MaxTime = 3
  MaxEntries = 3
  NotWriting = NotWriting
  Callers = {r1, r2}
  Consoles = {c1, c2}
  RedisTTL = 3
  ClientTTL = 1
  InFlight = 1
  PutTime = 2
  MaxPuts = 3
  NoEntry = NoEntry
  NoTask = NoTask
  Keys = {k1, k2}
  Verifiers = {v1, v2}
  StaleAfter = 3
  Throttle = 1
  FetchTime = 1
  MaxRotations = 2
  NotVerifying = NotVerifying
  Routes = {"r1", "r2"}
  Stops = {1, 2, 3}
  Minute = 2
  Day = 16
  TimePerStop = 4
  ServiceStart = 2
  ServiceEnd = 12
  Headways = {4, 6}
  Zones = {0, 6}
INVARIANT HonestLogVerifies
CHECK_DEADLOCK FALSE
