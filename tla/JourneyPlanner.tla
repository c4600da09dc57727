--------------------------- MODULE JourneyPlanner ---------------------------
(***************************************************************************)
(* The passenger timetable and journey planner (citizen-api                *)
(* handlers/passenger.go): departures every HeadwayMin minutes from the    *)
(* start of service, direct rides, and rides with one transfer.  A time is *)
(* an instant of UTC in ticks, several to the minute: timetables are in    *)
(* whole minutes, requests come at any tick.                               *)
(***************************************************************************)
EXTENDS Integers, Sequences, FiniteSets, FiniteSetsExt

CONSTANTS
  Routes,           \* active routes
  Stops,            \* stop ids
  Minute, Day,      \* in ticks, like the times below
  TimePerStop,      \* minutesPerStop
  ServiceStart,     \* serviceStartHour, serviceStartMin
  ServiceEnd        \* serviceEndHour

ASSUME PlannerAssumption ==
  /\ {Minute, Day} \subseteq Nat \ {0}
  /\ TimePerStop \in Nat /\ ServiceStart \in Nat
  /\ ServiceEnd \in 0 .. Day - Minute

VARIABLES
  network,    \* the stops and the headway of every route
  zone,       \* how far the server's clock is ahead of UTC
  asked,      \* the last request: from, to, and when it came
  direct,     \* the direct rides it was answered with
  transfers   \* and the rides with one transfer

plannerVars == <<network, zone, asked, direct, transfers>>

UTC == 0
Absent == -1
NotAsked == [now |-> Absent]

PlannerInit(lines, headways, zones) ==
  /\ network \in [Routes -> [stops : lines, headway : headways]]
  /\ zone \in zones
  /\ asked = NotAsked
  /\ direct = {}
  /\ transfers = {}
-----------------------------------------------------------------------------
(* stopIndex: the first position of a stop on a route, from 0 *)
stopIndex(r, stop) ==
  LET at == {i \in DOMAIN network[r].stops : network[r].stops[i] = stop}
  IN  IF at = {} THEN Absent ELSE Min(at) - 1

(* Midnight of the day an instant falls on, for a clock z ahead of UTC *)
Midnight(t, z) == t - ((t + z) % Day)

(* Departures of a route at a stop on the day that begins at midnight: every
   headway from the time its first bus gets there, before the end of service. *)
Departures(r, offset, midnight) ==
  LET first == midnight + ServiceStart + offset * TimePerStop
  IN  {t \in first .. midnight + ServiceEnd - 1 : (t - first) % network[r].headway = 0}

(* The mistake of offering a departure that leaves as the bus arrives. *)
arrivalsFrom(r, offset, after, z) ==
  {t \in Departures(r, offset, Midnight(after, z)) : t >= after}

(* nextArrivalsAfter: the rest of the timetable of the day of `after`, in the
   location `after` is given in. *)
nextArrivalsAfter(r, offset, after, z) ==
  {t \in Departures(r, offset, Midnight(after, z)) : t > after}

Leg(r, from, to, depart) ==
  [route |-> r, from |-> from, to |-> to, depart |-> depart,
   arrive |-> depart + (to - from) * TimePerStop]

(* makeLeg: the first such departure, if there is one *)
makeLegs(r, from, to, after, z) ==
  LET coming == nextArrivalsAfter(r, from, after, z)
  IN  IF coming = {} THEN {} ELSE {Leg(r, from, to, Min(coming))}

(* PlanJourney: the earliest ride of every direct route, and for every pair of
   routes and every interchange the earliest ride with the first catchable
   continuation.  The search starts a minute before the request. *)
DirectRides(from, to, now) ==
  UNION {makeLegs(r, stopIndex(r, from), stopIndex(r, to), now - Minute, zone) :
           r \in {x \in Routes : /\ stopIndex(x, from) >= 0
                                 /\ stopIndex(x, from) < stopIndex(x, to)}}

Interchanges(a, b, from, to) ==
  {x \in Stops : /\ stopIndex(a, from) >= 0 /\ stopIndex(b, to) >= 0
                 /\ stopIndex(a, x) > stopIndex(a, from)
                 /\ stopIndex(b, x) >= 0 /\ stopIndex(b, x) < stopIndex(b, to)}

(* A leg carries its times in UTC, so the timetable of the second one is that
   of the UTC day. *)
Continuation(b, x, to, first) ==
  makeLegs(b, stopIndex(b, x), stopIndex(b, to), first.arrive, UTC)

TransferRides(from, to, now) ==
  UNION {UNION {UNION {
    {<<first, second>> : second \in Continuation(b, x, to, first)} :
      first \in makeLegs(a, stopIndex(a, from), stopIndex(a, x), now - Minute, zone)} :
        x \in Interchanges(a, b, from, to)} :
          <<a, b>> \in {ab \in Routes \X Routes : ab[1] # ab[2]}}

PlanJourney(from, to, now) ==
  /\ asked' = [from |-> from, to |-> to, now |-> now]
  /\ direct' = DirectRides(from, to, now)
  /\ transfers' = TransferRides(from, to, now)
  /\ UNCHANGED <<network, zone>>
-----------------------------------------------------------------------------
(* The rides of the day of an instant that leave later than `after`, with no
   regard to how they are found *)
Rides(from, to, after, instant) ==
  LET day == Midnight(instant, zone)
  IN  {Leg(r, i - 1, j - 1, t) :
     <<r, i, j, t>> \in {q \in Routes \X (1..Cardinality(Stops)) \X (1..Cardinality(Stops))
                                \X (day + ServiceStart .. day + ServiceEnd - 1) :
       /\ q[2] < q[3] /\ q[3] <= Len(network[q[1]].stops)
       /\ network[q[1]].stops[q[2]] = from /\ network[q[1]].stops[q[3]] = to
       /\ q[4] > after /\ q[4] \in Departures(q[1], q[2] - 1, day)}}

Direct(from, to, now) == {<<leg>> : leg \in Rides(from, to, now - Minute, now)}

(* The second leg leaves on the day the first one arrives. *)
OneTransfer(from, to, now) ==
  UNION {UNION {{<<first, second>> :
             second \in {leg \in Rides(x, to, first.arrive, first.arrive) :
                            leg.route # first.route}} :
           first \in Rides(from, x, now - Minute, now)} : x \in Stops}

(* Every option the planner offers can be ridden and none is overlooked.  Its
   legs are rides of the day's timetable, the first leaving later than a minute
   before the request (a bus that left within that minute is still offered), the
   second after the first has arrived; and no journey with at most one transfer
   whose legs leave that day arrives before all options.  Two things are not so.
   A request in the first minute of a day is judged by the day before, whose
   service is over, and gets nothing.  And on a server whose clock is not UTC the
   second legs follow the timetable of another zone, so the claim is about direct
   rides only, and about transfers that their second leg leaves after the first
   arrives (planJourney, nextArrivalsAfter). *)
PlansAreEarliest ==
  asked # NotAsked =>
    LET now == asked.now
        whole == zone = UTC
        offered == {<<leg>> : leg \in direct} \union (IF whole THEN transfers ELSE {})
        possible == Direct(asked.from, asked.to, now)
                      \union (IF whole THEN OneTransfer(asked.from, asked.to, now) ELSE {})
        sameDay == {j \in possible : j[Len(j)].depart < Midnight(now, zone) + Day}
        arrivals(js) == {j[Len(j)].arrive : j \in js}
    IN  /\ \A option \in transfers : option[1].arrive < option[2].depart
        /\ IF now - Minute < Midnight(now, zone)
           THEN direct = {} /\ transfers = {}
           ELSE /\ offered \subseteq possible
                /\ sameDay # {} =>
                     offered # {} /\ Min(arrivals(offered)) = Min(arrivals(sameDay))
=============================================================================
