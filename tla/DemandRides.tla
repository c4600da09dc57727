----------------------------- MODULE DemandRides ----------------------------
(***************************************************************************)
(* Demand-responsive rides (citizen-api handlers/drt.go) and the consumer  *)
(* that assigns a vehicle to a requested ride (consumers/drt.go).  The     *)
(* vehicle is picked, validated against the dispatch jobs and written in   *)
(* three statements, by the consumer and by operators, while riders cancel *)
(* and the dispatch desk books the same vehicles.                          *)
(***************************************************************************)
EXTENDS Dispatch, EventConsumer

CONSTANTS
  Rides,
  WheelchairRides,  \* the requests that need an accessible vehicle
  Accessible,       \* the wheelchair-accessible vehicles
  RideOperators,    \* operators assigning by hand
  Soon,             \* 30 minutes from now, now being 0
  RideTopic,        \* drt.requested
  NotAssigning

ASSUME RideAssumption ==
  /\ Rides \subseteq Payloads
  /\ WheelchairRides \subseteq Rides
  /\ Accessible \subseteq Vehicles
  /\ RideTopic \in Topics

VARIABLES
  rides,       \* citizen.drt_requests
  assigning    \* the assignment the consumer or an operator is making

rideVars == <<rides, assigning>>

Consumer == "consumer"
Assigners == RideOperators \union {Consumer}
NoRide == [status |-> "none", vehicle |-> Null]
Ride == [status : {"none", "requested", "assigned", "enroute", "completed", "cancelled"},
         vehicle : Vehicles \union {Null}]

RidesTypeOK ==
  /\ rides \in [Rides -> Ride]
  /\ assigning \in [Assigners -> {NotAssigning}
                     \union [pc : {"validate", "update"}, ride : Rides, vehicle : Vehicles]]

RidesInit ==
  /\ rides = [r \in Rides |-> NoRide]
  /\ assigning = [p \in Assigners |-> NotAssigning]

Working(p, pc) == assigning[p] # NotAssigning /\ assigning[p].pc = pc
Assigns(p, work) == assigning' = [assigning EXCEPT ![p] = work]

(* On a dispatch job now or within the half hour. *)
SoonBusy(v) ==
  \E j \in ActiveJobs :
    /\ jobs[j].vehicle = v
    /\ jobs[j].window.from = Null \/ jobs[j].window.from < Soon
    /\ jobs[j].window.to = Null \/ jobs[j].window.to > 0

OnARide(v) == \E r \in Rides : rides[r].vehicle = v /\ rides[r].status \in {"assigned", "enroute"}
Suits(v, r) == r \in WheelchairRides => v \in Accessible

(* The event is published after the insert, at best. *)
CreateDRTRequest(r, published) ==
  /\ rides[r].status = "none"
  /\ rides' = [rides EXCEPT ![r].status = "requested"]
  /\ IF published THEN Published(RideTopic, r) ELSE UNCHANGED consumerVars
  /\ UNCHANGED assigning

CancelDRTRequest(r) ==
  /\ rides[r].status \in {"requested", "assigned"}
  /\ rides' = [rides EXCEPT ![r].status = "cancelled"]
  /\ UNCHANGED <<assigning, consumerVars>>

ProgressDRTRequest(r) ==
  /\ rides[r].status \in {"assigned", "enroute"}
  /\ rides' = [rides EXCEPT ![r].status = IF @ = "assigned" THEN "enroute" ELSE "completed"]
  /\ UNCHANGED <<assigning, consumerVars>>

(* The distance decides among the vehicles, so any of them may be picked; with
   none the record is done and the ride stays requested. *)
PickVehicle(commits) ==
  /\ Pending(RideTopic)
  /\ assigning[Consumer] = NotAssigning
  /\ LET r == Current(RideTopic)
         free == {v \in Vehicles : Suits(v, r) /\ ~OnARide(v) /\ ~SoonBusy(v)}
     IN  \/ /\ free = {}
            /\ Handled(RideTopic, commits)
            /\ UNCHANGED assigning
         \/ /\ \E v \in free : Assigns(Consumer, [pc |-> "validate", ride |-> r, vehicle |-> v])
            /\ UNCHANGED consumerVars
  /\ UNCHANGED rides

(* AssignDRTRequest: an operator names the vehicle. *)
AssignDRTRequest(p, r, v) ==
  /\ p # Consumer
  /\ assigning[p] = NotAssigning
  /\ Assigns(p, [pc |-> "validate", ride |-> r, vehicle |-> v])
  /\ UNCHANGED <<rides, consumerVars>>

(* The assignment is over; the consumer commits its record. *)
EndsAssignment(p, commits) ==
  /\ Assigns(p, NotAssigning)
  /\ IF p = Consumer THEN Handled(RideTopic, commits) ELSE UNCHANGED consumerVars

validateAssignVehicle(p, commits) ==
  /\ Working(p, "validate")
  /\ LET a == assigning[p]
     IN  IF rides[a.ride].status # "none" /\ Suits(a.vehicle, a.ride) /\ ~SoonBusy(a.vehicle)
         THEN Assigns(p, [a EXCEPT !.pc = "update"]) /\ UNCHANGED consumerVars
         ELSE EndsAssignment(p, commits)
  /\ UNCHANGED rides

(* The mistake of an UPDATE that names the ride and not its status. *)
AssignsAnyRide(p, commits) ==
  /\ Working(p, "update")
  /\ rides' = [rides EXCEPT ![assigning[p].ride] =
                 [status |-> "assigned", vehicle |-> assigning[p].vehicle]]
  /\ EndsAssignment(p, commits)

AssignDRT(p, commits) ==
  /\ Working(p, "update")
  /\ LET a == assigning[p]
     IN  rides' = IF rides[a.ride].status # "requested" THEN rides
                  ELSE [rides EXCEPT ![a.ride].status = "assigned",
                                     ![a.ride].vehicle = a.vehicle]
  /\ EndsAssignment(p, commits)

(* A statement of the consumer errs: StartDRTConsumer logs it and goes on. *)
AutoAssignFails ==
  /\ Failed(RideTopic)
  /\ Assigns(Consumer, NotAssigning)
  /\ UNCHANGED rides

ConsumerRestarts ==
  /\ \/ Restarted(RideTopic)
     \/ assigning[Consumer] # NotAssigning /\ UNCHANGED consumerVars
  /\ Assigns(Consumer, NotAssigning)
  /\ UNCHANGED rides

RidesNext ==
  \/ \E r \in Rides : \/ CreateDRTRequest(r, TRUE)
                      \/ CancelDRTRequest(r)
                      \/ ProgressDRTRequest(r)
  \/ PickVehicle(TRUE)
  \/ \E p \in RideOperators, r \in Rides, v \in Vehicles : AssignDRTRequest(p, r, v)
  \/ \E p \in Assigners : validateAssignVehicle(p, TRUE) \/ AssignDRT(p, TRUE)

RideFaults ==
  \/ \E r \in Rides : CreateDRTRequest(r, FALSE)
  \/ PickVehicle(FALSE)
  \/ validateAssignVehicle(Consumer, FALSE)
  \/ AssignDRT(Consumer, FALSE)
  \/ AutoAssignFails
  \/ ConsumerRestarts
-----------------------------------------------------------------------------
RideStage == [none |-> 0, requested |-> 1, assigned |-> 2, enroute |-> 3,
              completed |-> 4, cancelled |-> 4]

(* A ride only moves forward, keeps the vehicle it was given, and one that was
   cancelled or completed stays so: redelivered events, late assignments by the
   consumer and by operators never touch it again; a wheelchair ride is only
   ever given an accessible vehicle (AssignDRT, ProgressDRTRequest,
   CancelDRTRequest). *)
RidesAreAssignedOnce ==
  [][\A r \in Rides :
       /\ RideStage[rides'[r].status] >= RideStage[rides[r].status]
       /\ RideStage[rides[r].status] = 4 => rides'[r] = rides[r]
       /\ rides[r].vehicle # Null => rides'[r].vehicle = rides[r].vehicle
       /\ rides'[r].vehicle # Null => Suits(rides'[r].vehicle, r)
    ]_rides
=============================================================================
