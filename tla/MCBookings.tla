----------------------------- MODULE MCBookings -----------------------------
(***************************************************************************)
(* The vehicles of the fleet as the dispatch desk, charters, demand rides  *)
(* and the depot book them.  The desk and the rides share the dispatch     *)
(* jobs; the depot shares none of their rows and is explored on its own.   *)
(***************************************************************************)
EXTENDS DemandRides, Depot, TLC

CONSTANTS
  MaxFaults,      \* bound on failures, swaps and driver changes together
  MaxLoad,        \* bound on rows, busy requests and open runs together
  MaxRideLoad     \* the same bound while rides are explored

VARIABLES
  focus,    \* what the behaviour explores: the desk, the rides or the depot
  faults

Near == [from |-> 0, to |-> 2]
Later == [from |-> 2, to |-> 4]
MCWindows == {Near, Later}
MCCharterWindows == {Near}

vars == <<dispatchVars, rideVars, depotVars, consumerVars, focus, faults>>

BookingsTypeOK ==
  /\ DispatchTypeOK
  /\ RidesTypeOK
  /\ DepotTypeOK
  /\ ConsumerTypeOK

Init ==
  /\ DispatchInit
  /\ RidesInit
  /\ DepotInit
  /\ ConsumerInit
  /\ focus \in {"desk", "rides", "depot"}
  /\ faults = 0

Busy(f, idle) == Cardinality({w \in DOMAIN f : f[w] # idle})

Load ==
  IF focus = "depot"
  THEN Len(orders) + Len(topic[PredictionTopic]) + Busy(clerk, NoTask)
  ELSE Len(jobs) + Busy(desk, NoRequest) + Busy(rides, NoRide) + Busy(assigning, NotAssigning)
         + Cardinality({j \in JobIds : run[j].state \in {"unassigned", "offered"}})

Bound == IF focus = "rides" THEN MaxRideLoad ELSE MaxLoad

(* Charters and two requests at once are left to the desk's own behaviours. *)
Desk ==
  /\ focus # "depot"
  /\ DispatchNext
  /\ focus = "rides" => Busy(desk, NoRequest)' <= 1 /\ \A w \in Desks : ~Sits(w, "book")'
  /\ UNCHANGED <<rideVars, depotVars, consumerVars, focus, faults>>
  /\ Load' <= Bound

RideWork ==
  /\ focus = "rides"
  /\ RidesNext
  /\ UNCHANGED <<dispatchVars, depotVars, focus, faults>>
  /\ Load' <= Bound

DepotWork ==
  /\ focus = "depot"
  /\ DepotNext
  /\ UNCHANGED <<dispatchVars, rideVars, focus, faults>>
  /\ Load' <= MaxLoad

Disturb ==
  /\ faults < MaxFaults
  /\ faults' = faults + 1
  /\ \/ focus = "desk" /\ DispatchDisturbances /\ UNCHANGED <<rideVars, depotVars, consumerVars>>
     \/ focus = "rides" /\ RideFaults /\ UNCHANGED <<dispatchVars, depotVars>>
     \/ focus = "depot" /\ DepotFaults /\ UNCHANGED <<dispatchVars, rideVars>>
  /\ UNCHANGED focus

Next == Desk \/ RideWork \/ DepotWork \/ Disturb

(* Temporal keeps a run going; a transaction that holds a lock ends. *)
Fairness ==
  /\ \A j \in JobIds : WF_vars(j \in DOMAIN jobs /\ RunSteps(j)
       /\ UNCHANGED <<rideVars, depotVars, consumerVars, focus, faults>>)
  /\ \A w \in Desks : WF_vars(SwapVehicle(w)
       /\ UNCHANGED <<rideVars, depotVars, consumerVars, focus, faults>>)

Spec == Init /\ [][Next]_vars /\ Fairness
=============================================================================
