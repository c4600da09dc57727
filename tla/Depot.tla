-------------------------------- MODULE Depot -------------------------------
(***************************************************************************)
(* Depot bays and work orders (infra-api handlers/depot.go) and the        *)
(* consumer that opens a work order for a predicted failure                *)
(* (consumers/maintenance.go).  A transition reads the status, checks it   *)
(* against the lifecycle and writes the new one by id only.                *)
(***************************************************************************)
EXTENDS EventConsumer

CONSTANTS
  Bays, DepotBuses,
  Predictions,        \* maintenance predictions
  Clerks,             \* concurrent transition requests
  PredictionTopic,    \* maintenance.predicted
  MaxOrders,          \* bound on the work orders
  NoBus, NoPrediction, NoTask

ASSUME DepotAssumption ==
  /\ Predictions \subseteq Payloads
  /\ PredictionTopic \in Topics
  /\ MaxOrders \in Nat

VARIABLES
  bays,     \* the bus in every bay, infra.depot_bays.occupied_by
  orders,   \* infra.work_orders, in insertion order
  clerk     \* the transition a request has checked and not yet written

depotVars == <<bays, orders, clerk>>

workOrderTransitions ==
  [open        |-> {"assigned", "in_progress", "closed"},
   assigned    |-> {"in_progress", "on_hold", "open", "closed"},
   in_progress |-> {"on_hold", "closed"},
   on_hold     |-> {"in_progress", "closed"},
   closed      |-> {}]
OrderStatuses == DOMAIN workOrderTransitions
(* The targets the four endpoints name. *)
Targets == {"assigned", "in_progress", "on_hold", "closed"}

DepotTypeOK ==
  /\ bays \in [Bays -> DepotBuses \union {NoBus}]
  /\ orders \in Seq([prediction : Predictions \union {NoPrediction}, status : OrderStatuses])
  /\ Len(orders) <= MaxOrders
  /\ clerk \in [Clerks -> {NoTask} \union [order : 1..MaxOrders, target : Targets]]

DepotInit ==
  /\ bays = [b \in Bays |-> NoBus]
  /\ orders = <<>>
  /\ clerk = [w \in Clerks |-> NoTask]

AssignDepotBay(b, bus) ==
  /\ bays[b] = NoBus
  /\ bays' = [bays EXCEPT ![b] = bus]
  /\ UNCHANGED <<orders, clerk, consumerVars>>

ReleaseDepotBay(b) ==
  /\ bays[b] # NoBus
  /\ bays' = [bays EXCEPT ![b] = NoBus]
  /\ UNCHANGED <<orders, clerk, consumerVars>>
-----------------------------------------------------------------------------
(* work_orders_open_prediction_uq: another order of the prediction is open. *)
OpenFor(p, except) ==
  {o \in DOMAIN orders \ except : /\ orders[o].prediction = p
                                  /\ p # NoPrediction
                                  /\ orders[o].status # "closed"}

NewOrderUnchecked(p, st) == Append(orders, [prediction |-> p, status |-> st])

NewOrder(p, st) ==
  IF OpenFor(p, {}) # {} THEN orders ELSE Append(orders, [prediction |-> p, status |-> st])

CreateWorkOrder(p, assignee) ==
  /\ Len(orders) < MaxOrders
  /\ orders' = NewOrder(p, IF assignee THEN "assigned" ELSE "open")
  /\ UNCHANGED <<bays, clerk, consumerVars>>

CheckTransition(w, o, target) ==
  /\ clerk[w] = NoTask
  /\ target \in workOrderTransitions[orders[o].status]
  /\ clerk' = [clerk EXCEPT ![w] = [order |-> o, target |-> target]]
  /\ UNCHANGED <<bays, orders, consumerVars>>

(* The UPDATE, which the unique index refuses when it would reopen an order
   next to another open one of the prediction. *)
transitionWorkOrder(w) ==
  /\ clerk[w] # NoTask
  /\ LET t == clerk[w]
         refused == t.target # "closed" /\ OpenFor(orders[t.order].prediction, {t.order}) # {}
     IN  orders' = IF refused THEN orders ELSE [orders EXCEPT ![t.order].status = t.target]
  /\ clerk' = [clerk EXCEPT ![w] = NoTask]
  /\ UNCHANGED <<bays, consumerVars>>

(* PredictionPublished is external: the ML service publishes, at least once. *)
PredictionPublished(p) ==
  /\ Published(PredictionTopic, p)
  /\ UNCHANGED depotVars

(* The consumer's handler and its commit; a crash between them redelivers.  Its
   ON CONFLICT names the status only.  PostgreSQL accepts that when the clause
   implies the predicate of the unique index; the index of migration 0007 also
   asks for a prediction, so there the INSERT errs for every record, as it does
   while the database is down. *)
CreateWorkOrderFromPrediction(matches, commits) ==
  /\ \/ /\ matches
        /\ Pending(PredictionTopic)
        /\ Len(orders) < MaxOrders
        /\ orders' = NewOrder(Current(PredictionTopic), "open")
        /\ Handled(PredictionTopic, commits)
     \/ /\ ~matches
        /\ Failed(PredictionTopic)
        /\ UNCHANGED orders
  /\ UNCHANGED <<bays, clerk>>

MaintenanceRestarts ==
  /\ Restarted(PredictionTopic)
  /\ UNCHANGED depotVars

DepotNext ==
  \/ \E b \in Bays : ReleaseDepotBay(b) \/ \E bus \in DepotBuses : AssignDepotBay(b, bus)
  \/ \E p \in Predictions \union {NoPrediction}, a \in BOOLEAN : CreateWorkOrder(p, a)
  \/ \E w \in Clerks :
       \/ \E o \in DOMAIN orders, t \in Targets : CheckTransition(w, o, t)
       \/ transitionWorkOrder(w)
  \/ \E p \in Predictions : PredictionPublished(p)
  \/ \E matches \in BOOLEAN : CreateWorkOrderFromPrediction(matches, TRUE)

DepotFaults == CreateWorkOrderFromPrediction(TRUE, FALSE) \/ MaintenanceRestarts

(* The depot on its own, as its service runs it. *)
DepotSpec ==
  DepotInit /\ ConsumerInit /\ [][DepotNext \/ DepotFaults]_<<depotVars, consumerVars>>
-----------------------------------------------------------------------------
(* A prediction never has two open work orders: not after redelivery, not when
   an operator files one by hand, and not when a transition checked earlier
   reopens an order that was closed and replaced meanwhile, whether or not the
   consumer's INSERT finds the index it names
   (CreateWorkOrderFromPrediction, transitionWorkOrder, migration 0007). *)
OneOpenOrderPerPrediction ==
  \A p \in Predictions : \A o \in OpenFor(p, {}) : OpenFor(p, {o}) = {}
=============================================================================
