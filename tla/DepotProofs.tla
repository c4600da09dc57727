----------------------------- MODULE DepotProofs ----------------------------
(***************************************************************************)
(* What the depot and its consumer guarantee for any number of predictions,*)
(* clerks, records and work orders.                                        *)
(***************************************************************************)
EXTENDS Depot, TLAPS

(* Every record the client has read past was attempted to its end. *)
ReadIsAttempted ==
  \A t \in Topics : \A i \in 1..Len(topic[t]) :
    i <= position[t] \/ i <= committed[t] => outcome[t][i] # "unseen"

ConsumerInv == ConsumerTypeOK /\ ReadIsAttempted

(* The work orders are rows, and a request that checked a transition checked
   it on one of them. *)
OrderRow == [prediction : Predictions \union {NoPrediction}, status : OrderStatuses]

OrdersShape ==
  /\ orders \in Seq(OrderRow)
  /\ clerk \in [Clerks -> {NoTask} \union [order : Nat, target : Targets]]
  /\ \A w \in Clerks : clerk[w] # NoTask => clerk[w].order \in 1..Len(orders)

(* Two open rows of one prediction are one row. *)
OpenIsUnique ==
  \A i, j \in 1..Len(orders) :
    /\ orders[i].prediction = orders[j].prediction
    /\ orders[i].prediction # NoPrediction
    /\ orders[i].status # "closed" /\ orders[j].status # "closed"
    => i = j

(* The topic carries predictions. *)
PredictionsOnly == topic[PredictionTopic] \in Seq(Predictions)

DepotInv == ConsumerInv /\ OrdersShape /\ OpenIsUnique /\ PredictionsOnly
-----------------------------------------------------------------------------
(* A published record is unseen and lies behind both offsets. *)
LEMMA PublishedKeeps ==
  ASSUME ConsumerInv, NEW t \in Topics, NEW x \in Payloads, Published(t, x)
  PROVE  ConsumerInv'
<1> USE DEF ConsumerInv, ConsumerTypeOK, Published, Outcomes
<1>1. topic' \in [Topics -> Seq(Payloads)] /\ outcome' \in [Topics -> Seq(Outcomes)]
  OBVIOUS
<1>2. ASSUME NEW u \in Topics
      PROVE  /\ Len(topic'[u]) = Len(outcome'[u])
             /\ Len(topic[u]) <= Len(topic'[u])
             /\ \A i \in 1..Len(topic[u]) : outcome'[u][i] = outcome[u][i]
  OBVIOUS
<1>3. ConsumerTypeOK'
  BY <1>1, <1>2
<1>4. ReadIsAttempted'
  BY <1>2 DEF ReadIsAttempted
<1> QED BY <1>3, <1>4

(* Handling a record, with its commit or without, ends its attempt; so does a
   failure. *)
LEMMA AttemptKeeps ==
  ASSUME ConsumerInv, NEW t \in Topics,
         \/ \E c \in BOOLEAN : Handled(t, c)
         \/ Failed(t)
  PROVE  ConsumerInv'
<1> USE DEF ConsumerInv, ConsumerTypeOK, Pending, Outcomes
<1>1. PICK end \in {"done", "failed"} :
        /\ position[t] < Len(topic[t])
        /\ outcome' = [outcome EXCEPT ![t][position[t] + 1] = end]
        /\ position' = [position EXCEPT ![t] = @ + 1]
        /\ committed' \in {committed, [committed EXCEPT ![t] = position[t] + 1]}
        /\ topic' = topic
  BY DEF Handled, Failed
<1>2. outcome' \in [Topics -> Seq(Outcomes)] /\ \A u \in Topics : Len(outcome'[u]) = Len(outcome[u])
  BY <1>1
<1>3. ConsumerTypeOK'
  BY <1>1, <1>2
<1>4. ReadIsAttempted'
  BY <1>1 DEF ReadIsAttempted
<1> QED BY <1>3, <1>4

(* A restart takes the client back to the committed offset. *)
LEMMA RestartKeeps ==
  ASSUME ConsumerInv, NEW t \in Topics, Restarted(t)
  PROVE  ConsumerInv'
  BY DEF ConsumerInv, ConsumerTypeOK, Restarted, ReadIsAttempted
-----------------------------------------------------------------------------
(* NewOrder adds at most one row, and none next to an open one. *)
LEMMA NewOrderKeeps ==
  ASSUME OrdersShape, OpenIsUnique,
         NEW p \in Predictions \union {NoPrediction}, NEW st \in OrderStatuses,
         orders' = NewOrder(p, st), UNCHANGED clerk
  PROVE  OrdersShape' /\ OpenIsUnique'
<1>1. CASE orders' = orders
  BY <1>1 DEF OrdersShape, OpenIsUnique
<1>2. CASE orders' # orders
  <2>1. /\ orders' = Append(orders, [prediction |-> p, status |-> st])
        /\ OpenFor(p, {}) = {}
    BY <1>2 DEF NewOrder
  <2>2. /\ Len(orders') = Len(orders) + 1
        /\ \A i \in 1..Len(orders) : orders'[i] = orders[i]
        /\ orders'[Len(orders) + 1] = [prediction |-> p, status |-> st]
    BY <2>1 DEF OrdersShape
  <2>3. OrdersShape'
    <3>1. [prediction |-> p, status |-> st] \in OrderRow
      BY DEF OrderRow
    <3> QED BY <2>1, <2>2, <3>1 DEF OrdersShape
  <2>4. \A i \in 1..Len(orders) :
          orders[i].prediction = p /\ p # NoPrediction => orders[i].status = "closed"
    BY <2>1 DEF OpenFor, OrdersShape
  <2>5. OpenIsUnique'
    BY <2>2, <2>4 DEF OpenIsUnique, OrdersShape
  <2> QED BY <2>3, <2>5
<1> QED BY <1>1, <1>2

(* The unique index stands in the way of a transition that would open a second
   order of the prediction. *)
LEMMA TransitionKeeps ==
  ASSUME OrdersShape, OpenIsUnique, NEW w \in Clerks, transitionWorkOrder(w)
  PROVE  OrdersShape' /\ OpenIsUnique'
<1> DEFINE t == clerk[w]
<1>1. t \in [order : Nat, target : Targets] /\ t.order \in 1..Len(orders)
  BY DEF transitionWorkOrder, OrdersShape
<1>2. Targets \subseteq OrderStatuses
  BY DEF Targets, OrderStatuses, workOrderTransitions
<1>3. CASE orders' = orders
  BY <1>3 DEF OrdersShape, OpenIsUnique, transitionWorkOrder
<1>4. CASE orders' # orders
  <2>1. /\ orders' = [orders EXCEPT ![t.order].status = t.target]
        /\ t.target # "closed" => OpenFor(orders[t.order].prediction, {t.order}) = {}
    BY <1>4 DEF transitionWorkOrder
  <2>2. OrdersShape' /\ Len(orders') = Len(orders)
    <3> DEFINE row == [orders[t.order] EXCEPT !.status = t.target]
    <3>1. orders[t.order] \in OrderRow
      BY <1>1 DEF OrdersShape
    <3>2. row \in OrderRow /\ orders' = [orders EXCEPT ![t.order] = row]
      BY <3>1, <2>1, <1>1, <1>2 DEF OrderRow
    <3>3. orders' \in Seq(OrderRow) /\ Len(orders') = Len(orders)
      <4> HIDE DEF row
      <4> QED BY <3>2, <1>1 DEF OrdersShape
    <3> QED BY <3>3, <1>1 DEF OrdersShape, transitionWorkOrder
  <2>3. \A i \in 1..Len(orders) \ {t.order} :
          /\ orders'[i] = orders[i]
          /\ orders[i].prediction = orders[t.order].prediction
             /\ orders[i].prediction # NoPrediction /\ t.target # "closed"
             => orders[i].status = "closed"
    BY <2>1, <1>1 DEF OpenFor, OrdersShape
  <2>4. orders'[t.order].prediction = orders[t.order].prediction
        /\ orders'[t.order].status = t.target
    BY <2>1, <1>1 DEF OrdersShape
  <2>5. OpenIsUnique'
    BY <2>2, <2>3, <2>4, <1>1 DEF OpenIsUnique
  <2> QED BY <2>2, <2>5
<1> QED BY <1>3, <1>4
-----------------------------------------------------------------------------
(* Nothing is recorded or published at the start. *)
LEMMA DepotInvInit == DepotInit /\ ConsumerInit => DepotInv
  BY DepotAssumption DEF DepotInit, ConsumerInit, DepotInv, ConsumerInv, ConsumerTypeOK, ReadIsAttempted,
     OrdersShape, OpenIsUnique, PredictionsOnly

(* Every step of the depot and of its consumer keeps the invariant. *)
LEMMA DepotInvStep ==
  DepotInv /\ [DepotNext \/ DepotFaults]_<<depotVars, consumerVars>> => DepotInv'
<1> SUFFICES ASSUME DepotInv, [DepotNext \/ DepotFaults]_<<depotVars, consumerVars>>
             PROVE  DepotInv'
  OBVIOUS
<1> USE DepotAssumption DEF DepotInv
<1>a. ASSUME UNCHANGED consumerVars PROVE ConsumerInv' /\ PredictionsOnly'
  BY <1>a DEF consumerVars, ConsumerInv, ConsumerTypeOK, ReadIsAttempted, PredictionsOnly
<1>b. ASSUME UNCHANGED <<orders, clerk>> PROVE OrdersShape' /\ OpenIsUnique'
  BY <1>b DEF OrdersShape, OpenIsUnique
<1>1. ASSUME NEW b \in Bays, \/ ReleaseDepotBay(b) \/ \E bus \in DepotBuses : AssignDepotBay(b, bus)
      PROVE  DepotInv'
  BY <1>1, <1>a, <1>b DEF ReleaseDepotBay, AssignDepotBay
<1>2. ASSUME NEW p \in Predictions \union {NoPrediction}, NEW a \in BOOLEAN, CreateWorkOrder(p, a)
      PROVE  DepotInv'
  BY <1>2, <1>a, NewOrderKeeps DEF CreateWorkOrder, OrderStatuses, workOrderTransitions
<1>3. ASSUME NEW w \in Clerks, NEW o \in DOMAIN orders, NEW t \in Targets, CheckTransition(w, o, t)
      PROVE  DepotInv'
  BY <1>3, <1>a DEF CheckTransition, OrdersShape, OpenIsUnique
<1>4. ASSUME NEW w \in Clerks, transitionWorkOrder(w)
      PROVE  DepotInv'
  BY <1>4, <1>a, TransitionKeeps DEF transitionWorkOrder
<1>5. ASSUME NEW p \in Predictions, PredictionPublished(p)
      PROVE  DepotInv'
  <2>1. ConsumerInv' /\ OrdersShape' /\ OpenIsUnique'
    BY <1>5, <1>b, PublishedKeeps DEF PredictionPublished, depotVars
  <2>2. PredictionsOnly'
    BY <1>5 DEF PredictionPublished, Published, PredictionsOnly, ConsumerInv, ConsumerTypeOK
  <2> QED BY <2>1, <2>2
<1>6. ASSUME NEW m \in BOOLEAN, NEW c \in BOOLEAN, CreateWorkOrderFromPrediction(m, c)
      PROVE  DepotInv'
  <2>1. CASE /\ Handled(PredictionTopic, c)
             /\ orders' = NewOrder(Current(PredictionTopic), "open") /\ UNCHANGED clerk
    <3>1. ConsumerInv' /\ PredictionsOnly'
      BY <2>1, AttemptKeeps DEF Handled, PredictionsOnly
    <3>2. Current(PredictionTopic) \in Predictions
      BY <2>1 DEF Handled, Pending, Current, PredictionsOnly, ConsumerInv, ConsumerTypeOK
    <3> QED BY <2>1, <3>1, <3>2, NewOrderKeeps DEF OrderStatuses, workOrderTransitions
  <2>2. CASE Failed(PredictionTopic) /\ UNCHANGED <<orders, clerk>>
    <3>1. ConsumerInv' /\ PredictionsOnly'
      BY <2>2, AttemptKeeps DEF Failed, PredictionsOnly
    <3> QED BY <2>2, <3>1, <1>b
  <2> QED BY <1>6, <2>1, <2>2 DEF CreateWorkOrderFromPrediction
<1>7. CASE MaintenanceRestarts
  <2>1. OrdersShape' /\ OpenIsUnique'
    BY <1>7, <1>b DEF MaintenanceRestarts, depotVars
  <2>2. ConsumerInv' /\ PredictionsOnly'
    BY <1>7, RestartKeeps DEF MaintenanceRestarts, Restarted, PredictionsOnly
  <2> QED BY <2>1, <2>2
<1>8. CASE UNCHANGED <<depotVars, consumerVars>>
  BY <1>8, <1>a, <1>b DEF depotVars
<1> QED
  BY <1>1, <1>2, <1>3, <1>4, <1>5, <1>6, <1>7, <1>8 DEF DepotNext, DepotFaults

(* For any number of predictions, clerks and redeliveries no prediction has two
   open work orders (CreateWorkOrderFromPrediction, transitionWorkOrder). *)
THEOREM OneOpenOrder == DepotSpec => []OneOpenOrderPerPrediction
<1>1. DepotInv => OneOpenOrderPerPrediction
  BY DEF DepotInv, OpenIsUnique, OrdersShape, OneOpenOrderPerPrediction, OpenFor
<1> QED BY <1>1, DepotInvInit, DepotInvStep, PTL DEF DepotSpec

(* Wherever the consumer dies, a record below its committed offset was attempted
   to its end (StartMaintenanceConsumer commits after the handler). *)
THEOREM CommittedWasAttempted == DepotSpec => []CrashLosesNoRecord
<1>1. DepotInv => CrashLosesNoRecord
  BY DEF DepotInv, ConsumerInv, ConsumerTypeOK, ReadIsAttempted, CrashLosesNoRecord
<1> QED BY <1>1, DepotInvInit, DepotInvStep, PTL DEF DepotSpec
=============================================================================
