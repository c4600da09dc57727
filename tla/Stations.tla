------------------------------ MODULE Stations ------------------------------
(***************************************************************************)
(* The rows of infra.stations: the status every station handler reads or   *)
(* flips and the two inventory columns that refuelling, energy trading and *)
(* stock counts change (infra-api handlers/stations.go).                   *)
(*                                                                         *)
(* Every SQL statement, and every transaction that holds its row locks to  *)
(* the end, is one step.                                                   *)
(***************************************************************************)
EXTENDS Integers, FiniteSets, FiniteSetsExt

CONSTANTS
  StationIds,
  EvStations,   \* the stations of type ev_charger
  StockLevels   \* the levels an operator records

ASSUME StationAssumption ==
  /\ StationIds \subseteq Nat   \* ordered, as ORDER BY id orders them
  /\ EvStations \subseteq StationIds
  /\ StockLevels \subseteq Nat

VARIABLES
  status,   \* infra.stations.status
  stock,    \* available_kg and available_kwh
  counted   \* what operators recorded, net of what they replaced (history)

stationVars == <<status, stock, counted>>

Columns == {"kg", "kwh"}
StationStatuses == {"absent", "online", "offline", "emergency"}

inventoryColumn(s) == IF s \in EvStations THEN "kwh" ELSE "kg"

StationsTypeOK ==
  /\ status \in [StationIds -> StationStatuses]
  /\ stock \in [StationIds -> [Columns -> Int]]
  /\ counted \in [StationIds -> [Columns -> Int]]

StationsInit ==
  /\ status = [s \in StationIds |-> "absent"]
  /\ stock = [s \in StationIds |-> [c \in Columns |-> 0]]
  /\ counted = stock

Recount(s, c, v) ==
  /\ stock' = [stock EXCEPT ![s][c] = v]
  /\ counted' = [counted EXCEPT ![s][c] = @ + v - stock[s][c]]

CreateStation(s, v) ==
  /\ status[s] = "absent"
  /\ status' = [status EXCEPT ![s] = "online"]
  /\ Recount(s, inventoryColumn(s), v)

(* PATCH /status sets any status and, when the body carries it, the level. *)
UpdateStationStatus(s, st) ==
  /\ status[s] # "absent"
  /\ status' = [status EXCEPT ![s] = st]
  /\ UNCHANGED <<stock, counted>>

RecordStock(s, st, v) ==
  /\ status[s] # "absent"
  /\ status' = [status EXCEPT ![s] = st]
  /\ Recount(s, inventoryColumn(s), v)

(* UPDATE infra.stations SET <column> = <column> - amount. *)
Drawn(s, c, amount) == [stock EXCEPT ![s][c] = @ - amount]
=============================================================================
