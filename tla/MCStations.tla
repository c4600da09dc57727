----------------------------- MODULE MCStations -----------------------------
(***************************************************************************)
(* The writers of infra.stations together: refuelling, trading and the     *)
(* operator's stock counts.                                                *)
(***************************************************************************)
EXTENDS StationQueue, EnergyTrading, TLC

CONSTANTS
  MaxCounts,   \* bound on the operator's stock counts
  MaxLoad      \* bound on joins and trades together

VARIABLES counts

Symmetry == Permutations(Buses) \union Permutations(Attendants) \union Permutations(TradeKeys)

vars == <<stationVars, queueVars, tradeVars, ledgerVars, counts>>

EnergyTypeOK ==
  /\ StationsTypeOK
  /\ QueueTypeOK
  /\ TradesTypeOK
  /\ LedgerTypeOK

Init ==
  /\ StationsInit
  /\ QueueInit
  /\ TradesInit
  /\ LedgerInit
  /\ counts = 0

Operate ==
  /\ counts < MaxCounts
  /\ counts' = counts + 1
  /\ \E s \in StationIds, v \in StockLevels :
       \/ CreateStation(s, v)
       \/ \E st \in {"online", "offline"} : RecordStock(s, st, v)
  /\ UNCHANGED <<queueVars, tradeVars, ledgerVars>>

Load == tickets + Cardinality({k \in TradeKeys : trades[k] # NoTrade})

Next ==
  \/ Operate
  \/ QueueNext /\ UNCHANGED <<tradeVars, ledgerVars, counts>> /\ Load' <= MaxLoad
  \/ TradesNext /\ UNCHANGED <<queueVars, counts>> /\ Load' <= MaxLoad

Spec == Init /\ [][Next]_vars
-----------------------------------------------------------------------------
(* A station's inventory is what operators recorded, less what completed
   refuels dispensed, less what trades hold: the two services that write the
   column lose no update and draw no entry twice, whatever crashes or is
   compensated in between (CompleteStationQueueEntry, drawDownSurplus,
   restoreSurplus). *)
StockAccounted ==
  \A s \in StationIds, c \in Columns :
    stock[s][c] = counted[s][c] - Refuelled(s, c) - Held(s, c)
=============================================================================
