---------------------------- MODULE EnergyTrading ---------------------------
(***************************************************************************)
(* Hydrogen and electricity trades (commerce-api handlers/trading.go): an  *)
(* idempotent insert, a draw-down of the station surplus, a ledger         *)
(* transfer and a final UPDATE, with a compensation when the transfer      *)
(* returns an error.  The four steps share no transaction, an operator may *)
(* cancel between any two of them, and the process may crash.              *)
(*                                                                         *)
(* The request that inserted a key runs its trade; a replay of the key     *)
(* only returns the row, so there is one run per key.                      *)
(***************************************************************************)
EXTENDS Stations, Ledger

CONSTANTS
  TradeKeys,            \* Idempotency-Key headers, one trade each
  Kinds, Quantities, Prices,   \* what a trade may ask for
  Clearing, Revenue     \* accounts 3001 and 2001

Purchases == {"h2-purchase", "ev-charge-purchase"}
validTradeKinds == Purchases \union {"h2-sale", "energy-export", "ev-v2g-export"}

ASSUME TradeAssumption ==
  /\ TradeKeys \subseteq Refs
  /\ Kinds \subseteq validTradeKinds
  /\ Quantities \subseteq Nat \ {0}
  /\ Prices \subseteq Nat \ {0}
  /\ {Clearing, Revenue} \subseteq Accounts

VARIABLES
  trades,   \* commerce.trades, by key
  trader,   \* where the request running the trade stands
  draws     \* what it took from every station and has not given back

tradeVars == <<trades, trader, draws>>

NoTrade == [status |-> "none"]
Trade == [kind : validTradeKinds, quantity : Quantities, price : Prices,
          status : {"proposed", "executed", "failed", "cancelled"}]
TraderPCs == {"idle", "draw", "post", "restore", "fail", "failLossy",
              "finalize", "done", "lost"}   \* lost: an UPDATE failed, or a crash

TradesTypeOK ==
  /\ trades \in [TradeKeys -> Trade \union {NoTrade}]
  /\ trader \in [TradeKeys -> TraderPCs]
  /\ draws \in [TradeKeys -> [StationIds -> Nat]]

NoDraw == [s \in StationIds |-> 0]

TradesInit ==
  /\ trades = [k \in TradeKeys |-> NoTrade]
  /\ trader = [k \in TradeKeys |-> "idle"]
  /\ draws = [k \in TradeKeys |-> NoDraw]

Moves(k, pc) == trader' = [trader EXCEPT ![k] = pc]
Sets(k, st) == trades' = [trades EXCEPT ![k].status = st]
-----------------------------------------------------------------------------
surplusColumn(kind) == IF kind = "ev-v2g-export" THEN "kwh" ELSE "kg"
DrawsSurplus(kind) == kind \notin Purchases

ProposeTrade(k, kind, q, p) ==
  /\ trades[k] = NoTrade
  /\ trades' = [trades EXCEPT ![k] =
                  [kind |-> kind, quantity |-> q, price |-> p, status |-> "proposed"]]
  /\ Moves(k, IF DrawsSurplus(kind) THEN "draw" ELSE "post")
  /\ UNCHANGED <<draws, stationVars, ledgerVars>>

(* The mistake of a draw-down that does not stop once the quantity is reached. *)
TakenPastQuantity(c, q) ==
  LET have(s) == Max({0, stock[s][c]})
      before(s) == MapThenSumSet(have, {x \in StationIds : x < s})
  IN  [s \in StationIds |-> Min({have(s), q - before(s)})]

(* The stations are locked in id order and emptied greedily. *)
Taken(c, q) ==
  LET have(s) == Max({0, stock[s][c]})
      before(s) == MapThenSumSet(have, {x \in StationIds : x < s})
  IN  [s \in StationIds |-> Max({0, Min({have(s), q - before(s)})})]

Surplus(c) ==
  MapThenSumSet(LAMBDA s : stock[s][c], {s \in StationIds : stock[s][c] > 0})

drawDownSurplus(k) ==
  /\ trader[k] = "draw"
  /\ LET c == surplusColumn(trades[k].kind)
         q == trades[k].quantity
     IN  \/ /\ Surplus(c) < q
            /\ Moves(k, "fail")
            /\ UNCHANGED <<stock, draws>>
         \/ /\ Surplus(c) >= q
            /\ draws' = [draws EXCEPT ![k] = Taken(c, q)]
            /\ stock' = [s \in StationIds |-> [stock[s] EXCEPT ![c] = @ - Taken(c, q)[s]]]
            /\ Moves(k, "post")
  /\ UNCHANGED <<trades, status, counted, ledgerVars>>

TradeTransfer(k) ==
  LET buys == trades[k].kind \in Purchases
  IN  [id |-> <<"trade", k, 0>>, amount |-> trades[k].price,
       debit |-> IF buys THEN Revenue ELSE Clearing,
       credit |-> IF buys THEN Clearing ELSE Revenue]

SettleTrade(k) ==
  /\ trader[k] = "post"
  /\ Accepts(TradeTransfer(k))
  /\ Transfer(TradeTransfer(k))
  /\ Moves(k, "finalize")
  /\ UNCHANGED <<trades, draws, stationVars>>

(* The mistake of failing the trade and keeping what it drew. *)
FailsWithoutRestore(k, isPosted) ==
  /\ trader[k] = "post"
  /\ UNCHANGED ledgerVars
  /\ Moves(k, "fail")
  /\ UNCHANGED <<trades, draws, stationVars>>

(* Transfer returns an error: refused, unreachable, or (posted) the answer to
   an accepted transfer was lost. *)
SettleFails(k, isPosted) ==
  /\ trader[k] = "post"
  /\ IF isPosted THEN Accepts(TradeTransfer(k)) /\ Transfer(TradeTransfer(k))
                 ELSE UNCHANGED ledgerVars
  /\ Moves(k, "restore")
  /\ UNCHANGED <<trades, draws, stationVars>>

(* One UPDATE per station; then the trade fails. *)
restoreSurplus(k) ==
  /\ trader[k] = "restore"
  /\ IF draws[k] = NoDraw
     THEN Moves(k, "fail") /\ UNCHANGED <<stock, draws>>
     ELSE LET s == Min({x \in StationIds : draws[k][x] > 0})
          IN  /\ stock' = Drawn(s, surplusColumn(trades[k].kind), -draws[k][s])
              /\ draws' = [draws EXCEPT ![k][s] = 0]
              /\ UNCHANGED trader
  /\ UNCHANGED <<trades, status, counted, ledgerVars>>

FailTrade(k) ==
  /\ trader[k] \in {"fail", "failLossy"}
  /\ Sets(k, "failed")
  /\ Moves(k, IF trader[k] = "fail" THEN "done" ELSE "lost")
  /\ UNCHANGED <<draws, stationVars, ledgerVars>>

FinalizeTrade(k) ==
  /\ trader[k] = "finalize"
  /\ Sets(k, "executed")
  /\ Moves(k, "done")
  /\ UNCHANGED <<draws, stationVars, ledgerVars>>

(* A restore that errs stops there and the trade is still marked failed. *)
RestoreErrs(k) ==
  /\ trader[k] = "restore"
  /\ draws[k] # NoDraw
  /\ Moves(k, "failLossy")
  /\ UNCHANGED <<trades, draws, stationVars, ledgerVars>>

TraderStops(k) ==
  /\ trader[k] \notin {"idle", "done", "lost"}
  /\ Moves(k, "lost")
  /\ UNCHANGED <<trades, draws, stationVars, ledgerVars>>

CancelTrade(k) ==
  /\ trades[k].status = "proposed"
  /\ Sets(k, "cancelled")
  /\ UNCHANGED <<trader, draws, stationVars, ledgerVars>>

TradesNext ==
  \E k \in TradeKeys :
    \/ \E kind \in Kinds, q \in Quantities, p \in Prices : ProposeTrade(k, kind, q, p)
    \/ drawDownSurplus(k)
    \/ SettleTrade(k)
    \/ \E isPosted \in BOOLEAN : SettleFails(k, isPosted)
    \/ restoreSurplus(k)
    \/ RestoreErrs(k)
    \/ FailTrade(k)
    \/ FinalizeTrade(k)
    \/ TraderStops(k)
    \/ CancelTrade(k)

(* What trades hold of a column of a station. *)
Held(s, c) ==
  LET on == {k \in TradeKeys : trades[k] # NoTrade /\ surplusColumn(trades[k].kind) = c}
  IN  MapThenSumSet(LAMBDA k : draws[k][s], on)
-----------------------------------------------------------------------------
(* An executed trade has its transfer in the ledger, and a sale holds exactly
   the quantity it sold, also when the operator cancelled it meanwhile; a trade
   that failed with every UPDATE succeeding holds nothing (CreateTrade). *)
TradesAreBacked ==
  \A k \in TradeKeys :
    /\ trades[k].status = "executed" =>
         /\ TradeTransfer(k) \in posted
         /\ DrawsSurplus(trades[k].kind) =>
              MapThenSumSet(LAMBDA s : draws[k][s], StationIds) = trades[k].quantity
    /\ trades[k].status = "failed" /\ trader[k] = "done" => draws[k] = NoDraw
=============================================================================
