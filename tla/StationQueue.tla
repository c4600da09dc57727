---------------------------- MODULE StationQueue ----------------------------
(***************************************************************************)
(* The refuelling queue of a station (infra-api handlers/queue.go).        *)
(*                                                                         *)
(* A join reads the station, counts the active entries and inserts, three  *)
(* statements of one READ COMMITTED transaction: other requests run        *)
(* between them.  Completing an entry locks it, checks the recorded        *)
(* inventory, and draws it down at commit.  The next bus is promoted by a  *)
(* separate statement after the commit, which may be lost.                 *)
(*                                                                         *)
(* joined_at is the start of the join's transaction, so an entry is named  *)
(* by a ticket drawn when the join begins: the ticket order is ORDER BY    *)
(* joined_at.                                                              *)
(***************************************************************************)
EXTENDS Stations

CONSTANTS
  Buses,
  Attendants,   \* concurrent requests on the queue
  Dispensed,    \* the amounts that are dispensed
  MaxTickets,   \* bound on the joins of a behaviour
  Idle          \* the request is not running

ASSUME QueueAssumption == Dispensed \subseteq Nat /\ MaxTickets \in Nat

VARIABLES
  tickets,   \* the joins that have begun
  queue,     \* infra.station_queue
  call       \* the request every attendant executes

queueVars == <<tickets, queue, call>>

Tickets == 1..MaxTickets
NoEntry == [status |-> "none"]
QueueEntry == [station : StationIds, bus : Buses, amount : Nat,
               status : {"waiting", "serving", "completed", "left"}]

Call ==
  [pc : {"count"}, station : StationIds, bus : Buses, ticket : Tickets]
  \union [pc : {"insert"}, station : StationIds, bus : Buses, ticket : Tickets, active : Nat]
  \union [pc : {"draw"}, station : StationIds, ticket : Tickets, amount : Nat]
  \union [pc : {"advance"}, station : StationIds]

QueueTypeOK ==
  /\ tickets \in 0..MaxTickets
  /\ queue \in [Tickets -> QueueEntry \union {NoEntry}]
  /\ call \in [Attendants -> Call \union {Idle}]

QueueInit ==
  /\ tickets = 0
  /\ queue = [t \in Tickets |-> NoEntry]
  /\ call = [w \in Attendants |-> Idle]

At(w, pc) == call[w] # Idle /\ call[w].pc = pc
Does(w, request) == call' = [call EXCEPT ![w] = request]

ActiveAt(s) ==
  {t \in Tickets : /\ queue[t].status \in {"waiting", "serving"}
                   /\ queue[t].station = s}

(* The mistake of reading the entry without FOR UPDATE. *)
NeverLocked(t) == FALSE

(* The row lock a completing transaction holds until it commits. *)
Locked(t) == \E w \in Attendants : At(w, "draw") /\ call[w].ticket = t
-----------------------------------------------------------------------------
(* JoinStationQueue *)

BeginJoin(w, s, b) ==
  /\ call[w] = Idle
  /\ tickets < MaxTickets
  /\ status[s] = "online"
  /\ tickets' = tickets + 1
  /\ Does(w, [pc |-> "count", station |-> s, bus |-> b, ticket |-> tickets + 1])
  /\ UNCHANGED <<queue, stationVars>>

CountQueue(w) ==
  /\ At(w, "count")
  /\ LET c == call[w]
     IN  Does(w, [pc |-> "insert", station |-> c.station, bus |-> c.bus,
                  ticket |-> c.ticket, active |-> Cardinality(ActiveAt(c.station))])
  /\ UNCHANGED <<tickets, queue, stationVars>>

EntryStatus(active) == IF active = 0 THEN "serving" ELSE "waiting"

(* The partial unique index refuses a second active entry of the bus. *)
InsertEntry(w) ==
  /\ At(w, "insert")
  /\ LET c == call[w]
         held == \E t \in ActiveAt(c.station) : queue[t].bus = c.bus
     IN  queue' = IF held THEN queue
                  ELSE [queue EXCEPT ![c.ticket] =
                          [station |-> c.station, bus |-> c.bus, amount |-> 0,
                           status |-> EntryStatus(c.active)]]
  /\ Does(w, Idle)
  /\ UNCHANGED <<tickets, stationVars>>
-----------------------------------------------------------------------------
(* CompleteStationQueueEntry *)

(* The entry turns completed inside the transaction, and the inventory it sees
   must cover the amount; otherwise the transaction rolls back. *)
CompleteEntry(w, t, amount) ==
  /\ call[w] = Idle
  /\ queue[t].status = "serving"
  /\ ~Locked(t)
  /\ LET s == queue[t].station
     IN  /\ amount <= stock[s][inventoryColumn(s)]
         /\ Does(w, [pc |-> "draw", station |-> s, ticket |-> t, amount |-> amount])
  /\ UNCHANGED <<tickets, queue, stationVars>>

DrawInventory(w) ==
  /\ At(w, "draw")
  /\ LET c == call[w]
     IN  /\ queue' = [queue EXCEPT ![c.ticket].status = "completed",
                                   ![c.ticket].amount = c.amount]
         /\ stock' = Drawn(c.station, inventoryColumn(c.station), c.amount)
         /\ Does(w, [pc |-> "advance", station |-> c.station])
  /\ UNCHANGED <<tickets, status, counted>>

(* LeaveStationQueue *)
LeaveQueue(w, t) ==
  /\ call[w] = Idle
  /\ queue[t].status \in {"waiting", "serving"}
  /\ ~Locked(t)
  /\ queue' = [queue EXCEPT ![t].status = "left"]
  /\ Does(w, [pc |-> "advance", station |-> queue[t].station])
  /\ UNCHANGED <<tickets, stationVars>>

Waiting(s) == {t \in ActiveAt(s) : queue[t].status = "waiting"}

(* advanceQueue promotes the longest-waiting entry, whoever is serving. *)
advanceQueue(w) ==
  /\ At(w, "advance")
  /\ LET waiting == Waiting(call[w].station)
     IN  queue' = IF waiting = {} THEN queue
                  ELSE [queue EXCEPT ![Min(waiting)].status = "serving"]
  /\ Does(w, Idle)
  /\ UNCHANGED <<tickets, stationVars>>

(* A database error or a crash: the transaction rolls back, the promotion is
   only logged. *)
RequestFails(w) ==
  /\ call[w] # Idle
  /\ Does(w, Idle)
  /\ UNCHANGED <<tickets, queue, stationVars>>
-----------------------------------------------------------------------------
QueueNext ==
  \E w \in Attendants :
    \/ \E s \in StationIds, b \in Buses : BeginJoin(w, s, b)
    \/ CountQueue(w)
    \/ InsertEntry(w)
    \/ \E t \in Tickets, a \in Dispensed : CompleteEntry(w, t, a)
    \/ DrawInventory(w)
    \/ \E t \in Tickets : LeaveQueue(w, t)
    \/ advanceQueue(w)
    \/ RequestFails(w)

(* What completed refuels took from a column of a station. *)
Refuelled(s, c) ==
  LET done == {t \in Tickets : queue[t].status = "completed" /\ queue[t].station = s}
  IN  IF c # inventoryColumn(s) THEN 0 ELSE MapThenSumSet(LAMBDA t : queue[t].amount, done)
=============================================================================
