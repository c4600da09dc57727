---------------------------- MODULE FarePayment -----------------------------
(***************************************************************************)
(* Fare payments, refunds and fare loyalty of commerce-api                 *)
(* (internal/handlers/payments.go, loyalty.go, wallets.go).                *)
(*                                                                         *)
(* A payment request runs in one database transaction under a per-rider    *)
(* advisory lock: it prices the ride (entitlement, then daily cap),        *)
(* inserts the row, posts the ledger transfer, runs the optional Mojaloop  *)
(* leg and commits the final status.  The ledger and the Mojaloop switch   *)
(* are outside the transaction: what they did stays done when it rolls     *)
(* back.  A refund takes no lock: it reads the row, posts the reversal and *)
(* then updates the row on condition that nothing changed in between.      *)
(*                                                                         *)
(* A payment is named by its idempotency key (the key is unique in         *)
(* commerce.fare_payments), a wallet by its rider.                         *)
(***************************************************************************)
EXTENDS Ledger, FiniteSets, FiniteSetsExt

CONSTANTS
  Riders, Keys, TopUpKeys,
  Operator,      \* OperatorRevenueAccount, 2001
  Funding,       \* RiderFundingAccount, 2002
  Tellers,       \* concurrent executions of CreatePayment
  Refunders,     \* concurrent executions of RefundPayment
  NoTeller,      \* nobody holds the advisory lock
  NoRequest,     \* the handler is not running
  Fares, TopUps, \* the amounts that are requested
  UseMojaloop,   \* the values of use_mojaloop that are requested
  Products,      \* the entitlement products of the tariff
  Cap,           \* FARE_DAILY_CAP_MINOR, 0 disables capping
  PointUnit,     \* minor units per loyalty point (100)
  PoolSize,      \* DB_MAX_CONNS, 32
  MaxDay         \* bound on the civic days of a behaviour

Kinds == {"free", "pass", "discount"}

ASSUME FareAssumption ==
  /\ Riders \subseteq Guarded
  /\ Operator \in Accounts \ Guarded
  /\ Funding \in Accounts \ (Guarded \union {Operator})
  /\ Keys \union TopUpKeys \subseteq Refs
  /\ NoTeller \notin Tellers
  /\ UseMojaloop \subseteq BOOLEAN
  /\ Fares \subseteq Nat \ {0} /\ TopUps \subseteq Nat \ {0}
  /\ Products \subseteq [kind : Kinds, pct : 1..100, payer : BOOLEAN]
  /\ Cap \in Nat /\ PointUnit \in Nat \ {0} /\ PoolSize \in Nat /\ MaxDay \in Nat

VARIABLES
  today,   \* the civic day
  grants,  \* the valid entitlements of every rider
  lock,    \* the holder of every rider's advisory lock
  rows,    \* commerce.fare_payments with their billing charge, committed
  quoted,  \* the keys whose quote the Mojaloop switch holds
  moved,   \* the keys whose transfer the Mojaloop switch committed
  entries, \* commerce.loyalty_ledger
  points,  \* commerce.loyalty_accounts
  pay,     \* the request every teller executes
  ref      \* the request every refunder executes

fareVars == <<today, grants, lock, rows, quoted, moved, entries, points, pay, ref>>
vars == <<fareVars, ledgerVars>>

(* mojaloop_failed stands for the five mojaloop_* statuses of PaymentStatus:
   no code tells them apart. *)
Live == {"settled", "partially_refunded"}
Final == Live \union {"refunded", "failed", "mojaloop_failed"}

NoRow == [status |-> "none"]
Row == [rider : Riders, amount : Nat, charged : Nat, covered : Nat,
        status : Final, refunded : Nat, day : 0..MaxDay]

PayRequest ==
  [pc : {"lock", "insert", "post", "quote", "transfer", "commit", "accrue"},
   key : Keys, rider : Riders, amount : Fares, ml : UseMojaloop, day : 0..MaxDay,
   charge : Nat, covered : Nat, status : Final]
RefundRequest ==
  [pc : {"post", "update", "clawback"}, key : Keys, amount : Nat, old : Nat]

LoyaltyRefs == ({"fare"} \X Keys \X {0}) \union ({"refund"} \X Keys \X Nat)
Entry == [ref : LoyaltyRefs, rider : Riders, delta : Int]

TypeOK ==
  /\ LedgerTypeOK
  /\ today \in 0..MaxDay
  /\ grants \in [Riders -> SUBSET Products]
  /\ lock \in [Riders -> Tellers \union {NoTeller}]
  /\ rows \in [Keys -> Row \union {NoRow}]
  /\ quoted \subseteq Keys /\ moved \subseteq Keys
  /\ entries \subseteq Entry
  /\ points \in [Riders -> Nat]
  /\ pay \in [Tellers -> PayRequest \union {NoRequest}]
  /\ ref \in [Refunders -> RefundRequest \union {NoRequest}]

Init ==
  /\ LedgerInit
  /\ today = 0
  /\ grants = [r \in Riders |-> {}]
  /\ lock = [r \in Riders |-> NoTeller]
  /\ rows = [k \in Keys |-> NoRow]
  /\ quoted = {} /\ moved = {} /\ entries = {}
  /\ points = [r \in Riders |-> 0]
  /\ pay = [w \in Tellers |-> NoRequest]
  /\ ref = [w \in Refunders |-> NoRequest]
-----------------------------------------------------------------------------
(* The pool of database connections: a payment holds one from BEGIN to the end
   of its transaction, and riderAccount, called inside it, wants another. *)
InTransaction(w) == pay[w] # NoRequest /\ pay[w].pc # "accrue"
ConnectionFree == Cardinality({w \in Tellers : InTransaction(w)}) < PoolSize

(* The environment: midnight, entitlements granted and lapsing, top-ups. *)

NextDay ==
  /\ today < MaxDay
  /\ today' = today + 1
  /\ UNCHANGED <<ledgerVars, grants, lock, rows, quoted, moved, entries, points, pay, ref>>

GrantEntitlement(r, p) ==
  /\ p \notin grants[r]
  /\ grants' = [grants EXCEPT ![r] = @ \union {p}]
  /\ UNCHANGED <<ledgerVars, today, lock, rows, quoted, moved, entries, points, pay, ref>>

LapseEntitlement(r, p) ==
  /\ p \in grants[r]
  /\ grants' = [grants EXCEPT ![r] = @ \ {p}]
  /\ UNCHANGED <<ledgerVars, today, lock, rows, quoted, moved, entries, points, pay, ref>>

TopUpTransfer(k, r, a) ==
  [id |-> <<"topup", k, 0>>, debit |-> Funding, credit |-> r, amount |-> a]

TopUpWallet(k, r, a) ==
  LET t == TopUpTransfer(k, r, a)
  IN  /\ ConnectionFree
      /\ Accepts(t) /\ t \notin posted
      /\ Transfer(t)
      /\ UNCHANGED fareVars
-----------------------------------------------------------------------------
(* CreatePayment. *)

Max2(a, b) == IF a >= b THEN a ELSE b
Min2(a, b) == IF a <= b THEN a ELSE b

Discounted(amount, pct) == (amount * (100 - pct)) \div 100

(* resolveEntitlement: what it may return, as the rows come in any order. *)
resolveEntitlement(r, amount) ==
  LET full == {p \in grants[r] : p.kind \in {"free", "pass"}}
      best == {p \in grants[r] : \A q \in grants[r] : q.pct <= p.pct}
  IN  IF full # {} THEN {[charge |-> 0, payer |-> p.payer] : p \in full}
      ELSE IF best # {}
           THEN {[charge |-> Discounted(amount, p.pct), payer |-> p.payer] : p \in best}
           ELSE {[charge |-> amount, payer |-> FALSE]}

Charged(k) == rows[k].charged

SettledSince(r, day) ==
  {k \in Keys : rows[k] # NoRow /\ rows[k].rider = r
                /\ rows[k].status = "settled" /\ rows[k].day >= day}

spentToday(r, day) == MapThenSumSet(Charged, SettledSince(r, day))

CapCharge(r, day, charge) ==
  IF Cap > 0 /\ charge > 0 THEN Min2(charge, Max2(Cap - spentToday(r, day), 0))
  ELSE charge

(* BEGIN: now() is the start of the transaction, before the lock is held. *)
BeginPayment(w, k, r, a, ml) ==
  /\ pay[w] = NoRequest
  /\ ConnectionFree
  /\ pay' = [pay EXCEPT ![w] =
       [pc |-> "lock", key |-> k, rider |-> r, amount |-> a, ml |-> ml, day |-> today,
        charge |-> a, covered |-> 0, status |-> "settled"]]
  /\ UNCHANGED <<ledgerVars, today, grants, lock, rows, quoted, moved, entries, points, ref>>

LockNotTaken(w) == TRUE
LockIsFree(w) == lock[pay[w].rider] = NoTeller

(* pg_advisory_xact_lock, resolveEntitlement, the cap query. *)
PricePayment(w) ==
  /\ pay[w] # NoRequest /\ pay[w].pc = "lock"
  /\ LockIsFree(w)
  /\ lock' = [lock EXCEPT ![pay[w].rider] = w]
  /\ \E e \in resolveEntitlement(pay[w].rider, pay[w].amount) :
       \E c \in 0..e.charge :
         /\ c = CapCharge(pay[w].rider, pay[w].day, e.charge)
         /\ pay' = [pay EXCEPT ![w] = [@ EXCEPT
              !.pc = "insert", !.charge = c,
              !.covered = IF e.payer THEN pay[w].amount - c ELSE 0]]
  /\ UNCHANGED <<ledgerVars, today, grants, rows, quoted, moved, entries, points, ref>>

LockKept(w) == lock

(* The transaction of w ends: its advisory lock is released. *)
Unlock(w) == [r \in Riders |-> IF lock[r] = w THEN NoTeller ELSE lock[r]]

(* The unique index makes an insert wait for an uncommitted row of its key. *)
Inserted(w) == pay[w] # NoRequest /\ pay[w].pc \in {"post", "quote", "transfer", "commit"}
KeyIsFree(k) == \A v \in Tellers : Inserted(v) => pay[v].key # k

InsertPayment(w) ==
  /\ pay[w] # NoRequest /\ pay[w].pc = "insert"
  /\ KeyIsFree(pay[w].key)
  /\ rows[pay[w].key] = NoRow
  /\ pay' = [pay EXCEPT ![w].pc = "post"]
  /\ UNCHANGED <<ledgerVars, today, grants, lock, rows, quoted, moved, entries, points, ref>>

(* unique_violation: the committed payment is returned, the transaction ends. *)
ReplayPayment(w) ==
  /\ pay[w] # NoRequest /\ pay[w].pc = "insert"
  /\ rows[pay[w].key] # NoRow
  /\ ConnectionFree
  /\ pay' = [pay EXCEPT ![w] = NoRequest]
  /\ lock' = Unlock(w)
  /\ UNCHANGED <<ledgerVars, today, grants, rows, quoted, moved, entries, points, ref>>

FareTransfer(w) ==
  [id |-> <<"fare", pay[w].key, 0>>, debit |-> pay[w].rider, credit |-> Operator,
   amount |-> pay[w].charge]

AfterPost(w) == IF pay[w].ml THEN "quote" ELSE "commit"

(* A ride with charge 0 settles without a posting. *)
SkipPosting(w) ==
  /\ pay[w] # NoRequest /\ pay[w].pc = "post"
  /\ pay[w].charge = 0
  /\ pay' = [pay EXCEPT ![w].pc = AfterPost(w)]
  /\ UNCHANGED <<ledgerVars, today, grants, lock, rows, quoted, moved, entries, points, ref>>

PostFare(w) ==
  /\ pay[w] # NoRequest /\ pay[w].pc = "post"
  /\ ConnectionFree
  /\ pay[w].charge > 0
  /\ Accepts(FareTransfer(w))
  /\ Transfer(FareTransfer(w))
  /\ pay' = [pay EXCEPT ![w].pc = AfterPost(w)]
  /\ UNCHANGED <<today, grants, lock, rows, quoted, moved, entries, points, ref>>

RefusalIgnored(w) ==
  /\ pay[w] # NoRequest /\ pay[w].pc = "post"
  /\ ConnectionFree
  /\ pay[w].charge > 0
  /\ pay' = [pay EXCEPT ![w].pc = AfterPost(w)]
  /\ UNCHANGED <<ledgerVars, today, grants, lock, rows, quoted, moved, entries, points, ref>>

(* The ledger refuses the transfer, or cannot be reached. *)
FareRefused(w) ==
  /\ pay[w] # NoRequest /\ pay[w].pc = "post"
  /\ ConnectionFree
  /\ pay[w].charge > 0
  /\ pay' = [pay EXCEPT ![w] = [@ EXCEPT !.pc = "commit", !.status = "failed"]]
  /\ UNCHANGED <<ledgerVars, today, grants, lock, rows, quoted, moved, entries, points, ref>>

(* GET /parties and POST /quotes.  A quote id the switch knows already is
   answered 409, which the client does not treat as a replay. *)
MojaloopQuote(w) ==
  /\ pay[w] # NoRequest /\ pay[w].pc = "quote"
  /\ pay[w].charge > 0
  /\ pay[w].key \notin quoted
  /\ quoted' = quoted \union {pay[w].key}
  /\ pay' = [pay EXCEPT ![w].pc = "transfer"]
  /\ UNCHANGED <<ledgerVars, today, grants, lock, rows, moved, entries, points, ref>>

(* Validation of a zero amount, and every failure of the two calls; a quote
   whose answer is lost is held by the switch all the same. *)
QuoteFails(w) ==
  /\ pay[w] # NoRequest /\ pay[w].pc = "quote"
  /\ pay' = [pay EXCEPT ![w] = [@ EXCEPT !.pc = "commit",
       !.status = IF pay[w].charge = 0 THEN "failed" ELSE "mojaloop_failed"]]
  /\ \/ quoted' = quoted
     \/ pay[w].charge > 0 /\ quoted' = quoted \union {pay[w].key}
  /\ UNCHANGED <<ledgerVars, today, grants, lock, rows, moved, entries, points, ref>>

(* POST /transfers; a duplicate transfer id counts as a success. *)
MojaloopTransfer(w) ==
  /\ pay[w] # NoRequest /\ pay[w].pc = "transfer"
  /\ moved' = moved \union {pay[w].key}
  /\ pay' = [pay EXCEPT ![w].pc = "commit"]
  /\ UNCHANGED <<ledgerVars, today, grants, lock, rows, quoted, entries, points, ref>>

(* Rejected, unavailable, or timed out with the switch having committed it. *)
TransferFails(w) ==
  /\ pay[w] # NoRequest /\ pay[w].pc = "transfer"
  /\ pay' = [pay EXCEPT ![w] = [@ EXCEPT !.pc = "commit", !.status = "mojaloop_failed"]]
  /\ moved' \in {moved, moved \union {pay[w].key}}
  /\ UNCHANGED <<ledgerVars, today, grants, lock, rows, quoted, entries, points, ref>>

CommitPayment(w) ==
  /\ pay[w] # NoRequest /\ pay[w].pc = "commit"
  /\ rows' = [rows EXCEPT ![pay[w].key] =
       [rider |-> pay[w].rider, amount |-> pay[w].amount, charged |-> pay[w].charge,
        covered |-> pay[w].covered, status |-> pay[w].status, refunded |-> 0,
        day |-> pay[w].day]]
  /\ lock' = Unlock(w)
  /\ pay' = IF pay[w].status = "settled" THEN [pay EXCEPT ![w].pc = "accrue"]
            ELSE [pay EXCEPT ![w] = NoRequest]
  /\ UNCHANGED <<ledgerVars, today, grants, quoted, moved, entries, points, ref>>

KnownRef(id) == \E e \in entries : e.ref = id

(* accrueLoyaltyPoints: ON CONFLICT (ref_id) DO NOTHING. *)
AccruePoints(w) ==
  LET earned == pay[w].charge \div PointUnit
      id == <<"fare", pay[w].key, 0>>
  IN  /\ pay[w] # NoRequest /\ pay[w].pc = "accrue"
      /\ ConnectionFree
      /\ IF earned > 0 /\ ~KnownRef(id)
         THEN /\ entries' = entries \union {[ref |-> id, rider |-> pay[w].rider, delta |-> earned]}
              /\ points' = [points EXCEPT ![pay[w].rider] = @ + earned]
         ELSE UNCHANGED <<entries, points>>
      /\ pay' = [pay EXCEPT ![w] = NoRequest]
      /\ UNCHANGED <<ledgerVars, today, grants, lock, rows, quoted, moved, ref>>

(* The process dies, the client goes away (its context cancels every later
   statement) or a statement fails: the transaction rolls back. *)
AbortPayment(w) ==
  /\ pay[w] # NoRequest
  /\ pay' = [pay EXCEPT ![w] = NoRequest]
  /\ lock' = Unlock(w)
  /\ UNCHANGED <<ledgerVars, today, grants, rows, quoted, moved, entries, points, ref>>
-----------------------------------------------------------------------------
(* RefundPayment. *)

Remainder(k) == Max2(rows[k].charged - rows[k].refunded, 0)

(* The row is read without a lock; amount is the body's amount_minor, or the
   whole remainder (which is 0 for a fully covered ride). *)
ReadForRefund(w, k) ==
  /\ ref[w] = NoRequest
  /\ ConnectionFree
  /\ rows[k].status \in Live
  /\ \E amount \in (1..Remainder(k)) \union {Remainder(k)} :
       ref' = [ref EXCEPT ![w] =
         [pc |-> "post", key |-> k, amount |-> amount, old |-> rows[k].refunded]]
  /\ UNCHANGED <<ledgerVars, today, grants, lock, rows, quoted, moved, entries, points, pay>>

newTotal(w) == ref[w].old + ref[w].amount

RefundWithoutTotal(w) ==
  [id |-> <<"refund", ref[w].key, 0>>, debit |-> Operator,
   credit |-> rows[ref[w].key].rider, amount |-> ref[w].amount]

RefundTransfer(w) ==
  [id |-> <<"refund", ref[w].key, newTotal(w)>>, debit |-> Operator,
   credit |-> rows[ref[w].key].rider, amount |-> ref[w].amount]

SkipReversal(w) ==
  /\ ref[w] # NoRequest /\ ref[w].pc = "post"
  /\ ref[w].amount = 0
  /\ ref' = [ref EXCEPT ![w].pc = "update"]
  /\ UNCHANGED <<ledgerVars, today, grants, lock, rows, quoted, moved, entries, points, pay>>

PostReversal(w) ==
  /\ ref[w] # NoRequest /\ ref[w].pc = "post"
  /\ ConnectionFree
  /\ ref[w].amount > 0
  /\ Accepts(RefundTransfer(w))
  /\ Transfer(RefundTransfer(w))
  /\ ref' = [ref EXCEPT ![w].pc = "update"]
  /\ UNCHANGED <<today, grants, lock, rows, quoted, moved, entries, points, pay>>

(* The mistake of an update that names the payment and nothing else. *)
StillThere(w) == rows[ref[w].key] # NoRow

(* The row is what was read: the WHERE clause of the update. *)
Unrefunded(w) ==
  LET row == rows[ref[w].key] IN row.status \in Live /\ row.refunded = ref[w].old

UpdateRefunded(w) ==
  /\ ref[w] # NoRequest /\ ref[w].pc = "update"
  /\ ConnectionFree
  /\ Unrefunded(w)
  /\ rows' = [rows EXCEPT ![ref[w].key] = [@ EXCEPT
       !.refunded = newTotal(w),
       !.status = IF newTotal(w) >= rows[ref[w].key].charged
                  THEN "refunded" ELSE "partially_refunded"]]
  /\ ref' = [ref EXCEPT ![w].pc = "clawback"]
  /\ UNCHANGED <<ledgerVars, today, grants, lock, quoted, moved, entries, points, pay>>

(* The concurrent refund won: 409, and the reversal stays posted. *)
LostRefundRace(w) ==
  /\ ref[w] # NoRequest /\ ref[w].pc = "update"
  /\ ConnectionFree
  /\ ~Unrefunded(w)
  /\ ref' = [ref EXCEPT ![w] = NoRequest]
  /\ UNCHANGED <<ledgerVars, today, grants, lock, rows, quoted, moved, entries, points, pay>>

(* The ledger refuses the reversal, or cannot be reached: 500. *)
ReversalRefused(w) ==
  /\ ref[w] # NoRequest /\ ref[w].pc = "post"
  /\ ConnectionFree
  /\ ref[w].amount > 0
  /\ ref' = [ref EXCEPT ![w] = NoRequest]
  /\ UNCHANGED <<ledgerVars, today, grants, lock, rows, quoted, moved, entries, points, pay>>

ClawBackUnfloored(b, lost) == b - lost
AfterClawBack(b, lost) == Max2(b - lost, 0)
LossRoundedUp(w) == (ref[w].amount + PointUnit - 1) \div PointUnit
LostPoints(w) == ref[w].amount \div PointUnit

(* clawbackLoyaltyPoints: the balance is floored at 0. *)
ClawBackPoints(w) ==
  LET lost == LostPoints(w)
      id == <<"refund", ref[w].key, newTotal(w)>>
      r == rows[ref[w].key].rider
  IN  /\ ref[w] # NoRequest /\ ref[w].pc = "clawback"
      /\ ConnectionFree
      /\ IF lost > 0 /\ ~KnownRef(id)
         THEN /\ entries' = entries \union {[ref |-> id, rider |-> r, delta |-> -lost]}
              /\ points' = [points EXCEPT ![r] = AfterClawBack(@, lost)]
         ELSE UNCHANGED <<entries, points>>
      /\ ref' = [ref EXCEPT ![w] = NoRequest]
      /\ UNCHANGED <<ledgerVars, today, grants, lock, rows, quoted, moved, pay>>

(* A statement fails, the client goes away, or the process dies. *)
AbortRefund(w) ==
  /\ ref[w] # NoRequest
  /\ ref' = [ref EXCEPT ![w] = NoRequest]
  /\ UNCHANGED <<ledgerVars, today, grants, lock, rows, quoted, moved, entries, points, pay>>
-----------------------------------------------------------------------------
Teller(w) ==
  \/ PricePayment(w) \/ InsertPayment(w) \/ ReplayPayment(w)
  \/ SkipPosting(w) \/ PostFare(w) \/ FareRefused(w)
  \/ MojaloopQuote(w) \/ QuoteFails(w) \/ MojaloopTransfer(w) \/ TransferFails(w)
  \/ CommitPayment(w) \/ AccruePoints(w)

Refunder(w) ==
  \/ SkipReversal(w) \/ PostReversal(w) \/ ReversalRefused(w)
  \/ UpdateRefunded(w) \/ LostRefundRace(w) \/ ClawBackPoints(w)

Environment ==
  \/ NextDay
  \/ \E r \in Riders, p \in Products : GrantEntitlement(r, p) \/ LapseEntitlement(r, p)
  \/ \E k \in TopUpKeys, r \in Riders, a \in TopUps : TopUpWallet(k, r, a)
  \/ \E w \in Tellers, k \in Keys, r \in Riders, a \in Fares, ml \in UseMojaloop :
        BeginPayment(w, k, r, a, ml)
  \/ \E w \in Refunders, k \in Keys : ReadForRefund(w, k)
  \/ \E w \in Tellers : AbortPayment(w)
  \/ \E w \in Refunders : AbortRefund(w)

Next ==
  \/ Environment
  \/ \E w \in Tellers : Teller(w)
  \/ \E w \in Refunders : Refunder(w)

Spec == Init /\ [][Next]_vars

(* A handler that can take its next step does so.  The waits for the advisory
   lock and for the unique index are fair, as PostgreSQL queues its waiters.
   The 30 s timeout of a request (an abort) is not relied on. *)
FairSpec ==
  /\ Spec
  /\ \A w \in Tellers : SF_vars(Teller(w))
  /\ \A w \in Refunders : WF_vars(Refunder(w))
-----------------------------------------------------------------------------
Recorded(k) == rows[k] # NoRow
Paid == Live \union {"refunded"}
TransferAmount(t) == t.amount
RefundTransfers(k) == {t \in posted : t.id[1] = "refund" /\ t.id[2] = k}
RefundedOnLedger(k) == MapThenSumSet(TransferAmount, RefundTransfers(k))

(* A recorded payment that settled with a charge is backed by one ledger
   transfer of exactly that charge out of the wallet of its own rider,
   whatever crashed, was retried or was repriced before (payments.go 326-352,
   377-388: the status is committed after the posting). *)
SettledFareIsPosted ==
  \A k \in Keys : Recorded(k) /\ rows[k].status \in Paid /\ rows[k].charged > 0 =>
    [id |-> <<"fare", k, 0>>, debit |-> rows[k].rider, credit |-> Operator,
     amount |-> rows[k].charged] \in posted

(* The charges of a rider's settled payments of one civic day never exceed
   the cap, however many taps race (payments.go 212-219, 241-259). *)
SettledWithinCap ==
  Cap > 0 => \A r \in Riders, d \in 0..MaxDay :
    MapThenSumSet(Charged, {k \in SettledSince(r, d) : rows[k].day = d}) <= Cap

(* A recorded refund total never exceeds the charge and was really returned
   to the wallet: the reversals posted for the payment add up to at least
   that total (payments.go 607-638). *)
RefundsAreBacked ==
  \A k \in Keys : Recorded(k) =>
    /\ rows[k].refunded <= rows[k].charged
    /\ rows[k].refunded <= RefundedOnLedger(k)

Delta(e) == e.delta
EntriesOf(r) == {e \in entries : e.rider = r}
Awards(r) == {e \in EntriesOf(r) : e.delta > 0}
ClawBacks(k) == {e \in entries : e.ref[1] = "refund" /\ e.ref[2] = k}

(* Fare points: every award is the full euros of a committed charge; the
   clawbacks of a payment never take back more than it earned; and a balance
   lies between the sum of its audit trail and the sum of its awards, as the
   floor at 0 only ever favours the rider (loyalty.go 46-118). *)
PointsFollowPayments ==
  /\ \A e \in entries : e.ref[1] = "fare" =>
       Recorded(e.ref[2]) /\ e.delta = rows[e.ref[2]].charged \div PointUnit
  /\ \A k \in Keys : Recorded(k) =>
       MapThenSumSet(LAMBDA e : -e.delta, ClawBacks(k)) <= rows[k].charged \div PointUnit
  /\ \A r \in Riders :
       MapThenSumSet(Delta, EntriesOf(r)) <= points[r]
         /\ points[r] <= MapThenSumSet(Delta, Awards(r))

FareId(k) == <<"fare", k, 0>>

(* What the wallet was debited for a key, and its recorded outcome. *)
DebitedFor(k) ==
  IF KnownId(FareId(k)) THEN (CHOOSE t \in posted : t.id = FareId(k)).amount ELSE 0

Outcome(k) ==
  IF Recorded(k)
  THEN [state |-> IF rows[k].status = "mojaloop_failed" THEN "failed" ELSE rows[k].status,
        charged |-> rows[k].charged, refunded |-> rows[k].refunded]
  ELSE [state |-> "none", charged |-> 0, refunded |-> 0]

Contract == INSTANCE FareContract WITH
  paid <- [k \in Keys |-> DebitedFor(k)],
  fare <- [k \in Keys |-> Outcome(k)]

(* The payment paths implement FareContract: one debit per key, one recorded
   outcome, settled only for exactly what was debited, refunds that only
   grow and stay within the charge. *)
ImplementsContract == Contract!Spec

(* Every started request ends without its timeout, given more connections
   than payments at a time: no path leaves a rider's lock or a key taken, and
   the lock and the unique index never wait for each other in a cycle. *)
RequestsFinish ==
  /\ \A w \in Tellers : (pay[w] # NoRequest) ~> (pay[w] = NoRequest)
  /\ \A w \in Refunders : (ref[w] # NoRequest) ~> (ref[w] = NoRequest)
-----------------------------------------------------------------------------
(* What the comments claim beyond that. *)

(* payments.go 551-554: "a retried refund of the same step cannot
   double-post, and the conditional UPDATE guards the remainder against
   concurrent refunds": the reversals of a payment never return more than it
   charged. *)
RefundWithinCharge ==
  \A k \in Keys : Recorded(k) => RefundedOnLedger(k) <= rows[k].charged
=============================================================================
