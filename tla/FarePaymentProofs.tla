------------------------- MODULE FarePaymentProofs --------------------------
(***************************************************************************)
(* What FarePayment guarantees for any number of riders, keys, tellers and *)
(* refunders, any tariff and any cap.                                      *)
(***************************************************************************)
EXTENDS FareTypeProofs

(* The ledger never holds two transfers with one id. *)
UniqueIds == \A t, u \in posted : t.id = u.id => t = u

(* A payment in flight: its row is not committed while it holds its key, and
   from the posting on it stands for what the ledger did. *)
PaymentsBacked ==
  \A w \in Tellers : pay[w] # NoRequest =>
    /\ pay[w].status \in {"settled", "failed", "mojaloop_failed"}
    /\ pay[w].pc # "commit" => pay[w].status = "settled"
    /\ Inserted(w) => rows[pay[w].key] = NoRow
    /\ pay[w].pc \in {"quote", "transfer", "commit"} /\ pay[w].status # "failed"
         /\ pay[w].charge > 0 => FareTransfer(w) \in posted

(* An uncommitted row is the only one of its key. *)
KeysOwned ==
  \A v, w \in Tellers : Inserted(v) /\ Inserted(w) /\ pay[v].key = pay[w].key => v = w

(* A recorded refund total is within the charge; a payment that may still be
   refunded has something left to refund, unless it cost nothing. *)
RefundsBounded ==
  \A k \in Keys : Recorded(k) =>
    /\ rows[k].refunded <= rows[k].charged
    /\ rows[k].status \in Live => rows[k].refunded < rows[k].charged \/ rows[k].charged = 0

IndInv ==
  /\ TypeOK /\ UniqueIds /\ PaymentsBacked /\ KeysOwned
  /\ RefundsBounded /\ SettledFareIsPosted /\ RefundsFit

(* Nothing is recorded, posted or requested at the start. *)
LEMMA IndInit == Init => IndInv
  BY TypeInit DEF Init, LedgerInit, IndInv, UniqueIds, PaymentsBacked, KeysOwned, RefundsBounded,
     SettledFareIsPosted, RefundsFit, Inserted, Recorded, NoRow

(* An accepted transfer only adds to the ledger and keeps the ids unique. *)
LEMMA TransferUnique ==
  ASSUME UniqueIds, NEW t, Accepts(t), Transfer(t)
  PROVE  UniqueIds' /\ posted \subseteq posted' /\ t \in posted'
  BY DEF UniqueIds, Accepts, Transfer, KnownId

(* Every step keeps the transfers that are posted, and their ids unique. *)
LEMMA LedgerStep ==
  ASSUME UniqueIds, [Next]_vars
  PROVE  UniqueIds' /\ posted \subseteq posted'
<1>1. ASSUME NEW k \in TopUpKeys, NEW r \in Riders, NEW a \in TopUps, TopUpWallet(k, r, a)
      PROVE  UniqueIds' /\ posted \subseteq posted'
  BY <1>1, TransferUnique DEF TopUpWallet
<1>2. ASSUME NEW w \in Tellers, PostFare(w)
      PROVE  UniqueIds' /\ posted \subseteq posted'
  BY <1>2, TransferUnique DEF PostFare
<1>3. ASSUME NEW w \in Refunders, PostReversal(w)
      PROVE  UniqueIds' /\ posted \subseteq posted'
  BY <1>3, TransferUnique DEF PostReversal
<1>4. CASE posted' = posted
  BY <1>4 DEF UniqueIds
<1> QED BY <1>1, <1>2, <1>3, <1>4, ZenonT(40) DEF Next, Environment, Teller, Refunder, vars, ledgerVars, NextDay,
     GrantEntitlement, LapseEntitlement, BeginPayment, ReadForRefund, PricePayment, InsertPayment, ReplayPayment, SkipPosting, FareRefused, MojaloopQuote, QuoteFails, MojaloopTransfer, TransferFails, CommitPayment, AccruePoints, AbortPayment, SkipReversal, ReversalRefused, UpdateRefunded, LostRefundRace, ClawBackPoints, AbortRefund
-----------------------------------------------------------------------------
(* A step that leaves the rows alone keeps what is said of them. *)
LEMMA RowsFrame ==
  ASSUME IndInv, rows' = rows, posted \subseteq posted'
  PROVE  /\ RefundsBounded' /\ SettledFareIsPosted'
         /\ ref' = ref => RefundsFit'
         /\ pay' = pay => PaymentsBacked' /\ KeysOwned'
<1>1. RefundsBounded' BY DEF IndInv, RefundsBounded, Recorded
<1>2. SettledFareIsPosted' BY DEF IndInv, SettledFareIsPosted, Recorded
<1>3. ref' = ref => RefundsFit' BY DEF IndInv, RefundsFit, Recorded, newTotal
<1>4. pay' = pay => PaymentsBacked' BY DEF IndInv, PaymentsBacked, Inserted, FareTransfer
<1>5. pay' = pay => KeysOwned' BY DEF IndInv, KeysOwned, Inserted
<1> QED BY <1>1, <1>2, <1>3, <1>4, <1>5

(* A request that ends without a commit leaves the others as they were. *)
LEMMA RequestEnds ==
  ASSUME IndInv, NEW w \in Tellers, pay' = [pay EXCEPT ![w] = NoRequest],
         rows' = rows, posted \subseteq posted'
  PROVE  PaymentsBacked' /\ KeysOwned'
<1>1. pay'[w] = NoRequest /\ \A v \in Tellers \ {w} : pay'[v] = pay[v]
  BY DEF IndInv, TypeOK
<1>2. PaymentsBacked' BY <1>1 DEF IndInv, PaymentsBacked, Inserted, FareTransfer
<1>3. KeysOwned' BY <1>1 DEF IndInv, KeysOwned, Inserted
<1> QED BY <1>2, <1>3

(* What a payment in flight is after every step of its handler. *)
LEMMA TellerStep ==
  ASSUME IndInv, posted \subseteq posted', NEW w \in Tellers, rows' = rows
  PROVE  /\ (\E k \in Keys, r \in Riders, a \in Fares, ml \in UseMojaloop :
               BeginPayment(w, k, r, a, ml)) => PaymentsBacked' /\ KeysOwned'
         /\ PricePayment(w) => PaymentsBacked' /\ KeysOwned'
         /\ InsertPayment(w) => PaymentsBacked' /\ KeysOwned'
         /\ SkipPosting(w) => PaymentsBacked' /\ KeysOwned'
         /\ PostFare(w) => PaymentsBacked' /\ KeysOwned'
         /\ FareRefused(w) => PaymentsBacked' /\ KeysOwned'
         /\ MojaloopQuote(w) => PaymentsBacked' /\ KeysOwned'
         /\ QuoteFails(w) => PaymentsBacked' /\ KeysOwned'
         /\ MojaloopTransfer(w) => PaymentsBacked' /\ KeysOwned'
         /\ TransferFails(w) => PaymentsBacked' /\ KeysOwned'
<1> DEFINE OthersKept == \A v \in Tellers \ {w} : pay'[v] = pay[v]
<1>1. ASSUME NEW k \in Keys, NEW r \in Riders, NEW a \in Fares, NEW ml \in UseMojaloop,
             BeginPayment(w, k, r, a, ml)
      PROVE  PaymentsBacked' /\ KeysOwned'
  <2>0. pay'[w].pc = "lock" /\ pay'[w].status = "settled"
    BY <1>1 DEF BeginPayment, IndInv, TypeOK
  <2>1. OthersKept BY <1>1 DEF BeginPayment, IndInv, TypeOK
  <2>2. PaymentsBacked'
    BY <2>0, <2>1 DEF IndInv, PaymentsBacked, Inserted, FareTransfer
  <2>3. KeysOwned' BY <2>0, <2>1 DEF IndInv, KeysOwned, Inserted
  <2> QED BY <2>2, <2>3
<1>2. ASSUME PricePayment(w) PROVE PaymentsBacked' /\ KeysOwned'
  <2>1. OthersKept BY <1>2 DEF PricePayment, IndInv, TypeOK
  <2>2. PaymentsBacked'
    BY <1>2, <2>1, SMTT(30) DEF PricePayment, IndInv, TypeOK, PaymentsBacked, Inserted, FareTransfer
  <2>3. KeysOwned' BY <1>2, <2>1 DEF PricePayment, IndInv, TypeOK, KeysOwned, Inserted
  <2> QED BY <2>2, <2>3
<1>3. ASSUME InsertPayment(w) PROVE PaymentsBacked' /\ KeysOwned'
  <2>0. /\ pay'[w].pc = "post" /\ pay'[w].status = pay[w].status
        /\ pay'[w].key = pay[w].key /\ pay'[w].rider = pay[w].rider /\ pay'[w].charge = pay[w].charge
    BY <1>3 DEF InsertPayment, IndInv, TypeOK, PayRequest
  <2>1. OthersKept BY <1>3 DEF InsertPayment, IndInv, TypeOK
  <2>2. PaymentsBacked'
    BY <1>3, <2>0, <2>1 DEF InsertPayment, IndInv, PaymentsBacked, Inserted, FareTransfer
  <2>3. KeysOwned' BY <1>3, <2>0, <2>1 DEF InsertPayment, KeyIsFree, IndInv, KeysOwned, Inserted
  <2> QED BY <2>2, <2>3
<1>4. ASSUME SkipPosting(w) PROVE PaymentsBacked' /\ KeysOwned'
  <2>1. OthersKept BY <1>4 DEF SkipPosting, IndInv, TypeOK
  <2>2. PaymentsBacked'
    BY <1>4, <2>1, SMTT(30) DEF SkipPosting, AfterPost, IndInv, TypeOK, PaymentsBacked, Inserted, FareTransfer
  <2>3. KeysOwned' BY <1>4, <2>1 DEF SkipPosting, AfterPost, IndInv, TypeOK, KeysOwned, Inserted
  <2> QED BY <2>2, <2>3
<1>5. ASSUME PostFare(w) PROVE PaymentsBacked' /\ KeysOwned'
  <2>1. OthersKept BY <1>5 DEF PostFare, IndInv, TypeOK
  <2>2. PaymentsBacked'
    BY <1>5, <2>1, TransferUnique, SMTT(30) DEF PostFare, AfterPost, IndInv, TypeOK, PaymentsBacked, Inserted, FareTransfer
  <2>3. KeysOwned' BY <1>5, <2>1 DEF PostFare, AfterPost, IndInv, TypeOK, KeysOwned, Inserted
  <2> QED BY <2>2, <2>3
<1>6. ASSUME FareRefused(w) PROVE PaymentsBacked' /\ KeysOwned'
  <2>1. OthersKept BY <1>6 DEF FareRefused, IndInv, TypeOK
  <2>2. PaymentsBacked'
    BY <1>6, <2>1 DEF FareRefused, IndInv, TypeOK, PaymentsBacked, Inserted, FareTransfer
  <2>3. KeysOwned' BY <1>6, <2>1 DEF FareRefused, IndInv, TypeOK, KeysOwned, Inserted
  <2> QED BY <2>2, <2>3
<1>7. ASSUME MojaloopQuote(w) PROVE PaymentsBacked' /\ KeysOwned'
  <2>0. /\ pay'[w].pc = "transfer" /\ pay'[w].status = pay[w].status
        /\ pay'[w].key = pay[w].key /\ pay'[w].rider = pay[w].rider /\ pay'[w].charge = pay[w].charge
    BY <1>7 DEF MojaloopQuote, IndInv, TypeOK, PayRequest
  <2>1. OthersKept BY <1>7 DEF MojaloopQuote, IndInv, TypeOK
  <2>2. PaymentsBacked'
    BY <1>7, <2>0, <2>1 DEF MojaloopQuote, IndInv, PaymentsBacked, Inserted, FareTransfer
  <2>3. KeysOwned' BY <1>7, <2>0, <2>1 DEF MojaloopQuote, IndInv, KeysOwned, Inserted
  <2> QED BY <2>2, <2>3
<1>8. ASSUME QuoteFails(w) PROVE PaymentsBacked' /\ KeysOwned'
  <2>1. OthersKept BY <1>8 DEF QuoteFails, IndInv, TypeOK
  <2>2. PaymentsBacked'
    BY <1>8, <2>1 DEF QuoteFails, IndInv, TypeOK, PaymentsBacked, Inserted, FareTransfer
  <2>3. KeysOwned' BY <1>8, <2>1 DEF QuoteFails, IndInv, TypeOK, KeysOwned, Inserted
  <2> QED BY <2>2, <2>3
<1>9. ASSUME MojaloopTransfer(w) PROVE PaymentsBacked' /\ KeysOwned'
  <2>0. /\ pay'[w].pc = "commit" /\ pay'[w].status = pay[w].status
        /\ pay'[w].key = pay[w].key /\ pay'[w].rider = pay[w].rider /\ pay'[w].charge = pay[w].charge
    BY <1>9 DEF MojaloopTransfer, IndInv, TypeOK, PayRequest
  <2>1. OthersKept BY <1>9 DEF MojaloopTransfer, IndInv, TypeOK
  <2>2. PaymentsBacked'
    BY <1>9, <2>0, <2>1 DEF MojaloopTransfer, IndInv, PaymentsBacked, Inserted, FareTransfer
  <2>3. KeysOwned' BY <1>9, <2>0, <2>1 DEF MojaloopTransfer, IndInv, KeysOwned, Inserted
  <2> QED BY <2>2, <2>3
<1>10. ASSUME TransferFails(w) PROVE PaymentsBacked' /\ KeysOwned'
  <2>1. OthersKept BY <1>10 DEF TransferFails, IndInv, TypeOK
  <2>2. PaymentsBacked'
    BY <1>10, <2>1 DEF TransferFails, IndInv, TypeOK, PaymentsBacked, Inserted, FareTransfer
  <2>3. KeysOwned' BY <1>10, <2>1 DEF TransferFails, IndInv, TypeOK, KeysOwned, Inserted
  <2> QED BY <2>2, <2>3
<1> QED BY <1>1, <1>2, <1>3, <1>4, <1>5, <1>6, <1>7, <1>8, <1>9, <1>10

(* CommitPayment records the payment for which its ledger posting stands. *)
LEMMA CommitStep ==
  ASSUME IndInv, NEW w \in Tellers, CommitPayment(w)
  PROVE  /\ PaymentsBacked' /\ KeysOwned'
         /\ RefundsBounded' /\ SettledFareIsPosted' /\ RefundsFit'
<1> DEFINE k == pay[w].key
<1>1. /\ pay[w] \in PayRequest /\ k \in Keys /\ pay[w].charge \in Nat
      /\ Inserted(w) /\ rows[k] = NoRow
  BY DEF CommitPayment, IndInv, TypeOK, PayRequest, PaymentsBacked, Inserted
<1>2. /\ rows'[k] = [rider |-> pay[w].rider, amount |-> pay[w].amount, charged |-> pay[w].charge,
                      covered |-> pay[w].covered, status |-> pay[w].status, refunded |-> 0,
                      day |-> pay[w].day]
      /\ \A j \in Keys \ {k} : rows'[j] = rows[j]
  BY <1>1 DEF CommitPayment, IndInv, TypeOK
<1>3. posted' = posted /\ ref' = ref
  BY DEF CommitPayment, ledgerVars
<1>4. \A v \in Tellers \ {w} : pay'[v] = pay[v]
  BY DEF CommitPayment, IndInv, TypeOK
<1>5. pay'[w] = NoRequest \/ (pay'[w].pc = "accrue" /\ pay'[w].status = "settled")
  BY <1>1 DEF CommitPayment, IndInv, TypeOK, PayRequest
<1>6. \A v \in Tellers \ {w} : Inserted(v) => pay[v].key # k
  BY <1>1 DEF IndInv, KeysOwned
<1>7. PaymentsBacked'
  <2> SUFFICES ASSUME NEW v \in Tellers, pay'[v] # NoRequest
               PROVE  /\ pay'[v].status \in {"settled", "failed", "mojaloop_failed"}
                      /\ pay'[v].pc # "commit" => pay'[v].status = "settled"
                      /\ Inserted(v)' => rows'[pay'[v].key] = NoRow
                      /\ pay'[v].pc \in {"quote", "transfer", "commit"} /\ pay'[v].status # "failed"
                           /\ pay'[v].charge > 0 => FareTransfer(v)' \in posted'
    BY DEF PaymentsBacked
  <2>1. CASE v = w BY <2>1, <1>5 DEF Inserted
  <2>2. CASE v # w
    <3>1. pay'[v] = pay[v] /\ pay[v].key \in Keys
      BY <2>2, <1>4 DEF IndInv, TypeOK, PayRequest
    <3> QED BY <2>2, <3>1, <1>2, <1>3, <1>6, SMTT(40) DEF IndInv, PaymentsBacked, Inserted, FareTransfer
  <2> QED BY <2>1, <2>2
<1>8. KeysOwned'
  BY <1>4, <1>5 DEF IndInv, KeysOwned, Inserted
<1>9. RefundsBounded'
  BY <1>1, <1>2, SMTT(40) DEF IndInv, RefundsBounded, Recorded, PayRequest
<1>10. SettledFareIsPosted'
  <2>1. pay[w].status \in Paid /\ pay[w].charge > 0 => FareTransfer(w) \in posted
    BY DEF CommitPayment, IndInv, PaymentsBacked, Paid, Live
  <2> QED BY <2>1, <1>1, <1>2, <1>3, SMTT(40) DEF IndInv, SettledFareIsPosted, Recorded, FareTransfer
<1>11. RefundsFit'
  <2>1. \A v \in Refunders : ref[v] # NoRequest => ref[v].key \in Keys \ {k}
    BY <1>1 DEF IndInv, TypeOK, RefundsFit, RefundRequest, Recorded
  <2> QED BY <2>1, <1>2, <1>3 DEF IndInv, RefundsFit, Recorded, newTotal
<1> QED BY <1>7, <1>8, <1>9, <1>10, <1>11

(* UpdateRefunded records a total within the charge and moves nothing else
   of the row. *)
LEMMA RefundRecorded ==
  ASSUME IndInv, NEW w \in Refunders, UpdateRefunded(w)
  PROVE  /\ ref[w].key \in Keys /\ rows[ref[w].key] \in Row /\ rows[ref[w].key].status \in Live
         /\ newTotal(w) \in Nat /\ newTotal(w) <= rows[ref[w].key].charged
         /\ rows[ref[w].key].refunded < newTotal(w) \/ rows[ref[w].key].charged = 0
         /\ rows'[ref[w].key] = [rows[ref[w].key] EXCEPT !.refunded = newTotal(w),
                !.status = IF newTotal(w) >= rows[ref[w].key].charged
                           THEN "refunded" ELSE "partially_refunded"]
         /\ \A j \in Keys \ {ref[w].key} : rows'[j] = rows[j]
<1>1. ref[w] \in RefundRequest /\ ref[w].key \in Keys /\ ref[w].amount \in Nat /\ ref[w].old \in Nat
  BY DEF UpdateRefunded, IndInv, TypeOK, RefundRequest
<1>2. rows[ref[w].key] \in Row /\ rows[ref[w].key].status \in Live /\ rows[ref[w].key].refunded = ref[w].old
  BY <1>1 DEF UpdateRefunded, Unrefunded, IndInv, TypeOK, NoRow, Live
<1>3. newTotal(w) \in Nat /\ newTotal(w) <= rows[ref[w].key].charged
      /\ (rows[ref[w].key].refunded < newTotal(w) \/ rows[ref[w].key].charged = 0)
  BY <1>1, <1>2 DEF UpdateRefunded, IndInv, RefundsFit, newTotal
<1> QED BY <1>1, <1>2, <1>3 DEF UpdateRefunded, IndInv, TypeOK

(* The conditional UPDATE of RefundPayment keeps the invariant: a refund that
   read an older total no longer matches the row. *)
LEMMA UpdateStep ==
  ASSUME IndInv, NEW w \in Refunders, UpdateRefunded(w)
  PROVE  /\ PaymentsBacked' /\ KeysOwned'
         /\ RefundsBounded' /\ SettledFareIsPosted' /\ RefundsFit'
<1> DEFINE k == ref[w].key
<1>1. /\ k \in Keys /\ rows[k] \in Row /\ rows[k].status \in Live
      /\ newTotal(w) \in Nat /\ newTotal(w) <= rows[k].charged
      /\ rows'[k] = [rows[k] EXCEPT !.refunded = newTotal(w),
            !.status = IF newTotal(w) >= rows[k].charged THEN "refunded" ELSE "partially_refunded"]
      /\ \A j \in Keys \ {k} : rows'[j] = rows[j]
  BY RefundRecorded
<1>2. /\ rows'[k].charged = rows[k].charged /\ rows'[k].rider = rows[k].rider
      /\ rows'[k].refunded = newTotal(w) /\ rows'[k].charged \in Nat
      /\ rows'[k].status = IF newTotal(w) >= rows[k].charged THEN "refunded" ELSE "partially_refunded"
      /\ rows[k] # NoRow /\ rows'[k] # NoRow
  BY <1>1 DEF Row, NoRow, Live
<1>3. posted' = posted /\ pay' = pay
  BY DEF UpdateRefunded, ledgerVars
<1>4. PaymentsBacked'
  <2>1. \A v \in Tellers : Inserted(v) => pay[v].key \in Keys \ {k}
    BY <1>2, SMTT(40) DEF IndInv, TypeOK, PaymentsBacked, Inserted, PayRequest
  <2> QED BY <2>1, <1>1, <1>3 DEF IndInv, PaymentsBacked, Inserted, FareTransfer
<1>5. KeysOwned'
  BY <1>3 DEF IndInv, KeysOwned, Inserted
<1>6. RefundsBounded'
  <2>1. /\ rows'[k].refunded <= rows'[k].charged
        /\ rows'[k].status \in Live => rows'[k].refunded < rows'[k].charged
    BY <1>1, <1>2 DEF Live
  <2> HIDE DEF k
  <2> QED BY <2>1, <1>1 DEF IndInv, RefundsBounded, Recorded
<1>7. SettledFareIsPosted'
  <2>1. rows[k].charged > 0 => [id |-> <<"fare", k, 0>>, debit |-> rows[k].rider, credit |-> Operator,
                                amount |-> rows[k].charged] \in posted
    BY <1>1, <1>2 DEF IndInv, SettledFareIsPosted, Recorded, Paid
  <2> QED BY <2>1, <1>1, <1>2, <1>3 DEF IndInv, SettledFareIsPosted, Recorded
<1>8. RefundsFit'
  <2> SUFFICES ASSUME NEW v \in Refunders, ref'[v] # NoRequest
               PROVE  /\ rows'[ref'[v].key] # NoRow
                      /\ ref'[v].old + ref'[v].amount <= rows'[ref'[v].key].charged
                      /\ ref'[v].amount > 0 \/ rows'[ref'[v].key].charged = 0
    BY DEF RefundsFit, Recorded, newTotal
  <2>1. /\ ref[v] # NoRequest /\ ref'[v].key = ref[v].key /\ ref'[v].old = ref[v].old
        /\ ref'[v].amount = ref[v].amount /\ ref[v].key \in Keys
    BY DEF UpdateRefunded, IndInv, TypeOK, RefundRequest
  <2>2. rows'[ref[v].key] # NoRow /\ rows'[ref[v].key].charged = rows[ref[v].key].charged
    <3> HIDE DEF k
    <3> QED BY <2>1, <1>1, <1>2 DEF IndInv, RefundsFit, Recorded
  <2> QED BY <2>1, <2>2 DEF IndInv, RefundsFit, Recorded, newTotal
<1> QED BY <1>4, <1>5, <1>6, <1>7, <1>8

(* The refund requests that start, advance or end without touching a row. *)
LEMMA RefunderStep ==
  ASSUME IndInv, NEW w \in Refunders, rows' = rows,
         \/ \E k \in Keys : ReadForRefund(w, k)
         \/ SkipReversal(w) \/ PostReversal(w) \/ ReversalRefused(w)
         \/ LostRefundRace(w) \/ ClawBackPoints(w) \/ AbortRefund(w)
  PROVE  RefundsFit'
<1>1. \A v \in Refunders \ {w} : ref'[v] = ref[v]
  BY DEF ReadForRefund, SkipReversal, PostReversal, ReversalRefused, LostRefundRace, ClawBackPoints,
     AbortRefund, IndInv, TypeOK
<1>2. CASE ref'[w] = NoRequest
  BY <1>1, <1>2 DEF IndInv, RefundsFit, Recorded, newTotal
<1>3. CASE SkipReversal(w) \/ PostReversal(w)
  <2>1. /\ ref[w] # NoRequest /\ ref'[w].key = ref[w].key /\ ref'[w].old = ref[w].old
        /\ ref'[w].amount = ref[w].amount
    BY <1>3 DEF SkipReversal, PostReversal, IndInv, TypeOK, RefundRequest
  <2> QED BY <1>1, <2>1 DEF IndInv, RefundsFit, Recorded, newTotal
<1>4. ASSUME NEW k \in Keys, ReadForRefund(w, k) PROVE RefundsFit'
  <2>1. rows[k] \in Row /\ Recorded(k) /\ rows[k].status \in Live
    BY <1>4 DEF ReadForRefund, IndInv, TypeOK, NoRow, Live, Recorded
  <2>2. PICK amount \in (1..Remainder(k)) \union {Remainder(k)} :
          ref' = [ref EXCEPT ![w] =
            [pc |-> "post", key |-> k, amount |-> amount, old |-> rows[k].refunded]]
    BY <1>4 DEF ReadForRefund
  <2>3. /\ amount \in Nat /\ rows[k].refunded + amount <= rows[k].charged
        /\ amount > 0 \/ rows[k].charged = 0
    <3>1. /\ rows[k].charged \in Nat /\ rows[k].refunded \in Nat
          /\ rows[k].refunded < rows[k].charged
               \/ (rows[k].charged = 0 /\ rows[k].refunded = 0)
      <4>1. rows[k].charged \in Nat /\ rows[k].refunded \in Nat BY <2>1 DEF Row
      <4>2. /\ rows[k].refunded <= rows[k].charged
            /\ rows[k].refunded < rows[k].charged \/ rows[k].charged = 0
        BY <2>1 DEF IndInv, RefundsBounded
      <4> QED BY <4>1, <4>2
    <3>2. Remainder(k) = rows[k].charged - rows[k].refunded
      BY <3>1, SMTT(40) DEF Remainder, Max2
    <3> QED BY <3>1, <3>2, SMTT(40)
  <2>4. ref'[w].key = k /\ ref'[w].old = rows[k].refunded /\ ref'[w].amount = amount
    BY <2>2 DEF IndInv, TypeOK
  <2> QED BY <1>1, <2>1, <2>3, <2>4 DEF IndInv, RefundsFit, Recorded, newTotal
<1> QED BY <1>2, <1>3, <1>4 DEF ReversalRefused, LostRefundRace, ClawBackPoints, AbortRefund, IndInv, TypeOK

(* The invariant is kept by every step of every handler, of a crash and of
   the environment. *)
LEMMA IndStep == IndInv /\ [Next]_vars => IndInv'
<1> SUFFICES ASSUME IndInv, [Next]_vars PROVE IndInv'
  OBVIOUS
<1> DEFINE Rest == PaymentsBacked' /\ KeysOwned' /\ RefundsBounded' /\ SettledFareIsPosted' /\ RefundsFit'
<1>1. TypeOK' BY TypeStep DEF IndInv
<1>2. UniqueIds' /\ posted \subseteq posted' BY LedgerStep DEF IndInv
<1>3. ASSUME pay' = pay, rows' = rows, ref' = ref PROVE Rest
  BY <1>2, <1>3, RowsFrame
<1>4. ASSUME NEW w \in Tellers, CommitPayment(w) PROVE Rest
  BY <1>4, CommitStep
<1>5. ASSUME NEW w \in Refunders, UpdateRefunded(w) PROVE Rest
  BY <1>5, UpdateStep
<1>6. ASSUME NEW w \in Tellers, ReplayPayment(w) \/ AccruePoints(w) \/ AbortPayment(w) PROVE Rest
  <2>1. rows' = rows /\ ref' = ref /\ pay' = [pay EXCEPT ![w] = NoRequest]
    BY <1>6 DEF ReplayPayment, AccruePoints, AbortPayment
  <2> QED BY <2>1, <1>2, RowsFrame, RequestEnds
<1>7. ASSUME NEW w \in Tellers,
             \/ \E k \in Keys, r \in Riders, a \in Fares, ml \in UseMojaloop : BeginPayment(w, k, r, a, ml)
             \/ PricePayment(w) \/ InsertPayment(w) \/ SkipPosting(w) \/ PostFare(w) \/ FareRefused(w)
             \/ MojaloopQuote(w) \/ QuoteFails(w) \/ MojaloopTransfer(w) \/ TransferFails(w)
      PROVE  Rest
  <2>1. rows' = rows /\ ref' = ref
    BY <1>7 DEF BeginPayment, PricePayment, InsertPayment, SkipPosting, PostFare, FareRefused,
       MojaloopQuote, QuoteFails, MojaloopTransfer, TransferFails
  <2>2. PaymentsBacked' /\ KeysOwned' BY <1>2, <1>7, <2>1, TellerStep
  <2> QED BY <2>1, <2>2, <1>2, RowsFrame
<1>8. ASSUME NEW w \in Refunders,
             \/ \E k \in Keys : ReadForRefund(w, k)
             \/ SkipReversal(w) \/ PostReversal(w) \/ ReversalRefused(w)
             \/ LostRefundRace(w) \/ ClawBackPoints(w) \/ AbortRefund(w)
      PROVE  Rest
  <2>1. rows' = rows /\ pay' = pay
    BY <1>8 DEF ReadForRefund, SkipReversal, PostReversal, ReversalRefused, LostRefundRace,
       ClawBackPoints, AbortRefund
  <2>2. RefundsFit' BY <1>8, <2>1, RefunderStep
  <2> QED BY <2>1, <2>2, <1>2, RowsFrame
<1>9. Rest
  BY <1>3, <1>4, <1>5, <1>6, <1>7, <1>8 DEF Next, Environment, Teller, Refunder, NextDay,
     GrantEntitlement, LapseEntitlement, TopUpWallet, vars, fareVars
<1> QED BY <1>1, <1>2, <1>9 DEF IndInv

(* Every variable keeps its type: balances of points stay natural although
   they are decremented, a covered amount is never negative. *)
THEOREM TypeCorrect == Spec => []TypeOK
<1>1. IndInv => TypeOK BY DEF IndInv
<1> QED BY <1>1, IndInit, IndStep, PTL DEF Spec

(* Whatever crashes, retries and races happen, a payment recorded as settled
   or refunded is backed by a ledger transfer of exactly its charge out of
   its rider's wallet. *)
THEOREM SettledFaresPosted == Spec => []SettledFareIsPosted
<1>1. IndInv => SettledFareIsPosted BY DEF IndInv
<1> QED BY <1>1, IndInit, IndStep, PTL DEF Spec

(* No interleaving of refunds records more than the charge as refunded. *)
THEOREM RefundTotalsBounded == Spec => []RefundsBounded
<1>1. IndInv => RefundsBounded BY DEF IndInv
<1> QED BY <1>1, IndInit, IndStep, PTL DEF Spec
=============================================================================
