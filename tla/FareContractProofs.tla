------------------------- MODULE FareContractProofs -------------------------
(***************************************************************************)
(* FarePayment implements FareContract.                                    *)
(***************************************************************************)
EXTENDS FarePaymentProofs

(* No key is debited and none has an outcome at the start. *)
LEMMA ContractInit == Init => Contract!Init
  BY DEF Init, LedgerInit, Contract!Init, Contract!Unpaid, DebitedFor, Outcome, KnownId, Recorded, NoRow

(* The debit of a key is the amount of its only fare transfer. *)
LEMMA DebitIs ==
  ASSUME UniqueIds, NEW k \in Keys, NEW t \in posted, t.id = FareId(k)
  PROVE  DebitedFor(k) = t.amount
<1>1. (CHOOSE u \in posted : u.id = FareId(k)) = t
  BY DEF UniqueIds
<1> QED BY <1>1 DEF DebitedFor, KnownId

(* A transfer that is accepted under another id changes no debit. *)
LEMMA DebitKept ==
  ASSUME UniqueIds, NEW k \in Keys, NEW t, t.id # FareId(k) \/ t \in posted,
         Accepts(t), Transfer(t)
  PROVE  DebitedFor(k)' = DebitedFor(k)
<1>1. UniqueIds' /\ posted' = posted \union {t}
  BY TransferUnique DEF Transfer
<1>2. CASE KnownId(FareId(k))
  <2>1. PICK u \in posted : u.id = FareId(k) BY <1>2 DEF KnownId
  <2>2. DebitedFor(k) = u.amount BY <2>1, DebitIs
  <2>3. DebitedFor(k)' = u.amount
    <3>1. (CHOOSE x \in posted' : x.id = FareId(k)) = u
      BY <1>1, <2>1 DEF UniqueIds
    <3> QED BY <3>1, <1>1, <2>1 DEF DebitedFor, KnownId, FareId
  <2> QED BY <2>2, <2>3
<1>3. CASE ~KnownId(FareId(k))
  <2>1. ~KnownId(FareId(k))' BY <1>1, <1>3 DEF KnownId, FareId
  <2> QED BY <2>1, <1>3 DEF DebitedFor
<1> QED BY <1>2, <1>3

(* A step that touches neither the rows nor a fare transfer is invisible. *)
LEMMA Invisible ==
  ASSUME rows' = rows, \A k \in Keys : DebitedFor(k)' = DebitedFor(k)
  PROVE  UNCHANGED Contract!contractVars
  BY DEF Contract!contractVars, Outcome, Recorded

(* The first posting of a fare is the contract's Debit; a retried one is
   invisible. *)
LEMMA PostFareSimulates ==
  ASSUME IndInv, NEW w \in Tellers, PostFare(w)
  PROVE  Contract!Next \/ UNCHANGED Contract!contractVars
<1>a. PICK k \in Keys, t \in {FareTransfer(w)} : k = pay[w].key /\ t = FareTransfer(w)
  BY DEF PostFare, IndInv, TypeOK, PayRequest
<1>1. /\ k \in Keys /\ pay[w].charge \in Nat \ {0} /\ rows' = rows
      /\ rows[k] = NoRow /\ Accepts(t) /\ Transfer(t)
  BY <1>a DEF PostFare, IndInv, TypeOK, PayRequest, PaymentsBacked, Inserted
<1>2. t.id = FareId(k) /\ t.amount = pay[w].charge
  BY <1>a DEF FareTransfer, FareId
<1>3. CASE t \in posted
  <2>1. \A j \in Keys : DebitedFor(j)' = DebitedFor(j)
    BY <1>1, <1>3, DebitKept DEF IndInv
  <2> QED BY <2>1, <1>1, Invisible
<1>4. CASE t \notin posted
  <2>1. \A j \in Keys \ {k} : DebitedFor(j)' = DebitedFor(j)
    <3> SUFFICES ASSUME NEW j \in Keys \ {k} PROVE DebitedFor(j)' = DebitedFor(j)
      OBVIOUS
    <3>1. t.id # FareId(j) BY <1>2 DEF FareId
    <3> QED BY <3>1, <1>1, DebitKept DEF IndInv
  <2>2. DebitedFor(k) = 0
    BY <1>1, <1>2, <1>4 DEF DebitedFor, Accepts
  <2>3. DebitedFor(k)' = pay[w].charge
    <3>1. UniqueIds' /\ t \in posted' BY <1>1, TransferUnique DEF IndInv
    <3>2. (CHOOSE u \in posted' : u.id = FareId(k)) = t
      BY <3>1, <1>2 DEF UniqueIds
    <3> QED BY <3>1, <3>2, <1>2 DEF DebitedFor, KnownId, FareId
  <2>4. \A j \in Keys : Outcome(j)' = Outcome(j)
    BY <1>1 DEF Outcome, Recorded
  <2>5. Outcome(k) = Contract!Unpaid
    BY <1>1 DEF Outcome, Recorded, Contract!Unpaid
  <2>6. Contract!Debit(k)
    BY <1>1, <2>1, <2>2, <2>3, <2>4, <2>5 DEF Contract!Debit
  <2> QED BY <2>6, <1>1 DEF Contract!Next
<1> QED BY <1>3, <1>4

(* The commit is the contract's Settle or Fail. *)
LEMMA CommitSimulates ==
  ASSUME IndInv, NEW w \in Tellers, CommitPayment(w)
  PROVE  Contract!Next
<1>a. PICK k \in Keys, c \in Nat, st \in {"settled", "failed"} :
        /\ k = pay[w].key /\ c = pay[w].charge
        /\ st = IF pay[w].status = "settled" THEN "settled" ELSE "failed"
  BY DEF CommitPayment, IndInv, TypeOK, PayRequest
<1>1. /\ k \in Keys /\ c \in Nat /\ rows[k] = NoRow /\ posted' = posted
      /\ pay[w].status \in {"settled", "failed", "mojaloop_failed"}
  BY <1>a DEF CommitPayment, IndInv, TypeOK, PayRequest, PaymentsBacked, Inserted, ledgerVars
<1>2. /\ rows'[k] = [rider |-> pay[w].rider, amount |-> pay[w].amount, charged |-> c,
                      covered |-> pay[w].covered, status |-> pay[w].status, refunded |-> 0,
                      day |-> pay[w].day]
      /\ \A j \in Keys \ {k} : rows'[j] = rows[j]
  BY <1>1, <1>a DEF CommitPayment, IndInv, TypeOK
<1>3. \A j \in Keys : DebitedFor(j)' = DebitedFor(j)
  BY <1>1 DEF DebitedFor, KnownId, FareId
<1>4. Outcome(k) = Contract!Unpaid
  BY <1>1 DEF Outcome, Recorded, Contract!Unpaid
<1>5. Outcome(k)' = [state |-> st, charged |-> c, refunded |-> 0]
  BY <1>a, <1>1, <1>2 DEF Outcome, Recorded, NoRow
<1>6. \A j \in Keys \ {k} : Outcome(j)' = Outcome(j)
  BY <1>2 DEF Outcome, Recorded
<1>7. st = "settled" => c \in {DebitedFor(k), 0}
  <2> SUFFICES ASSUME st = "settled", c # 0 PROVE c = DebitedFor(k)
    OBVIOUS
  <2>1. FareTransfer(w) \in posted
    BY <1>a, <1>1 DEF CommitPayment, IndInv, PaymentsBacked
  <2>2. FareTransfer(w).id = FareId(k) /\ FareTransfer(w).amount = c
    BY <1>a DEF FareTransfer, FareId
  <2> QED BY <2>1, <2>2, <1>1, DebitIs DEF IndInv
<1>8. CASE st = "settled"
  <2>1. Contract!Settle(k)
    BY <1>1, <1>3, <1>4, <1>5, <1>6, <1>7, <1>8 DEF Contract!Settle
  <2> QED BY <2>1, <1>1 DEF Contract!Next
<1>9. CASE st = "failed"
  <2>0. /\ Outcome(k)' = [state |-> "failed", charged |-> Outcome(k)'.charged, refunded |-> 0]
        /\ Outcome(k)'.charged \in Nat
    BY <1>5, <1>9
  <2>1. Contract!Fail(k)
    BY <2>0, <1>1, <1>3, <1>4, <1>6 DEF Contract!Fail
  <2> QED BY <2>1, <1>1 DEF Contract!Next
<1> QED BY <1>a, <1>8, <1>9

(* The conditional update of a refund is the contract's Refund. *)
LEMMA UpdateSimulates ==
  ASSUME IndInv, NEW w \in Refunders, UpdateRefunded(w)
  PROVE  Contract!Next
<1>a. PICK k \in Keys, n \in Nat : k = ref[w].key /\ n = newTotal(w)
  BY RefundRecorded
<1>1. /\ k \in Keys /\ rows[k] \in Row /\ rows[k].status \in Live
      /\ n \in Nat /\ n <= rows[k].charged
      /\ rows[k].refunded < n \/ rows[k].charged = 0
      /\ rows'[k] = [rows[k] EXCEPT !.refunded = n,
            !.status = IF n >= rows[k].charged THEN "refunded" ELSE "partially_refunded"]
      /\ \A j \in Keys \ {k} : rows'[j] = rows[j]
  BY <1>a, RefundRecorded
<1>2. posted' = posted BY DEF UpdateRefunded, ledgerVars
<1>3. \A j \in Keys : DebitedFor(j)' = DebitedFor(j)
  BY <1>2 DEF DebitedFor, KnownId, FareId
<1>4. \A j \in Keys \ {k} : Outcome(j)' = Outcome(j)
  BY <1>1 DEF Outcome, Recorded
<1>5. Outcome(k) = [state |-> rows[k].status, charged |-> rows[k].charged, refunded |-> rows[k].refunded]
  BY <1>1 DEF Outcome, Recorded, NoRow, Live
<1>6. rows[k].charged \in Nat BY <1>1 DEF Row
<1>7. Outcome(k)' = [state |-> IF n = rows[k].charged THEN "refunded" ELSE "partially_refunded",
                     charged |-> rows[k].charged, refunded |-> n]
  <2>1. /\ rows'[k].charged = rows[k].charged /\ rows'[k].refunded = n
        /\ rows'[k].status = IF n = rows[k].charged THEN "refunded" ELSE "partially_refunded"
    BY <1>1, <1>6 DEF Row
  <2>2. rows'[k] # NoRow BY <2>1 DEF NoRow
  <2> QED BY <2>1, <2>2 DEF Outcome, Recorded
<1>8. PICK x : x = IF n = rows[k].charged THEN "refunded" ELSE "partially_refunded"
  OBVIOUS
<1>9. /\ Outcome(k).state = rows[k].status /\ Outcome(k).charged = rows[k].charged
      /\ Outcome(k).refunded = rows[k].refunded
  BY <1>5
<1>10. Outcome(k)' = [state |-> x, charged |-> Outcome(k).charged, refunded |-> n]
  BY <1>7, <1>8, <1>9, Zenon
<1>11. [j \in Keys |-> Outcome(j)]' =
         [[j \in Keys |-> Outcome(j)] EXCEPT ![k] =
            [state |-> x, charged |-> Outcome(k).charged, refunded |-> n]]
  BY <1>4, <1>10
<1>12. n \in 0..Outcome(k).charged /\ (Outcome(k).refunded < n \/ Outcome(k).charged = 0)
  BY <1>1, <1>6, <1>9
<1>13. Outcome(k).state \in {"settled", "partially_refunded"}
  BY <1>1, <1>9 DEF Live
<1>14. Contract!Refund(k)
  BY <1>3, <1>8, <1>9, <1>11, <1>12, <1>13 DEF Contract!Refund
<1> QED BY <1>a, <1>14 DEF Contract!Next

(* Every step of the handlers is a step of the contract or invisible to it. *)
LEMMA ContractStep ==
  IndInv /\ [Next]_vars => [Contract!Next]_(Contract!contractVars)
<1> SUFFICES ASSUME IndInv, [Next]_vars
             PROVE  Contract!Next \/ UNCHANGED Contract!contractVars
  OBVIOUS
<1>1. ASSUME NEW k \in TopUpKeys, NEW r \in Riders, NEW a \in TopUps, TopUpWallet(k, r, a)
      PROVE  UNCHANGED Contract!contractVars
  <2>1. \A j \in Keys : TopUpTransfer(k, r, a).id # FareId(j)
    BY DEF TopUpTransfer, FareId
  <2>2. \A j \in Keys : DebitedFor(j)' = DebitedFor(j)
    BY <1>1, <2>1, DebitKept DEF TopUpWallet, IndInv
  <2> QED BY <1>1, <2>2, Invisible DEF TopUpWallet, fareVars
<1>2. ASSUME NEW w \in Refunders, PostReversal(w)
      PROVE  UNCHANGED Contract!contractVars
  <2>1. \A j \in Keys : RefundTransfer(w).id # FareId(j)
    BY DEF RefundTransfer, FareId
  <2>2. \A j \in Keys : DebitedFor(j)' = DebitedFor(j)
    BY <1>2, <2>1, DebitKept DEF PostReversal, IndInv
  <2> QED BY <1>2, <2>2, Invisible DEF PostReversal
<1>3. CASE posted' = posted /\ rows' = rows
  <2>1. \A j \in Keys : DebitedFor(j)' = DebitedFor(j)
    BY <1>3 DEF DebitedFor, KnownId, FareId
  <2> QED BY <1>3, <2>1, Invisible
<1>4. \/ posted' = posted /\ rows' = rows
      \/ \E k \in TopUpKeys, r \in Riders, a \in TopUps : TopUpWallet(k, r, a)
      \/ \E w \in Tellers : PostFare(w) \/ CommitPayment(w)
      \/ \E w \in Refunders : PostReversal(w) \/ UpdateRefunded(w)
  BY ZenonT(40) DEF Next, Environment, Teller, Refunder, vars, fareVars, ledgerVars, NextDay,
     GrantEntitlement, LapseEntitlement, BeginPayment, PricePayment, InsertPayment, ReplayPayment,
     SkipPosting, FareRefused, MojaloopQuote, QuoteFails, MojaloopTransfer, TransferFails,
     AccruePoints, AbortPayment, ReadForRefund, SkipReversal, ReversalRefused, LostRefundRace,
     ClawBackPoints, AbortRefund
<1> QED BY <1>1, <1>2, <1>3, <1>4, PostFareSimulates, CommitSimulates, UpdateSimulates

(* The payment paths of commerce-api implement FareContract: one debit and
   one recorded outcome per idempotency key, settled only for exactly what
   was debited, refunded monotonically and within the charge. *)
THEOREM FarePaymentImplementsContract == Spec => ImplementsContract
<1>1. Init => Contract!Init BY ContractInit
<1> QED BY <1>1, IndInit, IndStep, ContractStep, PTL DEF Spec, ImplementsContract, Contract!Spec
=============================================================================
