--------------------------- MODULE FareTypeProofs ---------------------------
(***************************************************************************)
(* Type correctness of every step of FarePayment, for any number of        *)
(* riders, keys, tellers and refunders, any tariff and any cap.            *)
(***************************************************************************)
EXTENDS FarePayment, TLAPS

(* Integer division of naturals: a discount and a point award are naturals. *)
LEMMA DivNat ==
  ASSUME NEW a \in Nat, NEW n \in Nat \ {0}
  PROVE  a \div n \in Nat
  BY SMT

(* A discount never raises the fare (resolveEntitlement). *)
LEMMA DiscountedRange ==
  ASSUME NEW a \in Nat, NEW p \in 1..100
  PROVE  Discounted(a, p) \in 0..a
<1> DEFINE q == 100 - p
<1>1. q \in 0..99 OBVIOUS
<1>2. a * q \in Nat BY <1>1
<1>3. a * q <= a * 100
  <2>1. a * (100 - q) >= 0 BY <1>1
  <2>2. a * (100 - q) = a * 100 - a * q BY <1>1
  <2> QED BY <2>1, <2>2, <1>2
<1> HIDE DEF q
<1>4. (a * q) \div 100 \in 0..a BY <1>2, <1>3
<1> QED BY <1>4 DEF Discounted, q

(* Whatever entitlements a rider holds, the price is at most the fare. *)
LEMMA EntitlementRange ==
  ASSUME FareAssumption, NEW r \in Riders, NEW a \in Nat,
         grants \in [Riders -> SUBSET Products],
         NEW e \in resolveEntitlement(r, a)
  PROVE  e.charge \in 0..a
<1>1. \A p \in grants[r] : p.pct \in 1..100
  BY DEF FareAssumption
<1>2. \A p \in grants[r] : Discounted(a, p.pct) \in 0..a
  BY <1>1, DiscountedRange
<1> QED BY <1>2 DEF resolveEntitlement

(* An accepted transfer keeps the ledger well formed. *)
LEMMA TransferType ==
  ASSUME LedgerTypeOK, NEW t \in Transfers, Transfer(t)
  PROVE  LedgerTypeOK'
<1>1. t.debit \in Accounts /\ t.credit \in Accounts /\ t.amount \in Nat
  BY DEF Transfers
<1>2. balance' \in [Accounts -> Int]
  BY <1>1 DEF Transfer, LedgerTypeOK
<1>3. posted' \subseteq Transfers
  BY DEF Transfer, LedgerTypeOK
<1> QED BY <1>2, <1>3 DEF LedgerTypeOK
-----------------------------------------------------------------------------
(* A refund in flight is of a recorded payment and fits into its charge; it
   is empty only for a ride that cost nothing. *)
RefundsFit ==
  \A w \in Refunders : ref[w] # NoRequest =>
    /\ Recorded(ref[w].key)
    /\ newTotal(w) <= rows[ref[w].key].charged
    /\ ref[w].amount > 0 \/ rows[ref[w].key].charged = 0

(* A request that turns to its commit with a final status is well formed. *)
LEMMA CommitRequest ==
  ASSUME NEW p \in PayRequest, NEW st \in Final
  PROVE  [p EXCEPT !.pc = "commit", !.status = st] \in PayRequest
  BY DEF PayRequest

(* The empty tables, the empty ledger and idle handlers are well typed. *)
LEMMA TypeInit == Init => TypeOK
  BY FareAssumption, GuardedAssumption DEF Init, LedgerInit, TypeOK, LedgerTypeOK, FareAssumption, NoRow

(* Every step of every handler keeps the types; the cases that need more than
   the assignments are pricing (a capped charge stays a natural) and the
   refund (the remainder is positive). *)
LEMMA TypeStep ==
  ASSUME TypeOK, RefundsFit, [Next]_vars
  PROVE  TypeOK'
<1> USE FareAssumption, GuardedAssumption DEF TypeOK
<1>0. CASE UNCHANGED vars BY <1>0 DEF vars, fareVars, LedgerTypeOK, ledgerVars
<1>1. CASE NextDay BY <1>1 DEF NextDay, FareAssumption, LedgerTypeOK, ledgerVars
<1>2. ASSUME NEW r \in Riders, NEW p \in Products, GrantEntitlement(r, p) \/ LapseEntitlement(r, p)
        PROVE TypeOK'
    BY <1>2 DEF GrantEntitlement, LapseEntitlement, LedgerTypeOK, ledgerVars
<1>3. ASSUME NEW k \in TopUpKeys, NEW r \in Riders, NEW a \in TopUps, TopUpWallet(k, r, a)
        PROVE TypeOK'
  <2>1. TopUpTransfer(k, r, a) \in Transfers
      BY DEF TopUpTransfer, Transfers, TransferIds, FareAssumption, GuardedAssumption
  <2>2. LedgerTypeOK' BY <1>3, <2>1, TransferType DEF TopUpWallet
  <2> QED BY <1>3, <2>2 DEF TopUpWallet, fareVars
<1>4. ASSUME NEW w \in Tellers, NEW k \in Keys, NEW r \in Riders, NEW a \in Fares,
               NEW ml \in UseMojaloop, BeginPayment(w, k, r, a, ml)
        PROVE TypeOK'
    BY <1>4, ZenonT(40) DEF BeginPayment, PayRequest, Final, Live, FareAssumption, LedgerTypeOK, ledgerVars
<1>5. ASSUME NEW w \in Tellers, PricePayment(w) PROVE TypeOK'
  <2>1. pay[w] \in PayRequest /\ pay[w].rider \in Riders /\ pay[w].amount \in Nat
      BY <1>5 DEF PricePayment, PayRequest, FareAssumption
  <2>0. PICK e \in resolveEntitlement(pay[w].rider, pay[w].amount) : \E c \in 0..e.charge :
            pay' = [pay EXCEPT ![w] = [@ EXCEPT !.pc = "insert", !.charge = c,
                      !.covered = IF e.payer THEN pay[w].amount - c ELSE 0]]
      BY <1>5 DEF PricePayment
  <2>2. PICK c \in 0..e.charge :
            pay' = [pay EXCEPT ![w] = [@ EXCEPT !.pc = "insert", !.charge = c,
                      !.covered = IF e.payer THEN pay[w].amount - c ELSE 0]]
      BY <2>0
  <2>3. e.charge \in 0..pay[w].amount
      BY <2>1, EntitlementRange
  <2>4. c \in Nat /\ pay[w].amount - c \in Nat
      BY <2>1, <2>3
  <2>5. [pay[w] EXCEPT !.pc = "insert", !.charge = c,
             !.covered = IF e.payer THEN pay[w].amount - c ELSE 0] \in PayRequest
      BY <2>1, <2>4 DEF PayRequest
  <2>6. pay' \in [Tellers -> PayRequest \union {NoRequest}]
      BY <2>2, <2>5
  <2> QED BY <1>5, <2>1, <2>6 DEF PricePayment, LedgerTypeOK, ledgerVars
<1>6. ASSUME NEW w \in Tellers, SkipPosting(w) PROVE TypeOK'
    BY <1>6 DEF SkipPosting, AfterPost, PayRequest, LedgerTypeOK, ledgerVars
<1>7. ASSUME NEW w \in Tellers, PostFare(w) PROVE TypeOK'
  <2>1. FareTransfer(w) \in Transfers
      BY <1>7 DEF PostFare, FareTransfer, PayRequest, Transfers, TransferIds, FareAssumption, GuardedAssumption
  <2>2. LedgerTypeOK' BY <1>7, <2>1, TransferType DEF PostFare
  <2> QED BY <1>7, <2>2 DEF PostFare, AfterPost, PayRequest
<1>8. ASSUME NEW w \in Tellers, QuoteFails(w) PROVE TypeOK'
  <2>1. pay[w] \in PayRequest /\ pay[w].key \in Keys BY <1>8 DEF QuoteFails, PayRequest
  <2>2. (IF pay[w].charge = 0 THEN "failed" ELSE "mojaloop_failed") \in Final BY DEF Final
  <2> QED BY <1>8, <2>1, <2>2, CommitRequest DEF QuoteFails, LedgerTypeOK, ledgerVars
<1>9. ASSUME NEW w \in Tellers, CommitPayment(w) PROVE TypeOK'
  <2>1. rows' \in [Keys -> Row \union {NoRow}]
      BY <1>9 DEF CommitPayment, PayRequest, Row, FareAssumption
  <2> QED BY <1>9, <2>1 DEF CommitPayment, PayRequest, Unlock, LedgerTypeOK, ledgerVars
<1>10. ASSUME NEW w \in Tellers, AccruePoints(w) PROVE TypeOK'
  <2>1. pay[w].charge \div PointUnit \in Nat
      BY <1>10, DivNat DEF AccruePoints, PayRequest, FareAssumption
  <2>2. pay[w] \in PayRequest BY <1>10 DEF AccruePoints
  <2>3. points' \in [Riders -> Nat]
      BY <1>10, <2>1, <2>2 DEF AccruePoints, PayRequest
  <2>4. entries' \subseteq Entry
      BY <1>10, <2>1, <2>2 DEF AccruePoints, PayRequest, Entry, LoyaltyRefs
  <2> QED BY <1>10, <2>3, <2>4 DEF AccruePoints, LedgerTypeOK, ledgerVars
<1>11. ASSUME NEW w \in Refunders, NEW k \in Keys, ReadForRefund(w, k) PROVE TypeOK'
    BY <1>11 DEF ReadForRefund, RefundRequest, Remainder, Max2, Row, NoRow, Live, LedgerTypeOK, ledgerVars
<1>12. ASSUME NEW w \in Refunders, PostReversal(w) PROVE TypeOK'
  <2>1. rows[ref[w].key].rider \in Riders
      BY <1>12 DEF PostReversal, RefundRequest, RefundsFit, Recorded, Row
  <2>2. RefundTransfer(w) \in Transfers
      BY <1>12, <2>1 DEF PostReversal, RefundTransfer, newTotal, RefundRequest, Transfers, TransferIds, FareAssumption, GuardedAssumption
  <2>3. LedgerTypeOK' BY <1>12, <2>2, TransferType DEF PostReversal
  <2> QED BY <1>12, <2>3 DEF PostReversal, RefundRequest
<1>13. ASSUME NEW w \in Refunders, UpdateRefunded(w) PROVE TypeOK'
  <2>1. rows[ref[w].key] \in Row /\ newTotal(w) \in Nat
      BY <1>13 DEF UpdateRefunded, Unrefunded, RefundRequest, NoRow, Live, newTotal
  <2>2. rows' \in [Keys -> Row \union {NoRow}]
      BY <1>13, <2>1 DEF UpdateRefunded, Row, Final, Live
  <2> QED BY <1>13, <2>2 DEF UpdateRefunded, RefundRequest, LedgerTypeOK, ledgerVars
<1>14. ASSUME NEW w \in Refunders, ClawBackPoints(w) PROVE TypeOK'
  <2>1. LostPoints(w) \in Nat /\ newTotal(w) \in Nat
      BY <1>14, DivNat, SMTT(40) DEF ClawBackPoints, LostPoints, newTotal, RefundRequest, FareAssumption
  <2>2. rows[ref[w].key].rider \in Riders
      BY <1>14 DEF ClawBackPoints, RefundRequest, RefundsFit, Recorded, Row
  <2>3. points' \in [Riders -> Nat]
      BY <1>14, <2>1, <2>2, SMTT(40) DEF ClawBackPoints, AfterClawBack, Max2
  <2>4. entries' \subseteq Entry
      BY <1>14, <2>1, <2>2, SMTT(40) DEF ClawBackPoints, RefundRequest, Entry, LoyaltyRefs
  <2> QED BY <1>14, <2>3, <2>4 DEF ClawBackPoints, LedgerTypeOK, ledgerVars
<1>15. ASSUME NEW w \in Tellers, InsertPayment(w) PROVE TypeOK'
  <2>1. [pay[w] EXCEPT !.pc = "post"] \in PayRequest
    BY <1>15 DEF InsertPayment, PayRequest
  <2> QED BY <1>15, <2>1 DEF InsertPayment, LedgerTypeOK, ledgerVars
<1>16. ASSUME NEW w \in Tellers, ReplayPayment(w) PROVE TypeOK'
    BY <1>16 DEF ReplayPayment, PayRequest, Final, Live, Unlock, LedgerTypeOK, ledgerVars
<1>17. ASSUME NEW w \in Tellers, FareRefused(w) PROVE TypeOK'
  <2>1. pay[w] \in PayRequest BY <1>17 DEF FareRefused
  <2>2. "failed" \in Final BY DEF Final
  <2> QED BY <1>17, <2>1, <2>2, CommitRequest DEF FareRefused, LedgerTypeOK, ledgerVars
<1>18. ASSUME NEW w \in Tellers, MojaloopQuote(w) PROVE TypeOK'
  <2>1. [pay[w] EXCEPT !.pc = "transfer"] \in PayRequest
    BY <1>18 DEF MojaloopQuote, PayRequest
  <2> QED BY <1>18, <2>1 DEF MojaloopQuote, PayRequest, LedgerTypeOK, ledgerVars
<1>19. ASSUME NEW w \in Tellers, MojaloopTransfer(w) PROVE TypeOK'
    BY <1>19 DEF MojaloopTransfer, PayRequest, Final, Live, Unlock, LedgerTypeOK, ledgerVars
<1>20. ASSUME NEW w \in Tellers, TransferFails(w) PROVE TypeOK'
  <2>1. pay[w] \in PayRequest /\ pay[w].key \in Keys BY <1>20 DEF TransferFails, PayRequest
  <2>2. "mojaloop_failed" \in Final BY DEF Final
  <2> QED BY <1>20, <2>1, <2>2, CommitRequest DEF TransferFails, LedgerTypeOK, ledgerVars
<1>21. ASSUME NEW w \in Tellers, AbortPayment(w) PROVE TypeOK'
    BY <1>21 DEF AbortPayment, PayRequest, Final, Live, Unlock, LedgerTypeOK, ledgerVars
<1>22. ASSUME NEW w \in Refunders, SkipReversal(w) PROVE TypeOK'
    BY <1>22 DEF SkipReversal, RefundRequest, LedgerTypeOK, ledgerVars
<1>23. ASSUME NEW w \in Refunders, ReversalRefused(w) PROVE TypeOK'
    BY <1>23 DEF ReversalRefused, RefundRequest, LedgerTypeOK, ledgerVars
<1>24. ASSUME NEW w \in Refunders, LostRefundRace(w) PROVE TypeOK'
    BY <1>24 DEF LostRefundRace, RefundRequest, LedgerTypeOK, ledgerVars
<1>25. ASSUME NEW w \in Refunders, AbortRefund(w) PROVE TypeOK'
    BY <1>25 DEF AbortRefund, RefundRequest, LedgerTypeOK, ledgerVars
<1> QED
    BY <1>0, <1>1, <1>2, <1>3, <1>4, <1>5, <1>6, <1>7, <1>8, <1>9, <1>10, <1>11, <1>12, <1>13, <1>14, <1>15, <1>16, <1>17, <1>18, <1>19, <1>20, <1>21, <1>22, <1>23, <1>24, <1>25 DEF Next, Environment, Teller, Refunder
=============================================================================
