---------------------------- MODULE FareContract ----------------------------
(***************************************************************************)
(* What commerce-api promises about one fare payment, without locks,       *)
(* transactions, retries or the switch: the wallet is debited at most once *)
(* per idempotency key, the payment is recorded once, as settled only for  *)
(* exactly what was debited, and from then on it only ever moves towards   *)
(* "refunded", by steps that stay within the charge.                       *)
(***************************************************************************)
EXTENDS Integers

CONSTANT Keys

VARIABLES
  paid,   \* what the wallet was debited for every key, 0 before the debit
  fare    \* the recorded payment of every key

Unpaid == [state |-> "none", charged |-> 0, refunded |-> 0]

Init ==
  /\ paid = [k \in Keys |-> 0]
  /\ fare = [k \in Keys |-> Unpaid]

(* The wallet is debited, by an amount the contract leaves open. *)
Debit(k) ==
  /\ fare[k] = Unpaid
  /\ paid[k] = 0
  /\ paid'[k] \in Nat \ {0}
  /\ paid' = [paid EXCEPT ![k] = paid'[k]]
  /\ UNCHANGED fare

Settle(k) ==
  /\ fare[k] = Unpaid
  /\ \E c \in {paid[k], 0} :
       fare' = [fare EXCEPT ![k] = [state |-> "settled", charged |-> c, refunded |-> 0]]
  /\ UNCHANGED paid

Fail(k) ==
  /\ fare[k] = Unpaid
  /\ fare'[k].charged \in Nat
  /\ fare' = [fare EXCEPT ![k] =
       [state |-> "failed", charged |-> fare'[k].charged, refunded |-> 0]]
  /\ UNCHANGED paid

(* A refund returns part of what is left; a ride that cost nothing is marked
   refunded without returning anything. *)
Refund(k) ==
  /\ fare[k].state \in {"settled", "partially_refunded"}
  /\ \E total \in 0..fare[k].charged :
       /\ fare[k].refunded < total \/ fare[k].charged = 0
       /\ fare' = [fare EXCEPT ![k] = 
            [state |-> IF total = fare[k].charged THEN "refunded" ELSE "partially_refunded",
             charged |-> fare[k].charged, refunded |-> total]]
  /\ UNCHANGED paid

Next == \E k \in Keys : Debit(k) \/ Settle(k) \/ Fail(k) \/ Refund(k)

contractVars == <<paid, fare>>

Spec == Init /\ [][Next]_contractVars
=============================================================================
