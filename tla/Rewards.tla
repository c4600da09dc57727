------------------------------- MODULE Rewards ------------------------------
(***************************************************************************)
(* Redeeming loyalty points for offers (commerce-api handlers/loyalty.go). *)
(* One transaction checks the key, locks the offer, takes the points with a*)
(* conditional UPDATE and records the redemption under a unique key; fares *)
(* credit and claw back points meanwhile.                                  *)
(***************************************************************************)
EXTENDS Integers, FiniteSets, FiniteSetsExt

CONSTANTS
  Members,        \* riders with a loyalty account
  Offers,         \* marketplace offers
  Cost,           \* cost_points of every offer
  RedeemKeys,     \* Idempotency-Key headers
  PointGrants,    \* points a fare awards, or a refund claws back
  Counters,       \* concurrent requests
  MaxGranted,     \* bound on the points awarded
  NotRedeeming

ASSUME RewardsAssumption ==
  /\ Cost \in [Offers -> Nat \ {0}]
  /\ PointGrants \subseteq Nat \ {0}
  /\ MaxGranted \in Nat

VARIABLES
  offers,        \* commerce.marketplace_offers: the active offers
  points,        \* commerce.loyalty_accounts.points
  granted,       \* points awarded and not clawed back (history)
  redemptions,   \* commerce.loyalty_redemptions, by key
  counter        \* the transaction every request has open

rewardVars == <<offers, points, granted, redemptions, counter>>

NotRedeemed == [member |-> "none"]
Redemption == [member : Members, offer : Offers]
Redeeming == [pc : {"deduct", "record"}, key : RedeemKeys, member : Members, offer : Offers]

RewardsTypeOK ==
  /\ offers \subseteq Offers
  /\ points \in [Members -> Nat]
  /\ granted \in [Members -> Int]
  /\ redemptions \in [RedeemKeys -> Redemption \union {NotRedeemed}]
  /\ counter \in [Counters -> Redeeming \union {NotRedeeming}]

RewardsInit ==
  /\ offers = {}
  /\ points = [m \in Members |-> 0]
  /\ granted = [m \in Members |-> 0]
  /\ redemptions = [k \in RedeemKeys |-> NotRedeemed]
  /\ counter = [w \in Counters |-> NotRedeeming]

Serving(w, pc) == counter[w] # NotRedeeming /\ counter[w].pc = pc
TurnsTo(w, request) == counter' = [counter EXCEPT ![w] = request]

(* The row locks a transaction holds from its UPDATE to its commit. *)
Holds(w, m, o) == Serving(w, "record") /\ (counter[w].member = m \/ counter[w].offer = o)
AccountLocked(m) == \E w \in Counters : Serving(w, "record") /\ counter[w].member = m
-----------------------------------------------------------------------------
CreateOffer(o) ==
  /\ o \notin offers
  /\ offers' = offers \union {o}
  /\ UNCHANGED <<points, granted, redemptions, counter>>

(* Once per payment: the ledger entry and the points share a transaction. *)
accrueLoyaltyPoints(m, n) ==
  /\ ~AccountLocked(m)
  /\ granted[m] + n <= MaxGranted
  /\ points' = [points EXCEPT ![m] = @ + n]
  /\ granted' = [granted EXCEPT ![m] = @ + n]
  /\ UNCHANGED <<offers, redemptions, counter>>

(* The mistake of taking back points that are spent. *)
ClawsBackBelowZero(m, n) ==
  /\ ~AccountLocked(m)
  /\ granted[m] > 0
  /\ points' = [points EXCEPT ![m] = @ - n]
  /\ granted' = [granted EXCEPT ![m] = @ - n]
  /\ UNCHANGED <<offers, redemptions, counter>>

(* GREATEST(0, points - n): what was spent already is not taken back. *)
clawbackLoyaltyPoints(m, n) ==
  /\ ~AccountLocked(m)
  /\ granted[m] > 0
  /\ points' = [points EXCEPT ![m] = Max({0, @ - n})]
  /\ granted' = [granted EXCEPT ![m] = @ - Min({points[m], n})]
  /\ UNCHANGED <<offers, redemptions, counter>>

(* A known key is answered from its row. *)
CheckRedemption(w, k, m, o) ==
  /\ counter[w] = NotRedeeming
  /\ redemptions[k] = NotRedeemed
  /\ o \in offers
  /\ TurnsTo(w, [pc |-> "deduct", key |-> k, member |-> m, offer |-> o])
  /\ UNCHANGED <<offers, points, granted, redemptions>>

(* The offer's lock, then the conditional UPDATE on the account, which waits
   for the transaction that holds either; 402 when the points do not reach. *)
DeductPoints(w) ==
  /\ Serving(w, "deduct")
  /\ LET r == counter[w]
     IN  /\ ~\E x \in Counters \ {w} : Holds(x, r.member, r.offer)
         /\ TurnsTo(w, IF points[r.member] >= Cost[r.offer] THEN [r EXCEPT !.pc = "record"]
                       ELSE NotRedeeming)
  /\ UNCHANGED <<offers, points, granted, redemptions>>

(* The mistake of deducting in a transaction of its own: the loser has paid. *)
LoserHasPaid(w) ==
  /\ Serving(w, "record")
  /\ LET r == counter[w]
     IN  /\ points' = [points EXCEPT ![r.member] = @ - Cost[r.offer]]
         /\ redemptions' = IF redemptions[r.key] # NotRedeemed THEN redemptions
              ELSE [redemptions EXCEPT ![r.key] = [member |-> r.member, offer |-> r.offer]]
  /\ TurnsTo(w, NotRedeeming)
  /\ UNCHANGED <<offers, granted>>

(* The unique key judges the redemption: a loser of the race rolls back its
   deduction; the winner commits both. *)
RedeemOffer(w) ==
  /\ Serving(w, "record")
  /\ LET r == counter[w]
     IN  IF redemptions[r.key] # NotRedeemed THEN UNCHANGED <<points, redemptions>>
         ELSE /\ points' = [points EXCEPT ![r.member] = @ - Cost[r.offer]]
              /\ redemptions' = [redemptions EXCEPT ![r.key] =
                                   [member |-> r.member, offer |-> r.offer]]
  /\ TurnsTo(w, NotRedeeming)
  /\ UNCHANGED <<offers, granted>>

CounterStops(w) ==
  /\ counter[w] # NotRedeeming
  /\ TurnsTo(w, NotRedeeming)
  /\ UNCHANGED <<offers, points, granted, redemptions>>

RewardsNext ==
  \/ \E o \in Offers : CreateOffer(o)
  \/ \E m \in Members, n \in PointGrants : accrueLoyaltyPoints(m, n) \/ clawbackLoyaltyPoints(m, n)
  \/ \E w \in Counters :
       \/ \E k \in RedeemKeys, m \in Members, o \in Offers : CheckRedemption(w, k, m, o)
       \/ DeductPoints(w)
       \/ RedeemOffer(w)
       \/ CounterStops(w)
-----------------------------------------------------------------------------
Spent(m) ==
  MapThenSumSet(LAMBDA k : Cost[redemptions[k].offer],
                {k \in RedeemKeys : redemptions[k].member = m})

(* A member's points are what fares granted less what redemptions cost, and
   never negative: retries and races under one key deduct once, and two keys
   never spend the same points (RedeemOffer). *)
PointsSpentOnce ==
  \A m \in Members : points[m] = granted[m] - Spent(m) /\ points[m] >= 0
=============================================================================
