--------------------------- MODULE MCFarePayment ----------------------------
(***************************************************************************)
(* Instances of FarePayment for TLC.                                       *)
(***************************************************************************)
EXTENDS FarePayment, TLC

MCRiders == Riders
MCAccounts == Riders \union {Operator, Funding}
MCRefs == Keys \union TopUpKeys

HalfPrice == [kind |-> "discount", pct |-> 50, payer |-> TRUE]
FreeRide == [kind |-> "free", pct |-> 100, payer |-> TRUE]
MCDiscount == {HalfPrice}
MCFree == {FreeRide}
MCNoProducts == {}

Symmetry ==
  Permutations(Keys) \union Permutations(Tellers) \union Permutations(Refunders)
    \union Permutations(Riders) \union Permutations(TopUpKeys)
=============================================================================
