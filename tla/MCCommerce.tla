----------------------------- MODULE MCCommerce -----------------------------
(***************************************************************************)
(* Billing, the carbon fund, advertising and rewards for model checking.   *)
(* They share the ledger only through transfers whose ids and accounts are *)
(* disjoint, so a behaviour explores one of them.                          *)
(***************************************************************************)
EXTENDS Billing, CarbonFund, Advertising, Rewards, TLC

CONSTANTS
  Funds,       \* the settlements that reach a clearing account
  MaxFunded,   \* bound on a clearing account
  MaxFaults    \* bound on lost commits, outages and restarts

VARIABLES focus, faults

MCPeriods == {[from |-> 0, to |-> 1], [from |-> 0, to |-> 2]}
MCAdWindows == {[from |-> 0, to |-> 2], [from |-> 1, to |-> 3]}
MCCost == [o \in Offers |-> 2]
MCPayloads == [credit : Credits, kg : Kilograms]

moneyVars == <<ledgerVars, billingVars, consumerVars>>
vars == <<moneyVars, adVars, rewardVars, focus, faults>>

CommerceTypeOK ==
  /\ LedgerTypeOK
  /\ BillingTypeOK
  /\ ConsumerTypeOK
  /\ AdvertisingTypeOK
  /\ RewardsTypeOK

Init ==
  /\ LedgerInit
  /\ BillingInit
  /\ ConsumerInit
  /\ AdvertisingInit
  /\ RewardsInit
  /\ focus \in {"billing", "carbon", "ads", "rewards"}
  /\ faults = 0

Works ==
  \/ /\ focus = "billing"
     /\ \/ BillingNext
        \/ \E a \in BillingAccounts, x \in Funds :
             balance[a] + x <= MaxFunded /\ FundAccount(a, x)
     /\ UNCHANGED <<consumerVars, adVars, rewardVars>>
  \/ focus = "carbon" /\ CarbonNext /\ UNCHANGED <<billingVars, adVars, rewardVars>>
  \/ focus = "ads" /\ AdvertisingNext /\ UNCHANGED <<moneyVars, rewardVars>>
  \/ focus = "rewards" /\ RewardsNext /\ UNCHANGED <<moneyVars, adVars>>

Fails ==
  \/ focus = "billing" /\ BillingFaults /\ UNCHANGED <<consumerVars, adVars, rewardVars>>
  \/ focus = "carbon" /\ CarbonFaults /\ UNCHANGED <<billingVars, adVars, rewardVars>>

Next ==
  /\ UNCHANGED focus
  /\ \/ Works /\ UNCHANGED faults
     \/ Fails /\ faults < MaxFaults /\ faults' = faults + 1

Spec == Init /\ [][Next]_vars
=============================================================================
