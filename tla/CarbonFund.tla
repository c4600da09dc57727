----------------------------- MODULE CarbonFund -----------------------------
(***************************************************************************)
(* The carbon fund (commerce-api consumers/carbon.go): every issued credit *)
(* moves its kilograms from the issuance account (4002) to the fund (4001).*)
(* carbon-analytics reissues a period's credit under the same id when it   *)
(* recomputes, possibly with other kilograms.                              *)
(***************************************************************************)
EXTENDS Ledger, EventConsumer, FiniteSets

CONSTANTS
  Credits,                        \* credit ids, one per period
  Kilograms,                      \* whole kilograms; 0 moves nothing
  CarbonIssuance, CarbonAccount,  \* accounts 4002 and 4001
  CarbonTopic                     \* carbon.credit.issued

ASSUME CarbonAssumption ==
  /\ Credits \subseteq Refs
  /\ Kilograms \subseteq Nat
  /\ {CarbonIssuance, CarbonAccount} \subseteq Accounts
  /\ CarbonTopic \in Topics
  /\ [credit : Credits, kg : Kilograms] \subseteq Payloads

(* carbon-analytics publishes; it is outside this service. *)
CreditIssued(c, kg) ==
  /\ Published(CarbonTopic, [credit |-> c, kg |-> kg])
  /\ UNCHANGED ledgerVars

CarbonTransfer(e) ==
  [id |-> <<"carbon", e.credit, 0>>, debit |-> CarbonIssuance, credit |-> CarbonAccount,
   amount |-> e.kg]

(* The ledger takes the leg, or has it already; the commit may fail. *)
PostCarbonFundLeg(commits) ==
  /\ Pending(CarbonTopic)
  /\ LET e == Current(CarbonTopic)
     IN  IF e.kg = 0 THEN UNCHANGED ledgerVars
         ELSE Accepts(CarbonTransfer(e)) /\ Transfer(CarbonTransfer(e))
  /\ Handled(CarbonTopic, commits)

(* The mistake of taking the refusal for a replay. *)
RefusalIsReplay ==
  /\ Pending(CarbonTopic)
  /\ LET e == Current(CarbonTopic) IN e.kg > 0 /\ ~Accepts(CarbonTransfer(e))
  /\ Handled(CarbonTopic, TRUE)
  /\ UNCHANGED ledgerVars

(* The ledger refuses the id with another amount: an error, like an outage. *)
CarbonLegRefused ==
  /\ Pending(CarbonTopic)
  /\ LET e == Current(CarbonTopic) IN e.kg > 0 /\ ~Accepts(CarbonTransfer(e))
  /\ Failed(CarbonTopic)
  /\ UNCHANGED ledgerVars

(* An outage, whose transfer may have been posted all the same. *)
CarbonLegFails(isPosted) ==
  /\ Pending(CarbonTopic)
  /\ LET e == Current(CarbonTopic)
     IN  IF isPosted /\ e.kg > 0 THEN Accepts(CarbonTransfer(e)) /\ Transfer(CarbonTransfer(e))
         ELSE UNCHANGED ledgerVars
  /\ Failed(CarbonTopic)

StartCarbonConsumer ==
  /\ Restarted(CarbonTopic)
  /\ UNCHANGED ledgerVars

CarbonNext ==
  \/ \E c \in Credits, kg \in Kilograms : CreditIssued(c, kg)
  \/ PostCarbonFundLeg(TRUE)
  \/ CarbonLegRefused

CarbonFaults ==
  \/ PostCarbonFundLeg(FALSE)
  \/ \E isPosted \in BOOLEAN : CarbonLegFails(isPosted)
  \/ StartCarbonConsumer
-----------------------------------------------------------------------------
CarbonLegs(c) == {t \in posted : t.id = <<"carbon", c, 0>>}

(* The fund holds one leg per credit, for kilograms that were issued under it,
   and every record whose last attempt succeeded has its own leg: a redelivery
   or a recompute never posts a credit twice (PostCarbonFundLeg). *)
CreditsFundedOnce ==
  /\ \A c \in Credits : Cardinality(CarbonLegs(c)) <= 1
  /\ \A i \in 1..Len(topic[CarbonTopic]) :
       LET e == topic[CarbonTopic][i]
       IN  outcome[CarbonTopic][i] = "done" /\ e.kg > 0 => CarbonLegs(e.credit) = {CarbonTransfer(e)}
=============================================================================
