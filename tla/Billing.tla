------------------------------- MODULE Billing ------------------------------
(***************************************************************************)
(* Corporate billing (commerce-api handlers/billing.go).  A fare covered by*)
(* an entitlement leaves a charge; an invoice sweeps the charges of a      *)
(* period; paying it moves the amount from the account's clearing account  *)
(* (5xxx) to operator revenue.  The ledger call runs inside the SQL        *)
(* transaction and survives its rollback.                                  *)
(***************************************************************************)
EXTENDS Ledger, Sequences, FiniteSets, FiniteSetsExt

CONSTANTS
  BillingAccounts,    \* accounts 5001 and on
  OperatorRevenue,    \* account 2001
  Periods,            \* the periods operators invoice
  ChargedAt,          \* the times charges carry
  Fares,              \* the amounts charged
  MaxCharges,         \* bound on the charges
  MaxInvoices,        \* bound on the invoices
  Tellers,            \* concurrent requests
  AtRest

ASSUME BillingAssumption ==
  /\ BillingAccounts \union {OperatorRevenue} \subseteq Accounts
  /\ BillingAccounts \subseteq Guarded
  /\ Periods \subseteq [from : Nat, to : Nat]
  /\ Fares \subseteq Nat \ {0}
  /\ 1..MaxInvoices \subseteq Refs

VARIABLES
  accounts,   \* commerce.billing_accounts that exist
  charges,    \* commerce.billing_charges, in insertion order
  invoices,   \* commerce.invoices, in insertion order
  teller      \* the transaction every request has open

billingVars == <<accounts, charges, invoices, teller>>

NoInvoice == 0
Charge == [account : BillingAccounts, at : ChargedAt, amount : Fares, invoice : 0..MaxInvoices]
Invoice == [account : BillingAccounts, period : Periods, amount : Nat, status : {"issued", "paid"}]
Transaction ==
  [pc : {"sweep"}, account : BillingAccounts, period : Periods, rows : SUBSET (1..MaxCharges)]
  \union [pc : {"pay"}, invoice : 1..MaxInvoices]

BillingTypeOK ==
  /\ accounts \subseteq BillingAccounts
  /\ charges \in Seq(Charge)
  /\ invoices \in Seq(Invoice)
  /\ teller \in [Tellers -> Transaction \union {AtRest}]

BillingInit ==
  /\ accounts = {}
  /\ charges = <<>>
  /\ invoices = <<>>
  /\ teller = [w \in Tellers |-> AtRest]

Opens(w, tx) == teller[w] = AtRest /\ teller' = [teller EXCEPT ![w] = tx]
Closes(w) == teller' = [teller EXCEPT ![w] = AtRest]
InTx(w, pc) == teller[w] # AtRest /\ teller[w].pc = pc
AmountOf(rows) == MapThenSumSet(LAMBDA c : charges[c].amount, rows)
-----------------------------------------------------------------------------
(* The id is the next free one; the unique index and a retry settle a race. *)
CreateBillingAccount(a) ==
  /\ a \notin accounts
  /\ accounts' = accounts \union {a}
  /\ UNCHANGED <<charges, invoices, teller, ledgerVars>>

(* The payment transaction commits; its charge carries the time it began. *)
RecordCharge(a, at, amount) ==
  /\ Len(charges) < MaxCharges
  /\ a \in accounts
  /\ charges' = Append(charges, [account |-> a, at |-> at, amount |-> amount,
                                 invoice |-> NoInvoice])
  /\ UNCHANGED <<accounts, invoices, teller, ledgerVars>>

(* Money reaches the clearing account from outside the system. *)
FundAccount(a, amount) ==
  /\ a \in accounts
  /\ balance' = [balance EXCEPT ![a] = @ + amount]
  /\ UNCHANGED <<billingVars, posted>>

(* The mistake of sweeping by period and not by invoice_id IS NULL. *)
InPeriod(a, p) ==
  {c \in DOMAIN charges : /\ charges[c].account = a
                          /\ charges[c].at >= p.from /\ charges[c].at < p.to}

Uninvoiced(a, p) ==
  {c \in DOMAIN charges : /\ charges[c].account = a
                          /\ charges[c].invoice = NoInvoice
                          /\ charges[c].at >= p.from /\ charges[c].at < p.to}

(* pg_advisory_xact_lock: one generation per account at a time. *)
LockedAccount(a) == \E w \in Tellers : InTx(w, "sweep") /\ teller[w].account = a

(* The replay of a period returns its invoice and changes nothing. *)
SweepCharges(w, a, p) ==
  /\ a \in accounts
  /\ ~LockedAccount(a)
  /\ ~\E i \in DOMAIN invoices : invoices[i].account = a /\ invoices[i].period = p
  /\ Uninvoiced(a, p) # {}
  /\ Opens(w, [pc |-> "sweep", account |-> a, period |-> p, rows |-> Uninvoiced(a, p)])
  /\ UNCHANGED <<accounts, charges, invoices, ledgerVars>>

GenerateInvoice(w) ==
  /\ InTx(w, "sweep")
  /\ Len(invoices) < MaxInvoices
  /\ LET tx == teller[w]
     IN  /\ invoices' = Append(invoices, [account |-> tx.account, period |-> tx.period,
                                          amount |-> AmountOf(tx.rows), status |-> "issued"])
         /\ charges' = [c \in DOMAIN charges |->
                          IF c \in tx.rows THEN [charges[c] EXCEPT !.invoice = Len(invoices) + 1]
                          ELSE charges[c]]
  /\ Closes(w)
  /\ UNCHANGED <<accounts, ledgerVars>>

InvoiceTransfer(i) ==
  [id |-> <<"invoice", i, 0>>, debit |-> invoices[i].account, credit |-> OperatorRevenue,
   amount |-> invoices[i].amount]

(* The mistake of marking the invoice before the ledger has answered. *)
PaysUnposted(w, i) ==
  /\ invoices[i].status = "issued"
  /\ Opens(w, [pc |-> "pay", invoice |-> i])
  /\ UNCHANGED <<accounts, charges, invoices, ledgerVars>>

(* SELECT ... FOR UPDATE, then the transfer; 402 when the account is short. *)
PayInvoice(w, i) ==
  /\ invoices[i].status = "issued"
  /\ ~\E x \in Tellers : InTx(x, "pay") /\ teller[x].invoice = i
  /\ Accepts(InvoiceTransfer(i))
  /\ Transfer(InvoiceTransfer(i))
  /\ Opens(w, [pc |-> "pay", invoice |-> i])
  /\ UNCHANGED <<accounts, charges, invoices>>

MarkInvoicePaid(w) ==
  /\ InTx(w, "pay")
  /\ invoices' = [invoices EXCEPT ![teller[w].invoice].status = "paid"]
  /\ Closes(w)
  /\ UNCHANGED <<accounts, charges, ledgerVars>>

(* A statement errs, the ledger's answer is lost, or the process dies. *)
RollsBack(w) ==
  /\ teller[w] # AtRest
  /\ Closes(w)
  /\ UNCHANGED <<accounts, charges, invoices, ledgerVars>>

BillingNext ==
  \/ \E a \in BillingAccounts :
       \/ CreateBillingAccount(a)
       \/ \E at \in ChargedAt, x \in Fares : RecordCharge(a, at, x)
       \/ \E w \in Tellers, p \in Periods : SweepCharges(w, a, p)
  \/ \E w \in Tellers : GenerateInvoice(w) \/ MarkInvoicePaid(w)
  \/ \E w \in Tellers, i \in DOMAIN invoices : PayInvoice(w, i)

BillingFaults == \E w \in Tellers : RollsBack(w)
-----------------------------------------------------------------------------
(* An invoice bills exactly the charges that name it, all of its account and
   its period, so overlapping periods and concurrent generations bill no charge
   twice and drop none they swept (GenerateInvoice). *)
InvoicesAddUp ==
  \A i \in DOMAIN invoices :
    LET rows == {c \in DOMAIN charges : charges[c].invoice = i}
        p == invoices[i].period
    IN  /\ invoices[i].amount = AmountOf(rows)
        /\ \A c \in rows : /\ charges[c].account = invoices[i].account
                           /\ charges[c].at \in p.from..(p.to - 1)

(* A paid invoice has its transfer in the ledger, for its amount, once, and a
   clearing account is never overdrawn; a payment that rolled back after the
   ledger had posted is picked up by the retry (PayInvoice). *)
PaidInvoicesArePosted ==
  /\ \A i \in DOMAIN invoices : invoices[i].status = "paid" => InvoiceTransfer(i) \in posted
  /\ \A t, u \in posted : t.id = u.id => t = u
  /\ \A a \in BillingAccounts : balance[a] >= 0
=============================================================================
