------------------------------- MODULE Ledger -------------------------------
(***************************************************************************)
(* The double-entry ledger behind every money path of commerce-api         *)
(* (internal/ledger/ledger.go): a TigerBeetle cluster reached through      *)
(* tbLedger.  A transfer carries an id chosen by the caller; the cluster   *)
(* answers "exists" to an identical transfer, refuses the same id with     *)
(* other parameters, and refuses an overdraft of an account created with   *)
(* debits_must_not_exceed_credits.                                         *)
(***************************************************************************)
EXTENDS Integers

CONSTANTS
  Accounts,   \* every account of the ledger
  Guarded,    \* the accounts with debits_must_not_exceed_credits
  Refs        \* what ids are derived from: idempotency keys, row ids

ASSUME GuardedAssumption == Guarded \subseteq Accounts

VARIABLES
  posted,     \* the set of transfers the ledger has accepted
  balance     \* credits minus debits of every account

ledgerVars == <<posted, balance>>

(* DeterministicTransferID hashes the bare Idempotency-Key of a fare,
   "refund:<payment>:<new total>", "topup:<key>", "trade:<key>",
   "carbon:<credit>" and "invoice:<invoice>"; the hash is taken to be
   injective, so an id is its preimage. *)
TransferIds ==
  {"fare", "refund", "topup", "trade", "carbon", "invoice"} \X Refs \X Nat

Transfers ==
  [id : TransferIds, debit : Accounts, credit : Accounts, amount : Nat \ {0}]

LedgerTypeOK ==
  /\ posted \subseteq Transfers
  /\ balance \in [Accounts -> Int]

LedgerInit ==
  /\ posted = {}
  /\ balance = [a \in Accounts |-> 0]

KnownId(id) == \E t \in posted : t.id = id

Overdraws(t) == t.debit \in Guarded /\ balance[t.debit] < t.amount

(* Transfer returns no error: a retry of what is posted already, or a new
   transfer the debit account can bear.  EnsureAccount, which runs first, also
   errs when an account exists under another code than the transfer's, as 2001
   does for trades and invoices; accounts carry no code here, so the model
   accepts more transfers than the code does. *)
Accepts(t) == t \in posted \/ (~KnownId(t.id) /\ ~Overdraws(t))

(* The effect of an accepted transfer; a retry changes nothing. *)
Transfer(t) ==
  /\ posted' = posted \union {t}
  /\ balance' = IF t \in posted THEN balance
                ELSE [balance EXCEPT ![t.debit]  = @ - t.amount,
                                     ![t.credit] = @ + t.amount]
=============================================================================
