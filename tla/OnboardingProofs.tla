-------------------------- MODULE OnboardingProofs --------------------------
(***************************************************************************)
(* A completed onboarding request has its account, for any number of       *)
(* applicants, personas, administrators and concurrent API requests, and   *)
(* wherever one of them stops.                                             *)
(*                                                                         *)
(* The argument: accounts and requests only grow (AccountsGrow,            *)
(* RequestsGrow), so what a provisioning request has established by the    *)
(* call it is at (TaskOK) stays established until it writes "completed".   *)
(***************************************************************************)
EXTENDS Onboarding, TLAPS

ProvisionPcs ==
  {"count", "insert", "replay", "create", "password", "ensure", "assign", "email", "complete",
   "reject", "expire", "reassert"}
ProvisionTask == [pc : ProvisionPcs, persona : Personas, email : Emails, request : Nat]
RolesTask == [pc : {"roles"}, email : Emails, add : SUBSET RealmRoles, remove : SUBSET RealmRoles]
EnabledTask == [pc : {"enabled"}, email : Emails, enabled : BOOLEAN]
WelcomeTask == [pc : {"welcome"}, email : Emails, add : SUBSET RealmRoles]

(* What a provisioning request has established, of the requests rq, the accounts
   ac and the revoked roles rv, by the call it is at. *)
Established(t, rq, ac, rv) ==
  /\ t.pc \notin {"count", "insert", "replay"} =>
       /\ t.request \in DOMAIN rq
       /\ rq[t.request].persona = t.persona /\ rq[t.request].email = t.email
  /\ t.pc \in {"email", "complete"} =>
       RealmRole[t.persona] \in ac[t.email].roles \union rv[t.email]
  /\ t.pc \in {"password", "ensure", "assign", "email", "complete"} => ac[t.email].exists
  /\ t.pc = "complete" => ac[t.email].mailed

TaskOK(t, rq, ac, rv) ==
  \/ t = Idle
  \/ t \in ProvisionTask /\ Established(t, rq, ac, rv)
  \/ t \in RolesTask \union EnabledTask \union WelcomeTask

OnboardingTypeOK ==
  /\ requests \in Seq(Request)
  /\ account \in [Emails -> Account]
  /\ revoked \in [Emails -> SUBSET RealmRoles]

AgentsOK == DOMAIN agent = Agents /\ \A w \in Agents : TaskOK(agent[w], requests, account, revoked)

OnboardingInv == OnboardingTypeOK /\ AgentsOK /\ CompletedIsProvisioned

(* What no step does to a request or to an account: take it back. *)
RequestsGrow ==
  /\ requests' \in Seq(Request)
  /\ \A k \in DOMAIN requests :
       /\ k \in DOMAIN requests'
       /\ requests'[k].persona = requests[k].persona /\ requests'[k].email = requests[k].email

AccountsGrow ==
  /\ account' \in [Emails -> Account] /\ revoked' \in [Emails -> SUBSET RealmRoles]
  /\ \A e \in Emails :
       /\ account[e].exists => account'[e].exists
       /\ account[e].mailed => account'[e].mailed
       /\ account[e].roles \union revoked[e] \subseteq account'[e].roles \union revoked'[e]

(* A request is not completed by the step. *)
NoneCompleted ==
  \A k \in DOMAIN requests' :
    requests'[k].status = "completed" => k \in DOMAIN requests /\ requests[k].status = "completed"
-----------------------------------------------------------------------------
(* What was established stays established. *)
LEMMA EstablishedStays ==
  ASSUME OnboardingTypeOK, RequestsGrow, AccountsGrow,
         NEW t, TaskOK(t, requests, account, revoked)
  PROVE  TaskOK(t, requests', account', revoked')
<1>1. CASE t \in ProvisionTask /\ Established(t, requests, account, revoked)
  <2>1. t.email \in Emails
    BY <1>1 DEF ProvisionTask
  <2> QED BY <1>1, <2>1 DEF TaskOK, Established, RequestsGrow, AccountsGrow
<1> QED BY <1>1 DEF TaskOK

(* One agent turns to another task while requests and accounts only grow:
   the others still hold what they established. *)
LEMMA AgentsStay ==
  ASSUME OnboardingInv, RequestsGrow, AccountsGrow,
         NEW w \in Agents, NEW t, agent' = [agent EXCEPT ![w] = t],
         TaskOK(t, requests', account', revoked')
  PROVE  AgentsOK'
<1>1. \A v \in Agents : v # w => agent'[v] = agent[v]
  BY DEF OnboardingInv, AgentsOK
<1>2. DOMAIN agent' = Agents /\ agent'[w] = t
  BY DEF OnboardingInv, AgentsOK
<1>3. ASSUME NEW v \in Agents PROVE TaskOK(agent'[v], requests', account', revoked')
  <2>1. CASE v = w
    BY <2>1, <1>2
  <2>2. CASE v # w
    BY <2>2, <1>1, EstablishedStays DEF OnboardingInv, AgentsOK
  <2> QED BY <2>1, <2>2
<1> QED BY <1>2, <1>3 DEF AgentsOK

(* A step that completes no request keeps the completed ones provisioned. *)
LEMMA CompletedStay ==
  ASSUME OnboardingInv, RequestsGrow, AccountsGrow, NoneCompleted
  PROVE  CompletedIsProvisioned'
<1> SUFFICES ASSUME NEW k \in DOMAIN requests', requests'[k].status = "completed"
             PROVE  /\ account'[requests'[k].email].exists /\ account'[requests'[k].email].mailed
                    /\ RealmRole[requests'[k].persona] \in
                         account'[requests'[k].email].roles \union revoked'[requests'[k].email]
  BY DEF CompletedIsProvisioned
<1>1. k \in DOMAIN requests /\ requests[k].status = "completed"
  BY DEF NoneCompleted
<1>2. requests[k] \in Request
  BY <1>1 DEF OnboardingInv, OnboardingTypeOK
<1>3. requests[k].email \in Emails
  BY <1>2 DEF Request
<1>4. /\ requests'[k].email = requests[k].email /\ requests'[k].persona = requests[k].persona
  BY <1>1 DEF RequestsGrow
<1> QED BY <1>1, <1>3, <1>4 DEF OnboardingInv, CompletedIsProvisioned, AccountsGrow

(* A step of one agent that completes no request: its new task has to hold. *)
LEMMA StepKeeps ==
  ASSUME OnboardingInv, RequestsGrow, AccountsGrow, NoneCompleted,
         NEW w \in Agents, NEW t, agent' = [agent EXCEPT ![w] = t],
         TaskOK(t, requests', account', revoked')
  PROVE  OnboardingInv'
  BY AgentsStay, CompletedStay DEF OnboardingInv, OnboardingTypeOK, RequestsGrow, AccountsGrow

(* The frames: what a step that leaves requests or accounts alone does to them. *)
LEMMA SameRequests ==
  ASSUME OnboardingInv, requests' = requests
  PROVE  RequestsGrow /\ NoneCompleted
  BY DEF OnboardingInv, OnboardingTypeOK, RequestsGrow, NoneCompleted

(* Accounts that do not change grow trivially. *)
LEMMA SameAccounts ==
  ASSUME OnboardingInv, account' = account, revoked' = revoked
  PROVE  AccountsGrow
  BY DEF OnboardingInv, OnboardingTypeOK, AccountsGrow

(* One account is replaced by one that has no less. *)
LEMMA AccountReplaced ==
  ASSUME OnboardingInv, NEW e \in Emails, NEW row \in Account, NEW gone \in SUBSET RealmRoles,
         account' = [account EXCEPT ![e] = row], revoked' = [revoked EXCEPT ![e] = gone],
         account[e].exists => row.exists, account[e].mailed => row.mailed,
         account[e].roles \union revoked[e] \subseteq row.roles \union gone
  PROVE  AccountsGrow /\ account'[e] = row /\ revoked'[e] = gone
<1>1. /\ account' \in [Emails -> Account] /\ revoked' \in [Emails -> SUBSET RealmRoles]
      /\ account'[e] = row /\ revoked'[e] = gone
      /\ \A f \in Emails : f # e => account'[f] = account[f] /\ revoked'[f] = revoked[f]
  BY DEF OnboardingInv, OnboardingTypeOK
<1>2. ASSUME NEW f \in Emails
      PROVE  /\ account[f].exists => account'[f].exists
             /\ account[f].mailed => account'[f].mailed
             /\ account[f].roles \union revoked[f] \subseteq account'[f].roles \union revoked'[f]
  <2>1. CASE f = e
    BY <2>1, <1>1
  <2>2. CASE f # e
    BY <2>2, <1>1
  <2> QED BY <2>1, <2>2
<1> QED BY <1>1, <1>2 DEF AccountsGrow

(* A role given or taken stays on record. *)
LEMMA GivenGrows ==
  ASSUME OnboardingInv, NEW e \in Emails, NEW r \in RealmRoles, Given(e, r)
  PROVE  AccountsGrow /\ r \in account'[e].roles
<1> DEFINE row == [account[e] EXCEPT !.roles = @ \union {r}]
           gone == revoked[e] \ {r}
<1>1. account[e] \in Account /\ gone \in SUBSET RealmRoles
  BY DEF OnboardingInv, OnboardingTypeOK
<1>2. /\ row \in Account /\ row.roles = account[e].roles \union {r}
      /\ row.exists = account[e].exists /\ row.mailed = account[e].mailed
  BY <1>1 DEF Account
<1>3. account' = [account EXCEPT ![e] = row] /\ revoked' = [revoked EXCEPT ![e] = gone]
  BY DEF Given
<1>4. account[e].roles \union revoked[e] \subseteq row.roles \union gone
  BY <1>2
<1> HIDE DEF row, gone
<1>5. AccountsGrow /\ account'[e] = row
  BY <1>1, <1>2, <1>3, <1>4, AccountReplaced
<1> QED BY <1>5, <1>2

(* A role that an administrator takes away is recorded as revoked. *)
LEMMA TakenGrows ==
  ASSUME OnboardingInv, NEW e \in Emails, NEW r \in RealmRoles, Taken(e, r)
  PROVE  AccountsGrow
<1> DEFINE row == [account[e] EXCEPT !.roles = @ \ {r}]
           gone == revoked[e] \union {r}
<1>1. account[e] \in Account /\ gone \in SUBSET RealmRoles
  BY DEF OnboardingInv, OnboardingTypeOK
<1>2. /\ row \in Account /\ row.roles = account[e].roles \ {r}
      /\ row.exists = account[e].exists /\ row.mailed = account[e].mailed
  BY <1>1 DEF Account
<1>3. account' = [account EXCEPT ![e] = row] /\ revoked' = [revoked EXCEPT ![e] = gone]
  BY DEF Taken
<1>4. account[e].roles \union revoked[e] \subseteq row.roles \union gone
  BY <1>2
<1> HIDE DEF row, gone
<1> QED BY <1>1, <1>2, <1>3, <1>4, AccountReplaced

(* The updates of an account's other fields. *)
LEMMA AccountFields ==
  ASSUME NEW a \in Account, NEW b \in BOOLEAN
  PROVE  /\ LET row == [a EXCEPT !.exists = TRUE, !.enabled = TRUE]
            IN  /\ row \in Account /\ row.roles = a.roles /\ row.mailed = a.mailed
                /\ row.exists = TRUE
         /\ LET row == [a EXCEPT !.enabled = b]
            IN  /\ row \in Account /\ row.roles = a.roles /\ row.mailed = a.mailed
                /\ row.exists = a.exists
         /\ LET row == [a EXCEPT !.password = "temporary"]
            IN  /\ row \in Account /\ row.roles = a.roles /\ row.mailed = a.mailed
                /\ row.exists = a.exists
         /\ LET row == [a EXCEPT !.mailed = b]
            IN  /\ row \in Account /\ row.roles = a.roles /\ row.mailed = b
                /\ row.exists = a.exists
  BY DEF Account

(* An account is created, enabled or disabled, mailed, or given a password. *)
LEMMA AccountChanged ==
  ASSUME OnboardingInv, NEW e \in Emails, NEW row \in Account,
         account' = [account EXCEPT ![e] = row], revoked' = revoked,
         row.roles = account[e].roles,
         account[e].exists => row.exists, account[e].mailed => row.mailed
  PROVE  AccountsGrow /\ account'[e] = row
<1>1. revoked[e] \in SUBSET RealmRoles /\ revoked' = [revoked EXCEPT ![e] = revoked[e]]
  BY DEF OnboardingInv, OnboardingTypeOK
<1> QED BY <1>1, AccountReplaced

(* The task of an agent at a provisioning call, and that task one call on. *)
LEMMA AtProvision ==
  ASSUME OnboardingInv, NEW w \in Agents, NEW pc \in ProvisionPcs, At(w, pc)
  PROVE  agent[w] \in ProvisionTask /\ Established(agent[w], requests, account, revoked)
         /\ agent[w].pc = pc /\ agent[w].email \in Emails /\ agent[w].persona \in Personas
         /\ agent[w].request \in Nat /\ RealmRole[agent[w].persona] \in RealmRoles
  BY OnboardingAssumption
  DEF OnboardingInv, AgentsOK, At, TaskOK, ProvisionTask, ProvisionPcs, RolesTask, EnabledTask,
      WelcomeTask

(* The next call of a provisioning task is for the same request. *)
LEMMA ProceedsTask ==
  ASSUME OnboardingInv, NEW w \in Agents, NEW pc \in ProvisionPcs,
         agent[w] \in ProvisionTask, Proceeds(w, pc)
  PROVE  \E t \in ProvisionTask :
           /\ agent' = [agent EXCEPT ![w] = t] /\ t.pc = pc
           /\ t.persona = agent[w].persona /\ t.email = agent[w].email
           /\ t.request = agent[w].request
<1> DEFINE t == [agent[w] EXCEPT !.pc = pc]
<1>1. /\ t \in ProvisionTask /\ t.pc = pc /\ t.persona = agent[w].persona
      /\ t.email = agent[w].email /\ t.request = agent[w].request
  BY DEF ProvisionTask
<1>2. agent' = [agent EXCEPT ![w] = t]
  BY DEF Proceeds
<1> QED BY <1>1, <1>2

(* An idle agent claims nothing. *)
LEMMA IdleOK == ASSUME NEW rq, NEW ac, NEW rv PROVE TaskOK(Idle, rq, ac, rv)
  BY DEF TaskOK

(* A task that starts to provision a request of the table. *)
LEMMA ProvisioningOK ==
  ASSUME OnboardingTypeOK, NEW k \in DOMAIN requests,
         NEW pc \in {"create", "reject", "expire", "reassert"}
  PROVE  TaskOK(Provisioning(requests[k].persona, requests[k].email, k, pc),
                requests, account, revoked)
<1>1. requests[k] \in Request /\ k \in Nat
  BY DEF OnboardingTypeOK
<1>2. requests[k].persona \in Personas /\ requests[k].email \in Emails
  BY <1>1 DEF Request
<1> QED BY <1>1, <1>2 DEF TaskOK, Provisioning, ProvisionTask, ProvisionPcs, Established-----------------------------------------------------------------------------
(* Every action that completes no request keeps the invariant: the intake, *)
LEMMA ApplyKeeps ==
  ASSUME OnboardingInv, NEW w \in Agents, NEW p \in Personas, NEW e \in Emails, Apply(w, p, e)
  PROVE  OnboardingInv'
<1>1. RequestsGrow /\ NoneCompleted /\ AccountsGrow
      /\ requests' = requests /\ account' = account /\ revoked' = revoked
  BY SameRequests, SameAccounts DEF Apply
<1>2. CASE Pending(p, e) = {}
  <2>1. TaskOK(Provisioning(p, e, 0, "count"), requests, account, revoked)
    BY DEF TaskOK, Provisioning, ProvisionTask, ProvisionPcs, Established
  <2> QED BY <1>1, <1>2, <2>1, StepKeeps DEF Apply, Does
<1>3. CASE Pending(p, e) # {}
  <2>1. PICK k \in Pending(p, e) : agent' = [agent EXCEPT ![w] = Provisioning(p, e, k, "create")]
    BY <1>3 DEF Apply, Does
  <2>2. k \in DOMAIN requests /\ requests[k].persona = p /\ requests[k].email = e
    BY <2>1 DEF Pending
  <2>3. TaskOK(Provisioning(p, e, k, "create"), requests, account, revoked)
    BY <2>2, ProvisioningOK DEF OnboardingInv
  <2> QED BY <1>1, <2>1, <2>3, StepKeeps
<1> QED BY <1>2, <1>3

(* The velocity limit refuses the request or lets it on: overVelocity. *)
LEMMA VelocityKeeps ==
  ASSUME OnboardingInv, NEW w \in Agents, overVelocity(w)
  PROVE  OnboardingInv'
<1>1. RequestsGrow /\ NoneCompleted /\ AccountsGrow
      /\ requests' = requests /\ account' = account /\ revoked' = revoked
  BY SameRequests, SameAccounts DEF overVelocity
<1>2. agent[w] \in ProvisionTask
  BY AtProvision DEF overVelocity, ProvisionPcs
<1>3. CASE Does(w, Idle)
  BY <1>1, <1>3, IdleOK, StepKeeps DEF Does
<1>4. CASE Proceeds(w, "insert")
  <2>1. PICK t \in ProvisionTask : agent' = [agent EXCEPT ![w] = t] /\ t.pc = "insert"
    BY <1>2, <1>4, ProceedsTask DEF ProvisionPcs
  <2>2. TaskOK(t, requests, account, revoked)
    BY <2>1 DEF TaskOK, Established
  <2> QED BY <1>1, <2>1, <2>2, StepKeeps
<1> QED BY <1>3, <1>4 DEF overVelocity

(* A new request is pending, and self-service provisions it: CreateRequest. *)
LEMMA CreateRequestKeeps ==
  ASSUME OnboardingInv, NEW w \in Agents, CreateRequest(w)
  PROVE  OnboardingInv'
<1> DEFINE p == agent[w].persona
           e == agent[w].email
           row == [persona |-> p, email |-> e, age |-> 0, status |-> "pending"]
<1>1. AccountsGrow /\ account' = account /\ revoked' = revoked
  BY SameAccounts DEF CreateRequest
<1>2. agent[w] \in ProvisionTask /\ p \in Personas /\ e \in Emails
  BY AtProvision DEF CreateRequest, ProvisionPcs
<1>3. CASE Pending(p, e) # {}
  <2>1. Proceeds(w, "replay") /\ requests' = requests
    BY <1>3 DEF CreateRequest
  <2>2. PICK t \in ProvisionTask : agent' = [agent EXCEPT ![w] = t] /\ t.pc = "replay"
    BY <1>2, <2>1, ProceedsTask DEF ProvisionPcs
  <2>3. TaskOK(t, requests', account', revoked')
    BY <2>2 DEF TaskOK, Established
  <2> QED BY <1>1, <2>1, <2>2, <2>3, SameRequests, StepKeeps
<1>4. CASE Pending(p, e) = {}
  <2> DEFINE t == IF p = Citizen THEN Provisioning(p, e, Len(requests) + 1, "create") ELSE Idle
  <2>1. requests' = Append(requests, row) /\ agent' = [agent EXCEPT ![w] = t]
    BY <1>4 DEF CreateRequest, Does
  <2>2. row \in Request /\ row.status # "completed"
    BY <1>2 DEF Request
  <2>3. /\ requests' \in Seq(Request) /\ Len(requests) + 1 \in DOMAIN requests'
        /\ DOMAIN requests = 1..Len(requests) /\ DOMAIN requests' = 1..(Len(requests) + 1)
        /\ Len(requests) \in Nat
        /\ \A k \in DOMAIN requests : k \in DOMAIN requests' /\ requests'[k] = requests[k]
        /\ requests'[Len(requests) + 1] = row
    <3> HIDE DEF row
    <3> QED BY <2>1, <2>2 DEF OnboardingInv, OnboardingTypeOK
  <2>4. RequestsGrow
    BY <2>3 DEF RequestsGrow
  <2>5. NoneCompleted
    <3> HIDE DEF row
    <3> QED BY <2>2, <2>3 DEF NoneCompleted
  <2>6. row.persona = p /\ row.email = e
    OBVIOUS
  <2>7. TaskOK(Provisioning(p, e, Len(requests) + 1, "create"), requests', account', revoked')
    <3> HIDE DEF row, p, e
    <3> QED BY <1>2, <2>3, <2>6
        DEF TaskOK, Provisioning, ProvisionTask, ProvisionPcs, Established
  <2>8. TaskOK(t, requests', account', revoked')
    BY <2>7, IdleOK
  <2> QED BY <1>1, <2>1, <2>4, <2>5, <2>8, StepKeeps
<1> QED BY <1>3, <1>4

(* The loser of the insert race goes on with the pending request, or ends:
   ReplayRequest. *)
LEMMA ReplayKeeps ==
  ASSUME OnboardingInv, NEW w \in Agents, ReplayRequest(w)
  PROVE  OnboardingInv'
<1>1. RequestsGrow /\ NoneCompleted /\ AccountsGrow
      /\ requests' = requests /\ account' = account /\ revoked' = revoked
  BY SameRequests, SameAccounts DEF ReplayRequest
<1>2. CASE Does(w, Idle)
  BY <1>1, <1>2, IdleOK, StepKeeps DEF Does
<1>3. ASSUME NEW k \in Pending(agent[w].persona, agent[w].email),
             Does(w, Provisioning(agent[w].persona, agent[w].email, k, "create"))
      PROVE  OnboardingInv'
  <2>1. /\ k \in DOMAIN requests /\ requests[k].persona = agent[w].persona
        /\ requests[k].email = agent[w].email
    BY DEF Pending
  <2>2. TaskOK(Provisioning(agent[w].persona, agent[w].email, k, "create"),
               requests, account, revoked)
    BY <2>1, ProvisioningOK DEF OnboardingInv
  <2> QED BY <1>1, <1>3, <2>2, StepKeeps DEF Does
<1> QED BY <1>2, <1>3 DEF ReplayRequest
(* the calls of provision, *)
LEMMA CreateUserKeeps ==
  ASSUME OnboardingInv, NEW w \in Agents, CreateUser(w)
  PROVE  OnboardingInv'
<1> DEFINE e == agent[w].email
<1>1. RequestsGrow /\ NoneCompleted /\ requests' = requests /\ revoked' = revoked
  BY SameRequests DEF CreateUser
<1>2. agent[w] \in ProvisionTask /\ e \in Emails /\ agent[w].pc = "create"
      /\ Established(agent[w], requests, account, revoked)
  BY AtProvision DEF CreateUser, ProvisionPcs
<1>3. CASE account[e].exists
  <2>1. Proceeds(w, "ensure") /\ account' = account
    BY <1>3 DEF CreateUser
  <2>2. PICK t \in ProvisionTask :
          /\ agent' = [agent EXCEPT ![w] = t] /\ t.pc = "ensure"
          /\ t.persona = agent[w].persona /\ t.email = e /\ t.request = agent[w].request
    BY <1>2, <2>1, ProceedsTask DEF ProvisionPcs
  <2>3. TaskOK(t, requests', account', revoked')
    BY <1>1, <1>2, <1>3, <2>1, <2>2 DEF TaskOK, Established
  <2> QED BY <1>1, <2>1, <2>2, <2>3, SameAccounts, StepKeeps
<1>4. CASE ~account[e].exists
  <2> DEFINE row == [account[e] EXCEPT !.exists = TRUE, !.enabled = TRUE]
  <2>1. Proceeds(w, "password") /\ account' = [account EXCEPT ![e] = row]
    BY <1>2, <1>4 DEF CreateUser, OnboardingInv, OnboardingTypeOK
  <2>2. /\ row \in Account /\ row.roles = account[e].roles /\ row.exists
        /\ row.mailed = account[e].mailed
    <3>1. account[e] \in Account
      BY <1>2 DEF OnboardingInv, OnboardingTypeOK
    <3> QED BY <3>1, AccountFields
  <2> HIDE DEF row
  <2>3. AccountsGrow /\ account'[e] = row
    BY <1>1, <1>2, <2>1, <2>2, AccountChanged
  <2>4. PICK t \in ProvisionTask :
          /\ agent' = [agent EXCEPT ![w] = t] /\ t.pc = "password"
          /\ t.persona = agent[w].persona /\ t.email = e /\ t.request = agent[w].request
    BY <1>2, <2>1, ProceedsTask DEF ProvisionPcs
  <2>5. TaskOK(t, requests', account', revoked')
    BY <1>1, <1>2, <2>2, <2>3, <2>4 DEF TaskOK, Established
  <2> QED BY <1>1, <2>3, <2>4, <2>5, StepKeeps
<1> QED BY <1>3, <1>4

(* The temporary password touches neither roles nor mail: SetTemporaryPassword. *)
LEMMA PasswordKeeps ==
  ASSUME OnboardingInv, NEW w \in Agents, SetTemporaryPassword(w)
  PROVE  OnboardingInv'
<1> DEFINE e == agent[w].email
           row == [account[e] EXCEPT !.password = "temporary"]
<1>1. RequestsGrow /\ NoneCompleted /\ requests' = requests /\ revoked' = revoked
  BY SameRequests DEF SetTemporaryPassword
<1>2. agent[w] \in ProvisionTask /\ e \in Emails /\ agent[w].pc = "password"
      /\ Established(agent[w], requests, account, revoked)
  BY AtProvision DEF SetTemporaryPassword, ProvisionPcs
<1>3. Proceeds(w, "ensure") /\ account' = [account EXCEPT ![e] = row]
  BY DEF SetTemporaryPassword
<1>4. /\ row \in Account /\ row.roles = account[e].roles /\ row.exists = account[e].exists
      /\ row.mailed = account[e].mailed
  <2>1. account[e] \in Account
    BY <1>2 DEF OnboardingInv, OnboardingTypeOK
  <2> QED BY <2>1, AccountFields
<1> HIDE DEF row
<1>5. AccountsGrow /\ account'[e] = row
  BY <1>1, <1>2, <1>3, <1>4, AccountChanged
<1>6. PICK t \in ProvisionTask :
        /\ agent' = [agent EXCEPT ![w] = t] /\ t.pc = "ensure"
        /\ t.persona = agent[w].persona /\ t.email = e /\ t.request = agent[w].request
  BY <1>2, <1>3, ProceedsTask DEF ProvisionPcs
<1>7. TaskOK(t, requests', account', revoked')
  BY <1>1, <1>2, <1>4, <1>5, <1>6 DEF TaskOK, Established
<1> QED BY <1>1, <1>5, <1>6, <1>7, StepKeeps

(* The role is looked up before it is assigned: EnsureRealmRole. *)
LEMMA EnsureKeeps ==
  ASSUME OnboardingInv, NEW w \in Agents, EnsureRealmRole(w)
  PROVE  OnboardingInv'
<1> DEFINE has == RealmRole[agent[w].persona] \in account[agent[w].email].roles
           pc == IF has THEN "email" ELSE "assign"
<1>1. RequestsGrow /\ NoneCompleted /\ AccountsGrow
      /\ requests' = requests /\ account' = account /\ revoked' = revoked
  BY SameRequests, SameAccounts DEF EnsureRealmRole
<1>2. agent[w] \in ProvisionTask /\ agent[w].pc = "ensure"
      /\ Established(agent[w], requests, account, revoked)
  BY AtProvision DEF EnsureRealmRole, ProvisionPcs
<1>3. PICK t \in ProvisionTask :
        /\ agent' = [agent EXCEPT ![w] = t] /\ t.pc = pc
        /\ t.persona = agent[w].persona /\ t.email = agent[w].email
        /\ t.request = agent[w].request
  BY <1>2, ProceedsTask DEF ProvisionPcs, EnsureRealmRole
<1>4. TaskOK(t, requests', account', revoked')
  BY <1>1, <1>2, <1>3 DEF TaskOK, Established
<1> QED BY <1>1, <1>3, <1>4, StepKeeps

(* The account has its role once the call returned: AssignRealmRole. *)
LEMMA AssignKeeps ==
  ASSUME OnboardingInv, NEW w \in Agents, AssignRealmRole(w)
  PROVE  OnboardingInv'
<1> DEFINE e == agent[w].email
           role == RealmRole[agent[w].persona]
<1>1. RequestsGrow /\ NoneCompleted /\ requests' = requests
  BY SameRequests DEF AssignRealmRole
<1>2. agent[w] \in ProvisionTask /\ e \in Emails /\ agent[w].pc = "assign" /\ role \in RealmRoles
      /\ Established(agent[w], requests, account, revoked)
  BY AtProvision DEF AssignRealmRole, ProvisionPcs
<1>3. AccountsGrow /\ role \in account'[e].roles
  BY <1>2, GivenGrows DEF AssignRealmRole
<1>4. PICK t \in ProvisionTask :
        /\ agent' = [agent EXCEPT ![w] = t] /\ t.pc = "email"
        /\ t.persona = agent[w].persona /\ t.email = e /\ t.request = agent[w].request
  BY <1>2, ProceedsTask DEF ProvisionPcs, AssignRealmRole
<1>5. TaskOK(t, requests', account', revoked')
  BY <1>1, <1>2, <1>3, <1>4 DEF TaskOK, Established, AccountsGrow
<1> QED BY <1>1, <1>3, <1>4, <1>5, StepKeeps

(* The account is mailed once it has its role: SendActionsEmail. *)
LEMMA EmailKeeps ==
  ASSUME OnboardingInv, NEW w \in Agents, SendActionsEmail(w)
  PROVE  OnboardingInv'
<1> DEFINE e == agent[w].email
           row == [account[e] EXCEPT !.mailed = TRUE]
<1>1. RequestsGrow /\ NoneCompleted /\ requests' = requests /\ revoked' = revoked
  BY SameRequests DEF SendActionsEmail
<1>2. agent[w] \in ProvisionTask /\ e \in Emails /\ agent[w].pc = "email"
      /\ Established(agent[w], requests, account, revoked)
  BY AtProvision DEF SendActionsEmail, ProvisionPcs
<1>3. Proceeds(w, "complete") /\ account' = [account EXCEPT ![e] = row]
  BY DEF SendActionsEmail
<1>4. /\ row \in Account /\ row.roles = account[e].roles /\ row.exists = account[e].exists
      /\ row.mailed
  <2>1. account[e] \in Account
    BY <1>2 DEF OnboardingInv, OnboardingTypeOK
  <2> QED BY <2>1, AccountFields
<1> HIDE DEF row
<1>5. AccountsGrow /\ account'[e] = row
  BY <1>1, <1>2, <1>3, <1>4, AccountChanged
<1>6. PICK t \in ProvisionTask :
        /\ agent' = [agent EXCEPT ![w] = t] /\ t.pc = "complete"
        /\ t.persona = agent[w].persona /\ t.email = e /\ t.request = agent[w].request
  BY <1>2, <1>3, ProceedsTask DEF ProvisionPcs
<1>7. TaskOK(t, requests', account', revoked')
  BY <1>1, <1>2, <1>4, <1>5, <1>6 DEF TaskOK, Established
<1> QED BY <1>1, <1>5, <1>6, <1>7, StepKeeps
(* the decisions and the reconciler, *)
LEMMA DecidesKeeps ==
  ASSUME OnboardingInv, NEW w \in Agents, NEW k \in DOMAIN requests, NEW approve \in BOOLEAN,
         Decides(w, k, approve)
  PROVE  OnboardingInv'
<1>1. RequestsGrow /\ NoneCompleted /\ AccountsGrow
      /\ requests' = requests /\ account' = account /\ revoked' = revoked
  BY SameRequests, SameAccounts DEF Decides
<1>2. PICK pc \in {"create", "reject", "expire", "reassert"} :
        agent' = [agent EXCEPT ![w] =
                    Provisioning(requests[k].persona, requests[k].email, k, pc)]
  BY DEF Decides, Does
<1>3. TaskOK(Provisioning(requests[k].persona, requests[k].email, k, pc),
             requests, account, revoked)
  BY ProvisioningOK DEF OnboardingInv
<1> QED BY <1>1, <1>2, <1>3, StepKeeps

(* The reconciler takes up a completed request that misses its role:
   Reconcile. *)
LEMMA ReconcileKeeps ==
  ASSUME OnboardingInv, NEW w \in Agents, NEW k \in DOMAIN requests, Reconcile(w, k)
  PROVE  OnboardingInv'
<1>1. RequestsGrow /\ NoneCompleted /\ AccountsGrow
      /\ requests' = requests /\ account' = account /\ revoked' = revoked
  BY SameRequests, SameAccounts DEF Reconcile
<1>2. TaskOK(Provisioning(requests[k].persona, requests[k].email, k, "reassert"),
             requests, account, revoked)
  BY ProvisioningOK DEF OnboardingInv
<1> QED BY <1>1, <1>2, StepKeeps DEF Reconcile, Does

(* The reconciler gives that role again: ReassertRole. *)
LEMMA ReassertKeeps ==
  ASSUME OnboardingInv, NEW w \in Agents, ReassertRole(w)
  PROVE  OnboardingInv'
<1>1. RequestsGrow /\ NoneCompleted
  BY SameRequests DEF ReassertRole
<1>2. agent[w].email \in Emails /\ RealmRole[agent[w].persona] \in RealmRoles
  BY AtProvision DEF ReassertRole, ProvisionPcs
<1>3. AccountsGrow
  BY <1>2, GivenGrows DEF ReassertRole
<1> QED BY <1>1, <1>3, IdleOK, StepKeeps DEF ReassertRole, Does

(* and the step that completes one: what it needs was established. *)
LEMMA DecideKeeps ==
  ASSUME OnboardingInv, NEW w \in Agents, Decide(w)
  PROVE  OnboardingInv'
<1> DEFINE k == agent[w].request
<1>1. AccountsGrow /\ account' = account /\ revoked' = revoked
      /\ agent' = [agent EXCEPT ![w] = Idle]
  BY SameAccounts DEF Decide, Does
<1>2. PICK status \in {"completed", "rejected", "expired"} :
        /\ requests' = [requests EXCEPT ![k].status = status]
        /\ At(w, IF status = "completed" THEN "complete"
                 ELSE IF status = "rejected" THEN "reject" ELSE "expire")
  BY DEF Decide, Written
<1>3. Established(agent[w], requests, account, revoked) /\ agent[w].email \in Emails
      /\ agent[w].pc \in {"complete", "reject", "expire"}
      /\ (status = "completed" => agent[w].pc = "complete")
  BY <1>2, AtProvision DEF ProvisionPcs
<1>4. /\ k \in DOMAIN requests /\ requests[k].persona = agent[w].persona
      /\ requests[k].email = agent[w].email
  BY <1>3 DEF Established
<1> DEFINE row == [requests[k] EXCEPT !.status = status]
<1>5. requests[k] \in Request
  BY <1>4 DEF OnboardingInv, OnboardingTypeOK
<1>6. /\ row \in Request /\ row.status = status
      /\ row.persona = requests[k].persona /\ row.email = requests[k].email
  <2> HIDE DEF k
  <2> QED BY <1>5 DEF Request
<1>7. requests' = [requests EXCEPT ![k] = row]
  BY <1>2
<1> HIDE DEF row, k
<1>8. /\ requests' \in Seq(Request) /\ DOMAIN requests' = DOMAIN requests
      /\ requests'[k] = row /\ \A j \in DOMAIN requests : j # k => requests'[j] = requests[j]
  BY <1>4, <1>6, <1>7 DEF OnboardingInv, OnboardingTypeOK
<1>9. RequestsGrow
  BY <1>4, <1>6, <1>8 DEF RequestsGrow
<1>10. AgentsOK'
  BY <1>1, <1>9, IdleOK, AgentsStay
<1>11. CompletedIsProvisioned'
  <2> SUFFICES ASSUME NEW j \in DOMAIN requests', requests'[j].status = "completed"
               PROVE  /\ account'[requests'[j].email].exists /\ account'[requests'[j].email].mailed
                      /\ RealmRole[requests'[j].persona] \in
                           account'[requests'[j].email].roles \union revoked'[requests'[j].email]
    BY DEF CompletedIsProvisioned
  <2>1. CASE j # k
    BY <2>1, <1>1, <1>8 DEF OnboardingInv, CompletedIsProvisioned
  <2>2. CASE j = k
    <3>1. agent[w].pc = "complete"
      BY <2>2, <1>3, <1>6, <1>8
    <3>2. /\ account[agent[w].email].exists /\ account[agent[w].email].mailed
          /\ RealmRole[agent[w].persona] \in
               account[agent[w].email].roles \union revoked[agent[w].email]
      BY <3>1, <1>3 DEF Established
    <3> QED BY <2>2, <3>2, <1>1, <1>4, <1>6, <1>8
  <2> QED BY <2>1, <2>2
<1> QED BY <1>1, <1>8, <1>10, <1>11 DEF OnboardingInv, OnboardingTypeOK

(* The clock, the TTL sweep and nothing at all. *)
LEMMA TimeKeeps ==
  ASSUME OnboardingInv, agent' = agent, account' = account, revoked' = revoked,
         DOMAIN requests' = DOMAIN requests, requests' \in Seq(Request),
         \A k \in DOMAIN requests :
           /\ requests'[k].persona = requests[k].persona /\ requests'[k].email = requests[k].email
           /\ requests'[k].status = "completed" => requests[k].status = "completed"
  PROVE  OnboardingInv'
<1>1. RequestsGrow /\ NoneCompleted /\ AccountsGrow
  BY SameAccounts DEF RequestsGrow, NoneCompleted
<1>2. AgentsOK'
  BY <1>1, EstablishedStays DEF OnboardingInv, AgentsOK
<1> QED BY <1>1, <1>2, CompletedStay DEF OnboardingInv, OnboardingTypeOK, RequestsGrow

(* The TTL sweep and the passing of time only touch pending requests. *)
LEMMA ExpireKeeps == OnboardingInv /\ (ExpirePending \/ TimePasses) => OnboardingInv'
<1> SUFFICES ASSUME OnboardingInv, ExpirePending \/ TimePasses PROVE OnboardingInv'
  OBVIOUS
<1>1. requests \in Seq(Request) /\ \A k \in DOMAIN requests : requests[k] \in Request
  BY DEF OnboardingInv, OnboardingTypeOK
<1>2. \A r \in Request :
        /\ [r EXCEPT !.status = "expired"] \in Request
        /\ [r EXCEPT !.status = "expired"].persona = r.persona
        /\ [r EXCEPT !.status = "expired"].email = r.email
        /\ [r EXCEPT !.status = "expired"].status = "expired"
  BY DEF Request
<1>3. \A r \in Request :
        LET s == [r EXCEPT !.age = IF @ = 2 THEN 2 ELSE @ + 1]
        IN  s \in Request /\ s.persona = r.persona /\ s.email = r.email /\ s.status = r.status
  BY DEF Request
<1>4. CASE ExpirePending
  <2>1. /\ DOMAIN requests' = DOMAIN requests /\ agent' = agent
        /\ account' = account /\ revoked' = revoked
        /\ \A k \in DOMAIN requests :
             \/ requests'[k] = requests[k]
             \/ requests'[k] = [requests[k] EXCEPT !.status = "expired"]
    BY <1>4 DEF ExpirePending
  <2>2. \A k \in DOMAIN requests :
          /\ requests'[k] \in Request
          /\ requests'[k].persona = requests[k].persona /\ requests'[k].email = requests[k].email
          /\ requests'[k].status = "completed" => requests[k].status = "completed"
    BY <1>1, <1>2, <2>1, ZenonT(40)
  <2>3. requests' \in Seq(Request)
    BY <1>1, <1>4, <2>2, SMTT(40) DEF ExpirePending
  <2> QED BY <2>1, <2>2, <2>3, TimeKeeps
<1>5. CASE TimePasses
  <2>1. /\ DOMAIN requests' = DOMAIN requests /\ agent' = agent
        /\ account' = account /\ revoked' = revoked
        /\ \A k \in DOMAIN requests :
             requests'[k] = [requests[k] EXCEPT !.age = IF @ = 2 THEN 2 ELSE @ + 1]
    BY <1>5 DEF TimePasses
  <2>2. \A k \in DOMAIN requests :
          /\ requests'[k] \in Request
          /\ requests'[k].persona = requests[k].persona /\ requests'[k].email = requests[k].email
          /\ requests'[k].status = "completed" => requests[k].status = "completed"
    BY <1>1, <1>3, <2>1, ZenonT(40)
  <2>3. requests' \in Seq(Request)
    BY <1>1, <1>5, <2>2 DEF TimePasses
  <2> QED BY <2>1, <2>2, <2>3, TimeKeeps
<1> QED BY <1>4, <1>5
(* The user administration, which gives and takes roles under the requests. *)
LEMMA AtOther ==
  ASSUME OnboardingInv, NEW w \in Agents
  PROVE  /\ At(w, "roles") => agent[w] \in RolesTask
         /\ At(w, "enabled") => agent[w] \in EnabledTask
         /\ At(w, "welcome") => agent[w] \in WelcomeTask
  BY DEF OnboardingInv, AgentsOK, At, TaskOK, ProvisionTask, ProvisionPcs, RolesTask, EnabledTask,
         WelcomeTask

(* Roles are added and taken away one call at a time: ChangeRole. *)
LEMMA ChangeRoleKeeps ==
  ASSUME OnboardingInv, NEW w \in Agents, ChangeRole(w)
  PROVE  OnboardingInv'
<1> DEFINE t == agent[w]
<1>1. RequestsGrow /\ NoneCompleted
  BY SameRequests DEF ChangeRole
<1>2. t \in RolesTask
  BY AtOther DEF ChangeRole
<1>3. t.email \in Emails /\ t.add \subseteq RealmRoles /\ t.remove \subseteq RealmRoles
  BY <1>2 DEF RolesTask
<1>4. \A r : [t EXCEPT !.add = @ \ {r}] \in RolesTask /\ [t EXCEPT !.remove = @ \ {r}] \in RolesTask
  BY <1>2 DEF RolesTask
<1>5. ASSUME NEW r \in t.add, Given(t.email, r),
             Does(w, IF t.add = {r} /\ t.remove = {} THEN Idle ELSE [t EXCEPT !.add = @ \ {r}])
      PROVE  OnboardingInv'
  <2> DEFINE next == IF t.add = {r} /\ t.remove = {} THEN Idle ELSE [t EXCEPT !.add = @ \ {r}]
  <2>1. AccountsGrow
    BY <1>3, <1>5, GivenGrows
  <2>2. TaskOK(next, requests', account', revoked') /\ agent' = [agent EXCEPT ![w] = next]
    BY <1>4, <1>5 DEF TaskOK, Does
  <2> HIDE DEF next
  <2> QED BY <1>1, <2>1, <2>2, StepKeeps
<1>6. ASSUME NEW r \in t.remove, Taken(t.email, r),
             Does(w, IF t.remove = {r} THEN Idle ELSE [t EXCEPT !.remove = @ \ {r}])
      PROVE  OnboardingInv'
  <2> DEFINE next == IF t.remove = {r} THEN Idle ELSE [t EXCEPT !.remove = @ \ {r}]
  <2>1. AccountsGrow
    BY <1>3, <1>6, TakenGrows
  <2>2. TaskOK(next, requests', account', revoked') /\ agent' = [agent EXCEPT ![w] = next]
    BY <1>4, <1>6 DEF TaskOK, Does
  <2> HIDE DEF next
  <2> QED BY <1>1, <2>1, <2>2, StepKeeps
<1> QED BY <1>5, <1>6 DEF ChangeRole

(* Enabling and disabling keeps roles and mail: PutEnabled. *)
LEMMA EnabledKeeps ==
  ASSUME OnboardingInv, NEW w \in Agents, PutEnabled(w)
  PROVE  OnboardingInv'
<1> DEFINE e == agent[w].email
           row == [account[e] EXCEPT !.enabled = agent[w].enabled]
<1>1. RequestsGrow /\ NoneCompleted /\ revoked' = revoked /\ agent' = [agent EXCEPT ![w] = Idle]
  BY SameRequests DEF PutEnabled, Does
<1>2. e \in Emails /\ agent[w].enabled \in BOOLEAN
  BY AtOther DEF PutEnabled, EnabledTask
<1>3. account[e] \in Account /\ account' = [account EXCEPT ![e] = row]
  BY <1>2 DEF OnboardingInv, OnboardingTypeOK, PutEnabled
<1>4. /\ row \in Account /\ row.roles = account[e].roles /\ row.exists = account[e].exists
      /\ row.mailed = account[e].mailed
  BY <1>2, <1>3 DEF Account
<1> HIDE DEF row
<1>5. AccountsGrow
  BY <1>1, <1>2, <1>3, <1>4, AccountChanged
<1> QED BY <1>1, <1>5, IdleOK, StepKeeps

(* The administrator's new account has no less than none: Create. *)
LEMMA CreateKeeps ==
  ASSUME OnboardingInv, NEW w \in Agents, NEW e \in Emails, NEW roles \in SUBSET RealmRoles,
         Create(w, e, roles)
  PROVE  OnboardingInv'
<1> DEFINE row == [account[e] EXCEPT !.exists = TRUE, !.enabled = TRUE]
           t == [pc |-> "welcome", email |-> e, add |-> roles]
<1>1. RequestsGrow /\ NoneCompleted /\ revoked' = revoked /\ agent' = [agent EXCEPT ![w] = t]
  BY SameRequests DEF Create, Does
<1>2. account[e] \in Account /\ account' = [account EXCEPT ![e] = row]
  BY DEF OnboardingInv, OnboardingTypeOK, Create
<1>3. /\ row \in Account /\ row.roles = account[e].roles /\ row.exists
      /\ row.mailed = account[e].mailed
  BY <1>2, AccountFields
<1>4. TaskOK(t, requests', account', revoked')
  BY DEF TaskOK, WelcomeTask
<1> HIDE DEF row, t
<1>5. AccountsGrow
  BY <1>1, <1>2, <1>3, AccountChanged
<1> QED BY <1>1, <1>4, <1>5, StepKeeps

(* The password mail of an account, sent or not *)
LEMMA MailedGrows ==
  ASSUME OnboardingInv, NEW e \in Emails, NEW ok \in BOOLEAN, revoked' = revoked,
         account' = [account EXCEPT ![e].mailed = @ \/ ok]
  PROVE  AccountsGrow
<1>1. account[e] \in Account
  BY DEF OnboardingInv, OnboardingTypeOK
<1>2. account[e].mailed \in BOOLEAN
  BY <1>1 DEF Account
<1> DEFINE b == account[e].mailed \/ ok
           row == [account[e] EXCEPT !.mailed = b]
<1>3. b \in BOOLEAN /\ (account[e].mailed => b)
  BY <1>2
<1>4. account' = [account EXCEPT ![e] = row]
  OBVIOUS
<1> HIDE DEF b
<1>5. /\ row \in Account /\ row.roles = account[e].roles /\ row.exists = account[e].exists
      /\ row.mailed = b
  BY <1>1, <1>3 DEF Account
<1> HIDE DEF row
<1> QED BY <1>3, <1>4, <1>5, AccountChanged

(* The new account gets its roles and its mail: Welcome. *)
LEMMA WelcomeKeeps ==
  ASSUME OnboardingInv, NEW w \in Agents, Welcome(w)
  PROVE  OnboardingInv'
<1> DEFINE t == agent[w]
<1>1. RequestsGrow /\ NoneCompleted
  BY SameRequests DEF Welcome
<1>2. t \in WelcomeTask
  BY AtOther DEF Welcome
<1>3. t.email \in Emails /\ t.add \subseteq RealmRoles
      /\ \A r : [t EXCEPT !.add = @ \ {r}] \in WelcomeTask
  BY <1>2 DEF WelcomeTask
<1>4. ASSUME NEW r \in t.add, Given(t.email, r), Does(w, [t EXCEPT !.add = @ \ {r}])
      PROVE  OnboardingInv'
  <2>1. AccountsGrow
    BY <1>3, <1>4, GivenGrows
  <2>2. TaskOK([t EXCEPT !.add = @ \ {r}], requests', account', revoked')
    BY <1>3 DEF TaskOK
  <2> QED BY <1>1, <1>4, <2>1, <2>2, StepKeeps DEF Does
<1>5. ASSUME NEW ok \in BOOLEAN, account' = [account EXCEPT ![t.email].mailed = @ \/ ok],
             revoked' = revoked, Does(w, Idle)
      PROVE  OnboardingInv'
  <2>1. AccountsGrow
    BY <1>3, <1>5, MailedGrows
  <2> QED BY <1>1, <1>5, <2>1, IdleOK, StepKeeps DEF Does
<1> QED BY <1>4, <1>5 DEF Welcome

(* A password mail marks the account mailed: ResetPassword. *)
LEMMA ResetKeeps ==
  ASSUME OnboardingInv, NEW e \in Emails, ResetPassword(e)
  PROVE  OnboardingInv'
<1> DEFINE row == [account[e] EXCEPT !.mailed = TRUE]
<1>1. RequestsGrow /\ NoneCompleted /\ revoked' = revoked /\ agent' = agent
  BY SameRequests DEF ResetPassword
<1>2. account[e] \in Account /\ account' = [account EXCEPT ![e] = row]
  BY DEF OnboardingInv, OnboardingTypeOK, ResetPassword
<1>3. /\ row \in Account /\ row.roles = account[e].roles /\ row.exists = account[e].exists
      /\ row.mailed = TRUE
  BY <1>2, AccountFields
<1> HIDE DEF row
<1>4. AccountsGrow
  BY <1>1, <1>2, <1>3, AccountChanged
<1>5. AgentsOK'
  BY <1>1, <1>4, EstablishedStays DEF OnboardingInv, AgentsOK
<1> QED BY <1>1, <1>4, <1>5, CompletedStay
    DEF OnboardingInv, OnboardingTypeOK, RequestsGrow, AccountsGrow

(* User administration starts on an idle agent, which claims nothing, and an
   agent that stops drops its claims. *)
LEMMA UserRequestsKeep ==
  ASSUME OnboardingInv, NEW w \in Agents, UserRequests(w) \/ AgentStops(w)
  PROVE  OnboardingInv'
<1>1. ASSUME requests' = requests, account' = account, revoked' = revoked,
             NEW t, Does(w, t), TaskOK(t, requests, account, revoked)
      PROVE  OnboardingInv'
  BY <1>1, SameRequests, SameAccounts, StepKeeps DEF Does
<1>2. ASSUME NEW e \in Emails, NEW add \in SUBSET {Admin}, NEW role \in RealmRoles,
             UpdateRoles(w, e, add, {role} \ add)
      PROVE  OnboardingInv'
  <2>1. [pc |-> "roles", email |-> e, add |-> add, remove |-> {role} \ add] \in RolesTask
    BY OnboardingAssumption DEF RolesTask
  <2> QED BY <1>1, <1>2, <2>1 DEF UpdateRoles, TaskOK
<1>3. ASSUME NEW e \in Emails, NEW enabled \in BOOLEAN, SetEnabled(w, e, enabled)
      PROVE  OnboardingInv'
  <2>1. [pc |-> "enabled", email |-> e, enabled |-> enabled] \in EnabledTask
    BY DEF EnabledTask
  <2> QED BY <1>1, <1>3, <2>1 DEF SetEnabled, TaskOK
<1>4. ASSUME NEW e \in Emails, NEW roles \in {{}, {Admin}}, Create(w, e, roles)
      PROVE  OnboardingInv'
  BY <1>4, CreateKeeps, OnboardingAssumption
<1>5. CASE AgentStops(w)
  BY <1>1, <1>5, IdleOK DEF AgentStops
<1> QED BY <1>2, <1>3, <1>4, <1>5 DEF UserRequests
-----------------------------------------------------------------------------
(* Only the founder's account exists, and nobody asked for anything yet. *)
LEMMA OnboardingInvInit == OnboardingInit => OnboardingInv
<1> SUFFICES ASSUME OnboardingInit PROVE OnboardingInv
  OBVIOUS
<1>1. account \in [Emails -> Account]
  BY OnboardingAssumption DEF OnboardingInit, Account
<1> QED BY <1>1 DEF OnboardingInit, OnboardingInv, OnboardingTypeOK, AgentsOK, TaskOK,
                    CompletedIsProvisioned

(* Every step keeps the invariant. *)
LEMMA OnboardingInvStep ==
  OnboardingInv /\ [OnboardingNext \/ OnboardingFaults]_onboardingVars => OnboardingInv'
<1> SUFFICES ASSUME OnboardingInv, [OnboardingNext \/ OnboardingFaults]_onboardingVars
             PROVE  OnboardingInv'
  OBVIOUS
<1>1. ASSUME NEW w \in Agents, OnboardingStep(w) PROVE OnboardingInv'
  BY <1>1, VelocityKeeps, CreateRequestKeeps, ReplayKeeps, CreateUserKeeps, PasswordKeeps,
     EnsureKeeps, AssignKeeps, EmailKeeps, DecideKeeps, ReassertKeeps, ChangeRoleKeeps,
     EnabledKeeps, WelcomeKeeps DEF OnboardingStep
<1>2. ASSUME NEW w \in Agents, OnboardingRequests(w) PROVE OnboardingInv'
  BY <1>2, ApplyKeeps, DecidesKeeps, ReconcileKeeps DEF OnboardingRequests
<1>3. CASE UNCHANGED onboardingVars
  <2>1. requests \in Seq(Request)
    BY DEF OnboardingInv, OnboardingTypeOK
  <2> QED BY <1>3, <2>1, TimeKeeps DEF onboardingVars
<1> QED BY <1>1, <1>2, <1>3, ExpireKeeps, UserRequestsKeep, ResetKeeps
    DEF OnboardingNext, OnboardingFaults

(* A completed request's account exists, was mailed, and has the persona's role
   unless an administrator took it away since, wherever calls fail, repeat or
   interleave (provision, decide, Reconcile, UpdateRoles). *)
THEOREM CompletedHasAccount == OnboardingSpec => []CompletedIsProvisioned
<1>1. OnboardingInv => CompletedIsProvisioned
  BY DEF OnboardingInv
<1> QED BY <1>1, OnboardingInvInit, OnboardingInvStep, PTL DEF OnboardingSpec
=============================================================================
