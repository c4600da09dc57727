------------------------------ MODULE Onboarding ----------------------------
(***************************************************************************)
(* Onboarding requests and the Keycloak accounts behind them (admin-api    *)
(* onboarding, users and keycloak packages).  A request and its account    *)
(* live in two systems: provisioning is a sequence of separate calls, and  *)
(* anything may run, fail or die between two of them.                      *)
(***************************************************************************)
EXTENDS Integers, Sequences, FiniteSets

CONSTANTS
  Emails,          \* addresses, which are also the usernames
  Founder,         \* the address of the platform-admin the realm starts with
  Personas,        \* personas an applicant may ask for
  Citizen,         \* the persona that needs no approval
  RealmRoles,      \* the roles of the realm
  Admin,           \* platform-admin
  RealmRole,       \* the role every persona is provisioned with
  MaxPerEmail,     \* maxRequestsPerEmailPerDay
  Agents,          \* concurrent requests of the API
  MaxRequests,     \* bound on the requests filed
  Idle

ASSUME OnboardingAssumption ==
  /\ Founder \in Emails /\ Citizen \in Personas /\ Admin \in RealmRoles
  /\ RealmRole \in [Personas -> RealmRoles]
  /\ MaxPerEmail \in Nat /\ MaxRequests \in Nat

VARIABLES
  requests,   \* platform.onboarding_requests, in order of creation
  account,    \* the realm's users, by email
  revoked,    \* the roles an administrator took away and nobody gave back (history)
  agent       \* what every request of the API does next

onboardingVars == <<requests, account, revoked, agent>>

(* age: 0 within the last day, 1 older, 2 older than the pending TTL *)
Request == [persona : Personas, email : Emails, age : 0..2,
            status : {"pending", "completed", "rejected", "expired"}]
Account == [exists : BOOLEAN, enabled : BOOLEAN, roles : SUBSET RealmRoles,
            password : {"none", "temporary", "own"}, mailed : BOOLEAN]

OnboardingInit ==
  /\ requests = <<>>
  /\ account = [e \in Emails |->
       [exists |-> e = Founder, enabled |-> e = Founder, mailed |-> FALSE,
        roles |-> IF e = Founder THEN {Admin} ELSE {},
        password |-> IF e = Founder THEN "own" ELSE "none"]]
  /\ revoked = [e \in Emails |-> {}]
  /\ agent = [w \in Agents |-> Idle]

At(w, pc) == agent[w] # Idle /\ agent[w].pc = pc
Does(w, task) == agent' = [agent EXCEPT ![w] = task]
Proceeds(w, pc) == agent' = [agent EXCEPT ![w].pc = pc]

Pending(p, e) ==
  {k \in DOMAIN requests : /\ requests[k].persona = p /\ requests[k].email = e
                           /\ requests[k].status = "pending"}
-----------------------------------------------------------------------------
(* The POST of a role mapping, and the DELETE of one. *)
Given(e, role) ==
  /\ account' = [account EXCEPT ![e].roles = @ \union {role}]
  /\ revoked' = [revoked EXCEPT ![e] = @ \ {role}]
Taken(e, role) ==
  /\ account' = [account EXCEPT ![e].roles = @ \ {role}]
  /\ revoked' = [revoked EXCEPT ![e] = @ \union {role}]

Provisioning(p, e, k, pc) == [pc |-> pc, persona |-> p, email |-> e, request |-> k]

(* CitizenSelfServe and Intake after validation: FindPending.  A citizen's
   pending request is adopted, any other persona's is replayed as it is. *)
Apply(w, p, e) ==
  /\ agent[w] = Idle
  /\ IF Pending(p, e) = {}
     THEN Does(w, Provisioning(p, e, 0, "count"))
     ELSE /\ p = Citizen
          /\ \E k \in Pending(p, e) : Does(w, Provisioning(p, e, k, "create"))
  /\ UNCHANGED <<requests, account, revoked>>

overVelocity(w) ==
  /\ At(w, "count")
  /\ LET recent == {k \in DOMAIN requests : requests[k].email = agent[w].email /\ requests[k].age = 0}
     IN  IF Cardinality(recent) >= MaxPerEmail THEN Does(w, Idle) ELSE Proceeds(w, "insert")
  /\ UNCHANGED <<requests, account, revoked>>

(* Create, where the unique index on (persona, email) of the pending rows
   turns the loser of a race into a replay. *)
CreateRequest(w) ==
  /\ At(w, "insert")
  /\ LET p == agent[w].persona
         e == agent[w].email
     IN  IF Pending(p, e) # {}
         THEN Proceeds(w, "replay") /\ UNCHANGED requests
         ELSE /\ Len(requests) < MaxRequests
              /\ requests' = Append(requests,
                               [persona |-> p, email |-> e, age |-> 0, status |-> "pending"])
              /\ Does(w, IF p = Citizen THEN Provisioning(p, e, Len(requests) + 1, "create") ELSE Idle)
  /\ UNCHANGED <<account, revoked>>

ReplayRequest(w) ==
  /\ At(w, "replay")
  /\ LET p == agent[w].persona
         e == agent[w].email
     IN  \/ (p # Citizen \/ Pending(p, e) = {}) /\ Does(w, Idle)
         \/ /\ p = Citizen
            /\ \E k \in Pending(p, e) : Does(w, Provisioning(p, e, k, "create"))
  /\ UNCHANGED <<requests, account, revoked>>

(* decide: the row is read here, and nothing keeps it from changing before the
   decision is written. *)
Decides(w, k, approve) ==
  /\ agent[w] = Idle
  /\ requests[k].status = "pending"
  /\ Does(w, Provisioning(requests[k].persona, requests[k].email, k,
               CASE requests[k].age = 2 -> "expire"
                 [] requests[k].age # 2 /\ ~approve -> "reject"
                 [] OTHER -> "create"))
  /\ UNCHANGED <<requests, account, revoked>>

(* The mistake of taking an account that exists for one that is provisioned. *)
AdoptsAsProvisioned(w) ==
  /\ At(w, "create")
  /\ LET e == agent[w].email
     IN  IF account[e].exists
         THEN Proceeds(w, "complete") /\ UNCHANGED account
         ELSE /\ account' = [account EXCEPT ![e].exists = TRUE, ![e].enabled = TRUE]
              /\ Proceeds(w, "password")
  /\ UNCHANGED <<requests, revoked>>

(* provision, one Keycloak call after the other *)
CreateUser(w) ==
  /\ At(w, "create")
  /\ LET e == agent[w].email
     IN  IF account[e].exists
         THEN Proceeds(w, "ensure") /\ UNCHANGED account
         ELSE /\ account' = [account EXCEPT ![e].exists = TRUE, ![e].enabled = TRUE]
              /\ Proceeds(w, "password")
  /\ UNCHANGED <<requests, revoked>>

SetTemporaryPassword(w) ==
  /\ At(w, "password")
  /\ account' = [account EXCEPT ![agent[w].email].password = "temporary"]
  /\ Proceeds(w, "ensure")
  /\ UNCHANGED <<requests, revoked>>

EnsureRealmRole(w) ==
  /\ At(w, "ensure")
  /\ Proceeds(w, IF RealmRole[agent[w].persona] \in account[agent[w].email].roles
                 THEN "email" ELSE "assign")
  /\ UNCHANGED <<requests, account, revoked>>

AssignRealmRole(w) ==
  /\ At(w, "assign")
  /\ Given(agent[w].email, RealmRole[agent[w].persona])
  /\ Proceeds(w, "email")
  /\ UNCHANGED requests

SendActionsEmail(w) ==
  /\ At(w, "email")
  /\ account' = [account EXCEPT ![agent[w].email].mailed = TRUE]
  /\ Proceeds(w, "complete")
  /\ UNCHANGED <<requests, revoked>>

(* Decide: the row is updated by its id alone. *)
Written(k, status) == requests' = [requests EXCEPT ![k].status = status]

Decide(w) ==
  /\ \/ At(w, "complete") /\ Written(agent[w].request, "completed")
     \/ At(w, "reject") /\ Written(agent[w].request, "rejected")
     \/ At(w, "expire") /\ Written(agent[w].request, "expired")
  /\ Does(w, Idle)
  /\ UNCHANGED <<account, revoked>>

(* A call fails, or the process dies: the request ends where it is, and what
   was already done stays (provisionCitizen leaves the row pending). *)
AgentStops(w) ==
  /\ agent[w] # Idle
  /\ Does(w, Idle)
  /\ UNCHANGED <<requests, account, revoked>>

(* The TTL sweep *)
ExpirePending ==
  /\ requests' = [k \in DOMAIN requests |->
       IF requests[k].status = "pending" /\ requests[k].age = 2
       THEN [requests[k] EXCEPT !.status = "expired"] ELSE requests[k]]
  /\ requests' # requests
  /\ UNCHANGED <<account, revoked, agent>>

(* Reconcile, for one completed request: the role mappings are read, and a
   missing role is assigned by a later call. *)
Reconcile(w, k) ==
  /\ agent[w] = Idle
  /\ requests[k].status = "completed"
  /\ RealmRole[requests[k].persona] \notin account[requests[k].email].roles
  /\ Does(w, Provisioning(requests[k].persona, requests[k].email, k, "reassert"))
  /\ UNCHANGED <<requests, account, revoked>>

ReassertRole(w) ==
  /\ At(w, "reassert")
  /\ Given(agent[w].email, RealmRole[agent[w].persona])
  /\ Does(w, Idle)
  /\ UNCHANGED requests
-----------------------------------------------------------------------------
soleEnabledPlatformAdmin(e) ==
  {a \in Emails : account[a].exists /\ account[a].enabled /\ Admin \in account[a].roles} = {e}

(* UpdateRoles: the check, then every addition, then every removal. *)
UpdateRoles(w, e, add, remove) ==
  /\ agent[w] = Idle
  /\ account[e].exists
  /\ add \union remove # {}
  /\ Admin \in remove => ~soleEnabledPlatformAdmin(e)
  /\ Does(w, [pc |-> "roles", email |-> e, add |-> add, remove |-> remove])
  /\ UNCHANGED <<requests, account, revoked>>

ChangeRole(w) ==
  /\ At(w, "roles")
  /\ LET t == agent[w]
     IN  \/ \E r \in t.add :
              /\ Given(t.email, r)
              /\ Does(w, IF t.add = {r} /\ t.remove = {} THEN Idle ELSE [t EXCEPT !.add = @ \ {r}])
         \/ /\ t.add = {}
            /\ \E r \in t.remove :
                 /\ Taken(t.email, r)
                 /\ Does(w, IF t.remove = {r} THEN Idle ELSE [t EXCEPT !.remove = @ \ {r}])
  /\ UNCHANGED requests

(* setEnabled, for another account than the caller's own *)
SetEnabled(w, e, enabled) ==
  /\ agent[w] = Idle
  /\ account[e].exists
  /\ enabled \/ ~soleEnabledPlatformAdmin(e)
  /\ Does(w, [pc |-> "enabled", email |-> e, enabled |-> enabled])
  /\ UNCHANGED <<requests, account, revoked>>

PutEnabled(w) ==
  /\ At(w, "enabled")
  /\ account' = [account EXCEPT ![agent[w].email].enabled = agent[w].enabled]
  /\ Does(w, Idle)
  /\ UNCHANGED <<requests, revoked>>

(* The user administration's Create: an existing account is refused, the roles
   follow one by one, and the email is best effort. *)
Create(w, e, roles) ==
  /\ agent[w] = Idle
  /\ ~account[e].exists
  /\ account' = [account EXCEPT ![e].exists = TRUE, ![e].enabled = TRUE]
  /\ Does(w, [pc |-> "welcome", email |-> e, add |-> roles])
  /\ UNCHANGED <<requests, revoked>>

Welcome(w) ==
  /\ At(w, "welcome")
  /\ LET t == agent[w]
     IN  \/ \E r \in t.add : Given(t.email, r) /\ Does(w, [t EXCEPT !.add = @ \ {r}])
         \/ /\ t.add = {}
            /\ \E ok \in BOOLEAN : account' = [account EXCEPT ![t.email].mailed = @ \/ ok]
            /\ Does(w, Idle)
            /\ UNCHANGED revoked
  /\ UNCHANGED requests

ResetPassword(e) ==
  /\ account[e].exists /\ ~account[e].mailed
  /\ account' = [account EXCEPT ![e].mailed = TRUE]
  /\ UNCHANGED <<requests, revoked, agent>>
-----------------------------------------------------------------------------
(* A day, or the TTL, goes by. *)
TimePasses ==
  /\ requests' = [k \in DOMAIN requests |-> [requests[k] EXCEPT !.age = IF @ = 2 THEN 2 ELSE @ + 1]]
  /\ requests' # requests
  /\ UNCHANGED <<account, revoked, agent>>

OnboardingStep(w) ==
  \/ overVelocity(w) \/ CreateRequest(w) \/ ReplayRequest(w)
  \/ CreateUser(w) \/ SetTemporaryPassword(w) \/ EnsureRealmRole(w) \/ AssignRealmRole(w)
  \/ SendActionsEmail(w) \/ Decide(w) \/ ReassertRole(w) \/ ChangeRole(w) \/ PutEnabled(w)
  \/ Welcome(w)

OnboardingRequests(w) ==
  \/ \E p \in Personas, e \in Emails \ {Founder} : Apply(w, p, e)
  \/ \E k \in DOMAIN requests, approve \in BOOLEAN : Decides(w, k, approve)
  \/ \E k \in DOMAIN requests : Reconcile(w, k)

UserRequests(w) ==
  \/ \E e \in Emails, add \in SUBSET {Admin}, role \in RealmRoles : UpdateRoles(w, e, add, {role} \ add)
  \/ \E e \in Emails, enabled \in BOOLEAN : SetEnabled(w, e, enabled)
  \/ \E e \in Emails, roles \in {{}, {Admin}} : Create(w, e, roles)

OnboardingNext ==
  \/ \E w \in Agents : OnboardingStep(w) \/ OnboardingRequests(w)
  \/ ExpirePending \/ TimePasses

OnboardingFaults ==
  \/ \E w \in Agents : AgentStops(w) \/ UserRequests(w)
  \/ \E e \in Emails : ResetPassword(e)

(* The admin API's users on their own. *)
OnboardingSpec == OnboardingInit /\ [][OnboardingNext \/ OnboardingFaults]_onboardingVars
-----------------------------------------------------------------------------
(* A completed request has its account: whatever calls failed, were retried or
   ran twice, the user exists, was mailed the link to set a password, and has
   the role of the persona unless an administrator took it away since
   (provision, provisionCitizen, decide, Reconcile). *)
CompletedIsProvisioned ==
  \A k \in DOMAIN requests :
    requests[k].status = "completed" =>
      LET e == requests[k].email
          role == RealmRole[requests[k].persona]
      IN  /\ account[e].exists /\ account[e].mailed
          /\ role \in account[e].roles \union revoked[e]
=============================================================================
