----------------------------- MODULE MCPlatform -----------------------------
(***************************************************************************)
(* The platform services for model checking: onboarding, the audit log,    *)
(* the toggle and key caches, and the journey planner.  They share no      *)
(* state, so a behaviour explores one of them.                             *)
(***************************************************************************)
EXTENDS Onboarding, AuditLog, Toggles, KeyCache, JourneyPlanner, TLC

CONSTANTS
  Focuses,     \* the parts a run explores
  Headways,    \* headways of the routes
  Zones,       \* clocks a server may run on
  MaxFaults    \* bound on failed calls, expiries and the requests of user administration

VARIABLES focus, faults

vars == <<onboardingVars, auditVars, toggleVars, keyVars, plannerVars, focus, faults>>

MCRealmRole == [p \in Personas |-> IF p = Citizen THEN "citizen" ELSE "operator"]
MCNormal == [t \in Texts |-> "canonical"]
(* fleet.route_stops is unique on the route and the stop. *)
Lines == {s \in UNION {[1..n -> Stops] : n \in 2..Cardinality(Stops)} :
            \A i, j \in DOMAIN s : i # j => s[i] # s[j]}

Symmetry == Permutations(Agents)

Init ==
  /\ OnboardingInit
  /\ AuditInit
  /\ TogglesInit
  /\ KeyCacheInit
  /\ focus \in Focuses
  /\ IF focus = "planner" THEN PlannerInit(Lines, Headways, Zones)
     ELSE PlannerInit({<<>>}, {1}, {UTC})
  /\ faults = 0

Works ==
  \/ /\ focus = "onboarding" /\ OnboardingNext
     /\ UNCHANGED <<auditVars, toggleVars, keyVars, plannerVars>>
  \/ /\ focus = "audit" /\ AuditNext
     /\ UNCHANGED <<onboardingVars, toggleVars, keyVars, plannerVars>>
  \/ /\ focus = "toggles" /\ TogglesNext
     /\ UNCHANGED <<onboardingVars, auditVars, keyVars, plannerVars>>
  \/ /\ focus = "keys" /\ KeysNext
     /\ UNCHANGED <<onboardingVars, auditVars, toggleVars, plannerVars>>
  \/ /\ focus = "planner" /\ asked = NotAsked
     /\ \E from, to \in Stops, now \in 0 .. Day - 1 : PlanJourney(from, to, now)
     /\ UNCHANGED <<onboardingVars, auditVars, toggleVars, keyVars>>

Fails ==
  /\ focus = "onboarding" /\ OnboardingFaults
  /\ UNCHANGED <<auditVars, toggleVars, keyVars, plannerVars>>

Next ==
  /\ UNCHANGED focus
  /\ \/ Works /\ UNCHANGED faults
     \/ Fails /\ faults < MaxFaults /\ faults' = faults + 1

Spec == Init /\ [][Next]_vars
-----------------------------------------------------------------------------
(* What a cache serves follows its source within a bound: a disabled module is
   not served for longer than Lag (toggle-service Get and Put, toggle-client
   IsEnabled), and a withdrawn key is not accepted for longer than KeyLag
   (go-auth publicKey). *)
StaleAnswersLapse == DisabledModuleLapses /\ WithdrawnKeyLapses
=============================================================================
