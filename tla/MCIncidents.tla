----------------------------- MODULE MCIncidents ----------------------------
(***************************************************************************)
(* Incidents, the stations they close, their workflow runs and the partner *)
(* webhooks they fire, for model checking.                                 *)
(***************************************************************************)
EXTENDS Incidents, TLC

CONSTANTS
  MaxFaults,   \* bound on failures and operator overrides
  MaxLoad      \* bound on rows, busy handlers and open runs together

VARIABLE faults

vars == <<stationVars, webhookVars, incidentVars, faults>>

SafetyTypeOK ==
  /\ StationsTypeOK
  /\ WebhooksTypeOK
  /\ IncidentsTypeOK

Init ==
  /\ StationsInit
  /\ WebhooksInit
  /\ IncidentsInit
  /\ faults = 0

Subscribed == {b \in Subscribers : subs[b] # NoSub}

Load ==
  Len(incidents) + 2 * Cardinality(Subscribed)
    + Cardinality({w \in Senders : handler[w] # NotHandling})
    + Cardinality({i \in IncidentIds : RunOpen(i)})

(* After a failure one request less is let in; what runs goes on. *)
Next ==
  \/ IncidentsNext /\ UNCHANGED faults /\ Load' <= Max({Load, MaxLoad - faults})
  \/ IncidentDisturbances /\ faults < MaxFaults /\ faults' = faults + 1
  \/ AddsStation /\ UNCHANGED faults

(* Temporal keeps a run going: a worker takes every task it is given. *)
Spec ==
  /\ Init /\ [][Next]_vars
  /\ \A i \in IncidentIds :
       WF_vars(i \in DOMAIN incidents /\ RunProceeds(i) /\ UNCHANGED faults)
=============================================================================
