----------------------------- MODULE Incidents ------------------------------
(***************************************************************************)
(* Incidents, SOS calls and leak readings (infra-api handlers/incidents.go)*)
(* with the Temporal incident-response workflow (workflow/workflows.go,    *)
(* activities.go) and the partner webhooks they fire.                      *)
(*                                                                         *)
(* A handler is a chain of separate statements: the row, the signal to the *)
(* workflow, the station's status, the webhooks.  Each may fail and is     *)
(* then only logged; the process may crash between any two.  The statement *)
(* that reopens a station is two steps: it judges the incidents by the     *)
(* snapshot it starts with and writes the station's row later.  Temporal   *)
(* keeps signals and timers: a workflow that is running goes on.           *)
(***************************************************************************)
EXTENDS Stations, Webhooks

CONSTANTS
  OpenTypes,      \* the types operators file
  Filed,          \* the severities callers and subscribers give
  Places,         \* the stations, or none, they name
  Readings,       \* H2 concentrations sensors report, in ppm
  Sensors,
  MaxIncidents,   \* bound on the incident rows
  NotHandling, NoSensor, NoStation

ASSUME IncidentAssumption ==
  /\ Readings \subseteq Nat
  /\ Filed \subseteq Severity
  /\ Places \subseteq StationIds \union {NoStation}
  /\ MaxIncidents \in Nat

VARIABLES
  incidents,   \* infra.incidents, in insertion order
  handler,     \* the rest of the handler every process runs
  wf           \* the workflow run of every incident

incidentVars == <<incidents, handler, wf>>

incidentTypeFloor ==
  [h2_leak |-> 0, collision |-> 2, fire |-> 3, prd_vent |-> 2, evacuation |-> 2,
   sos |-> 3, security |-> 2, breakdown |-> 0, other |-> 0]

ASSUME TypesAssumption == OpenTypes \subseteq DOMAIN incidentTypeFloor

applySeverityFloor(type, sev) == Max({sev, incidentTypeFloor[type]})

severityFromPpm(ppm) ==
  CASE ppm >= 20000 -> 3
    [] ppm >= 5000 /\ ppm < 20000 -> 2
    [] ppm >= 1000 /\ ppm < 5000 -> 1
    [] OTHER -> 0

leakSeverity(caller, ppm) == Max({caller, severityFromPpm(ppm)})

IncidentIds == 1..MaxIncidents
Incident ==
  [sensor : Sensors \union {NoSensor}, station : StationIds \union {NoStation},
   severity : Severity, status : {"open", "in_progress", "acknowledged", "resolved"},
   recent : BOOLEAN,   \* opened within leakDedupWindow
   guarding : BOOLEAN] \* its handler put or found the station in emergency while
                       \* nobody was reopening it, and no operator has set the
                       \* station since (history)
Handling == [pc : {"insert", "signal", "emergency", "ackSignal", "resolveSignal",
                   "restore", "reopen"},
             incident : 0..MaxIncidents, severity : Severity,
             sensor : Sensors \union {NoSensor}, station : StationIds \union {NoStation}]
NoRun == [state |-> "none", leak |-> FALSE, ack |-> FALSE, resolve |-> FALSE,
          acknowledged |-> FALSE, escalated |-> FALSE]
Run == [state : {"none", "await", "active", "escalating", "closed", "failed"},
        leak : BOOLEAN, ack : BOOLEAN, resolve : BOOLEAN,   \* buffered signals
        acknowledged : BOOLEAN, escalated : BOOLEAN]

IncidentsTypeOK ==
  /\ incidents \in Seq(Incident)
  /\ Len(incidents) <= MaxIncidents
  /\ handler \in [Senders -> Handling \union {NotHandling}]
  /\ wf \in [IncidentIds -> Run]

IncidentsInit ==
  /\ incidents = <<>>
  /\ handler = [w \in Senders |-> NotHandling]
  /\ wf = [i \in IncidentIds |-> NoRun]

Active(i) == incidents[i].status # "resolved"
Free(w) == handler[w] = NotHandling /\ sender[w] = NotSending
Handles(w, pc) == handler[w] # NotHandling /\ handler[w].pc = pc
Continues(w, next) == handler' = [handler EXCEPT ![w] = next]
GoesTo(w, pc) == Continues(w, [handler[w] EXCEPT !.pc = pc])

(* A request has judged the station's incidents and is about to reopen it. *)
Reopening(s) == \E w \in Senders : Handles(w, "reopen") /\ handler[w].station = s
RunOpen(i) == wf[i].state \in {"await", "active", "escalating"}
-----------------------------------------------------------------------------
(* insertIncident, and the handler goes on at pc. *)
insertIncident(w, sensor, station, severity, pc) ==
  /\ Len(incidents) < MaxIncidents
  /\ incidents' = Append(incidents,
       [sensor |-> sensor, station |-> station, severity |-> severity,
        status |-> "open", recent |-> TRUE, guarding |-> FALSE])
  /\ Continues(w, [pc |-> pc, incident |-> Len(incidents) + 1, severity |-> severity,
                   sensor |-> sensor, station |-> station])

(* A manual incident starts no workflow. *)
OpenIncident(w, type, sev, station) ==
  /\ Free(w)
  /\ insertIncident(w, NoSensor, station, applySeverityFloor(type, sev), "emergency")
  /\ UNCHANGED <<wf, stationVars, webhookVars>>

TriggerSOS(w) ==
  /\ Free(w)
  /\ insertIncident(w, NoSensor, NoStation, Critical, "signal")
  /\ UNCHANGED <<wf, stationVars, webhookVars>>

(* The active, recent incidents a repeat reading of the sensor folds into. *)
Folds(sensor) == {i \in DOMAIN incidents :
                    incidents[i].sensor = sensor /\ Active(i) /\ incidents[i].recent}

LatestReading(old, sev) == sev

(* The CASE of the UPDATE: a repeat reading only raises the severity. *)
Raised(old, sev) == Max({old, sev})

IngestLeak(w, sensor, station, caller, ppm) ==
  /\ Free(w)
  /\ LET sev == leakSeverity(caller, ppm)
     IN  \/ /\ Folds(sensor) # {}
            /\ incidents' = [i \in DOMAIN incidents |->
                 IF i \in Folds(sensor)
                 THEN [incidents[i] EXCEPT !.severity = Raised(@, sev)]
                 ELSE incidents[i]]
            /\ UNCHANGED handler
         \/ /\ Folds(sensor) = {}
            /\ Continues(w, [pc |-> "insert", incident |-> 0, severity |-> sev,
                             sensor |-> sensor, station |-> station])
            /\ UNCHANGED incidents
  /\ UNCHANGED <<wf, stationVars, webhookVars>>

InsertLeak(w) ==
  /\ Handles(w, "insert")
  /\ insertIncident(w, handler[w].sensor, handler[w].station, handler[w].severity, "signal")
  /\ UNCHANGED <<wf, stationVars, webhookVars>>

(* SignalWithStart: the signal is buffered by the open run, or opens one. *)
Signalled(i, name) ==
  [wf EXCEPT ![i] = IF RunOpen(i) THEN [@ EXCEPT ![name] = TRUE]
                    ELSE [NoRun EXCEPT !.state = "await", ![name] = TRUE]]

(* The three signals, and where the handler goes next; sent is whether the call
   to Temporal succeeded. *)
Signal(w, sent) ==
  /\ \E pc \in {"signal", "ackSignal", "resolveSignal"} : Handles(w, pc)
  /\ LET h == handler[w]
         name == CASE h.pc = "signal" -> "leak"
                   [] h.pc = "ackSignal" -> "ack"
                   [] h.pc = "resolveSignal" -> "resolve"
     IN  /\ wf' = IF sent THEN Signalled(h.incident, name) ELSE wf
         /\ CASE h.pc = "signal" -> GoesTo(w, "emergency")
              [] h.pc = "ackSignal" -> Continues(w, NotHandling)
              [] h.pc = "resolveSignal" -> GoesTo(w, "restore")
  /\ UNCHANGED <<incidents, stationVars, webhookVars>>

(* setStationEmergency, judging the severity the incident was opened with.  A
   station that is in emergency is left alone, also when its row is about to
   change. *)
setStationEmergency(w, succeeds) ==
  /\ Handles(w, "emergency")
  /\ LET h == handler[w]
         known == h.station # NoStation /\ status[h.station] # "absent"
         closes == succeeds /\ h.severity = Critical /\ known
     IN  /\ status' = IF closes /\ status[h.station] # "emergency"
                      THEN [status EXCEPT ![h.station] = "emergency"] ELSE status
         /\ incidents' = IF closes /\ ~Reopening(h.station)
                         THEN [incidents EXCEPT ![h.incident].guarding = TRUE] ELSE incidents
         /\ dispatchIncidentWebhooks(w, "opened", h.severity)
  /\ Continues(w, NotHandling)
  /\ UNCHANGED <<wf, stock, counted, subs, deliveries, posts>>

AckIncident(w, i) ==
  /\ Free(w)
  /\ incidents[i].status \in {"open", "in_progress"}
  /\ incidents' = [incidents EXCEPT ![i].status = "acknowledged"]
  /\ Continues(w, [pc |-> "ackSignal", incident |-> i, severity |-> incidents[i].severity,
                   sensor |-> NoSensor, station |-> incidents[i].station])
  /\ UNCHANGED <<wf, stationVars, webhookVars>>

ResolveIncident(w, i) ==
  /\ Free(w)
  /\ Active(i)
  /\ incidents' = [incidents EXCEPT ![i].status = "resolved"]
  /\ Continues(w, [pc |-> "resolveSignal", incident |-> i, severity |-> incidents[i].severity,
                   sensor |-> NoSensor, station |-> incidents[i].station])
  /\ UNCHANGED <<wf, stationVars, webhookVars>>

(* The mistake of counting only incidents nobody has acknowledged. *)
OpenCriticalAt(s) ==
  {i \in DOMAIN incidents : /\ incidents[i].station = s
                            /\ incidents[i].severity = Critical
                            /\ incidents[i].status = "open"}

ActiveCriticalAt(s) ==
  {i \in DOMAIN incidents : /\ incidents[i].station = s
                            /\ incidents[i].severity = Critical
                            /\ Active(i)}

(* maybeRestoreStation is one UPDATE under READ COMMITTED.  It starts with a
   snapshot: the station is in emergency and no critical incident is active
   there, or the statement finds no row. *)
CheckRestore(w, succeeds) ==
  /\ Handles(w, "restore")
  /\ LET h == handler[w]
         finds == /\ succeeds
                  /\ h.station # NoStation
                  /\ status[h.station] = "emergency"
                  /\ ActiveCriticalAt(h.station) = {}
     IN  \/ finds /\ GoesTo(w, "reopen") /\ UNCHANGED sender
         \/ /\ ~finds
            /\ Continues(w, NotHandling)
            /\ dispatchIncidentWebhooks(w, "resolved", h.severity)
  /\ UNCHANGED <<incidents, wf, stationVars, subs, deliveries, posts>>

(* It then locks the station's row, waiting for whoever holds it.  The row's
   own condition is judged again; the incidents are not. *)
maybeRestoreStation(w, succeeds) ==
  /\ Handles(w, "reopen")
  /\ LET h == handler[w]
     IN  /\ status' = IF succeeds /\ status[h.station] = "emergency"
                      THEN [status EXCEPT ![h.station] = "online"] ELSE status
         /\ dispatchIncidentWebhooks(w, "resolved", h.severity)
  /\ Continues(w, NotHandling)
  /\ UNCHANGED <<incidents, wf, stock, counted, subs, deliveries, posts>>

HandlerStops(w) ==
  /\ handler[w] # NotHandling
  /\ Continues(w, NotHandling)
  /\ UNCHANGED <<incidents, wf, stationVars, webhookVars>>

DedupWindowPasses(i) ==
  /\ incidents[i].recent
  /\ incidents' = [incidents EXCEPT ![i].recent = FALSE]
  /\ UNCHANGED <<handler, wf, stationVars, webhookVars>>

(* The operator's PATCH on the status of a station. *)
OverrideStatus(s, st) ==
  /\ UpdateStationStatus(s, st)
  /\ incidents' = [i \in DOMAIN incidents |->
       [incidents[i] EXCEPT !.guarding = @ /\ incidents[i].station # s]]
  /\ UNCHANGED <<handler, wf, webhookVars>>
-----------------------------------------------------------------------------
(* IncidentResponseWorkflow; an activity is retried until it succeeds, or its
   five attempts are used up and the run fails. *)

SetIncidentInProgress(i) ==
  /\ wf[i].state = "await"
  /\ wf[i].leak
  /\ wf' = [wf EXCEPT ![i].state = "active", ![i].leak = FALSE]
  /\ incidents' = IF incidents[i].status \in {"open", "acknowledged"}
                  THEN [incidents EXCEPT ![i].status = "in_progress"] ELSE incidents
  /\ UNCHANGED <<handler, stationVars, webhookVars>>

TakeAck(i) ==
  /\ wf[i].state = "active"
  /\ wf[i].ack
  /\ ~wf[i].acknowledged
  /\ wf' = [wf EXCEPT ![i].acknowledged = TRUE, ![i].ack = FALSE]
  /\ UNCHANGED <<incidents, handler, stationVars, webhookVars>>

ArmedBelowCritical(i) ==
  /\ ~wf[i].acknowledged
  /\ ~wf[i].escalated
  /\ incidents[i].severity < Critical

TimerArmed(i) == ~wf[i].acknowledged /\ ~wf[i].escalated

OneHigher(sev) == sev + 1
NextSeverity(sev) == Min({sev + 1, Critical})

(* The timer fires although a signal may have arrived meanwhile; the run takes
   no signal until the activity is through. *)
EscalationTimerFires(i) ==
  /\ wf[i].state = "active"
  /\ TimerArmed(i)
  /\ wf' = [wf EXCEPT ![i].state = "escalating"]
  /\ UNCHANGED <<incidents, handler, stationVars, webhookVars>>

Escalated(i) == [wf EXCEPT ![i].state = "active", ![i].escalated = TRUE]

(* One attempt of the activity.  When its report is lost the row is written,
   and the next attempt raises it once more. *)
EscalateIncident(i, reported) ==
  /\ wf[i].state = "escalating"
  /\ wf' = IF reported THEN Escalated(i) ELSE wf
  /\ incidents' = IF Active(i) THEN [incidents EXCEPT ![i].severity = NextSeverity(@)]
                  ELSE incidents
  /\ UNCHANGED <<handler, stationVars, webhookVars>>

(* The attempts are used up, which is only logged. *)
EscalationGivenUp(i) ==
  /\ wf[i].state = "escalating"
  /\ wf' = Escalated(i)
  /\ UNCHANGED <<incidents, handler, stationVars, webhookVars>>

MarkIncidentResolved(i) ==
  /\ wf[i].state = "active"
  /\ wf[i].resolve
  /\ wf' = [wf EXCEPT ![i].state = "closed"]
  /\ incidents' = [incidents EXCEPT ![i].status = "resolved"]
  /\ UNCHANGED <<handler, stationVars, webhookVars>>

RunFails(i) ==
  /\ \/ wf[i].state = "await" /\ wf[i].leak
     \/ wf[i].state = "active" /\ wf[i].resolve
  /\ wf' = [wf EXCEPT ![i].state = "failed"]
  /\ UNCHANGED <<incidents, handler, stationVars, webhookVars>>
-----------------------------------------------------------------------------
Files(w) ==
  \/ \E type \in OpenTypes, sev \in Filed, s \in Places :
       OpenIncident(w, type, sev, s)
  \/ TriggerSOS(w)
  \/ \E x \in Sensors, s \in Places, sev \in Filed, ppm \in Readings :
       IngestLeak(w, x, s, sev, ppm)
  \/ \E i \in DOMAIN incidents : AckIncident(w, i) \/ ResolveIncident(w, i)

Proceeds(w) ==
  \/ InsertLeak(w)
  \/ Signal(w, TRUE)
  \/ setStationEmergency(w, TRUE)
  \/ CheckRestore(w, TRUE)
  \/ maybeRestoreStation(w, TRUE)

RunProceeds(i) ==
  \/ SetIncidentInProgress(i)
  \/ TakeAck(i)
  \/ EscalationTimerFires(i)
  \/ EscalateIncident(i, TRUE)
  \/ MarkIncidentResolved(i)

NotifiesPartners ==
  /\ \/ \E w \in Senders : Delivers(w)
     \/ \E w \in Senders, d \in DOMAIN deliveries : Free(w) /\ RetryWebhookDelivery(w, d)
     \/ \E b \in Subscribers : \/ \E min \in Filed : CreateWebhookSubscription(b, min)
                               \/ DeactivateWebhookSubscription(b)
  /\ UNCHANGED <<incidentVars, stationVars>>

IncidentsNext ==
  \/ \E w \in Senders : Files(w) \/ Proceeds(w)
  \/ \E i \in DOMAIN incidents : RunProceeds(i)
  \/ NotifiesPartners

(* Temporal, Postgres or the process fails a step; the operator sets a station
   that is in emergency; a dedup window ends. *)
IncidentDisturbances ==
  \/ \E w \in Senders :
       \/ Signal(w, FALSE)
       \/ setStationEmergency(w, FALSE)
       \/ CheckRestore(w, FALSE)
       \/ maybeRestoreStation(w, FALSE)
       \/ HandlerStops(w)
       \/ /\ \E b \in Subscribers : RecordFails(w, b)
          /\ UNCHANGED <<incidentVars, stationVars>>
       \/ SenderStops(w) /\ UNCHANGED <<incidentVars, stationVars>>
  \/ \E i \in DOMAIN incidents :
       \/ EscalateIncident(i, FALSE) \/ EscalationGivenUp(i)
       \/ RunFails(i) \/ DedupWindowPasses(i)
  \/ \E s \in StationIds : OverrideStatus(s, "online")

(* The operator adds a station. *)
AddsStation ==
  /\ \E s \in StationIds, v \in StockLevels : CreateStation(s, v)
  /\ UNCHANGED <<webhookVars, incidentVars>>

(* Incidents, their stations and their webhooks on their own. *)
IncidentsSpec ==
  /\ StationsInit /\ WebhooksInit /\ IncidentsInit
  /\ [][IncidentsNext \/ IncidentDisturbances \/ AddsStation]_<<stationVars, webhookVars, incidentVars>>
-----------------------------------------------------------------------------
(* A critical incident whose handler reached its station while no request was
   in the middle of reopening it keeps the station in emergency until it is
   resolved or an operator sets the station: whatever other incidents of the
   station are filed, resolved, folded or escalated in any order, no restore
   that starts afterwards overlooks it (setStationEmergency,
   maybeRestoreStation).  In that middle, between the snapshot of the restoring
   UPDATE and its write, the handler finds the station in emergency and leaves
   it alone, and the restore then reopens it under an active incident. *)
EmergencyHolds ==
  \A i \in DOMAIN incidents :
    incidents[i].guarding /\ Active(i) => status[incidents[i].station] = "emergency"

(* No handler, repeat reading, escalation or late workflow step lowers the
   severity of an incident or brings a resolved one back. *)
IncidentsOnlyEscalate ==
  [][\A i \in DOMAIN incidents :
       /\ incidents'[i].severity >= incidents[i].severity
       /\ ~Active(i) => incidents'[i].status = "resolved"]_incidents

(* A leak or an SOS whose signal reached Temporal is acknowledged, escalated or
   closed, unless the run fails: the 15-minute timer is not lost to the ack and
   resolve signals that race it, and the run does not wait for ever in the
   escalation, whose failure after its last attempt is logged and passed over
   (IncidentResponseWorkflow). *)
UnansweredEscalates ==
  \A i \in IncidentIds :
    wf[i].leak ~> wf[i].acknowledged \/ wf[i].escalated \/ wf[i].state \in {"closed", "failed"}
=============================================================================
