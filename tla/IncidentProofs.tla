---------------------------- MODULE IncidentProofs --------------------------
(***************************************************************************)
(* What incidents and their webhooks guarantee for any number of stations, *)
(* sensors, handlers, subscribers and incidents.                           *)
(***************************************************************************)
EXTENDS Incidents, TLAPS

allVars == <<stationVars, webhookVars, incidentVars>>
IncidentsStep == IncidentsNext \/ IncidentDisturbances \/ AddsStation

(* What a handler holds; its incident is a row once it has been inserted. *)
Held(pcs) == [pc : pcs, incident : Nat, severity : Severity,
              sensor : Sensors \union {NoSensor}, station : StationIds \union {NoStation}]
PCs == {"insert", "signal", "emergency", "ackSignal", "resolveSignal", "restore", "reopen"}
Plain == PCs \ {"signal", "emergency", "reopen"}

IncidentsShape ==
  /\ status \in [StationIds -> StationStatuses]
  /\ incidents \in Seq(Incident)
  /\ handler \in [Senders -> Held(PCs) \union {NotHandling}]

(* A handler that has inserted its incident and not yet looked at the station
   judges a severity the incident still has, at the incident's station. *)
JudgesItsIncident ==
  \A w \in Senders :
    Handles(w, "signal") \/ Handles(w, "emergency") =>
      /\ handler[w].incident \in DOMAIN incidents
      /\ incidents[handler[w].incident].station = handler[w].station
      /\ incidents[handler[w].incident].severity >= handler[w].severity

(* An incident that guards its station is critical, so restoring the station
   counts it. *)
GuardsAreCritical ==
  \A i \in DOMAIN incidents :
    incidents[i].guarding =>
      /\ incidents[i].severity = Critical
      /\ incidents[i].station \in StationIds

(* A handler about to reopen a station found no critical incident there, and
   none has guarded the station since. *)
ReopensUnguarded ==
  \A w \in Senders :
    Handles(w, "reopen") =>
      \A i \in DOMAIN incidents :
        incidents[i].guarding /\ Active(i) => incidents[i].station # handler[w].station

IncidentsInv ==
  IncidentsShape /\ JudgesItsIncident /\ GuardsAreCritical /\ ReopensUnguarded /\ EmergencyHolds
-----------------------------------------------------------------------------
(* The larger and the smaller of two integers. *)
LEMMA MaxOfTwo ==
  ASSUME NEW a \in Int, NEW b \in Int
  PROVE  Max({a, b}) = IF a >= b THEN a ELSE b
<1> DEFINE m == IF a >= b THEN a ELSE b
<1>1. m \in {a, b} /\ \A y \in {a, b} : m >= y
  OBVIOUS
<1>2. \A x \in {a, b} : (\A y \in {a, b} : x >= y) => x = m
  OBVIOUS
<1> QED BY <1>1, <1>2 DEF Max

(* The lower of two ranks. *)
LEMMA MinOfTwo ==
  ASSUME NEW a \in Int, NEW b \in Int
  PROVE  Min({a, b}) = IF a <= b THEN a ELSE b
<1> DEFINE m == IF a <= b THEN a ELSE b
<1>1. m \in {a, b} /\ \A y \in {a, b} : m <= y
  OBVIOUS
<1>2. \A x \in {a, b} : (\A y \in {a, b} : x <= y) => x = m
  OBVIOUS
<1> QED BY <1>1, <1>2 DEF Min

(* The floors, the readings and the escalation stay among the severities, and
   raising never lowers. *)
LEMMA SeveritiesStay ==
  /\ \A old, sev \in Severity : Raised(old, sev) \in Severity /\ Raised(old, sev) >= old
  /\ \A sev \in Severity : NextSeverity(sev) \in Severity /\ NextSeverity(sev) >= sev
  /\ \A caller \in Severity, ppm \in Nat : leakSeverity(caller, ppm) \in Severity
  /\ \A type \in OpenTypes, sev \in Severity : applySeverityFloor(type, sev) \in Severity
<1>1. \A old, sev \in Severity : Raised(old, sev) \in Severity /\ Raised(old, sev) >= old
  BY MaxOfTwo DEF Raised, Severity
<1>2. \A sev \in Severity : NextSeverity(sev) \in Severity /\ NextSeverity(sev) >= sev
  BY MinOfTwo DEF NextSeverity, Severity, Critical
<1>3. ASSUME NEW caller \in Severity, NEW ppm \in Nat
      PROVE  leakSeverity(caller, ppm) \in Severity
  <2>1. severityFromPpm(ppm) \in Severity
    BY DEF severityFromPpm, Severity
  <2> QED BY <2>1, MaxOfTwo DEF leakSeverity, Severity
<1>4. ASSUME NEW type \in OpenTypes, NEW sev \in Severity
      PROVE  applySeverityFloor(type, sev) \in Severity
  <2>1. incidentTypeFloor[type] \in Severity
    BY TypesAssumption DEF incidentTypeFloor, Severity
  <2> QED BY <2>1, MaxOfTwo DEF applySeverityFloor, Severity
<1> QED BY <1>1, <1>2, <1>3, <1>4
-----------------------------------------------------------------------------
(* How a step may change the rows: their severity rises, a resolved one stays
   so, a station is never exchanged. *)
RowsEscalate ==
  /\ incidents' \in Seq(Incident)
  /\ Len(incidents') >= Len(incidents)
  /\ \A i \in 1..Len(incidents) :
       /\ incidents'[i].station = incidents[i].station
       /\ incidents'[i].severity >= incidents[i].severity
       /\ incidents[i].status = "resolved" => incidents'[i].status = "resolved"

(* No row begins to guard a station. *)
NoNewGuard ==
  \A i \in 1..Len(incidents') :
    incidents'[i].guarding => i \in 1..Len(incidents) /\ incidents[i].guarding

(* A station in emergency stays so. *)
StaysClosed ==
  /\ status' \in [StationIds -> StationStatuses]
  /\ \A s \in StationIds : status[s] = "emergency" => status'[s] = "emergency"

(* A handler keeps what it holds, goes on from the signal, or holds nothing a
   station is judged by. *)
Goes(old, new) ==
  \/ new = old
  \/ new = NotHandling
  \/ new \in Held(Plain)
  \/ /\ old # NotHandling /\ old.pc = "signal" /\ new \in Held(PCs) /\ new.pc # "reopen"
     /\ new.incident = old.incident /\ new.station = old.station /\ new.severity = old.severity

HandlersGo ==
  /\ handler' \in [Senders -> Held(PCs) \union {NotHandling}]
  /\ \A w \in Senders : Goes(handler[w], handler'[w])

(* Steps that do no more than that keep the invariant. *)
LEMMA QuietStep ==
  ASSUME IncidentsInv, RowsEscalate, NoNewGuard, StaysClosed, HandlersGo
  PROVE  IncidentsInv'
<1> USE DEF IncidentsInv, IncidentsShape, RowsEscalate, StaysClosed
<1>1. IncidentsShape'
  BY DEF HandlersGo
<1>2. JudgesItsIncident'
  <2> SUFFICES ASSUME NEW w \in Senders, (Handles(w, "signal") \/ Handles(w, "emergency"))'
               PROVE  /\ handler'[w].incident \in DOMAIN incidents'
                      /\ incidents'[handler'[w].incident].station = handler'[w].station
                      /\ incidents'[handler'[w].incident].severity >= handler'[w].severity
    BY DEF JudgesItsIncident
  <2>1. /\ Handles(w, "signal") \/ Handles(w, "emergency")
        /\ handler'[w].incident = handler[w].incident
        /\ handler'[w].station = handler[w].station
        /\ handler'[w].severity = handler[w].severity
    BY DEF HandlersGo, Goes, Held, Handles, Plain
  <2> DEFINE i == handler[w].incident
  <2>2. /\ i \in 1..Len(incidents)
        /\ incidents[i].station = handler[w].station
        /\ incidents[i].severity >= handler[w].severity
    BY <2>1 DEF JudgesItsIncident
  <2>3. incidents[i] \in Incident /\ incidents'[i] \in Incident /\ handler[w] \in Held(PCs)
    BY <2>1, <2>2 DEF Handles
  <2>4. /\ incidents[i].severity \in Int /\ incidents'[i].severity \in Int
        /\ handler[w].severity \in Int
    BY <2>3 DEF Incident, Held, Severity
  <2> QED BY <2>1, <2>2, <2>4
<1>3. \A i \in 1..Len(incidents') : incidents'[i].guarding =>
        /\ i \in 1..Len(incidents) /\ incidents[i].guarding
        /\ incidents'[i].station = incidents[i].station
        /\ incidents'[i].severity >= incidents[i].severity
        /\ incidents'[i].severity \in Severity
  <2>1. \A i \in 1..Len(incidents') : incidents'[i] \in Incident
    OBVIOUS
  <2> QED BY <2>1 DEF NoNewGuard, Incident
<1>4. GuardsAreCritical'
  BY <1>3, SMTT(40) DEF GuardsAreCritical, Severity, Critical
<1>5. EmergencyHolds'
  BY <1>3 DEF EmergencyHolds, GuardsAreCritical, Active
<1>6. ReopensUnguarded'
  <2> SUFFICES ASSUME NEW w \in Senders, Handles(w, "reopen")',
                      NEW i \in 1..Len(incidents'), incidents'[i].guarding, Active(i)'
               PROVE  incidents'[i].station # handler'[w].station
    BY DEF ReopensUnguarded
  <2>1. handler'[w] = handler[w] /\ Handles(w, "reopen")
    BY DEF HandlersGo, Goes, Held, Handles, Plain
  <2>2. /\ i \in 1..Len(incidents) /\ incidents[i].guarding /\ Active(i)
        /\ incidents'[i].station = incidents[i].station
    BY <1>3 DEF Active
  <2> QED BY <2>1, <2>2 DEF ReopensUnguarded
<1> QED BY <1>1, <1>2, <1>4, <1>5, <1>6
-----------------------------------------------------------------------------
(* A function on 1..n is a sequence of length n. *)
LEMMA FunctionIsSeq ==
  ASSUME NEW S, NEW n \in Nat, NEW f \in [1..n -> S]
  PROVE  f \in Seq(S) /\ Len(f) = n
  OBVIOUS

(* One row changes. *)
LEMMA RowChanges ==
  ASSUME incidents \in Seq(Incident), NEW i \in 1..Len(incidents), NEW row \in Incident,
         incidents' = [incidents EXCEPT ![i] = row],
         row.station = incidents[i].station,
         row.severity >= incidents[i].severity,
         row.guarding => incidents[i].guarding,
         incidents[i].status = "resolved" => row.status = "resolved"
  PROVE  RowsEscalate /\ NoNewGuard
<1>1. /\ incidents' \in Seq(Incident) /\ Len(incidents') = Len(incidents)
      /\ incidents'[i] = row
      /\ \A j \in 1..Len(incidents) : j # i => incidents'[j] = incidents[j]
  OBVIOUS
<1>2. \A j \in 1..Len(incidents) : incidents[j].severity \in Int
  <2>1. \A j \in 1..Len(incidents) : incidents[j] \in Incident
    OBVIOUS
  <2> QED BY <2>1 DEF Incident, Severity
<1>3. RowsEscalate
  BY <1>1, <1>2 DEF RowsEscalate
<1>4. NoNewGuard
  BY <1>1 DEF NoNewGuard
<1> QED BY <1>3, <1>4

(* No row changes. *)
LEMMA RowsStand ==
  ASSUME incidents \in Seq(Incident), UNCHANGED incidents
  PROVE  RowsEscalate /\ NoNewGuard
<1>1. \A j \in 1..Len(incidents) : incidents[j] \in Incident
  OBVIOUS
<1>2. \A j \in 1..Len(incidents) : incidents[j].severity \in Int
  BY <1>1 DEF Incident, Severity
<1> QED BY <1>2 DEF RowsEscalate, NoNewGuard

(* A row is appended, and its handler goes on with it. *)
LEMMA InsertKeeps ==
  ASSUME IncidentsInv, NEW w \in Senders, NEW sensor \in Sensors \union {NoSensor},
         NEW station \in StationIds \union {NoStation}, NEW severity \in Severity,
         NEW pc \in {"signal", "emergency"},
         insertIncident(w, sensor, station, severity, pc), UNCHANGED status
  PROVE  IncidentsInv' /\ RowsEscalate
<1> DEFINE row == [sensor |-> sensor, station |-> station, severity |-> severity,
                   status |-> "open", recent |-> TRUE, guarding |-> FALSE]
           own == [pc |-> pc, incident |-> Len(incidents) + 1, severity |-> severity,
                   sensor |-> sensor, station |-> station]
<1> USE DEF IncidentsInv, IncidentsShape
<1>1. incidents' = Append(incidents, row) /\ handler' = [handler EXCEPT ![w] = own]
  BY DEF insertIncident, Continues
<1>2. /\ row \in Incident /\ ~row.guarding /\ row.station = station
      /\ row.severity = severity /\ severity \in Int
  BY DEF Incident, Severity
<1>3. own \in Held(PCs) /\ own.pc # "reopen" /\ own.incident = Len(incidents) + 1
      /\ own.station = station /\ own.severity = severity
  BY DEF Held, PCs
<1> HIDE DEF row, own
<1>4. /\ incidents' \in Seq(Incident) /\ Len(incidents') = Len(incidents) + 1
      /\ incidents'[Len(incidents) + 1] = row
      /\ \A j \in 1..Len(incidents) : incidents'[j] = incidents[j] /\ incidents[j] \in Incident
  BY <1>1, <1>2
<1>5. \A j \in 1..Len(incidents) : incidents[j].severity \in Int
  BY <1>4 DEF Incident, Severity
<1>6. RowsEscalate /\ NoNewGuard
  BY <1>2, <1>4, <1>5 DEF RowsEscalate, NoNewGuard
<1>7. IncidentsShape'
  BY <1>1, <1>3, <1>4
<1>8. JudgesItsIncident'
  <2> SUFFICES ASSUME NEW x \in Senders, (Handles(x, "signal") \/ Handles(x, "emergency"))'
               PROVE  /\ handler'[x].incident \in DOMAIN incidents'
                      /\ incidents'[handler'[x].incident].station = handler'[x].station
                      /\ incidents'[handler'[x].incident].severity >= handler'[x].severity
    BY DEF JudgesItsIncident
  <2>1. CASE x = w
    BY <2>1, <1>1, <1>2, <1>3, <1>4
  <2>2. CASE x # w
    <3>1. handler'[x] = handler[x]
      BY <2>2, <1>1
    <3> QED BY <3>1, <1>4 DEF JudgesItsIncident, Handles
  <2> QED BY <2>1, <2>2
<1>9. GuardsAreCritical' /\ EmergencyHolds'
  BY <1>2, <1>4, SMTT(40) DEF GuardsAreCritical, EmergencyHolds, Active
<1>10. ReopensUnguarded'
  <2> SUFFICES ASSUME NEW x \in Senders, Handles(x, "reopen")',
                      NEW i \in 1..Len(incidents'), incidents'[i].guarding, Active(i)'
               PROVE  incidents'[i].station # handler'[x].station
    BY <1>4 DEF ReopensUnguarded
  <2>1. handler'[x] = handler[x] /\ Handles(x, "reopen")
    BY <1>1, <1>3 DEF Handles
  <2>2. i \in 1..Len(incidents) /\ incidents'[i] = incidents[i]
    BY <1>2, <1>4
  <2> QED BY <2>1, <2>2 DEF ReopensUnguarded, Active
<1> QED BY <1>6, <1>7, <1>8, <1>9, <1>10
-----------------------------------------------------------------------------
(* What a filing handler does keeps the invariant. *)
LEMMA FilesKeeps ==
  ASSUME IncidentsInv, NEW w \in Senders, Files(w)
  PROVE  IncidentsInv' /\ RowsEscalate
<1> USE DEF IncidentsInv, IncidentsShape
<1>0. /\ UNCHANGED status
      /\ Places \subseteq StationIds \union {NoStation} /\ Filed \subseteq Severity
      /\ Readings \subseteq Nat /\ Critical \in Severity
  <2>1. UNCHANGED status
    BY DEF Files, OpenIncident, TriggerSOS, IngestLeak, AckIncident, ResolveIncident, stationVars
  <2>2. Critical \in Severity
    BY DEF Critical, Severity
  <2> QED BY <2>1, <2>2, IncidentAssumption
<1>1. StaysClosed
  BY <1>0 DEF StaysClosed
<1>2. ASSUME NEW type \in OpenTypes, NEW sev \in Filed, NEW s \in Places,
             OpenIncident(w, type, sev, s)
      PROVE  IncidentsInv' /\ RowsEscalate
  <2>1. applySeverityFloor(type, sev) \in Severity
    BY <1>0, SeveritiesStay
  <2> QED BY <1>0, <1>2, <2>1, InsertKeeps DEF OpenIncident
<1>3. CASE TriggerSOS(w)
  BY <1>0, <1>3, InsertKeeps DEF TriggerSOS
<1>4. ASSUME NEW x \in Sensors, NEW s \in Places, NEW sev \in Filed, NEW ppm \in Readings,
             IngestLeak(w, x, s, sev, ppm)
      PROVE  IncidentsInv' /\ RowsEscalate
  <2> DEFINE new == leakSeverity(sev, ppm)
  <2>1. new \in Severity
    BY <1>0, SeveritiesStay
  <2> HIDE DEF new
  <2>2. CASE /\ incidents' = [i \in DOMAIN incidents |->
                  IF i \in Folds(x) THEN [incidents[i] EXCEPT !.severity = Raised(@, new)]
                  ELSE incidents[i]]
             /\ UNCHANGED handler
    <3>1. ASSUME NEW i \in 1..Len(incidents)
          PROVE  /\ incidents'[i] \in Incident
                 /\ incidents'[i].station = incidents[i].station
                 /\ incidents'[i].severity >= incidents[i].severity
                 /\ incidents'[i].guarding = incidents[i].guarding
                 /\ incidents'[i].status = incidents[i].status
      <4>1. incidents[i] \in Incident
        OBVIOUS
      <4>2. incidents[i].severity \in Severity /\ incidents[i].severity \in Int
        BY <4>1 DEF Incident, Severity
      <4>3. /\ Raised(incidents[i].severity, new) \in Severity
            /\ Raised(incidents[i].severity, new) >= incidents[i].severity
        BY <4>2, <2>1, SeveritiesStay
      <4>4. incidents'[i] \in {incidents[i],
                  [incidents[i] EXCEPT !.severity = Raised(incidents[i].severity, new)]}
        BY <2>2
      <4> QED BY <4>1, <4>2, <4>3, <4>4 DEF Incident
    <3>2. incidents' \in Seq(Incident) /\ Len(incidents') = Len(incidents)
      <4>1. Len(incidents) \in Nat /\ DOMAIN incidents = 1..Len(incidents)
        OBVIOUS
      <4>2. incidents' = [i \in 1..Len(incidents) |-> incidents'[i]]
        BY <4>1, <2>2
      <4>3. incidents' \in [1..Len(incidents) -> Incident]
        BY <3>1, <4>2
      <4> QED BY <4>1, <4>3, FunctionIsSeq
    <3>3. RowsEscalate /\ NoNewGuard
      BY <3>1, <3>2 DEF RowsEscalate, NoNewGuard
    <3>4. HandlersGo
      BY <2>2 DEF HandlersGo, Goes
    <3> QED BY <1>1, <3>3, <3>4, QuietStep
  <2>3. CASE /\ Continues(w, [pc |-> "insert", incident |-> 0, severity |-> new,
                              sensor |-> x, station |-> s])
             /\ UNCHANGED incidents
    <3>1. [pc |-> "insert", incident |-> 0, severity |-> new, sensor |-> x, station |-> s]
            \in Held({"insert"})
      BY <2>1, <1>0 DEF Held
    <3>2. Held({"insert"}) \subseteq Held(PCs) \intersect Held(Plain)
      BY DEF Held, PCs, Plain
    <3>3. HandlersGo
      BY <2>3, <3>1, <3>2 DEF HandlersGo, Goes, Continues
    <3> QED BY <1>1, <2>3, <3>3, RowsStand, QuietStep
  <2> QED BY <1>4, <2>2, <2>3 DEF IngestLeak, new
<1>5. ASSUME NEW i \in DOMAIN incidents, AckIncident(w, i) \/ ResolveIncident(w, i)
      PROVE  IncidentsInv' /\ RowsEscalate
  <2>1. i \in 1..Len(incidents) /\ incidents[i] \in Incident
    BY <1>5
  <2>2. PICK st \in {"acknowledged", "resolved"}, pc \in {"ackSignal", "resolveSignal"} :
          /\ incidents[i].status # "resolved"
          /\ incidents' = [incidents EXCEPT ![i].status = st]
          /\ Continues(w, [pc |-> pc, incident |-> i, severity |-> incidents[i].severity,
                           sensor |-> NoSensor, station |-> incidents[i].station])
    BY <1>5 DEF AckIncident, ResolveIncident, Active
  <2> DEFINE row == [incidents[i] EXCEPT !.status = st]
             own == [pc |-> pc, incident |-> i, severity |-> incidents[i].severity,
                     sensor |-> NoSensor, station |-> incidents[i].station]
  <2>3. /\ row \in Incident /\ row.station = incidents[i].station
        /\ row.severity = incidents[i].severity /\ row.guarding = incidents[i].guarding
        /\ incidents[i].severity \in Int
        /\ row.severity >= incidents[i].severity
    BY <2>1 DEF Incident, Severity
  <2>4. incidents' = [incidents EXCEPT ![i] = row]
    BY <2>1, <2>2
  <2>5. RowsEscalate /\ NoNewGuard
    <3>1. incidents[i].status = "resolved" => row.status = "resolved"
      BY <2>2
    <3> HIDE DEF row
    <3> QED BY <2>1, <2>3, <2>4, <3>1, RowChanges
  <2>6. own \in Held({"ackSignal", "resolveSignal"})
    BY <2>1, SMTT(40) DEF Held, Incident
  <2>7. Held({"ackSignal", "resolveSignal"})
          \subseteq Held(PCs) \intersect Held(Plain)
    BY DEF Held, PCs, Plain
  <2>8. HandlersGo
    <3> HIDE DEF own
    <3>1. handler' = [handler EXCEPT ![w] = own]
      BY <2>2 DEF Continues, own
    <3> QED BY <3>1, <2>6, <2>7 DEF HandlersGo, Goes
  <2> QED BY <1>1, <2>5, <2>8, QuietStep
<1> QED BY <1>2, <1>3, <1>4, <1>5 DEF Files

(* A handler that goes on with its incident: the row, the signal, the station. *)
LEMMA ProceedsKeeps ==
  ASSUME IncidentsInv, NEW w \in Senders, NEW sent \in BOOLEAN,
         \/ InsertLeak(w) \/ Signal(w, sent)
         \/ CheckRestore(w, sent) \/ maybeRestoreStation(w, sent) \/ HandlerStops(w)
  PROVE  IncidentsInv' /\ RowsEscalate
<1> USE DEF IncidentsInv, IncidentsShape
<1>1. CASE InsertLeak(w)
  <2>1. handler[w] \in Held(PCs) /\ UNCHANGED status
    BY <1>1 DEF InsertLeak, Handles, stationVars
  <2>2. /\ handler[w].sensor \in Sensors \union {NoSensor} /\ handler[w].severity \in Severity
        /\ handler[w].station \in StationIds \union {NoStation}
    BY <2>1 DEF Held
  <2> QED BY <1>1, <2>1, <2>2, InsertKeeps DEF InsertLeak
<1>2. CASE Signal(w, sent)
  <2>1. handler[w] \in Held(PCs) /\ UNCHANGED <<incidents, status>>
    BY <1>2 DEF Signal, Handles, stationVars
  <2>2. CASE handler[w].pc = "signal"
    <3> DEFINE new == [handler[w] EXCEPT !.pc = "emergency"]
    <3>1. handler' = [handler EXCEPT ![w] = new]
      BY <1>2, <2>2 DEF Signal, GoesTo, Continues
    <3>2. /\ new \in Held(PCs) /\ new.pc # "reopen" /\ new.incident = handler[w].incident
          /\ new.station = handler[w].station /\ new.severity = handler[w].severity
      BY <2>1 DEF Held, PCs
    <3> HIDE DEF new
    <3>3. handler[w] # NotHandling
      BY <1>2 DEF Signal, Handles
    <3>4. HandlersGo
      BY <3>1, <3>2, <3>3, <2>2 DEF HandlersGo, Goes
    <3>5. StaysClosed
      BY <2>1 DEF StaysClosed
    <3> QED BY <2>1, <3>4, <3>5, RowsStand, QuietStep
  <2>3. CASE handler[w].pc = "ackSignal"
    <3>1. handler' = [handler EXCEPT ![w] = NotHandling]
      BY <1>2, <2>3 DEF Signal, Continues
    <3>2. HandlersGo
      BY <3>1 DEF HandlersGo, Goes
    <3>3. StaysClosed
      BY <2>1 DEF StaysClosed
    <3> QED BY <2>1, <3>2, <3>3, RowsStand, QuietStep
  <2>4. CASE handler[w].pc = "resolveSignal"
    <3> DEFINE new == [handler[w] EXCEPT !.pc = "restore"]
    <3>1. handler' = [handler EXCEPT ![w] = new]
      BY <1>2, <2>4 DEF Signal, GoesTo, Continues
    <3>2. new \in Held(PCs) /\ new \in Held(Plain)
      BY <2>1 DEF Held, PCs, Plain
    <3> HIDE DEF new
    <3>3. HandlersGo
      BY <3>1, <3>2 DEF HandlersGo, Goes
    <3>4. StaysClosed
      BY <2>1 DEF StaysClosed
    <3> QED BY <2>1, <3>3, <3>4, RowsStand, QuietStep
  <2> QED BY <1>2, <2>2, <2>3, <2>4 DEF Signal, Handles
<1>3. CASE maybeRestoreStation(w, sent)
  <2>1. /\ UNCHANGED incidents
        /\ handler' = [handler EXCEPT ![w] = NotHandling]
        /\ handler[w] \in Held(PCs)
    BY <1>3 DEF maybeRestoreStation, Continues, Handles
  <2>2. HandlersGo
    BY <2>1 DEF HandlersGo, Goes
  <2>3. CASE UNCHANGED status
    <3>1. StaysClosed
      BY <2>3 DEF StaysClosed
    <3> QED BY <2>1, <2>2, <3>1, RowsStand, QuietStep
  <2>4. CASE status' = [status EXCEPT ![handler[w].station] = "online"]
    <3>1. IncidentsShape'
      BY <2>1, <2>2, <2>4 DEF HandlersGo, StationStatuses
    <3>2. JudgesItsIncident' /\ GuardsAreCritical' /\ ReopensUnguarded'
      BY <2>1 DEF JudgesItsIncident, GuardsAreCritical, ReopensUnguarded, Active, Handles
    <3>3. \A i \in DOMAIN incidents :
            incidents[i].guarding /\ Active(i) => incidents[i].station # handler[w].station
      BY <1>3 DEF maybeRestoreStation, ReopensUnguarded
    <3>4. EmergencyHolds'
      BY <2>1, <2>4, <3>3 DEF EmergencyHolds, GuardsAreCritical, Active
    <3> QED BY <2>1, <3>1, <3>2, <3>4, RowsStand
  <2> QED BY <1>3, <2>3, <2>4 DEF maybeRestoreStation
<1>4. CASE HandlerStops(w)
  <2>1. HandlersGo
    BY <1>4 DEF HandlerStops, Continues, HandlersGo, Goes
  <2>2. StaysClosed /\ UNCHANGED incidents
    BY <1>4 DEF StaysClosed, HandlerStops, stationVars
  <2> QED BY <2>1, <2>2, RowsStand, QuietStep
<1>5. CASE CheckRestore(w, sent)
  <2>1. UNCHANGED <<incidents, status>> /\ handler[w] \in Held(PCs)
    BY <1>5 DEF CheckRestore, stationVars, Handles
  <2>2. CASE handler' = [handler EXCEPT ![w] = NotHandling]
    <3>1. HandlersGo
      BY <2>2 DEF HandlersGo, Goes
    <3>2. StaysClosed
      BY <2>1 DEF StaysClosed
    <3> QED BY <2>1, <3>1, <3>2, RowsStand, QuietStep
  <2>3. CASE /\ ActiveCriticalAt(handler[w].station) = {}
             /\ handler' = [handler EXCEPT ![w] = [handler[w] EXCEPT !.pc = "reopen"]]
    <3> DEFINE new == [handler[w] EXCEPT !.pc = "reopen"]
    <3>1. new \in Held(PCs) /\ new.pc = "reopen" /\ new.station = handler[w].station
      BY <2>1 DEF Held, PCs
    <3>2. handler' = [handler EXCEPT ![w] = new]
      BY <2>3
    <3> HIDE DEF new
    <3>3. IncidentsShape'
      BY <2>1, <3>1, <3>2
    <3>4. JudgesItsIncident' /\ GuardsAreCritical' /\ EmergencyHolds'
      <4>1. \A x \in Senders : (Handles(x, "signal") \/ Handles(x, "emergency"))' =>
              handler'[x] = handler[x]
        BY <3>1, <3>2 DEF Handles
      <4>2. JudgesItsIncident'
        BY <2>1, <4>1 DEF JudgesItsIncident, Handles
      <4> QED BY <2>1, <4>2 DEF GuardsAreCritical, EmergencyHolds, Active
    <3>5. \A i \in DOMAIN incidents :
            incidents[i].guarding /\ Active(i) => incidents[i].station # handler[w].station
      BY <2>3 DEF GuardsAreCritical, ActiveCriticalAt
    <3>6. ReopensUnguarded'
      <4>1. \A x \in Senders : x # w => handler'[x] = handler[x]
        BY <3>2
      <4>2. handler'[w].station = handler[w].station
        BY <3>1, <3>2
      <4> QED BY <2>1, <3>5, <4>1, <4>2 DEF ReopensUnguarded, Handles, Active
    <3> QED BY <2>1, <3>3, <3>4, <3>6, RowsStand
  <2> QED BY <1>5, <2>2, <2>3 DEF CheckRestore, GoesTo, Continues
<1> QED BY <1>1, <1>2, <1>3, <1>4, <1>5

(* The station is closed, and its incident guards it from then on, unless the
   station is being reopened. *)
LEMMA EmergencyKeeps ==
  ASSUME IncidentsInv, NEW w \in Senders, NEW succeeds \in BOOLEAN,
         setStationEmergency(w, succeeds)
  PROVE  IncidentsInv' /\ RowsEscalate
<1> USE DEF IncidentsInv, IncidentsShape
<1> DEFINE i == handler[w].incident
           s == handler[w].station
<1>1. /\ handler' = [handler EXCEPT ![w] = NotHandling]
      /\ handler[w] \in Held(PCs)
      /\ i \in 1..Len(incidents) /\ incidents[i].station = s
      /\ incidents[i].severity >= handler[w].severity
  BY DEF setStationEmergency, Continues, Handles, JudgesItsIncident
<1>2. HandlersGo
  BY <1>1 DEF HandlersGo, Goes
<1>0. StaysClosed
  BY <1>1 DEF StaysClosed, setStationEmergency, StationStatuses
<1>3. CASE UNCHANGED incidents
  BY <1>0, <1>2, <1>3, RowsStand, QuietStep
<1>4. CASE /\ status' = IF status[s] # "emergency" THEN [status EXCEPT ![s] = "emergency"]
                        ELSE status
           /\ incidents' = [incidents EXCEPT ![i].guarding = TRUE]
           /\ handler[w].severity = Critical /\ s # NoStation /\ ~Reopening(s)
  <2> DEFINE row == [incidents[i] EXCEPT !.guarding = TRUE]
  <2>1. incidents[i] \in Incident /\ s \in StationIds
    BY <1>1, <1>4 DEF Held
  <2>2. /\ row \in Incident /\ row.station = s /\ row.severity = incidents[i].severity
        /\ row.status = incidents[i].status /\ incidents[i].severity = Critical
    <3>1. incidents[i].severity \in Severity
      BY <2>1 DEF Incident
    <3>2. incidents[i].severity = Critical
      BY <3>1, <1>1, <1>4 DEF Severity, Critical
    <3>3. /\ row \in Incident /\ row.station = incidents[i].station
          /\ row.severity = incidents[i].severity /\ row.status = incidents[i].status
      BY <2>1 DEF Incident
    <3> QED BY <3>2, <3>3, <1>1
  <2>3. incidents' = [incidents EXCEPT ![i] = row]
    BY <1>1, <1>4
  <2> HIDE DEF row
  <2>4. /\ incidents' \in Seq(Incident) /\ Len(incidents') = Len(incidents)
        /\ incidents'[i] = row
        /\ \A j \in 1..Len(incidents) :
             incidents[j] \in Incident /\ (j # i => incidents'[j] = incidents[j])
    BY <1>1, <2>2, <2>3
  <2>5. \A j \in 1..Len(incidents) : incidents[j].severity \in Int
    BY <2>4 DEF Incident, Severity
  <2>6. RowsEscalate
    BY <1>1, <2>2, <2>4, <2>5 DEF RowsEscalate
  <2>7. IncidentsShape'
    BY <1>0, <1>2, <2>4 DEF HandlersGo, StaysClosed
  <2>8. JudgesItsIncident'
    <3>1. \A j \in 1..Len(incidents) :
            /\ incidents'[j].station = incidents[j].station
            /\ incidents'[j].severity = incidents[j].severity
      BY <1>1, <2>2, <2>4
    <3> QED BY <1>1, <2>4, <3>1, SMTT(40) DEF JudgesItsIncident, Handles
  <2>9. GuardsAreCritical' /\ EmergencyHolds'
    <3>1. status'[s] = "emergency" /\ (\A t \in StationIds : t # s => status'[t] = status[t])
      BY <1>4, <2>1
    <3> QED BY <1>1, <2>1, <2>2, <2>4, <3>1, SMTT(40) DEF GuardsAreCritical, EmergencyHolds, Active
  <2>10. ReopensUnguarded'
    <3> SUFFICES ASSUME NEW x \in Senders, Handles(x, "reopen")',
                        NEW j \in 1..Len(incidents), incidents'[j].guarding, Active(j)'
                 PROVE  incidents'[j].station # handler'[x].station
      BY <2>4 DEF ReopensUnguarded
    <3>1. handler'[x] = handler[x] /\ Handles(x, "reopen")
      BY <1>1 DEF Handles
    <3>2. CASE j = i
      <4>1. incidents'[j].station = s
        BY <2>2, <2>4, <3>2
      <4>2. handler[x].station # s
        BY <1>4, <3>1, Zenon DEF Reopening
      <4> QED BY <3>1, <4>1, <4>2
    <3>3. CASE j # i
      <4>1. incidents'[j] = incidents[j] /\ incidents[j].guarding /\ Active(j)
        BY <2>4, <3>3 DEF Active
      <4> QED BY <3>1, <4>1 DEF ReopensUnguarded
    <3> QED BY <3>2, <3>3
  <2> QED BY <2>6, <2>7, <2>8, <2>9, <2>10
<1> QED BY <1>3, <1>4 DEF setStationEmergency

(* The steps of the workflow, and the end of a dedup window. *)
LEMMA RunKeeps ==
  ASSUME IncidentsInv, NEW i \in DOMAIN incidents, NEW succeeds \in BOOLEAN,
         \/ SetIncidentInProgress(i) \/ TakeAck(i) \/ EscalationTimerFires(i)
         \/ EscalateIncident(i, succeeds) \/ EscalationGivenUp(i)
         \/ MarkIncidentResolved(i) \/ RunFails(i) \/ DedupWindowPasses(i)
  PROVE  IncidentsInv' /\ RowsEscalate
<1> USE DEF IncidentsInv, IncidentsShape
<1>1. i \in 1..Len(incidents) /\ incidents[i] \in Incident
  OBVIOUS
<1>2. UNCHANGED <<handler, status>>
  BY DEF SetIncidentInProgress, TakeAck, EscalationTimerFires, EscalateIncident,
         EscalationGivenUp, MarkIncidentResolved, RunFails, DedupWindowPasses, stationVars
<1>3. StaysClosed /\ HandlersGo
  BY <1>2 DEF StaysClosed, HandlersGo, Goes
<1>4. incidents[i].severity \in Severity /\ incidents[i].severity \in Int
  BY <1>1 DEF Incident, Severity
<1>5. CASE incidents' = incidents
  BY <1>3, <1>5, RowsStand, QuietStep
<1>6. ASSUME NEW st \in {"in_progress", "resolved"},
             incidents[i].status = "resolved" => st = "resolved",
             incidents' = [incidents EXCEPT ![i].status = st]
      PROVE  IncidentsInv' /\ RowsEscalate
  <2> DEFINE row == [incidents[i] EXCEPT !.status = st]
  <2>1. /\ row \in Incident /\ row.station = incidents[i].station /\ row.status = st
        /\ row.severity = incidents[i].severity /\ row.guarding = incidents[i].guarding
    BY <1>1 DEF Incident
  <2>2. incidents' = [incidents EXCEPT ![i] = row]
    BY <1>1, <1>6
  <2> HIDE DEF row
  <2>3. row.severity >= incidents[i].severity
    BY <1>4, <2>1
  <2>4. RowsEscalate /\ NoNewGuard
    BY <1>1, <1>6, <2>1, <2>2, <2>3, RowChanges
  <2> QED BY <1>3, <2>4, QuietStep
<1>7. CASE incidents' = [incidents EXCEPT ![i].recent = FALSE]
  <2> DEFINE row == [incidents[i] EXCEPT !.recent = FALSE]
  <2>1. /\ row \in Incident /\ row.station = incidents[i].station
        /\ row.status = incidents[i].status
        /\ row.severity = incidents[i].severity /\ row.guarding = incidents[i].guarding
    BY <1>1 DEF Incident
  <2>2. incidents' = [incidents EXCEPT ![i] = row]
    BY <1>1, <1>7
  <2> HIDE DEF row
  <2>3. row.severity >= incidents[i].severity
    BY <1>4, <2>1
  <2>4. RowsEscalate /\ NoNewGuard
    BY <1>1, <2>1, <2>2, <2>3, RowChanges
  <2> QED BY <1>3, <2>4, QuietStep
<1>8. CASE incidents' = [incidents EXCEPT ![i].severity = NextSeverity(@)]
  <2> DEFINE new == NextSeverity(incidents[i].severity)
             row == [incidents[i] EXCEPT !.severity = new]
  <2>1. new \in Severity /\ new >= incidents[i].severity
    BY <1>4, SeveritiesStay
  <2>2. incidents' = [incidents EXCEPT ![i] = row]
    BY <1>1, <1>8
  <2> HIDE DEF new
  <2>3. /\ row \in Incident /\ row.station = incidents[i].station
        /\ row.status = incidents[i].status
        /\ row.severity = new /\ row.guarding = incidents[i].guarding
    BY <1>1, <2>1 DEF Incident
  <2> HIDE DEF row
  <2> QED BY <1>1, <1>3, <2>1, <2>2, <2>3, RowChanges, QuietStep
<1> QED
  BY <1>5, <1>6, <1>7, <1>8
     DEF SetIncidentInProgress, TakeAck, EscalationTimerFires, EscalateIncident,
         EscalationGivenUp, MarkIncidentResolved, RunFails, DedupWindowPasses

(* The operator sets a station, which frees it of its guards, or adds one. *)
LEMMA StationKeeps ==
  ASSUME IncidentsInv, NEW s \in StationIds,
         \/ OverrideStatus(s, "online")
         \/ /\ \E v \in StockLevels : CreateStation(s, v)
            /\ UNCHANGED <<webhookVars, incidentVars>>
  PROVE  IncidentsInv' /\ RowsEscalate
<1> USE DEF IncidentsInv, IncidentsShape
<1>1. CASE OverrideStatus(s, "online")
  <2>1. /\ status' = [status EXCEPT ![s] = "online"] /\ UNCHANGED handler
        /\ incidents' = [i \in DOMAIN incidents |->
             [incidents[i] EXCEPT !.guarding = @ /\ incidents[i].station # s]]
    BY <1>1 DEF OverrideStatus, UpdateStationStatus
  <2>2. ASSUME NEW i \in 1..Len(incidents)
        PROVE  /\ incidents'[i] \in Incident /\ incidents[i].severity \in Int
               /\ incidents'[i].station = incidents[i].station
               /\ incidents'[i].severity = incidents[i].severity
               /\ incidents'[i].status = incidents[i].status
               /\ incidents'[i].guarding => incidents[i].guarding /\ incidents[i].station # s
    <3> DEFINE g == incidents[i].guarding /\ incidents[i].station # s
    <3>1. incidents[i] \in Incident
      OBVIOUS
    <3>2. incidents'[i] = [incidents[i] EXCEPT !.guarding = g]
      BY <2>1
    <3>3. g \in BOOLEAN /\ (g => incidents[i].guarding /\ incidents[i].station # s)
      OBVIOUS
    <3> HIDE DEF g
    <3>4. /\ incidents'[i] \in Incident
          /\ incidents'[i].station = incidents[i].station
          /\ incidents'[i].severity = incidents[i].severity
          /\ incidents'[i].status = incidents[i].status
          /\ incidents'[i].guarding = g
      BY <3>1, <3>2, <3>3 DEF Incident
    <3> QED BY <3>1, <3>3, <3>4, SMTT(40) DEF Incident, Severity
  <2>3. incidents' \in Seq(Incident) /\ Len(incidents') = Len(incidents)
    <3>1. Len(incidents) \in Nat /\ DOMAIN incidents = 1..Len(incidents)
      OBVIOUS
    <3>2. incidents' = [i \in 1..Len(incidents) |-> incidents'[i]]
      BY <3>1, <2>1
    <3>3. incidents' \in [1..Len(incidents) -> Incident]
      BY <2>2, <3>2
    <3> QED BY <3>1, <3>3, FunctionIsSeq
  <2>4. RowsEscalate
    BY <2>2, <2>3 DEF RowsEscalate
  <2>5. IncidentsShape'
    BY <2>1, <2>3 DEF StationStatuses
  <2>6. JudgesItsIncident'
    BY <2>1, <2>2, <2>3 DEF JudgesItsIncident, Handles
  <2>7. GuardsAreCritical'
    BY <2>2, <2>3 DEF GuardsAreCritical
  <2>8. ASSUME NEW i \in 1..Len(incidents), incidents'[i].guarding, incidents'[i].status # "resolved"
        PROVE  status'[incidents'[i].station] = "emergency"
    <3>1. /\ incidents[i].guarding /\ incidents[i].station # s
          /\ incidents[i].station \in StationIds
          /\ status[incidents[i].station] = "emergency"
      BY <2>2, <2>8, SMTT(40) DEF GuardsAreCritical, EmergencyHolds, Active
    <3> QED BY <3>1, <2>1, <2>2
  <2>9. EmergencyHolds'
    BY <2>3, <2>8 DEF EmergencyHolds, Active
  <2>10. ReopensUnguarded'
    <3> SUFFICES ASSUME NEW x \in Senders, Handles(x, "reopen")',
                        NEW i \in 1..Len(incidents), incidents'[i].guarding, Active(i)'
                 PROVE  incidents'[i].station # handler'[x].station
      BY <2>3 DEF ReopensUnguarded
    <3>1. handler'[x] = handler[x] /\ Handles(x, "reopen")
      BY <2>1 DEF Handles
    <3>2. incidents[i].guarding /\ Active(i) /\ incidents'[i].station = incidents[i].station
      BY <2>2 DEF Active
    <3> QED BY <3>1, <3>2 DEF ReopensUnguarded
  <2> QED BY <2>4, <2>5, <2>6, <2>7, <2>9, <2>10
<1>2. CASE /\ \E v \in StockLevels : CreateStation(s, v)
           /\ UNCHANGED <<webhookVars, incidentVars>>
  <2>1. StaysClosed
    BY <1>2 DEF StaysClosed, CreateStation, StationStatuses
  <2>2. UNCHANGED <<incidents, handler>>
    BY <1>2 DEF incidentVars
  <2>3. HandlersGo
    BY <2>2 DEF HandlersGo, Goes
  <2> QED BY <2>1, <2>2, <2>3, RowsStand, QuietStep
<1> QED BY <1>1, <1>2

(* Every step keeps the invariant and escalates. *)
LEMMA StepKeeps ==
  ASSUME IncidentsInv, [IncidentsStep]_allVars
  PROVE  IncidentsInv' /\ RowsEscalate
<1>1. CASE UNCHANGED <<incidents, handler, status>>
  <2>1. StaysClosed /\ HandlersGo
    BY <1>1 DEF StaysClosed, HandlersGo, Goes, IncidentsInv, IncidentsShape
  <2> QED BY <1>1, <2>1, RowsStand, QuietStep DEF IncidentsInv, IncidentsShape
<1>2. CASE UNCHANGED allVars
  BY <1>1, <1>2 DEF allVars, stationVars, incidentVars
<1>3. CASE IncidentsNext
  <2>1. CASE NotifiesPartners
    BY <1>1, <2>1 DEF NotifiesPartners, incidentVars, stationVars
  <2>2. ASSUME NEW w \in Senders, Files(w) PROVE IncidentsInv' /\ RowsEscalate
    BY <2>2, FilesKeeps
  <2>3. ASSUME NEW w \in Senders, Proceeds(w) PROVE IncidentsInv' /\ RowsEscalate
    BY <2>3, ProceedsKeeps, EmergencyKeeps DEF Proceeds
  <2>4. ASSUME NEW i \in DOMAIN incidents, RunProceeds(i) PROVE IncidentsInv' /\ RowsEscalate
    BY <2>4, RunKeeps DEF RunProceeds
  <2> QED BY <1>3, <2>1, <2>2, <2>3, <2>4 DEF IncidentsNext
<1>4. CASE IncidentDisturbances
  <2>1. ASSUME NEW w \in Senders,
               \/ Signal(w, FALSE) \/ setStationEmergency(w, FALSE)
               \/ CheckRestore(w, FALSE) \/ maybeRestoreStation(w, FALSE) \/ HandlerStops(w)
        PROVE  IncidentsInv' /\ RowsEscalate
    BY <2>1, ProceedsKeeps, EmergencyKeeps
  <2>2. CASE UNCHANGED <<incidentVars, stationVars>>
    BY <1>1, <2>2 DEF incidentVars, stationVars
  <2>3. ASSUME NEW i \in DOMAIN incidents,
               \/ EscalateIncident(i, FALSE) \/ EscalationGivenUp(i)
               \/ RunFails(i) \/ DedupWindowPasses(i)
        PROVE  IncidentsInv' /\ RowsEscalate
    BY <2>3, RunKeeps
  <2>4. ASSUME NEW s \in StationIds, OverrideStatus(s, "online")
        PROVE  IncidentsInv' /\ RowsEscalate
    BY <2>4, StationKeeps
  <2> QED BY <1>4, <2>1, <2>2, <2>3, <2>4 DEF IncidentDisturbances
<1>5. CASE AddsStation
  BY <1>5, StationKeeps DEF AddsStation
<1> QED BY <1>2, <1>3, <1>4, <1>5 DEF IncidentsStep

(* No incident and no handler exists at the start. *)
LEMMA InitHolds ==
  ASSUME StationsInit, IncidentsInit
  PROVE  IncidentsInv
<1>1. incidents = <<>> /\ \A w \in Senders : handler[w] = NotHandling
  BY DEF IncidentsInit
<1>2. IncidentsShape
  BY DEF IncidentsShape, StationsInit, IncidentsInit, StationStatuses
<1> QED BY <1>1, <1>2 DEF IncidentsInv, JudgesItsIncident, GuardsAreCritical, ReopensUnguarded,
                          EmergencyHolds, Handles

(* A critical incident whose handler reached its station while no request was in
   the middle of reopening it keeps the station in emergency until it is resolved
   or an operator sets the station: no restore that judges the incidents later,
   by its snapshot, and writes at any time after that, no other handler, workflow
   step or failure reopens it (setStationEmergency, maybeRestoreStation). *)
THEOREM EmergencyIsKept == IncidentsSpec => []EmergencyHolds
<1>1. StationsInit /\ WebhooksInit /\ IncidentsInit => IncidentsInv
  BY InitHolds
<1>2. IncidentsInv /\ [IncidentsStep]_allVars => IncidentsInv'
  BY StepKeeps
<1>3. IncidentsInv => EmergencyHolds
  BY DEF IncidentsInv
<1> QED BY <1>1, <1>2, <1>3, PTL DEF IncidentsSpec, IncidentsStep, allVars

(* Severities never fall and a resolved incident stays resolved, whatever
   readings, escalations and late activities race (IngestLeak, EscalateIncident,
   SetIncidentInProgress, MarkIncidentResolved). *)
THEOREM SeveritiesOnlyRise == IncidentsSpec => IncidentsOnlyEscalate
<1>1. StationsInit /\ WebhooksInit /\ IncidentsInit => IncidentsInv
  BY InitHolds
<1>2. IncidentsInv /\ [IncidentsStep]_allVars => IncidentsInv'
  BY StepKeeps
<1>3. IncidentsInv /\ [IncidentsStep]_allVars =>
        \A i \in DOMAIN incidents : /\ incidents'[i].severity >= incidents[i].severity
                                    /\ ~Active(i) => incidents'[i].status = "resolved"
  <2> SUFFICES ASSUME IncidentsInv, [IncidentsStep]_allVars
               PROVE  \A i \in DOMAIN incidents :
                        /\ incidents'[i].severity >= incidents[i].severity
                        /\ ~Active(i) => incidents'[i].status = "resolved"
    OBVIOUS
  <2>1. RowsEscalate
    BY StepKeeps
  <2> QED BY <2>1 DEF RowsEscalate, Active, IncidentsInv, IncidentsShape
<1> QED BY <1>1, <1>2, <1>3, PTL DEF IncidentsSpec, IncidentsStep, allVars, IncidentsOnlyEscalate
-----------------------------------------------------------------------------
(* Deliveries: what a sender holds, and the row it is at. *)
AtWork == [pc : {"record", "post", "outcome"}, todo : SUBSET Subscribers,
           event : {"opened", "resolved"}, row : Nat, ok : BOOLEAN]

(* A sender that has recorded its row is at a row, and an answer of 2xx that it
   has not recorded yet came from a receiver that took the payload. *)
AnswersAreTrue ==
  \A w \in Senders :
    /\ Sends(w, "post") \/ Sends(w, "outcome") => sender[w].row \in 1..Len(deliveries)
    /\ Sends(w, "outcome") /\ sender[w].ok => deliveries[sender[w].row].received

DeliveryInv ==
  /\ deliveries \in Seq(Delivery)
  /\ sender \in [Senders -> AtWork \union {NotSending}]
  /\ AnswersAreTrue
  /\ DeliveredWasReceived

(* A handler turns to its subscriptions, skips one, or stops. *)
LEMMA SenderTurns ==
  ASSUME DeliveryInv, UNCHANGED deliveries, NEW w \in Senders,
         NEW next \in [pc : {"record"}, todo : SUBSET Subscribers,
                       event : {"opened", "resolved"}, row : Nat, ok : BOOLEAN]
                      \union {NotSending},
         sender' = [sender EXCEPT ![w] = next]
  PROVE  DeliveryInv'
<1> USE DEF DeliveryInv
<1>1. next \in AtWork \union {NotSending}
  BY DEF AtWork
<1>2. next = NotSending \/ next.pc = "record"
  OBVIOUS
<1>3. sender' \in [Senders -> AtWork \union {NotSending}]
  BY <1>1
<1>4. AnswersAreTrue'
  BY <1>2 DEF AnswersAreTrue, Sends
<1> QED BY <1>3, <1>4 DEF DeliveredWasReceived

(* Served leaves the handler with its next subscription or with nothing. *)
LEMMA ServedTurns ==
  ASSUME DeliveryInv, NEW w \in Senders, sender[w] # NotSending, NEW b
  PROVE  Served(w, b) \in [pc : {"record"}, todo : SUBSET Subscribers,
                           event : {"opened", "resolved"}, row : Nat, ok : BOOLEAN]
                          \union {NotSending}
<1>1. sender[w] \in AtWork
  BY DEF DeliveryInv
<1> QED BY <1>1 DEF Served, AtWork

(* A sender takes up the webhooks that an incident's event is for:
   dispatchIncidentWebhooks records nothing yet. *)
LEMMA DispatchTurns ==
  ASSUME DeliveryInv, NEW w \in Senders, NEW event \in {"opened", "resolved"}, NEW severity,
         dispatchIncidentWebhooks(w, event, severity), UNCHANGED deliveries
  PROVE  DeliveryInv'
<1> DEFINE next == IF Meets(severity) = {} THEN NotSending
                   ELSE [pc |-> "record", todo |-> Meets(severity), event |-> event,
                         row |-> 0, ok |-> FALSE]
<1>1. next \in [pc : {"record"}, todo : SUBSET Subscribers,
                event : {"opened", "resolved"}, row : Nat, ok : BOOLEAN] \union {NotSending}
  BY DEF Meets
<1>2. sender' = [sender EXCEPT ![w] = next]
  BY DEF dispatchIncidentWebhooks
<1> HIDE DEF next
<1> QED BY <1>1, <1>2, SenderTurns

(* A new row, not yet delivered; its sender posts it. *)
LEMMA RecordKeeps ==
  ASSUME DeliveryInv, NEW w \in Senders, NEW b \in Subscribers, RecordDelivery(w, b)
  PROVE  DeliveryInv'
<1> USE DEF DeliveryInv
<1> DEFINE new == [sub |-> b, event |-> sender[w].event, status |-> "pending", received |-> FALSE]
           own == [sender[w] EXCEPT !.pc = "post", !.row = Len(deliveries) + 1]
<1>1. sender[w] \in AtWork
  BY DEF RecordDelivery, Sends
<1>2. deliveries' = Append(deliveries, new) /\ sender' = [sender EXCEPT ![w] = own]
  BY <1>1 DEF RecordDelivery
<1>3. new \in Delivery /\ new.status = "pending"
  BY <1>1 DEF Delivery, AtWork
<1>4. own \in AtWork /\ own.pc = "post" /\ own.row = Len(deliveries) + 1
  <2> DEFINE n == Len(deliveries) + 1
  <2>1. n \in Nat
    OBVIOUS
  <2> HIDE DEF n
  <2>2. [sender[w] EXCEPT !.pc = "post", !.row = n] \in AtWork
    BY <1>1, <2>1 DEF AtWork
  <2>3. /\ [sender[w] EXCEPT !.pc = "post", !.row = n].pc = "post"
        /\ [sender[w] EXCEPT !.pc = "post", !.row = n].row = n
    BY <1>1 DEF AtWork
  <2> QED BY <2>2, <2>3 DEF n
<1> HIDE DEF new, own
<1>5. /\ deliveries' \in Seq(Delivery) /\ Len(deliveries') = Len(deliveries) + 1
      /\ deliveries'[Len(deliveries) + 1] = new
      /\ \A d \in 1..Len(deliveries) : deliveries'[d] = deliveries[d]
  BY <1>2, <1>3
<1>6. sender' \in [Senders -> AtWork \union {NotSending}]
  BY <1>2, <1>4
<1>7. AnswersAreTrue'
  BY <1>2, <1>4, <1>5, SMTT(40) DEF AnswersAreTrue, Sends
<1>8. DeliveredWasReceived'
  BY <1>3, <1>5, SMTT(40) DEF DeliveredWasReceived
<1> QED BY <1>5, <1>6, <1>7, <1>8

(* The POST: what the receiver took it keeps, also from an earlier attempt. *)
LEMMA AttemptKeeps ==
  ASSUME DeliveryInv, NEW w \in Senders, NEW arrives \in BOOLEAN, NEW ok \in BOOLEAN,
         attemptWebhookDelivery(w, arrives, ok)
  PROVE  DeliveryInv'
<1> USE DEF DeliveryInv
<1> DEFINE d == sender[w].row
           took == deliveries[d].received \/ arrives
           new == [deliveries[d] EXCEPT !.received = took]
           own == [sender[w] EXCEPT !.pc = "outcome", !.ok = ok]
<1>1. sender[w] \in AtWork /\ d \in 1..Len(deliveries) /\ deliveries[d] \in Delivery
  BY DEF attemptWebhookDelivery, Sends, AnswersAreTrue
<1>2. deliveries' = [deliveries EXCEPT ![d] = new] /\ sender' = [sender EXCEPT ![w] = own]
  BY <1>1 DEF attemptWebhookDelivery
<1>3. took \in BOOLEAN /\ (deliveries[d].received => took) /\ (ok => took)
  BY DEF attemptWebhookDelivery
<1> HIDE DEF took
<1>4. new \in Delivery /\ new.status = deliveries[d].status /\ new.received = took
  BY <1>1, <1>3 DEF Delivery
<1>5. own \in AtWork /\ own.pc = "outcome" /\ own.row = d /\ own.ok = ok
  BY <1>1 DEF AtWork
<1> HIDE DEF new, own
<1>6. /\ deliveries' \in Seq(Delivery) /\ Len(deliveries') = Len(deliveries)
      /\ deliveries'[d] = new
      /\ \A e \in 1..Len(deliveries) : e # d => deliveries'[e] = deliveries[e]
  BY <1>1, <1>2, <1>4
<1>7. sender' \in [Senders -> AtWork \union {NotSending}]
  BY <1>2, <1>5
<1>8. \A e \in 1..Len(deliveries) :
        /\ deliveries'[e].status = deliveries[e].status
        /\ deliveries[e].received => deliveries'[e].received
  BY <1>3, <1>4, <1>6
<1>9. AnswersAreTrue'
  <2> SUFFICES ASSUME NEW x \in Senders
               PROVE  /\ (Sends(x, "post") \/ Sends(x, "outcome"))'
                           => sender'[x].row \in 1..Len(deliveries')
                      /\ Sends(x, "outcome")' /\ sender'[x].ok
                           => deliveries'[sender'[x].row].received
    BY DEF AnswersAreTrue
  <2>1. CASE x = w
    <3>1. sender'[x] = own
      BY <2>1, <1>2
    <3> QED BY <3>1, <1>1, <1>3, <1>4, <1>5, <1>6
  <2>2. CASE x # w
    <3>1. sender'[x] = sender[x]
      BY <2>2, <1>2
    <3> QED BY <3>1, <1>6, <1>8 DEF AnswersAreTrue, Sends
  <2> QED BY <2>1, <2>2
<1>10. DeliveredWasReceived'
  BY <1>6, <1>8 DEF DeliveredWasReceived
<1> QED BY <1>6, <1>7, <1>9, <1>10

(* The outcome of an attempt is recorded, over whatever another one recorded. *)
LEMMA OutcomeKeeps ==
  ASSUME DeliveryInv, NEW w \in Senders, recordDeliveryOutcome(w)
  PROVE  DeliveryInv'
<1> USE DEF DeliveryInv
<1> DEFINE d == sender[w].row
           st == IF sender[w].ok THEN "delivered" ELSE "failed"
           new == [deliveries[d] EXCEPT !.status = st]
           next == Served(w, deliveries[d].sub)
<1>1. /\ sender[w] \in AtWork /\ sender[w] # NotSending
      /\ d \in 1..Len(deliveries) /\ deliveries[d] \in Delivery
      /\ sender[w].ok => deliveries[d].received
  BY DEF recordDeliveryOutcome, Sends, AnswersAreTrue
<1>2. deliveries' = [deliveries EXCEPT ![d] = new] /\ sender' = [sender EXCEPT ![w] = next]
  BY <1>1 DEF recordDeliveryOutcome
<1>3. st \in {"delivered", "failed"} /\ (st = "delivered" => deliveries[d].received)
  BY <1>1 DEF AtWork
<1> HIDE DEF st
<1>4. new \in Delivery /\ new.status = st /\ new.received = deliveries[d].received
  BY <1>1, <1>3 DEF Delivery
<1>5. /\ next = NotSending \/ next.pc = "record"
      /\ next \in AtWork \union {NotSending}
  BY <1>1, ServedTurns DEF AtWork
<1> HIDE DEF new, next
<1>6. /\ deliveries' \in Seq(Delivery) /\ Len(deliveries') = Len(deliveries)
      /\ deliveries'[d] = new
      /\ \A e \in 1..Len(deliveries) : e # d => deliveries'[e] = deliveries[e]
  BY <1>1, <1>2, <1>4
<1>7. sender' \in [Senders -> AtWork \union {NotSending}]
  BY <1>2, <1>5
<1>8. \A e \in 1..Len(deliveries) : deliveries'[e].received = deliveries[e].received
  BY <1>4, <1>6
<1>9. AnswersAreTrue'
  BY <1>2, <1>5, <1>6, <1>8 DEF AnswersAreTrue, Sends
<1>10. DeliveredWasReceived'
  BY <1>3, <1>4, <1>6, SMTT(40) DEF DeliveredWasReceived
<1> QED BY <1>6, <1>7, <1>9, <1>10

(* A retry posts a row that exists. *)
LEMMA RetryKeeps ==
  ASSUME DeliveryInv, NEW w \in Senders, NEW d \in DOMAIN deliveries, RetryWebhookDelivery(w, d)
  PROVE  DeliveryInv'
<1> USE DEF DeliveryInv
<1> DEFINE own == [pc |-> "post", todo |-> {deliveries[d].sub}, event |-> deliveries[d].event,
                   row |-> d, ok |-> FALSE]
<1>1. d \in 1..Len(deliveries) /\ deliveries[d] \in Delivery
  OBVIOUS
<1>2. own \in AtWork /\ own.pc = "post" /\ own.row = d
  BY <1>1, SMTT(40) DEF Delivery, AtWork
<1>3. sender' = [sender EXCEPT ![w] = own] /\ UNCHANGED deliveries
  BY DEF RetryWebhookDelivery
<1> HIDE DEF own
<1>4. sender' \in [Senders -> AtWork \union {NotSending}]
  BY <1>2, <1>3
<1>5. AnswersAreTrue'
  BY <1>1, <1>2, <1>3 DEF AnswersAreTrue, Sends
<1> QED BY <1>3, <1>4, <1>5 DEF DeliveredWasReceived

(* Every step of incidents, stations and webhooks keeps the delivery rows
   true to what the endpoint answered. *)
LEMMA DeliveryStepKeeps ==
  ASSUME DeliveryInv, [IncidentsStep]_allVars
  PROVE  DeliveryInv'
<1>1. CASE UNCHANGED <<deliveries, sender>>
  BY <1>1 DEF DeliveryInv, AnswersAreTrue, DeliveredWasReceived, Sends
<1>2. CASE UNCHANGED allVars
  BY <1>1, <1>2 DEF allVars, webhookVars
<1>3. ASSUME NEW w \in Senders, NEW succeeds \in BOOLEAN,
             \/ setStationEmergency(w, succeeds)
             \/ CheckRestore(w, succeeds) \/ maybeRestoreStation(w, succeeds)
      PROVE  DeliveryInv'
  <2>1. CASE setStationEmergency(w, succeeds)
    BY <2>1, DispatchTurns DEF setStationEmergency
  <2>2. CASE maybeRestoreStation(w, succeeds)
    BY <2>2, DispatchTurns DEF maybeRestoreStation
  <2>3. CASE CheckRestore(w, succeeds)
    BY <1>1, <2>3, DispatchTurns DEF CheckRestore
  <2> QED BY <1>3, <2>1, <2>2, <2>3
<1>4. CASE NotifiesPartners
  <2>1. ASSUME NEW w \in Senders, Delivers(w) PROVE DeliveryInv'
    BY <2>1, RecordKeeps, AttemptKeeps, OutcomeKeeps DEF Delivers
  <2>2. ASSUME NEW w \in Senders, NEW d \in DOMAIN deliveries, RetryWebhookDelivery(w, d)
        PROVE  DeliveryInv'
    BY <2>2, RetryKeeps
  <2>3. ASSUME NEW b \in Subscribers,
               \/ \E min \in Filed : CreateWebhookSubscription(b, min)
               \/ DeactivateWebhookSubscription(b)
        PROVE  DeliveryInv'
    BY <1>1, <2>3 DEF CreateWebhookSubscription, DeactivateWebhookSubscription
  <2> QED BY <1>4, <2>1, <2>2, <2>3 DEF NotifiesPartners
<1>5. ASSUME NEW w \in Senders,
             (\E b \in Subscribers : RecordFails(w, b)) \/ SenderStops(w)
      PROVE  DeliveryInv'
  <2>1. CASE SenderStops(w)
    BY <2>1, SenderTurns DEF SenderStops
  <2>2. ASSUME NEW b \in Subscribers, RecordFails(w, b) PROVE DeliveryInv'
    BY <2>2, ServedTurns, SenderTurns DEF RecordFails, Sends
  <2> QED BY <1>5, <2>1, <2>2
<1>6. CASE IncidentsNext
  <2>1. ASSUME NEW w \in Senders, Files(w) PROVE DeliveryInv'
    BY <1>1, <2>1 DEF Files, OpenIncident, TriggerSOS, IngestLeak, AckIncident, ResolveIncident,
                      webhookVars
  <2>2. ASSUME NEW w \in Senders, Proceeds(w) PROVE DeliveryInv'
    BY <1>1, <1>3, <2>2 DEF Proceeds, InsertLeak, Signal, webhookVars
  <2>3. ASSUME NEW i \in DOMAIN incidents, RunProceeds(i) PROVE DeliveryInv'
    BY <1>1, <2>3 DEF RunProceeds, SetIncidentInProgress, TakeAck, EscalationTimerFires,
                      EscalateIncident, MarkIncidentResolved, webhookVars
  <2> QED BY <1>4, <1>6, <2>1, <2>2, <2>3 DEF IncidentsNext
<1>7. CASE IncidentDisturbances
  <2>1. ASSUME NEW w \in Senders, Signal(w, FALSE) \/ HandlerStops(w) PROVE DeliveryInv'
    BY <1>1, <2>1 DEF Signal, HandlerStops, webhookVars
  <2>2. ASSUME NEW i \in DOMAIN incidents,
               \/ EscalateIncident(i, FALSE) \/ EscalationGivenUp(i)
               \/ RunFails(i) \/ DedupWindowPasses(i)
        PROVE  DeliveryInv'
    BY <1>1, <2>2 DEF EscalateIncident, EscalationGivenUp, RunFails, DedupWindowPasses, webhookVars
  <2>3. ASSUME NEW s \in StationIds, OverrideStatus(s, "online") PROVE DeliveryInv'
    BY <1>1, <2>3 DEF OverrideStatus, webhookVars
  <2> QED BY <1>3, <1>5, <1>7, <2>1, <2>2, <2>3 DEF IncidentDisturbances
<1>8. CASE AddsStation
  BY <1>1, <1>8 DEF AddsStation, webhookVars
<1> QED BY <1>2, <1>6, <1>7, <1>8 DEF IncidentsStep

(* A delivery shown as delivered reached its receiver, however attempts,
   operators' retries and lost answers overlap (attemptWebhookDelivery,
   recordDeliveryOutcome, RetryWebhookDelivery). *)
THEOREM DeliveriesAreReceived == IncidentsSpec => []DeliveredWasReceived
<1>1. StationsInit /\ WebhooksInit /\ IncidentsInit => DeliveryInv
  BY DEF WebhooksInit, DeliveryInv, AnswersAreTrue, DeliveredWasReceived, Sends
<1>2. DeliveryInv /\ [IncidentsStep]_allVars => DeliveryInv'
  BY DeliveryStepKeeps
<1>3. DeliveryInv => DeliveredWasReceived
  BY DEF DeliveryInv
<1> QED BY <1>1, <1>2, <1>3, PTL DEF IncidentsSpec, IncidentsStep, allVars
=============================================================================
