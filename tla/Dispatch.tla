------------------------------ MODULE Dispatch ------------------------------
(***************************************************************************)
(* Drivers, dispatch jobs, their Temporal workflow and charter bookings    *)
(* (infra-api handlers/drivers.go, dispatch.go, charters.go,               *)
(* workflow/workflows.go).                                                 *)
(*                                                                         *)
(* A request reads the driver's hours, checks for an overlapping job and   *)
(* inserts: other requests run between the statements, and the partial     *)
(* unique indexes of migration 0005 are what stands behind the check.      *)
(***************************************************************************)
EXTENDS Integers, Sequences, FiniteSets, FiniteSetsExt

CONSTANTS
  Drivers, Vehicles,
  Windows, Requested,   \* the shifts, and the vehicles or none, jobs ask for
  CharterWindows,       \* the windows charters ask for
  MaxShift, MaxDaily,   \* hours of service
  Charters,             \* booking references
  Desks,                \* concurrent requests
  MaxJobs,              \* bound on the job rows
  Null, NoRequest

Window == [from : Nat \union {Null}, to : Nat \union {Null}]

ASSUME DispatchAssumption ==
  /\ Windows \union CharterWindows \subseteq Window
  /\ Requested \subseteq Vehicles \union {Null}
  /\ {MaxShift, MaxDaily, MaxJobs} \subseteq Nat
  /\ Null \notin Charters   \* a job of the desk belongs to no charter
  /\ IsFiniteSet(Vehicles)

VARIABLES
  drivers,    \* infra.drivers, by sub
  jobs,       \* infra.dispatch_jobs, in insertion order
  bookings,   \* infra.charter_bookings, by reference
  desk,       \* the request every desk executes
  run         \* the dispatch workflow run of every job

dispatchVars == <<drivers, jobs, bookings, desk, run>>

JobIds == 1..MaxJobs
(* The placeholder driver of a chartered vehicle, unique in its booking. *)
charterDriverSub(ref, v) == <<ref, v>>

Job == [driver : Drivers \union (Charters \X Vehicles), vehicle : Vehicles \union {Null},
        window : Window, charter : Charters \union {Null},
        status : {"assigned", "accepted", "requeued", "cancelled"}]
NoRunYet == [state |-> "none", assigned |-> FALSE, accepted |-> FALSE, cancelled |-> FALSE]
DispatchRun == [state : {"none", "unassigned", "offered", "closed", "failed"},
                assigned : BOOLEAN, accepted : BOOLEAN, cancelled : BOOLEAN]
Request ==
  [pc : {"check", "insert"}, driver : Drivers, vehicle : Vehicles \union {Null}, window : Window]
  \union [pc : {"signal"}, name : {"assigned", "accepted", "cancelled"}, todo : SUBSET JobIds]
  \union [pc : {"accept"}, driver : Drivers, job : JobIds]
  \union [pc : {"swap"}, job : JobIds, vehicle : Vehicles]
  \union [pc : {"book"}, charter : Charters, vehicles : SUBSET Vehicles, window : Window]

DispatchTypeOK ==
  /\ drivers \in [Drivers -> {"none", "active", "off-duty", "suspended"}]
  /\ jobs \in Seq(Job)
  /\ Len(jobs) <= MaxJobs
  /\ bookings \in [Charters -> {"none", "confirmed", "cancelled"}]
  /\ desk \in [Desks -> Request \union {NoRequest}]
  /\ run \in [JobIds -> DispatchRun]

DispatchInit ==
  /\ drivers = [d \in Drivers |-> "none"]
  /\ jobs = <<>>
  /\ bookings = [c \in Charters |-> "none"]
  /\ desk = [w \in Desks |-> NoRequest]
  /\ run = [j \in JobIds |-> NoRunYet]

Sits(w, pc) == desk[w] # NoRequest /\ desk[w].pc = pc
Turns(w, request) == desk' = [desk EXCEPT ![w] = request]
Signals(w, name, todo) ==
  Turns(w, IF todo = {} THEN NoRequest ELSE [pc |-> "signal", name |-> name, todo |-> todo])

ActiveJob(j) == jobs[j].status \in {"assigned", "accepted"}
ActiveJobs == {j \in DOMAIN jobs : ActiveJob(j)}

(* FOR UPDATE: a swap holds its job until it commits. *)
JobLocked(j) == \E w \in Desks : Sits(w, "swap") /\ desk[w].job = j
-----------------------------------------------------------------------------
(* RegisterDriver and CreateDriver insert an unknown driver; SetDriverStatus
   sets any known one. *)
RegisterDriver(d) ==
  /\ drivers[d] = "none"
  /\ drivers' = [drivers EXCEPT ![d] = "active"]
  /\ UNCHANGED <<jobs, bookings, desk, run>>

SetDriverStatus(d, st) ==
  /\ drivers[d] # "none"
  /\ drivers' = [drivers EXCEPT ![d] = st]
  /\ UNCHANGED <<jobs, bookings, desk, run>>
-----------------------------------------------------------------------------
Hours(win) == IF win.from # Null /\ win.to # Null THEN win.to - win.from ELSE MaxShift

(* The driver's active hours on the day of the new shift; the model has one. *)
DayTotal(d) ==
  MapThenSumSet(LAMBDA j : Hours(jobs[j].window),
                {j \in ActiveJobs : jobs[j].driver = d /\ jobs[j].window.from # Null})

WithinHours(d, win) ==
  /\ Hours(win) <= MaxShift
  /\ win.from # Null => DayTotal(d) + Hours(win) <= MaxDaily

(* The WHERE clause: an unknown bound of the job overlaps, and a comparison
   with an unknown bound of the request does not hold. *)
Overlaps(j, win) ==
  LET other == jobs[j].window
  IN  /\ \/ win.from = Null \/ other.from = Null
         \/ win.to # Null /\ other.from < win.to
      /\ \/ win.to = Null \/ other.to = Null
         \/ win.from # Null /\ other.to > win.from

IndexMissing(d, v, except) == TRUE

(* dispatch_jobs_active_driver_uq and dispatch_jobs_active_vehicle_uq *)
IndexAllows(d, v, except) ==
  \A j \in ActiveJobs \ except :
    jobs[j].driver # d /\ (v = Null \/ jobs[j].vehicle # v)

NewJob(d, v, win, charter) ==
  [driver |-> d, vehicle |-> v, window |-> win, charter |-> charter, status |-> "assigned"]

(* CreateDispatchJob *)
CheckHours(w, d, v, win) ==
  /\ desk[w] = NoRequest
  /\ win.from # Null /\ win.to # Null => win.from < win.to
  /\ WithinHours(d, win)
  /\ Turns(w, [pc |-> "check", driver |-> d, vehicle |-> v, window |-> win])
  /\ UNCHANGED <<drivers, jobs, bookings, run>>

CheckOverlap(w) ==
  /\ Sits(w, "check")
  /\ LET r == desk[w]
         conflict == \E j \in ActiveJobs :
                       /\ \/ jobs[j].driver = r.driver
                          \/ r.vehicle # Null /\ jobs[j].vehicle = r.vehicle
                       /\ Overlaps(j, r.window)
     IN  Turns(w, IF conflict THEN NoRequest ELSE [r EXCEPT !.pc = "insert"])
  /\ UNCHANGED <<drivers, jobs, bookings, run>>

(* The foreign key and the unique indexes judge the row; then the commit. *)
InsertJob(w) ==
  /\ Sits(w, "insert")
  /\ LET r == desk[w]
     IN  \/ /\ drivers[r.driver] = "none" \/ ~IndexAllows(r.driver, r.vehicle, {})
            /\ Turns(w, NoRequest)
            /\ UNCHANGED jobs
         \/ /\ drivers[r.driver] # "none"
            /\ IndexAllows(r.driver, r.vehicle, {})
            /\ Len(jobs) < MaxJobs
            /\ jobs' = Append(jobs, NewJob(r.driver, r.vehicle, r.window, Null))
            /\ Signals(w, "assigned", {Len(jobs) + 1})
  /\ UNCHANGED <<drivers, bookings, run>>

(* AcceptDispatchJob reads the caller's status, then takes the job. *)
CheckDriver(w, d, j) ==
  /\ desk[w] = NoRequest
  /\ drivers[d] = "active"
  /\ Turns(w, [pc |-> "accept", driver |-> d, job |-> j])
  /\ UNCHANGED <<drivers, jobs, bookings, run>>

AcceptJob(w) ==
  /\ Sits(w, "accept")
  /\ LET r == desk[w]
         takes == jobs[r.job].status = "assigned" /\ jobs[r.job].driver = r.driver
     IN  /\ ~JobLocked(r.job)
         /\ jobs' = IF takes THEN [jobs EXCEPT ![r.job].status = "accepted"] ELSE jobs
         /\ Signals(w, "accepted", IF takes THEN {r.job} ELSE {})
  /\ UNCHANGED <<drivers, bookings, run>>

CancelDispatchJob(w, j) ==
  /\ desk[w] = NoRequest
  /\ ActiveJob(j)
  /\ ~JobLocked(j)
  /\ jobs' = [jobs EXCEPT ![j].status = "cancelled"]
  /\ Signals(w, "cancelled", {j})
  /\ UNCHANGED <<drivers, bookings, run>>

(* SwapDispatchVehicle locks the job and checks the new vehicle. *)
CheckSwap(w, j, v) ==
  /\ desk[w] = NoRequest
  /\ ActiveJob(j)
  /\ ~JobLocked(j)
  /\ ~\E k \in ActiveJobs \ {j} : jobs[k].vehicle = v /\ Overlaps(k, jobs[j].window)
  /\ Turns(w, [pc |-> "swap", job |-> j, vehicle |-> v])
  /\ UNCHANGED <<drivers, jobs, bookings, run>>

SwapVehicle(w) ==
  /\ Sits(w, "swap")
  /\ LET r == desk[w]
     IN  jobs' = IF IndexAllows(Null, r.vehicle, {r.job})
                 THEN [jobs EXCEPT ![r.job].vehicle = r.vehicle] ELSE jobs
  /\ Turns(w, NoRequest)
  /\ UNCHANGED <<drivers, bookings, run>>
-----------------------------------------------------------------------------
(* CreateCharter: the advisory lock and the unique reference admit one
   transaction per reference; each vehicle is checked, then its job inserted,
   and the booking and its jobs commit together or not at all. *)
CheckCharter(w, c, vs, win) ==
  /\ desk[w] = NoRequest
  /\ vs # {}
  /\ win.from # Null /\ win.to # Null
  /\ win.from < win.to
  /\ bookings[c] = "none"
  /\ ~\E x \in Desks : Sits(x, "book") /\ desk[x].charter = c
  /\ ~\E j \in ActiveJobs : jobs[j].vehicle \in vs /\ Overlaps(j, win)
  /\ Turns(w, [pc |-> "book", charter |-> c, vehicles |-> vs, window |-> win])
  /\ UNCHANGED <<drivers, jobs, bookings, run>>

BookCharter(w) ==
  /\ Sits(w, "book")
  /\ LET r == desk[w]
         free == \A v \in r.vehicles : IndexAllows(charterDriverSub(r.charter, v), v, {})
         row(v) == NewJob(charterDriverSub(r.charter, v), v, r.window, r.charter)
     IN  \/ /\ ~free
            /\ UNCHANGED <<jobs, bookings>>
         \/ /\ free
            /\ Len(jobs) + Cardinality(r.vehicles) <= MaxJobs
            /\ \E rows \in Bijection(1..Cardinality(r.vehicles), r.vehicles) :
                 jobs' = jobs \o [i \in DOMAIN rows |-> row(rows[i])]
            /\ bookings' = [bookings EXCEPT ![r.charter] = "confirmed"]
  /\ Turns(w, NoRequest)
  /\ UNCHANGED <<drivers, run>>

CharterJobs(c) == {j \in DOMAIN jobs : jobs[j].charter = c}

(* The mistake of cancelling the booking and not the jobs behind it. *)
CancelBookingOnly(w, c) ==
  /\ desk[w] = NoRequest
  /\ bookings[c] = "confirmed"
  /\ bookings' = [bookings EXCEPT ![c] = "cancelled"]
  /\ UNCHANGED <<drivers, jobs, desk, run>>

CancelCharter(w, c) ==
  /\ desk[w] = NoRequest
  /\ bookings[c] = "confirmed"
  /\ LET cancels == CharterJobs(c) \intersect ActiveJobs
     IN  /\ ~\E j \in cancels : JobLocked(j)
         /\ jobs' = [j \in DOMAIN jobs |->
                       IF j \in cancels THEN [jobs[j] EXCEPT !.status = "cancelled"] ELSE jobs[j]]
         /\ Signals(w, "cancelled", cancels)
  /\ bookings' = [bookings EXCEPT ![c] = "cancelled"]
  /\ UNCHANGED <<drivers, run>>
-----------------------------------------------------------------------------
(* SignalWithStart, one job at a time; a failed call is only logged. *)
SignalDispatch(w, sent) ==
  /\ Sits(w, "signal")
  /\ LET r == desk[w]
         j == Min(r.todo)
         open == run[j].state \in {"unassigned", "offered"}
     IN  /\ run' = IF ~sent THEN run
                   ELSE [run EXCEPT ![j] = IF open THEN [@ EXCEPT ![r.name] = TRUE]
                           ELSE [NoRunYet EXCEPT !.state = "unassigned", ![r.name] = TRUE]]
         /\ Signals(w, r.name, r.todo \ {j})
  /\ UNCHANGED <<drivers, jobs, bookings>>

(* A statement errs or the process dies: the transaction rolls back. *)
DeskStops(w) ==
  /\ desk[w] # NoRequest
  /\ Turns(w, NoRequest)
  /\ UNCHANGED <<drivers, jobs, bookings, run>>

(* DispatchWorkflow *)
TakeAssignment(j) ==
  /\ run[j].state = "unassigned"
  /\ run[j].assigned
  /\ run' = [run EXCEPT ![j].state = "offered", ![j].assigned = FALSE]
  /\ UNCHANGED <<drivers, jobs, bookings, desk>>

CloseRun(j) ==
  /\ \/ run[j].state = "unassigned" /\ run[j].cancelled
     \/ run[j].state = "offered" /\ (run[j].accepted \/ run[j].cancelled)
  /\ run' = [run EXCEPT ![j].state = "closed"]
  /\ UNCHANGED <<drivers, jobs, bookings, desk>>

(* The mistake of a timeout that only logs. *)
TimeoutOnlyLogs(j) ==
  /\ run[j].state = "offered"
  /\ run' = [run EXCEPT ![j].state = "unassigned"]
  /\ UNCHANGED <<drivers, jobs, bookings, desk>>

(* UPDATE ... WHERE status = 'assigned' *)
Requeued(j) ==
  IF jobs[j].status = "assigned" THEN [jobs EXCEPT ![j].status = "requeued"] ELSE jobs

(* The accept timeout: the activity requeues a job that is still assigned. *)
RequeueDispatchJob(j) ==
  /\ run[j].state = "offered"
  /\ ~JobLocked(j)
  /\ run' = [run EXCEPT ![j].state = "unassigned"]
  /\ jobs' = Requeued(j)
  /\ UNCHANGED <<drivers, bookings, desk>>

(* Its five attempts are used up and the run ends with the error.  None of them
   wrote the row, or one did and its report was lost. *)
RequeueFails(j) ==
  /\ run[j].state = "offered"
  /\ run' = [run EXCEPT ![j].state = "failed"]
  /\ UNCHANGED jobs \/ (~JobLocked(j) /\ jobs' = Requeued(j))
  /\ UNCHANGED <<drivers, bookings, desk>>
-----------------------------------------------------------------------------
DeskProceeds(w) ==
  \/ CheckOverlap(w)
  \/ InsertJob(w)
  \/ AcceptJob(w)
  \/ SwapVehicle(w)
  \/ BookCharter(w)
  \/ SignalDispatch(w, TRUE)

RunSteps(j) == TakeAssignment(j) \/ CloseRun(j) \/ RequeueDispatchJob(j)

DispatchNext ==
  \/ \E d \in Drivers : RegisterDriver(d)
  \/ \E w \in Desks :
       \/ \E d \in Drivers, v \in Requested, win \in Windows : CheckHours(w, d, v, win)
       \/ \E d \in Drivers, j \in DOMAIN jobs : CheckDriver(w, d, j)
       \/ \E j \in DOMAIN jobs : CancelDispatchJob(w, j)
       \/ \E c \in Charters, vs \in SUBSET Vehicles, win \in CharterWindows : CheckCharter(w, c, vs, win)
       \/ \E c \in Charters : CancelCharter(w, c)
       \/ DeskProceeds(w)
  \/ \E j \in DOMAIN jobs : RunSteps(j)

(* A request, its signal or the requeuing activity fails; a vehicle breaks down
   and is swapped; an operator changes a driver's status. *)
DispatchDisturbances ==
  \/ \E w \in Desks :
       \/ DeskStops(w)
       \/ SignalDispatch(w, FALSE)
       \/ \E j \in DOMAIN jobs, v \in Vehicles : CheckSwap(w, j, v)
  \/ \E j \in DOMAIN jobs : RequeueFails(j)
  \/ \E d \in Drivers, st \in {"active", "off-duty", "suspended"} : SetDriverStatus(d, st)

(* The dispatch desk on its own. *)
DispatchSpec == DispatchInit /\ [][DispatchNext \/ DispatchDisturbances]_dispatchVars
-----------------------------------------------------------------------------
(* No driver and no vehicle has two active jobs whose windows meet, whatever
   creates, swaps and charters ran between another request's check and its
   insert (CreateDispatchJob, SwapDispatchVehicle, CreateCharter). *)
NoDoubleBooking ==
  \A j, k \in ActiveJobs :
    j # k /\ Overlaps(j, jobs[k].window) =>
      /\ jobs[j].driver # jobs[k].driver
      /\ jobs[j].vehicle = Null \/ jobs[j].vehicle # jobs[k].vehicle

(* A cancelled charter holds no vehicle: every job behind it is out of the
   active statuses, also when one of them was being swapped (CancelCharter). *)
CancelledCharterIsFree ==
  \A c \in Charters : bookings[c] = "cancelled" => CharterJobs(c) \intersect ActiveJobs = {}

(* A job whose assignment reached the workflow does not stay offered: it is
   accepted, cancelled or, after the timeout, requeued, unless all five attempts
   of the requeuing activity failed.  The run then ends in error and nothing else
   moves the job on: it keeps its driver and its vehicle until somebody accepts
   or cancels it (DispatchWorkflow, activityOptions). *)
OfferIsDecided ==
  \A j \in JobIds :
    run[j].assigned ~> \/ j \in DOMAIN jobs /\ jobs[j].status # "assigned"
                      \/ run[j].state = "failed"
=============================================================================
