---------------------------- MODULE DispatchProofs --------------------------
(***************************************************************************)
(* What the dispatch desk and charters guarantee for any number of drivers,*)
(* vehicles, requests, jobs and bookings.                                  *)
(***************************************************************************)
EXTENDS Dispatch, FiniteSetTheorems, TLAPS

DispatchStep == DispatchNext \/ DispatchDisturbances

(* The requests that look at jobs and the ones that only signal. *)
Creating == [pc : {"check", "insert"}, driver : Drivers, vehicle : Vehicles \union {Null},
             window : Window]
Signalling == [pc : {"signal"}, name : {"assigned", "accepted", "cancelled"}, todo : SUBSET Nat]
Accepting == [pc : {"accept"}, driver : Drivers, job : Nat]
Swapping == [pc : {"swap"}, job : Nat, vehicle : Vehicles]
Booking == [pc : {"book"}, charter : Charters, vehicles : SUBSET Vehicles, window : Window]
Task == Creating \union Signalling \union Accepting \union Swapping \union Booking

(* A request for a job names one that exists. *)
AtAJob ==
  \A w \in Desks : Sits(w, "accept") \/ Sits(w, "swap") => desk[w].job \in 1..Len(jobs)

(* One request at a time books a charter, and only one that is not booked. *)
BooksAlone ==
  \A w \in Desks :
    Sits(w, "book") =>
      /\ bookings[desk[w].charter] = "none"
      /\ \A x \in Desks : Sits(x, "book") /\ desk[x].charter = desk[w].charter => x = w

DeskInv == desk \in [Desks -> Task \union {NoRequest}] /\ AtAJob /\ BooksAlone

(* The partial unique indexes hold, whatever the windows of the jobs. *)
ActiveRow(row) == row.status \in {"assigned", "accepted"}
Apart(a, b) == a.driver # b.driver /\ (a.vehicle = Null \/ a.vehicle # b.vehicle)
JobsApart ==
  \A j, k \in 1..Len(jobs) :
    j # k /\ ActiveRow(jobs[j]) /\ ActiveRow(jobs[k]) => Apart(jobs[j], jobs[k])

CharterClosed ==
  \A j \in 1..Len(jobs) :
    ActiveRow(jobs[j]) /\ jobs[j].charter \in Charters => bookings[jobs[j].charter] = "confirmed"

JobsInv ==
  /\ jobs \in Seq(Job)
  /\ bookings \in [Charters -> {"none", "confirmed", "cancelled"}]
  /\ JobsApart
  /\ CharterClosed

DispatchInv == DeskInv /\ JobsInv
-----------------------------------------------------------------------------
(* The tasks of one kind are told apart by where they stand. *)
LEMMA TaskKinds ==
  ASSUME NEW r \in Task
  PROVE  /\ r.pc \in {"check", "insert"} => r \in Creating
         /\ r.pc = "signal" => r \in Signalling
         /\ r.pc = "accept" => r \in Accepting
         /\ r.pc = "swap" => r \in Swapping
         /\ r.pc = "book" => r \in Booking
  BY DEF Task, Creating, Signalling, Accepting, Swapping, Booking

(* A desk turns to something other than a booking. *)
LEMMA DeskTurns ==
  ASSUME DeskInv, jobs \in Seq(Job), jobs' \in Seq(Job), Len(jobs') >= Len(jobs),
         NEW w \in Desks, NEW next \in Task \union {NoRequest},
         desk' = [desk EXCEPT ![w] = next],
         next = NoRequest \/ next.pc # "book",
         next # NoRequest /\ next.pc \in {"accept", "swap"} => next.job \in 1..Len(jobs),
         \A x \in Desks : x # w /\ Sits(x, "book")
           => bookings'[desk[x].charter] = bookings[desk[x].charter]
  PROVE  DeskInv'
<1> USE DEF DeskInv
<1>1. desk' \in [Desks -> Task \union {NoRequest}]
  OBVIOUS
<1>2. desk'[w] = next /\ \A x \in Desks : x # w => desk'[x] = desk[x]
  OBVIOUS
<1>3. AtAJob'
  <2> SUFFICES ASSUME NEW x \in Desks, (Sits(x, "accept") \/ Sits(x, "swap"))'
               PROVE  desk'[x].job \in 1..Len(jobs')
    BY DEF AtAJob
  <2>1. CASE x = w
    BY <1>2, <2>1 DEF Sits
  <2>2. CASE x # w
    <3>1. desk[x].job \in 1..Len(jobs)
      BY <1>2, <2>2 DEF Sits, AtAJob
    <3> QED BY <1>2, <2>2, <3>1
  <2> QED BY <2>1, <2>2
<1>4. BooksAlone'
  BY <1>2 DEF BooksAlone, Sits
<1> QED BY <1>1, <1>3, <1>4

(* Jobs that are left alone, or leave the active statuses. *)
JobsRetire ==
  /\ jobs' \in Seq(Job) /\ Len(jobs') = Len(jobs)
  /\ \A j \in 1..Len(jobs) :
       /\ jobs'[j].driver = jobs[j].driver /\ jobs'[j].vehicle = jobs[j].vehicle
       /\ jobs'[j].charter = jobs[j].charter
       /\ ActiveRow(jobs'[j]) => ActiveRow(jobs[j])

(* Retiring jobs brings no two active ones together. *)
LEMMA RetiringKeeps ==
  ASSUME JobsInv, JobsRetire, UNCHANGED bookings
  PROVE  JobsInv'
  BY DEF JobsInv, JobsRetire, JobsApart, CharterClosed, Apart

(* Jobs that do not change retire trivially. *)
LEMMA StandingRetires ==
  ASSUME JobsInv, UNCHANGED jobs
  PROVE  JobsRetire
  BY DEF JobsInv, JobsRetire

(* The status of one job changes, and not to an active one unless it was. *)
LEMMA StatusRetires ==
  ASSUME JobsInv, NEW j \in 1..Len(jobs),
         NEW st \in {"assigned", "accepted", "requeued", "cancelled"},
         jobs' = [jobs EXCEPT ![j].status = st],
         st \in {"assigned", "accepted"} => ActiveRow(jobs[j])
  PROVE  JobsRetire
<1> DEFINE row == [jobs[j] EXCEPT !.status = st]
<1>1. jobs[j] \in Job
  BY DEF JobsInv
<1>2. /\ row \in Job /\ row.driver = jobs[j].driver /\ row.vehicle = jobs[j].vehicle
      /\ row.charter = jobs[j].charter /\ row.status = st
  BY <1>1 DEF Job
<1>3. jobs' = [jobs EXCEPT ![j] = row]
  BY <1>1 DEF JobsInv
<1> HIDE DEF row
<1>4. /\ jobs' \in Seq(Job) /\ Len(jobs') = Len(jobs) /\ jobs'[j] = row
      /\ \A k \in 1..Len(jobs) : k # j => jobs'[k] = jobs[k]
  BY <1>2, <1>3 DEF JobsInv
<1> QED BY <1>2, <1>4 DEF JobsRetire, ActiveRow

(* A desk that turns to a signal, or to nothing. *)
LEMMA SignalTask ==
  ASSUME NEW w \in Desks, NEW name \in {"assigned", "accepted", "cancelled"},
         NEW todo \in SUBSET Nat, Signals(w, name, todo)
  PROVE  \E next \in Task \union {NoRequest} :
           /\ desk' = [desk EXCEPT ![w] = next]
           /\ next = NoRequest \/ next.pc = "signal"
<1> DEFINE next == IF todo = {} THEN NoRequest
                   ELSE [pc |-> "signal", name |-> name, todo |-> todo]
<1>1. next \in Task \union {NoRequest} /\ (next = NoRequest \/ next.pc = "signal")
  BY DEF Task, Signalling
<1>2. desk' = [desk EXCEPT ![w] = next]
  BY DEF Signals, Turns
<1> QED BY <1>1, <1>2

(* So the desks stay in order when one of them signals. *)
LEMMA SignalKeeps ==
  ASSUME DeskInv, jobs \in Seq(Job), jobs' \in Seq(Job), Len(jobs') >= Len(jobs),
         NEW w \in Desks, NEW name \in {"assigned", "accepted", "cancelled"},
         NEW todo \in SUBSET Nat, Signals(w, name, todo),
         \A x \in Desks : x # w /\ Sits(x, "book")
           => bookings'[desk[x].charter] = bookings[desk[x].charter]
  PROVE  DeskInv'
<1>1. PICK next \in Task \union {NoRequest} :
        /\ desk' = [desk EXCEPT ![w] = next]
        /\ next = NoRequest \/ next.pc = "signal"
  BY SignalTask
<1> QED BY <1>1, DeskTurns

(* A desk that gives up. *)
LEMMA ClearKeeps ==
  ASSUME DeskInv, jobs \in Seq(Job), jobs' \in Seq(Job), Len(jobs') >= Len(jobs),
         NEW w \in Desks, Turns(w, NoRequest),
         \A x \in Desks : x # w /\ Sits(x, "book")
           => bookings'[desk[x].charter] = bookings[desk[x].charter]
  PROVE  DeskInv'
<1>1. NoRequest \in Task \union {NoRequest}
  OBVIOUS
<1>2. desk' = [desk EXCEPT ![w] = NoRequest]
  BY DEF Turns
<1> QED BY <1>1, <1>2, DeskTurns

(* The step leaves jobs and bookings alone. *)
LEMMA QuietJobs ==
  ASSUME JobsInv, UNCHANGED <<jobs, bookings>>
  PROVE  JobsInv' /\ jobs \in Seq(Job) /\ jobs' \in Seq(Job) /\ Len(jobs') >= Len(jobs)
<1>1. Len(jobs) \in Nat
  BY DEF JobsInv
<1> QED BY <1>1, StandingRetires, RetiringKeeps DEF JobsInv

(* A step that touches neither desks, jobs nor bookings. *)
LEMMA QuietStep ==
  ASSUME DispatchInv, UNCHANGED <<desk, jobs, bookings>>
  PROVE  DispatchInv'
<1>1. JobsInv'
  BY QuietJobs DEF DispatchInv
<1>2. DeskInv'
  BY DEF DispatchInv, DeskInv, AtAJob, BooksAlone, Sits
<1> QED BY <1>1, <1>2 DEF DispatchInv

(* The checks of CreateDispatchJob, AcceptDispatchJob and SwapDispatchVehicle
   only leave the request at its next statement. *)
LEMMA ChecksKeep ==
  ASSUME DispatchInv, NEW w \in Desks,
         \/ \E d \in Drivers, v \in Requested, win \in Windows : CheckHours(w, d, v, win)
         \/ CheckOverlap(w)
         \/ \E d \in Drivers, j \in DOMAIN jobs : CheckDriver(w, d, j)
         \/ \E j \in DOMAIN jobs, v \in Vehicles : CheckSwap(w, j, v)
         \/ DeskStops(w)
  PROVE  DispatchInv'
<1>1. UNCHANGED <<jobs, bookings>>
  BY DEF CheckHours, CheckOverlap, CheckDriver, CheckSwap, DeskStops
<1>2. JobsInv' /\ jobs \in Seq(Job) /\ jobs' \in Seq(Job) /\ Len(jobs') >= Len(jobs)
  BY <1>1, QuietJobs DEF DispatchInv
<1>3. DOMAIN jobs = 1..Len(jobs) /\ Len(jobs) \in Nat
  BY <1>2
<1>4. SUFFICES \E next \in Task \union {NoRequest} :
        /\ desk' = [desk EXCEPT ![w] = next]
        /\ next = NoRequest \/ next.pc # "book"
        /\ next # NoRequest /\ next.pc \in {"accept", "swap"} => next.job \in 1..Len(jobs)
  <2>1. PICK next \in Task \union {NoRequest} :
          /\ desk' = [desk EXCEPT ![w] = next]
          /\ next = NoRequest \/ next.pc # "book"
          /\ next # NoRequest /\ next.pc \in {"accept", "swap"} => next.job \in 1..Len(jobs)
    BY <1>4
  <2>2. DeskInv
    BY DEF DispatchInv
  <2>3. DeskInv'
    BY <1>1, <1>2, <2>1, <2>2, DeskTurns
  <2> QED BY <1>2, <2>3 DEF DispatchInv
<1>5. ASSUME NEW d \in Drivers, NEW v \in Requested, NEW win \in Windows, CheckHours(w, d, v, win)
      PROVE  \E next \in Task \union {NoRequest} :
               desk' = [desk EXCEPT ![w] = next] /\ next.pc = "check"
  <2> DEFINE next == [pc |-> "check", driver |-> d, vehicle |-> v, window |-> win]
  <2>1. next \in Task /\ next.pc = "check"
    BY DispatchAssumption DEF Task, Creating
  <2>2. desk' = [desk EXCEPT ![w] = next]
    BY <1>5 DEF CheckHours, Turns
  <2> QED BY <2>1, <2>2
<1>6. ASSUME CheckOverlap(w)
      PROVE  \E next \in Task \union {NoRequest} :
               desk' = [desk EXCEPT ![w] = next] /\ (next = NoRequest \/ next.pc = "insert")
  <2>1. desk[w] \in Creating
    BY <1>6, TaskKinds DEF CheckOverlap, Sits, DispatchInv, DeskInv
  <2> DEFINE on == [desk[w] EXCEPT !.pc = "insert"]
  <2>2. on \in Task /\ on.pc = "insert"
    BY <2>1 DEF Task, Creating
  <2>3. desk' = [desk EXCEPT ![w] = NoRequest] \/ desk' = [desk EXCEPT ![w] = on]
    BY <1>6 DEF CheckOverlap, Turns
  <2> QED BY <2>2, <2>3
<1>7. ASSUME NEW d \in Drivers, NEW j \in DOMAIN jobs, CheckDriver(w, d, j)
      PROVE  \E next \in Task : desk' = [desk EXCEPT ![w] = next] /\ next.pc = "accept" /\ next.job = j
  <2> DEFINE next == [pc |-> "accept", driver |-> d, job |-> j]
  <2>1. next \in Task /\ next.pc = "accept" /\ next.job = j
    BY <1>3 DEF Task, Accepting
  <2>2. desk' = [desk EXCEPT ![w] = next]
    BY <1>7 DEF CheckDriver, Turns
  <2> QED BY <2>1, <2>2
<1>8. ASSUME NEW j \in DOMAIN jobs, NEW v \in Vehicles, CheckSwap(w, j, v)
      PROVE  \E next \in Task : desk' = [desk EXCEPT ![w] = next] /\ next.pc = "swap" /\ next.job = j
  <2> DEFINE next == [pc |-> "swap", job |-> j, vehicle |-> v]
  <2>1. next \in Task /\ next.pc = "swap" /\ next.job = j
    BY <1>3, SMTT(40) DEF Task, Swapping
  <2>2. desk' = [desk EXCEPT ![w] = next]
    BY <1>8 DEF CheckSwap, Turns
  <2> QED BY <2>1, <2>2
<1>9. ASSUME DeskStops(w)
      PROVE  desk' = [desk EXCEPT ![w] = NoRequest]
  BY <1>9 DEF DeskStops, Turns
<1> QED BY <1>3, <1>5, <1>6, <1>7, <1>8, <1>9
-----------------------------------------------------------------------------
(* A row joins the jobs that the unique indexes let in: CreateDispatchJob. *)
LEMMA InsertKeeps ==
  ASSUME DispatchInv, NEW w \in Desks, InsertJob(w)
  PROVE  DispatchInv'
<1> DEFINE r == desk[w]
           new == NewJob(r.driver, r.vehicle, r.window, Null)
<1>1. DeskInv /\ JobsInv /\ jobs \in Seq(Job) /\ UNCHANGED bookings
  BY DEF DispatchInv, JobsInv, InsertJob
<1>2. r \in Creating
  BY <1>1, TaskKinds DEF InsertJob, Sits, DeskInv
<1>3. /\ new \in Job /\ new.driver = r.driver /\ new.vehicle = r.vehicle
      /\ new.charter = Null /\ ActiveRow(new)
  BY <1>2 DEF NewJob, Job, Creating, ActiveRow
<1>4. CASE Turns(w, NoRequest) /\ UNCHANGED jobs
  <2>1. JobsInv' /\ jobs' \in Seq(Job) /\ Len(jobs') >= Len(jobs)
    BY <1>1, <1>4, QuietJobs
  <2>2. DeskInv'
    BY <1>1, <1>4, <2>1, ClearKeeps
  <2> QED BY <2>1, <2>2 DEF DispatchInv
<1>5. CASE /\ IndexAllows(r.driver, r.vehicle, {})
           /\ jobs' = Append(jobs, new)
           /\ Signals(w, "assigned", {Len(jobs) + 1})
  <2> HIDE DEF new
  <2> DEFINE n == Len(jobs)
  <2>1. n \in Nat /\ DOMAIN jobs = 1..n
    BY <1>1
  <2>2. /\ jobs' \in Seq(Job) /\ Len(jobs') = n + 1 /\ jobs'[n + 1] = new
        /\ \A j \in 1..n : jobs'[j] = jobs[j]
    BY <1>1, <1>3, <1>5
  <2>3. \A j \in 1..n : ActiveRow(jobs[j]) =>
          Apart(jobs[j], new) /\ Apart(new, jobs[j])
    BY <1>3, <1>5, <2>1 DEF IndexAllows, ActiveJobs, ActiveJob, ActiveRow, Apart
  <2> HIDE DEF n
  <2>4. \A j \in 1..(n + 1) : j \in 1..n \/ j = n + 1
    BY <2>1
  <2>5. JobsApart'
    <3> SUFFICES ASSUME NEW j \in 1..(n + 1), NEW k \in 1..(n + 1), j # k,
                        ActiveRow(jobs'[j]), ActiveRow(jobs'[k])
                 PROVE  Apart(jobs'[j], jobs'[k])
      BY <2>2 DEF JobsApart, ActiveRow, Apart
    <3>1. CASE j \in 1..n /\ k \in 1..n
      BY <1>1, <2>2, <3>1 DEF JobsInv, JobsApart, n
    <3>2. CASE j = n + 1 \/ k = n + 1
      BY <2>2, <2>3, <2>4, <3>2
    <3> QED BY <2>4, <3>1, <3>2
  <2>6. CharterClosed'
    <3> SUFFICES ASSUME NEW j \in 1..(n + 1), ActiveRow(jobs'[j]), jobs'[j].charter \in Charters
                 PROVE  bookings[jobs'[j].charter] = "confirmed"
      BY <1>1, <2>2 DEF CharterClosed, ActiveRow
    <3>1. j \in 1..n
      BY <1>3, <2>2, <2>4, DispatchAssumption
    <3> QED BY <1>1, <2>2, <3>1 DEF JobsInv, CharterClosed, n
  <2>7. JobsInv'
    BY <1>1, <2>2, <2>5, <2>6 DEF JobsInv
  <2>8. {n + 1} \in SUBSET Nat /\ Len(jobs') >= Len(jobs)
    BY <2>1, <2>2 DEF n
  <2>9. DeskInv'
    BY <1>1, <1>5, <2>2, <2>8, SignalKeeps DEF n
  <2> QED BY <2>7, <2>9 DEF DispatchInv
<1> QED BY <1>4, <1>5 DEF InsertJob

(* A job is accepted, cancelled or requeued: no status becomes active that
   was not. *)
LEMMA StatusKeeps ==
  ASSUME DispatchInv,
         \/ \E w \in Desks : AcceptJob(w)
         \/ \E w \in Desks, j \in DOMAIN jobs : CancelDispatchJob(w, j)
         \/ \E j \in DOMAIN jobs : RequeueDispatchJob(j) \/ RequeueFails(j)
  PROVE  DispatchInv'
<1>0. UNCHANGED bookings
  BY DEF AcceptJob, CancelDispatchJob, RequeueDispatchJob, RequeueFails
<1>1. DeskInv /\ JobsInv /\ jobs \in Seq(Job) /\ UNCHANGED bookings /\ DOMAIN jobs = 1..Len(jobs)
  BY <1>0 DEF DispatchInv, JobsInv
<1>2. ASSUME NEW w \in Desks, AcceptJob(w)
      PROVE  /\ JobsRetire
             /\ \E todo \in SUBSET Nat : Signals(w, "accepted", todo)
  <2> DEFINE r == desk[w]
             takes == jobs[r.job].status = "assigned" /\ jobs[r.job].driver = r.driver
  <2>1. r.job \in 1..Len(jobs)
    BY <1>1, <1>2 DEF AcceptJob, DeskInv, AtAJob
  <2>2. CASE takes
    <3>1. jobs' = [jobs EXCEPT ![r.job].status = "accepted"] /\ Signals(w, "accepted", {r.job})
      BY <1>2, <2>2 DEF AcceptJob
    <3>2. ActiveRow(jobs[r.job])
      BY <2>2 DEF ActiveRow
    <3>3. {r.job} \in SUBSET Nat
      BY <1>1, <2>1
    <3>4. JobsRetire
      BY <1>1, <2>1, <3>1, <3>2, StatusRetires
    <3> QED BY <3>1, <3>3, <3>4
  <2>3. CASE ~takes
    <3>1. UNCHANGED jobs /\ Signals(w, "accepted", {})
      BY <1>2, <2>3 DEF AcceptJob
    <3> QED BY <1>1, <3>1, StandingRetires
  <2> QED BY <2>2, <2>3
<1>3. ASSUME NEW w \in Desks, NEW j \in DOMAIN jobs, CancelDispatchJob(w, j)
      PROVE  /\ JobsRetire
             /\ \E todo \in SUBSET Nat : Signals(w, "cancelled", todo)
  <2>1. jobs' = [jobs EXCEPT ![j].status = "cancelled"] /\ Signals(w, "cancelled", {j})
    BY <1>3 DEF CancelDispatchJob
  <2>2. JobsRetire
    BY <1>1, <2>1, StatusRetires
  <2>3. {j} \in SUBSET Nat
    BY <1>1
  <2> QED BY <2>1, <2>2, <2>3
<1>4. ASSUME NEW j \in DOMAIN jobs, RequeueDispatchJob(j) \/ RequeueFails(j)
      PROVE  JobsRetire /\ UNCHANGED desk
  <2>1. UNCHANGED jobs \/ jobs' = [jobs EXCEPT ![j].status = "requeued"]
    BY <1>4 DEF RequeueDispatchJob, RequeueFails, Requeued
  <2>2. JobsRetire
    BY <1>1, <2>1, StatusRetires, StandingRetires
  <2> QED BY <1>4, <2>2 DEF RequeueDispatchJob, RequeueFails
<1>5. JobsRetire
  BY <1>2, <1>3, <1>4
<1>6. JobsInv'
  BY <1>1, <1>5, RetiringKeeps
<1>7. jobs' \in Seq(Job) /\ Len(jobs') = Len(jobs) /\ Len(jobs) \in Nat /\ Len(jobs') >= Len(jobs)
  BY <1>1, <1>5 DEF JobsRetire
<1>8. ASSUME NEW w \in Desks, NEW name \in {"accepted", "cancelled"},
             NEW todo \in SUBSET Nat, Signals(w, name, todo)
      PROVE  DeskInv'
  BY <1>1, <1>7, <1>8, SignalKeeps
<1>9. ASSUME UNCHANGED desk
      PROVE  DeskInv'
  BY <1>1, <1>7, <1>9 DEF DeskInv, AtAJob, BooksAlone, Sits
<1>10. DeskInv'
  BY <1>2, <1>3, <1>4, <1>8, <1>9
<1> QED BY <1>6, <1>10 DEF DispatchInv

(* The index on active vehicles judges the swap: SwapDispatchVehicle. *)
LEMMA SwapKeeps ==
  ASSUME DispatchInv, NEW w \in Desks, SwapVehicle(w)
  PROVE  DispatchInv'
<1> DEFINE r == desk[w]
           row == [jobs[r.job] EXCEPT !.vehicle = r.vehicle]
<1>1. /\ DeskInv /\ JobsInv /\ jobs \in Seq(Job) /\ UNCHANGED bookings
      /\ Len(jobs) \in Nat /\ DOMAIN jobs = 1..Len(jobs) /\ Turns(w, NoRequest)
  BY DEF DispatchInv, JobsInv, SwapVehicle
<1>2. r \in Swapping /\ r.job \in 1..Len(jobs)
  BY <1>1, TaskKinds DEF SwapVehicle, Sits, DeskInv, AtAJob
<1>3. CASE UNCHANGED jobs
  <2>1. JobsInv' /\ jobs' \in Seq(Job) /\ Len(jobs') >= Len(jobs)
    BY <1>1, <1>3, QuietJobs
  <2> QED BY <1>1, <2>1, ClearKeeps DEF DispatchInv
<1>4. CASE /\ IndexAllows(Null, r.vehicle, {r.job})
           /\ jobs' = [jobs EXCEPT ![r.job].vehicle = r.vehicle]
  <2>1. jobs[r.job] \in Job
    BY <1>1, <1>2
  <2>2. /\ row \in Job /\ row.driver = jobs[r.job].driver /\ row.vehicle = r.vehicle
        /\ row.charter = jobs[r.job].charter /\ row.status = jobs[r.job].status
    BY <1>2, <2>1 DEF Job, Swapping
  <2>3. jobs' = [jobs EXCEPT ![r.job] = row]
    BY <1>1, <1>2, <1>4
  <2> HIDE DEF row
  <2>4. /\ jobs' \in Seq(Job) /\ Len(jobs') = Len(jobs) /\ jobs'[r.job] = row
        /\ \A k \in 1..Len(jobs) : k # r.job => jobs'[k] = jobs[k]
    BY <1>1, <1>2, <2>2, <2>3
  <2>5. \A k \in 1..Len(jobs) : k # r.job /\ ActiveRow(jobs[k]) => jobs[k].vehicle # r.vehicle \/ r.vehicle = Null
    BY <1>1, <1>4 DEF IndexAllows, ActiveJobs, ActiveJob, ActiveRow
  <2> DEFINE me == r.job
  <2>6. me \in 1..Len(jobs)
    BY <1>2
  <2> HIDE DEF me
  <2>7. \A j, k \in 1..Len(jobs) : j # k /\ ActiveRow(jobs[j]) /\ ActiveRow(jobs[k])
          => Apart(jobs[j], jobs[k])
    BY <1>1 DEF JobsInv, JobsApart
  <2>8. \A k \in 1..Len(jobs) : k # me /\ ActiveRow(jobs[k]) /\ ActiveRow(row)
          => Apart(jobs[k], row) /\ Apart(row, jobs[k])
    BY <2>2, <2>5, <2>6, <2>7 DEF Apart, ActiveRow, me
  <2>9. JobsApart'
    BY <2>4, <2>6, <2>7, <2>8 DEF JobsApart, me
  <2>10. CharterClosed'
    BY <1>1, <2>2, <2>4, <2>6 DEF JobsInv, CharterClosed, ActiveRow, me
  <2>11. JobsInv'
    BY <1>1, <2>4, <2>9, <2>10 DEF JobsInv
  <2>12. Len(jobs') >= Len(jobs)
    BY <1>1, <2>4
  <2>13. DeskInv'
    BY <1>1, <2>4, <2>12, ClearKeeps
  <2> QED BY <2>11, <2>13 DEF DispatchInv
<1> QED BY <1>3, <1>4 DEF SwapVehicle
-----------------------------------------------------------------------------
(* A request goes on to book a charter nobody else is booking: CreateCharter
   before its inserts. *)
LEMMA CheckCharterKeeps ==
  ASSUME DispatchInv, NEW w \in Desks, NEW c \in Charters, NEW vs \in SUBSET Vehicles,
         NEW win \in CharterWindows, CheckCharter(w, c, vs, win)
  PROVE  DispatchInv'
<1> DEFINE next == [pc |-> "book", charter |-> c, vehicles |-> vs, window |-> win]
<1>1. DeskInv /\ JobsInv' /\ UNCHANGED <<jobs, bookings>>
  BY QuietJobs DEF DispatchInv, CheckCharter
<1>2. /\ next \in Task /\ next.pc = "book" /\ next.charter = c
  BY DispatchAssumption DEF Task, Booking
<1>3. /\ desk' = [desk EXCEPT ![w] = next] /\ bookings[c] = "none"
      /\ ~\E x \in Desks : Sits(x, "book") /\ desk[x].charter = c
  BY DEF CheckCharter, Turns
<1> HIDE DEF next
<1>4. /\ desk' \in [Desks -> Task \union {NoRequest}] /\ desk'[w] = next
      /\ \A x \in Desks : x # w => desk'[x] = desk[x]
  BY <1>1, <1>2, <1>3 DEF DeskInv
<1>5. AtAJob'
  BY <1>1, <1>2, <1>4 DEF DeskInv, AtAJob, Sits
<1>6. BooksAlone'
  BY <1>1, <1>2, <1>3, <1>4 DEF DeskInv, BooksAlone, Sits
<1> QED BY <1>1, <1>4, <1>5, <1>6 DEF DispatchInv, DeskInv

(* Rows of one charter, for vehicles that differ and that the indexes let
   in, join the jobs. *)
LEMMA RowsJoin ==
  ASSUME JobsInv, NEW new \in Seq(Job), NEW c \in Charters,
         jobs' = jobs \o new, bookings' = [bookings EXCEPT ![c] = "confirmed"],
         \A i \in 1..Len(new) : ActiveRow(new[i]) /\ new[i].charter = c,
         \A i, k \in 1..Len(new) : i # k => Apart(new[i], new[k]),
         \A i \in 1..Len(new), j \in 1..Len(jobs) :
           ActiveRow(jobs[j]) => Apart(jobs[j], new[i]) /\ Apart(new[i], jobs[j])
  PROVE  JobsInv' /\ jobs' \in Seq(Job) /\ Len(jobs') >= Len(jobs)
<1> DEFINE n == Len(jobs)
           m == Len(new)
<1>1. n \in Nat /\ m \in Nat /\ jobs \in Seq(Job)
  BY DEF JobsInv
<1>2. /\ jobs' \in Seq(Job) /\ Len(jobs') = n + m
      /\ \A j \in 1..n : jobs'[j] = jobs[j]
      /\ \A j \in 1..(n + m) : j \notin 1..n => jobs'[j] = new[j - n]
  BY <1>1
<1> HIDE DEF n, m
<1>3. \A j \in 1..(n + m) : j \in 1..n \/ j - n \in 1..m
  BY <1>1
<1>4. JobsApart'
  <2> SUFFICES ASSUME NEW j \in 1..(n + m), NEW k \in 1..(n + m), j # k,
                      ActiveRow(jobs'[j]), ActiveRow(jobs'[k])
               PROVE  Apart(jobs'[j], jobs'[k])
    BY <1>2 DEF JobsApart, ActiveRow, Apart
  <2>1. CASE j \in 1..n /\ k \in 1..n
    BY <1>2, <2>1 DEF JobsInv, JobsApart, n
  <2>2. CASE j \in 1..n /\ k \notin 1..n
    BY <1>2, <1>3, <2>2 DEF n, m
  <2>3. CASE j \notin 1..n /\ k \in 1..n
    BY <1>2, <1>3, <2>3 DEF n, m
  <2>4. CASE j \notin 1..n /\ k \notin 1..n
    <3>1. j - n \in 1..m /\ k - n \in 1..m /\ j - n # k - n
      BY <1>1, <1>3, <2>4
    <3> QED BY <1>2, <2>4, <3>1 DEF m
  <2> QED BY <2>1, <2>2, <2>3, <2>4
<1>5. /\ bookings' \in [Charters -> {"none", "confirmed", "cancelled"}]
      /\ \A d \in Charters : bookings[d] = "confirmed" => bookings'[d] = "confirmed"
      /\ bookings'[c] = "confirmed"
  BY DEF JobsInv
<1>6. CharterClosed'
  <2> SUFFICES ASSUME NEW j \in 1..(n + m), ActiveRow(jobs'[j]), jobs'[j].charter \in Charters
               PROVE  bookings'[jobs'[j].charter] = "confirmed"
    BY <1>2 DEF CharterClosed, ActiveRow
  <2>1. CASE j \in 1..n
    BY <1>2, <1>5, <2>1 DEF JobsInv, CharterClosed, n
  <2>2. CASE j \notin 1..n
    BY <1>2, <1>3, <1>5, <2>2 DEF m
  <2> QED BY <2>1, <2>2
<1>7. Len(jobs') >= Len(jobs)
  BY <1>1, <1>2 DEF n
<1> QED BY <1>2, <1>4, <1>5, <1>6, <1>7 DEF JobsInv

(* The booking and its jobs commit together: CreateCharter. *)
LEMMA BookKeeps ==
  ASSUME DispatchInv, NEW w \in Desks, BookCharter(w)
  PROVE  DispatchInv'
<1> DEFINE r == desk[w]
           c == r.charter
           row(v) == NewJob(charterDriverSub(c, v), v, r.window, c)
<1>1. DeskInv /\ JobsInv /\ jobs \in Seq(Job) /\ Turns(w, NoRequest) /\ DOMAIN jobs = 1..Len(jobs)
  BY SMTT(40) DEF DispatchInv, JobsInv, BookCharter
<1>2. r \in Booking /\ c \in Charters
  BY <1>1, TaskKinds DEF BookCharter, Sits, DeskInv, Booking
<1>3. CASE UNCHANGED <<jobs, bookings>>
  <2>1. JobsInv' /\ jobs' \in Seq(Job) /\ Len(jobs') >= Len(jobs)
    BY <1>1, <1>3, QuietJobs
  <2> QED BY <1>1, <1>3, <2>1, ClearKeeps DEF DispatchInv
<1>4. CASE /\ \A v \in r.vehicles : IndexAllows(charterDriverSub(c, v), v, {})
           /\ \E rows \in Bijection(1..Cardinality(r.vehicles), r.vehicles) :
                jobs' = jobs \o [i \in DOMAIN rows |-> row(rows[i])]
           /\ bookings' = [bookings EXCEPT ![c] = "confirmed"]
  <2> DEFINE size == Cardinality(r.vehicles)
  <2>1. PICK rows \in Bijection(1..size, r.vehicles) :
          jobs' = jobs \o [i \in DOMAIN rows |-> row(rows[i])]
    BY <1>4
  <2>2. r.vehicles \subseteq Vehicles /\ size \in Nat
    BY <1>2, DispatchAssumption, FS_Subset, FS_CardinalityType DEF Booking
  <2> HIDE DEF size
  <2>3. /\ rows \in [1..size -> r.vehicles]
        /\ \A i, k \in 1..size : i # k => rows[i] # rows[k]
    BY DEF Bijection, Injection, IsInjective
  <2> DEFINE new == [i \in 1..size |-> row(rows[i])]
  <2>4. \A v \in Vehicles :
          /\ row(v) \in Job /\ row(v).driver = <<c, v>> /\ row(v).vehicle = v
          /\ row(v).charter = c /\ ActiveRow(row(v))
    BY <1>2 DEF NewJob, Job, Booking, ActiveRow, charterDriverSub
  <2> HIDE DEF row
  <2>5. new \in Seq(Job) /\ Len(new) = size /\ \A i \in 1..size : new[i] = row(rows[i])
    BY <2>2, <2>3, <2>4, SMTT(40)
  <2>6. jobs' = jobs \o new
    BY <2>1, <2>3
  <2> HIDE DEF new
  <2>7. \A i \in 1..Len(new) : ActiveRow(new[i]) /\ new[i].charter = c
    BY <2>2, <2>3, <2>4, <2>5, SMTT(40)
  <2>8. \A i, k \in 1..Len(new) : i # k => Apart(new[i], new[k])
    BY <2>2, <2>3, <2>4, <2>5 DEF Apart
  <2>9. ASSUME NEW i \in 1..Len(new), NEW j \in 1..Len(jobs), ActiveRow(jobs[j])
        PROVE  Apart(jobs[j], new[i]) /\ Apart(new[i], jobs[j])
    <3> DEFINE v == rows[i]
    <3>1. v \in r.vehicles /\ new[i].driver = <<c, v>> /\ new[i].vehicle = v
      BY <2>2, <2>3, <2>4, <2>5
    <3> HIDE DEF v
    <3>2. jobs[j].driver # <<c, v>> /\ (v = Null \/ jobs[j].vehicle # v)
      BY <1>1, <1>4, <2>9, <3>1
         DEF IndexAllows, ActiveJobs, ActiveJob, ActiveRow, charterDriverSub
    <3> QED BY <3>1, <3>2 DEF Apart
  <2>10. JobsInv' /\ jobs' \in Seq(Job) /\ Len(jobs') >= Len(jobs)
    BY <1>1, <1>2, <1>4, <2>5, <2>6, <2>7, <2>8, <2>9, RowsJoin
  <2>11. \A x \in Desks : x # w /\ Sits(x, "book")
           => bookings'[desk[x].charter] = bookings[desk[x].charter]
    <3>1. \A x \in Desks : x # w /\ Sits(x, "book") => desk[x].charter # c
      BY <1>1 DEF DeskInv, BooksAlone, BookCharter
    <3> QED BY <1>1, <1>4, <3>1, TaskKinds DEF JobsInv, DeskInv, Sits, Booking
  <2>12. DeskInv'
    BY <1>1, <2>10, <2>11, ClearKeeps
  <2> QED BY <2>10, <2>12 DEF DispatchInv
<1> QED BY <1>3, <1>4 DEF BookCharter

(* The booking and its active jobs are cancelled together: CancelCharter. *)
LEMMA CancelKeeps ==
  ASSUME DispatchInv, NEW w \in Desks, NEW c \in Charters, CancelCharter(w, c)
  PROVE  DispatchInv'
<1> DEFINE cancels == CharterJobs(c) \intersect ActiveJobs
           new(j) == IF j \in cancels THEN [jobs[j] EXCEPT !.status = "cancelled"] ELSE jobs[j]
           n == Len(jobs)
<1>1. /\ DeskInv /\ JobsInv /\ jobs \in Seq(Job) /\ n \in Nat /\ DOMAIN jobs = 1..n
      /\ bookings \in [Charters -> {"none", "confirmed", "cancelled"}]
  BY DEF DispatchInv, JobsInv
<1>2. /\ bookings[c] = "confirmed" /\ bookings' = [bookings EXCEPT ![c] = "cancelled"]
      /\ jobs' = [j \in 1..n |-> new(j)] /\ Signals(w, "cancelled", cancels)
  BY <1>1 DEF CancelCharter
<1>3. cancels = {j \in 1..n : jobs[j].charter = c /\ ActiveRow(jobs[j])}
  BY <1>1 DEF CharterJobs, ActiveJobs, ActiveJob, ActiveRow
<1>4. ASSUME NEW j \in 1..n
      PROVE  /\ new(j) \in Job /\ new(j).driver = jobs[j].driver
             /\ new(j).vehicle = jobs[j].vehicle /\ new(j).charter = jobs[j].charter
             /\ ActiveRow(new(j)) => ActiveRow(jobs[j]) /\ jobs[j].charter # c
  <2>1. jobs[j] \in Job
    BY <1>1
  <2>2. CASE j \in cancels
    BY <2>1, <2>2 DEF Job, ActiveRow
  <2>3. CASE j \notin cancels
    BY <1>3, <2>1, <2>3
  <2> QED BY <2>2, <2>3
<1> HIDE DEF new, cancels
<1>5. jobs' \in Seq(Job) /\ Len(jobs') = n /\ \A j \in 1..n : jobs'[j] = new(j)
  BY <1>1, <1>2, <1>4
<1>6. JobsRetire
  BY <1>4, <1>5 DEF JobsRetire
<1>7. JobsApart'
  BY <1>1, <1>6 DEF JobsInv, JobsApart, JobsRetire, Apart
<1>8. CharterClosed'
  BY <1>1, <1>2, <1>4, <1>5 DEF JobsInv, CharterClosed
<1>9. JobsInv'
  BY <1>1, <1>2, <1>5, <1>7, <1>8 DEF JobsInv
<1>10. \A x \in Desks : x # w /\ Sits(x, "book")
         => bookings'[desk[x].charter] = bookings[desk[x].charter]
  <2>1. \A x \in Desks : Sits(x, "book") => desk[x].charter # c
    BY <1>1, <1>2 DEF DeskInv, BooksAlone
  <2> QED BY <1>1, <1>2, <2>1, TaskKinds DEF DeskInv, Sits, Booking
<1>11. cancels \in SUBSET Nat /\ Len(jobs') >= Len(jobs)
  BY <1>1, <1>3, <1>5
<1>12. DeskInv'
  BY <1>1, <1>2, <1>5, <1>10, <1>11, SignalKeeps
<1> QED BY <1>9, <1>12 DEF DispatchInv

(* A signal to a workflow run changes neither jobs nor bookings. *)
LEMMA SignalStepKeeps ==
  ASSUME DispatchInv, NEW w \in Desks, NEW sent \in BOOLEAN, SignalDispatch(w, sent)
  PROVE  DispatchInv'
<1> DEFINE r == desk[w]
           rest == r.todo \ {Min(r.todo)}
<1>1. DeskInv /\ JobsInv /\ UNCHANGED <<jobs, bookings>>
  BY DEF DispatchInv, SignalDispatch
<1>2. r \in Signalling
  BY <1>1, TaskKinds DEF SignalDispatch, Sits, DeskInv
<1>3. r.name \in {"assigned", "accepted", "cancelled"} /\ rest \in SUBSET Nat
  BY <1>2 DEF Signalling
<1>4. Signals(w, r.name, rest)
  BY DEF SignalDispatch
<1> HIDE DEF rest
<1>5. JobsInv' /\ jobs \in Seq(Job) /\ jobs' \in Seq(Job) /\ Len(jobs') >= Len(jobs)
  BY <1>1, QuietJobs
<1>6. DeskInv'
  BY <1>1, <1>3, <1>4, <1>5, SignalKeeps
<1> QED BY <1>5, <1>6 DEF DispatchInv
-----------------------------------------------------------------------------
(* No job and no request exists at the start. *)
LEMMA InitHolds ==
  DispatchInit => DispatchInv
  BY DEF DispatchInit, DispatchInv, DeskInv, AtAJob, BooksAlone, Sits,
         JobsInv, JobsApart, CharterClosed

(* Every step of the desk, its disturbances included, keeps the invariant. *)
LEMMA StepKeeps ==
  DispatchInv /\ [DispatchStep]_dispatchVars => DispatchInv'
<1> SUFFICES ASSUME DispatchInv, [DispatchStep]_dispatchVars
             PROVE  DispatchInv'
  OBVIOUS
<1>1. CASE UNCHANGED dispatchVars
  BY <1>1, QuietStep DEF dispatchVars
<1>2. ASSUME NEW d \in Drivers,
             RegisterDriver(d) \/ \E st \in {"active", "off-duty", "suspended"} : SetDriverStatus(d, st)
      PROVE  DispatchInv'
  <2>1. UNCHANGED <<desk, jobs, bookings>>
    BY <1>2 DEF RegisterDriver, SetDriverStatus
  <2> QED BY <2>1, QuietStep
<1>3. ASSUME NEW w \in Desks, DeskProceeds(w)
      PROVE  DispatchInv'
  BY <1>3, ChecksKeep, InsertKeeps, StatusKeeps, SwapKeeps, BookKeeps, SignalStepKeeps
     DEF DeskProceeds
<1>4. ASSUME NEW j \in DOMAIN jobs, RunSteps(j)
      PROVE  DispatchInv'
  <2>1. CASE TakeAssignment(j) \/ CloseRun(j)
    <3>1. UNCHANGED <<desk, jobs, bookings>>
      BY <2>1 DEF TakeAssignment, CloseRun
    <3> QED BY <3>1, QuietStep
  <2>2. CASE RequeueDispatchJob(j)
    BY <2>2, StatusKeeps
  <2> QED BY <1>4, <2>1, <2>2 DEF RunSteps
<1>5. CASE DispatchNext
  <2>1. ASSUME NEW w \in Desks,
               \/ \E d \in Drivers, v \in Requested, win \in Windows : CheckHours(w, d, v, win)
               \/ \E d \in Drivers, j \in DOMAIN jobs : CheckDriver(w, d, j)
        PROVE  DispatchInv'
    BY <2>1, ChecksKeep
  <2>2. ASSUME NEW w \in Desks, NEW j \in DOMAIN jobs, CancelDispatchJob(w, j)
        PROVE  DispatchInv'
    BY <2>2, StatusKeeps
  <2> QED BY <1>2, <1>3, <1>4, <1>5, <2>1, <2>2, CheckCharterKeeps, CancelKeeps DEF DispatchNext
<1>6. CASE DispatchDisturbances
  <2>1. ASSUME NEW w \in Desks,
               DeskStops(w) \/ \E j \in DOMAIN jobs, v \in Vehicles : CheckSwap(w, j, v)
        PROVE  DispatchInv'
    BY <2>1, ChecksKeep
  <2>2. ASSUME NEW j \in DOMAIN jobs, RequeueFails(j)
        PROVE  DispatchInv'
    BY <2>2, StatusKeeps
  <2> QED BY <1>2, <1>6, <2>1, <2>2, SignalStepKeeps DEF DispatchDisturbances
<1> QED BY <1>1, <1>5, <1>6 DEF DispatchStep

(* The invariant holds in every behaviour of the desk. *)
LEMMA InvHolds ==
  DispatchSpec => []DispatchInv
<1>1. DispatchSpec => DispatchInit /\ [][DispatchStep]_dispatchVars
  BY DEF DispatchSpec, DispatchStep
<1> QED BY <1>1, InitHolds, StepKeeps, PTL

(* NoDoubleBooking for any number of drivers, vehicles and requests: the
   partial unique indexes keep every two active jobs on different drivers and
   vehicles, whatever ran between the overlap check of CreateDispatchJob,
   SwapDispatchVehicle or CreateCharter and its write. *)
THEOREM NobodyIsBookedTwice ==
  DispatchSpec => []NoDoubleBooking
<1>1. DispatchInv => NoDoubleBooking
  <2> SUFFICES ASSUME DispatchInv, NEW j \in ActiveJobs, NEW k \in ActiveJobs, j # k
               PROVE  /\ jobs[j].driver # jobs[k].driver
                      /\ jobs[j].vehicle = Null \/ jobs[j].vehicle # jobs[k].vehicle
    BY DEF NoDoubleBooking
  <2>1. jobs \in Seq(Job) /\ JobsApart
    BY DEF DispatchInv, JobsInv
  <2>2. j \in 1..Len(jobs) /\ k \in 1..Len(jobs) /\ ActiveRow(jobs[j]) /\ ActiveRow(jobs[k])
    BY <2>1 DEF ActiveJobs, ActiveJob, ActiveRow
  <2> QED BY <2>1, <2>2 DEF JobsApart, Apart
<1> QED BY <1>1, InvHolds, PTL

(* CancelledCharterIsFree for any number of charters: an active job of a
   charter stands behind a confirmed booking, so CancelCharter, which cancels
   both in one transaction, leaves none. *)
THEOREM CancelledCharterHoldsNothing ==
  DispatchSpec => []CancelledCharterIsFree
<1>1. DispatchInv => CancelledCharterIsFree
  <2> SUFFICES ASSUME DispatchInv, NEW c \in Charters, bookings[c] = "cancelled",
                      NEW j \in CharterJobs(c) \intersect ActiveJobs
               PROVE  FALSE
    BY DEF CancelledCharterIsFree
  <2>1. jobs \in Seq(Job) /\ CharterClosed
    BY DEF DispatchInv, JobsInv
  <2>2. j \in 1..Len(jobs) /\ ActiveRow(jobs[j]) /\ jobs[j].charter = c
    BY <2>1 DEF CharterJobs, ActiveJobs, ActiveJob, ActiveRow
  <2>3. bookings[c] = "confirmed"
    BY <2>1, <2>2 DEF CharterClosed
  <2> QED BY <2>3
<1> QED BY <1>1, InvHolds, PTL
=============================================================================
