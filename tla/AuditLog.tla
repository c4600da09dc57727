------------------------------ MODULE AuditLog ------------------------------
(***************************************************************************)
(* The audit log's hash chain (audit-log store and handlers, and the       *)
(* auditclient every service emits with).  A digest is modelled by the     *)
(* text it is computed over.  The service stamps an entry in nanoseconds;  *)
(* the timestamptz column keeps microseconds.                              *)
(***************************************************************************)
EXTENDS Integers, Sequences

CONSTANTS
  Actors,         \* callers whose changes are audited
  Texts,          \* JSON texts a request body may be
  Normal,         \* jsonb::text of every one of them
  Writers,        \* concurrent Ingest requests
  Precision,      \* clock ticks that one stored timestamp stands for
  MaxTime,        \* bound on the clock
  MaxEntries,     \* bound on the entries appended
  NotWriting

ASSUME AuditAssumption ==
  /\ Normal \in [Texts -> Texts] /\ \A t \in Texts : Normal[Normal[t]] = Normal[t]
  /\ Precision \in Nat \ {0}
  /\ MaxTime \in Nat /\ MaxEntries \in Nat

VARIABLES
  clock,
  log,      \* platform.audit_log, by id
  writer    \* the request every writer serves

auditVars == <<clock, log, writer>>

AuditInit ==
  /\ clock = 0
  /\ log = <<>>
  /\ writer = [w \in Writers |-> NotWriting]

Serves(w, pc) == writer[w] # NotWriting /\ writer[w].pc = pc
Becomes(w, task) == writer' = [writer EXCEPT ![w] = task]

NoHash == <<>>
ChainHash(prev, actor, after, ts) == <<actor, after, ts, prev>>
Head0(entries) == IF entries = <<>> THEN NoHash ELSE entries[Len(entries)].hash

(* What the ts column returns of a timestamp *)
Stored(ts) == ts - (ts % Precision)
-----------------------------------------------------------------------------
(* Middleware and Emit, once a handler answered below 400: Ingest decodes the
   entry and Append stamps it before it begins a transaction. *)
Ingest(w, a, after) ==
  /\ writer[w] = NotWriting
  /\ Becomes(w, [pc |-> "head", actor |-> a, after |-> after, ts |-> clock, prev |-> NoHash])
  /\ UNCHANGED <<clock, log>>

(* Append: pg_advisory_xact_lock, which the commit or a rollback frees *)
ChainLocked == \E w \in Writers : Serves(w, "insert")

ReadHead(w) ==
  /\ Serves(w, "head")
  /\ ~ChainLocked
  /\ Becomes(w, [writer[w] EXCEPT !.pc = "insert", !.prev = Head0(log)])
  /\ UNCHANGED <<clock, log>>

AsSent(after) == after

(* SELECT $1::jsonb::text *)
Normalized(after) == Normal[after]

InsertEntry(w) ==
  /\ Serves(w, "insert")
  /\ Len(log) < MaxEntries
  /\ LET e == writer[w]
     IN  log' = Append(log,
           [actor |-> e.actor, after |-> Normal[e.after], ts |-> Stored(e.ts), prev |-> e.prev,
            hash |-> ChainHash(e.prev, e.actor, Normalized(e.after), e.ts)])
  /\ Becomes(w, NotWriting)
  /\ UNCHANGED clock

(* A statement fails, the emitter's 1.5 s run out, or the service dies. *)
AppendFails(w) ==
  /\ writer[w] # NotWriting
  /\ Becomes(w, NotWriting)
  /\ UNCHANGED <<clock, log>>

ClockTicks ==
  /\ clock < MaxTime
  /\ clock' = clock + 1
  /\ UNCHANGED <<log, writer>>

AuditNext ==
  \/ \E w \in Writers :
       \/ \E a \in Actors, t \in Texts : Ingest(w, a, t)
       \/ ReadHead(w) \/ InsertEntry(w) \/ AppendFails(w)
  \/ ClockTicks

(* The audit service on its own. *)
AuditSpec == AuditInit /\ [][AuditNext]_auditVars
-----------------------------------------------------------------------------
(* Verify: the first id whose link or whose recomputed hash is wrong, or 0 *)
Sound(entries, k) ==
  LET e == entries[k]
  IN  /\ e.prev = Head0(SubSeq(entries, 1, k - 1))
      /\ ChainHash(e.prev, e.actor, e.after, e.ts) = e.hash

Verify(entries) ==
  LET broken == {k \in DOMAIN entries : ~Sound(entries, k)}
  IN  IF broken = {} THEN 0 ELSE CHOOSE k \in broken : \A j \in broken : k <= j

(* The log is one chain: every entry links to the one before it, whatever
   appends ran at once or rolled back, and its hash covers the row as the
   database returns it, up to the fraction of the timestamp the column drops
   (Append). *)
ChainIsLinked ==
  \A k \in DOMAIN log :
    /\ log[k].prev = Head0(SubSeq(log, 1, k - 1))
    /\ \E t \in log[k].ts .. log[k].ts + Precision - 1 :
         log[k].hash = ChainHash(log[k].prev, log[k].actor, log[k].after, t)

(* Verification accepts a log that only Append wrote (store.go: "the hash is
   computed over the exact text the verifier will read back"). *)
HonestLogVerifies == Verify(log) = 0
=============================================================================
