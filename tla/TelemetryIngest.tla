--------------------------- MODULE TelemetryIngest --------------------------
(***************************************************************************)
(* telemetry-ingest (pipeline.rs, store.rs, toggles.rs): one partition of  *)
(* telemetry.raw is read in batches, each batch is inserted into           *)
(* TimescaleDB, republished and then committed; a batch that cannot be     *)
(* inserted goes to the dead-letter topic.  The telematics toggle pauses   *)
(* the subscription.  A record is its offset; inserting it again changes   *)
(* nothing (ON CONFLICT DO NOTHING).                                       *)
(*                                                                         *)
(* The tables, the topics and the committed offset outlive the process.    *)
(***************************************************************************)
EXTENDS Integers, FiniteSets, FiniteSetsExt

CONSTANTS
  LastOffset,   \* the partition holds the offsets 1..LastOffset
  Poison,       \* records that parse_and_validate refuses
  Empty,        \* records without a payload
  BatchSize,    \* cfg.batch_size
  MaxAttempts,  \* MAX_FLUSH_ATTEMPTS, 10
  MaxFlips,     \* bound on changes of the gate
  MaxRestarts   \* bound on deaths of the process and rebalances

Offsets == 1..LastOffset

ASSUME IngestAssumption ==
  /\ LastOffset \in Nat /\ BatchSize \in Nat \ {0} /\ MaxAttempts \in Nat \ {0}
  /\ MaxFlips \in Nat /\ MaxRestarts \in Nat
  /\ Poison \subseteq Offsets /\ Empty \subseteq Offsets

VARIABLES
  gate,         \* ToggleGate.enabled
  flips,
  paused,       \* the flag of the loop
  assigned,     \* the group coordinator has assigned the partition
  held,         \* the client holds the partition back (consumer.pause)
  position,     \* the offset recv returns next
  batch,        \* the offsets of the buffered records
  pc,           \* where the loop and flush stand
  attempt,      \* insert attempts of this flush
  stored,       \* the rows of fleet.telemetry
  dlq,          \* the records of telemetry.raw.dlq
  givenUp,      \* dead letters whose publication failed (only logged)
  discarded,    \* what recv returned while the loop was paused
  committed,    \* the committed offset of the group
  restarts,     \* deaths of the process
  rebalances

vars == <<gate, flips, paused, assigned, held, position, batch, pc, attempt,
          stored, dlq, givenUp, discarded, committed, restarts, rebalances>>
clientVars == <<paused, assigned, held>>
durable == <<stored, dlq, givenUp, discarded>>
bounds == <<flips, restarts, rebalances>>

TypeOK ==
  /\ gate \in BOOLEAN /\ flips \in 0..MaxFlips
  /\ paused \in BOOLEAN /\ assigned \in BOOLEAN /\ held \in BOOLEAN
  /\ position \in 1..(LastOffset + 1) /\ committed \in 1..(LastOffset + 1)
  /\ batch \subseteq Offsets \ Poison /\ Cardinality(batch) <= BatchSize
  /\ pc \in {"poll", "insert", "deadletter", "commit"}
  /\ attempt \in 0..MaxAttempts
  /\ stored \subseteq Offsets \ Poison
  /\ dlq \subseteq Offsets \ Poison
  /\ givenUp \subseteq Offsets \ Poison
  /\ discarded \subseteq Offsets
  /\ restarts \in 0..MaxRestarts /\ rebalances \in 0..MaxRestarts

(* A new process fails closed: its gate is shut until the first poll. *)
Init ==
  /\ gate = FALSE /\ paused = FALSE /\ assigned = FALSE /\ held = FALSE
  /\ position = 1 /\ batch = {} /\ pc = "poll" /\ attempt = 0
  /\ stored = {} /\ dlq = {} /\ givenUp = {} /\ discarded = {} /\ committed = 1
  /\ flips = 0 /\ restarts = 0 /\ rebalances = 0
-----------------------------------------------------------------------------
(* run_poller: the toggle changes, or toggle-service fails and the gate shuts. *)
PollToggle ==
  /\ flips < MaxFlips
  /\ flips' = flips + 1
  /\ gate' = ~gate
  /\ UNCHANGED <<clientVars, position, batch, pc, attempt, durable, committed, restarts, rebalances>>

(* The loop is in recv, past its check of the gate. *)
Polling == pc = "poll" /\ paused = ~gate

(* External: while recv waits, the group assigns the partition, which is
   fetched from the committed offset and is not held back. *)
Assign ==
  /\ Polling /\ ~assigned
  /\ assigned' = TRUE
  /\ position' = committed
  /\ UNCHANGED <<gate, paused, held, batch, pc, attempt, durable, committed, bounds>>

(* External: a rebalance takes the partition away; it is assigned anew. *)
Rebalance ==
  /\ Polling /\ assigned /\ rebalances < MaxRestarts
  /\ rebalances' = rebalances + 1
  /\ assigned' = FALSE /\ held' = FALSE
  /\ UNCHANGED <<gate, flips, paused, position, batch, pc, attempt, durable, committed, restarts>>

(* The head of the loop with the gate shut: what is assigned now is held back. *)
Pause ==
  /\ pc = "poll" /\ ~gate /\ ~paused
  /\ paused' = TRUE
  /\ held' = assigned
  /\ UNCHANGED <<gate, assigned, position, batch, pc, attempt, durable, committed, bounds>>

(* recv while paused, "so group membership is maintained": what it returns is
   thrown away. *)
RecvWhilePaused ==
  /\ pc = "poll" /\ ~gate /\ paused
  /\ assigned /\ ~held /\ position <= LastOffset
  /\ position' = position + 1
  /\ discarded' = discarded \union {position}
  /\ UNCHANGED <<gate, clientVars, batch, pc, attempt, stored, dlq, givenUp, committed, bounds>>

Resume ==
  /\ pc = "poll" /\ gate /\ paused
  /\ paused' = FALSE
  /\ held' = FALSE
  /\ UNCHANGED <<gate, assigned, position, batch, pc, attempt, durable, committed, bounds>>

(* An asynchronous commit may also fail or die with the process. *)
Commit(o) == committed' \in {o, committed}

(* parse_and_validate on a record with a payload. *)
AcceptsAnything(o) == TRUE
Accepts(o) == o \notin Poison

(* One record: an empty one is skipped, a poison record is committed at once,
   any other joins the batch. *)
Recv ==
  /\ pc = "poll" /\ gate /\ ~paused
  /\ assigned /\ ~held /\ position <= LastOffset
  /\ Cardinality(batch) < BatchSize
  /\ position' = position + 1
  /\ \/ position \in Empty /\ UNCHANGED <<batch, committed>>
     \/ position \notin Empty /\ ~Accepts(position) /\ Commit(position + 1) /\ UNCHANGED batch
     \/ position \notin Empty /\ Accepts(position) /\ batch' = batch \union {position} /\ UNCHANGED committed
  /\ UNCHANGED <<gate, clientVars, pc, attempt, durable, bounds>>

(* The offset commit_batch_offsets asks for. *)
AfterBatch == Max(batch) + 1

(* The mistake of committing a batch before it is inserted. *)
FlushCommitsFirst ==
  /\ pc = "poll" /\ gate /\ ~paused /\ batch # {}
  /\ pc' = "insert"
  /\ attempt' = 1
  /\ Commit(AfterBatch)
  /\ UNCHANGED <<gate, clientVars, position, batch, durable, bounds>>

(* flush: the batch is full, its window is over, or the process shuts down. *)
Flush ==
  /\ pc = "poll" /\ gate /\ ~paused /\ batch # {}
  /\ pc' = "insert"
  /\ attempt' = 1
  /\ UNCHANGED <<gate, clientVars, position, batch, durable, committed, bounds>>

(* The insert succeeds; the republication after it changes nothing here. *)
Insert ==
  /\ pc = "insert"
  /\ stored' = stored \union batch
  /\ pc' = "commit"
  /\ UNCHANGED <<gate, clientVars, position, batch, attempt, dlq, givenUp, discarded, committed, bounds>>

(* Whether a failed attempt is the last one. *)
GivesUp == attempt >= MaxAttempts

(* The mistake of counting the attempts anew after a failure. *)
InsertFailsForever ==
  /\ pc = "insert"
  /\ stored' \in {stored, stored \union batch}
  /\ attempt' = IF GivesUp THEN 1 ELSE attempt + 1
  /\ UNCHANGED <<gate, clientVars, position, batch, pc, dlq, givenUp, discarded, committed, bounds>>

(* The insert reports an error; the statement may have been executed. *)
InsertFails ==
  /\ pc = "insert"
  /\ stored' \in {stored, stored \union batch}
  /\ IF GivesUp THEN pc' = "deadletter" /\ attempt' = attempt
                ELSE pc' = pc /\ attempt' = attempt + 1
  /\ UNCHANGED <<gate, clientVars, position, batch, dlq, givenUp, discarded, committed, bounds>>

(* dead_letter: the publication of any record may fail. *)
DeadLetter ==
  /\ pc = "deadletter"
  /\ \E S \in SUBSET batch : dlq' = dlq \union S /\ givenUp' = givenUp \union (batch \ S)
  /\ pc' = "commit"
  /\ UNCHANGED <<gate, clientVars, position, batch, attempt, stored, discarded, committed, bounds>>

CommitBatch ==
  /\ pc = "commit"
  /\ Commit(AfterBatch)
  /\ batch' = {} /\ attempt' = 0
  /\ pc' = "poll"
  /\ UNCHANGED <<gate, clientVars, position, durable, bounds>>

Restart ==
  /\ restarts < MaxRestarts
  /\ restarts' = restarts + 1
  /\ gate' = FALSE /\ paused' = FALSE /\ assigned' = FALSE /\ held' = FALSE
  /\ position' = committed /\ batch' = {} /\ pc' = "poll" /\ attempt' = 0
  /\ UNCHANGED <<durable, committed, flips, rebalances>>
-----------------------------------------------------------------------------
Next ==
  \/ PollToggle \/ Assign \/ Rebalance
  \/ Pause \/ RecvWhilePaused \/ Resume \/ Recv
  \/ Flush \/ Insert \/ InsertFails \/ DeadLetter \/ CommitBatch
  \/ Restart

Spec == Init /\ [][Next]_vars

(* The loop keeps running and the group assigns the partition in the end.
   Nothing makes the database answer: Insert and InsertFails are one step. *)
FairSpec ==
  /\ Spec
  /\ WF_vars(Assign) /\ WF_vars(Pause) /\ WF_vars(Resume) /\ WF_vars(Recv)
  /\ WF_vars(Flush) /\ WF_vars(Insert \/ InsertFails)
  /\ WF_vars(DeadLetter) /\ WF_vars(CommitBatch)
-----------------------------------------------------------------------------
Good == Offsets \ (Poison \union Empty)

(* Every record behind the read position is in the table, in the dead-letter
   topic (or its publication failed), in the batch, or was thrown away by a
   disabled loop: rebalances, failed commits and failed inserts at any point
   lose nothing, and neither does the death of the process as long as no
   poison record has been committed. *)
ReadIsAccountedFor ==
  restarts = 0 \/ (\A o \in 1..(committed - 1) : o \notin Poison)
    => \A o \in Good : o < position => o \in stored \union dlq \union givenUp \union batch \union discarded

(* "The pipeline never wedges": once the gate stays open the whole partition
   is read and no batch is left, with poison records and with a database that
   refuses every insert. *)
NeverWedges == <>[]gate => <>[](position = LastOffset + 1 /\ batch = {})
=============================================================================
