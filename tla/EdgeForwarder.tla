--------------------------- MODULE EdgeForwarder ----------------------------
(***************************************************************************)
(* The on-bus edge agent fluvio-edge: source.rs reads the local Fluvio     *)
(* topic into a bounded channel, forwarder.rs batches it to Kafka and      *)
(* appends what Kafka does not confirm to the spool of spool.rs, which is  *)
(* replayed in order once Kafka answers again.  A record is its offset.    *)
(* Kafka is the sequence of distinct records in the order of their first   *)
(* write; a repeated write changes nothing that is said here.  The producer*)
(* is neither idempotent nor limited to one request at a time, so retries  *)
(* may write the records of one batch in any order, and a record given up  *)
(* after message.timeout.ms may still arrive.                              *)
(*                                                                         *)
(* On disk: the frames of spool.data and the number in offset.state.       *)
(* Everything else is lost when the agent dies.                            *)
(***************************************************************************)
EXTENDS Integers, FiniteSets, Sequences, SequencesExt

CONSTANTS
  FirstOffset, LastOffset,  \* the records of the topic
  BatchMax,                 \* cfg.batch_max
  ChannelMax,               \* the capacity of the channel, 4 * batch_max
  HintEvery,                \* the source persists every such offset: 64 in the code
  CompactMin,               \* least acknowledged prefix worth compacting (512)
  Partial,                  \* whether Kafka may confirm a part of a batch: the cases
  MaxDiskFaults,            \* bound on failing writes to the spool directory
  MaxRestarts               \* bound on deaths and reconnects of a behaviour

Offsets == FirstOffset..LastOffset
Torn == -1                  \* a frame whose write failed half way
NoHint == -1

ASSUME EdgeAssumption ==
  /\ FirstOffset \in Nat /\ LastOffset \in Nat
  /\ BatchMax \in Nat \ {0} /\ ChannelMax \in Nat \ {0}
  /\ HintEvery \in Nat \ {0} /\ CompactMin \in Nat /\ MaxRestarts \in Nat
  /\ Partial \subseteq BOOLEAN /\ MaxDiskFaults \in Nat

VARIABLES
  partial,   \* whether Kafka confirms parts of batches in this behaviour
  broken,    \* how many writes to the spool directory have failed
  next,      \* the offset the Fluvio stream yields next
  hint,      \* the offset the source is about to persist, or NoHint
  channel,   \* source to forwarder
  batch,     \* the batch being filled
  pc,        \* where flush or drain_spool stands
  failed,    \* the records of a flush that Kafka did not confirm
  taken,     \* the offsets of a flush; max_offset is the last of them
  acks,      \* what drain_spool is to acknowledge
  queue,     \* the in-memory queue of the spool
  acked,     \* acked_pending_compact
  file,      \* spool.data
  linked,    \* whether the spool's writer is on spool.data
  offset,    \* offset.state, the first offset when there is none
  kafka,     \* the records written to telemetry.raw
  inflight,  \* sent, neither confirmed nor written: they may still arrive
  backoff,   \* ~kafka_ok, and last_kafka_ok_unix less than 5 s ago
  restarts,
  hinted,    \* the highest resume hint ever persisted (history)
  flushed    \* the records of flushes whose append succeeded (history)

sourceVars == <<next, hint>>
flushVars == <<batch, failed, taken, flushed>>
spoolVars == <<queue, acked, file, linked>>
kafkaVars == <<kafka, inflight, backoff>>
vars == <<partial, broken, sourceVars, channel, pc, flushVars, acks, spoolVars, offset, kafkaVars,
          restarts, hinted>>

TypeOK ==
  /\ partial \in Partial /\ broken \in 0..MaxDiskFaults
  /\ next \in FirstOffset..(LastOffset + 1) /\ hint \in Offsets \union {NoHint}
  /\ channel \in Seq(Offsets) /\ batch \in Seq(Offsets)
  /\ pc \in {"idle", "append", "checkpoint", "ack"}
  /\ failed \in Seq(Offsets) /\ taken \subseteq Offsets /\ acks \in Nat
  /\ queue \in Seq(Offsets) /\ acked \in Nat /\ file \in Seq(Offsets \union {Torn})
  /\ linked \in BOOLEAN
  /\ offset \in FirstOffset..(LastOffset + 1)
  /\ kafka \in Seq(Offsets) /\ inflight \subseteq Offsets
  /\ hinted \in FirstOffset..(LastOffset + 1) /\ flushed \subseteq Offsets
  /\ backoff \in BOOLEAN /\ restarts \in 0..MaxRestarts
  /\ Len(channel) <= ChannelMax /\ Len(batch) <= BatchMax

Init ==
  /\ partial \in Partial /\ broken = 0
  /\ next = FirstOffset /\ offset = FirstOffset /\ hint = NoHint
  /\ channel = <<>> /\ batch = <<>> /\ failed = <<>> /\ queue = <<>> /\ file = <<>>
  /\ pc = "idle" /\ taken = {} /\ acks = 0 /\ acked = 0 /\ kafka = <<>>
  /\ inflight = {} /\ linked = TRUE
  /\ backoff = FALSE /\ restarts = 0
  /\ hinted = FirstOffset /\ flushed = {}

(* A write to the spool directory fails. *)
DiskFault == broken < MaxDiskFaults /\ broken' = broken + 1
-----------------------------------------------------------------------------
(* source.rs *)

(* The bounded channel blocks the source when it is full. *)
RoomForOneMore == Len(channel) <= ChannelMax
ChannelHasRoom == Len(channel) < ChannelMax

(* One turn of the consume loop: the record goes into the channel, and every
   64th offset is then persisted as a resume hint. *)
Consume ==
  /\ hint = NoHint
  /\ next <= LastOffset
  /\ ChannelHasRoom
  /\ channel' = Append(channel, next)
  /\ hint' = IF next % HintEvery = 0 THEN next ELSE NoHint
  /\ next' = next + 1
  /\ UNCHANGED <<partial, broken, pc, flushVars, acks, spoolVars, offset, kafkaVars, restarts, hinted>>

(* store_offset of the hint, whose failure is only logged. *)
StoreHint ==
  /\ hint # NoHint
  /\ \/ /\ offset' = hint + 1 /\ broken' = broken
        /\ hinted' = IF hint + 1 > hinted THEN hint + 1 ELSE hinted
     \/ DiskFault /\ UNCHANGED <<offset, hinted>>
  /\ hint' = NoHint
  /\ UNCHANGED <<partial, next, channel, pc, flushVars, acks, spoolVars, kafkaVars, restarts>>

(* The stream ends or fails; consume starts over at the persisted offset. *)
Reconnect ==
  /\ hint = NoHint
  /\ restarts < MaxRestarts
  /\ restarts' = restarts + 1
  /\ next' = offset
  /\ UNCHANGED <<partial, broken, hint, channel, pc, flushVars, acks, spoolVars, offset, kafkaVars, hinted>>
-----------------------------------------------------------------------------
(* forwarder.rs *)

Receive ==
  /\ pc = "idle" /\ channel # <<>> /\ Len(batch) < BatchMax
  /\ batch' = Append(batch, Head(channel))
  /\ channel' = Tail(channel)
  /\ UNCHANGED <<partial, broken, sourceVars, pc, failed, taken, flushed, acks, spoolVars, offset, kafkaVars,
                 restarts, hinted>>

(* The places of s that produce_batch may come to see confirmed: all, none in
   an outage, any when Kafka fails in part. *)
Outcomes(s) == IF partial THEN SUBSET (1..Len(s)) ELSE {{}, 1..Len(s)}

(* The elements of s at the places S. *)
Pick(s, S) == LET idx == SetToSortSeq(S, <) IN [i \in 1..Len(idx) |-> s[idx[i]]]

(* produce_batch of s with the places C confirmed: those are in the topic, in
   the order the retries left them in; the others may be on their way. *)
Produce(s, C) ==
  LET confirmed == {s[i] : i \in C}
      new == confirmed \ ToSet(kafka)
  IN  /\ \E order \in SetToSeqs(new) : kafka' = kafka \o order
      /\ inflight' = (inflight \union ToSet(s)) \ ToSet(kafka')

(* A record that was sent and not confirmed reaches the topic after all. *)
LateWrite ==
  /\ \E o \in inflight : kafka' = Append(kafka, o) /\ inflight' = inflight \ {o}
  /\ UNCHANGED <<partial, broken, sourceVars, channel, pc, flushVars, acks, spoolVars, offset, backoff,
                 restarts, hinted>>

(* kafka_ok and last_kafka_ok_unix after an attempt: a failure is followed by a
   pause when the last success is recent. *)
Note(success) == IF success THEN backoff' = FALSE ELSE backoff' \in BOOLEAN

(* While older records wait in the spool nothing fresh is produced. *)
AlwaysAttempted == TRUE
Attempted == queue = <<>>

(* flush, when the batch is full or its linger is over. *)
FlushProduce ==
  /\ pc = "idle" /\ batch # <<>>
  /\ taken' = ToSet(batch)
  /\ batch' = <<>>
  /\ pc' = "append"
  /\ IF Attempted
     THEN \E C \in Outcomes(batch) :
            /\ Produce(batch, C)
            /\ failed' = Pick(batch, (1..Len(batch)) \ C)
            /\ Note(failed' = <<>>)
     ELSE /\ failed' = batch
          /\ UNCHANGED kafkaVars
  /\ UNCHANGED <<partial, broken, sourceVars, channel, flushed, acks, spoolVars, offset, restarts, hinted>>

(* Spool::append of the unconfirmed records: written, synced, enqueued.  A
   writer left on an unlinked file writes where no restart looks. *)
FlushAppend ==
  /\ pc = "append"
  /\ file' = IF linked THEN file \o failed ELSE file
  /\ queue' = queue \o failed
  /\ failed' = <<>>
  /\ flushed' = flushed \union taken
  /\ pc' = "checkpoint"
  /\ UNCHANGED <<partial, broken, sourceVars, channel, batch, taken, acks, acked, linked, offset, kafkaVars,
                 restarts, hinted>>

(* The append fails after some frames; the error is only logged. *)
FlushAppendFails ==
  /\ DiskFault
  /\ pc = "append" /\ failed # <<>>
  /\ \E n \in 0..Len(failed), torn \in {<<>>, <<Torn>>} :
       /\ n = Len(failed) => torn = <<>>
       /\ file' = IF linked THEN file \o SubSeq(failed, 1, n) \o torn ELSE file
  /\ failed' = <<>>
  /\ pc' = "checkpoint"
  /\ UNCHANGED <<partial, sourceVars, channel, batch, taken, flushed, acks, queue, acked, linked, offset,
                 kafkaVars, restarts, hinted>>

(* store_offset, whose failure is only logged as well. *)
FlushCheckpoint ==
  /\ pc = "checkpoint"
  /\ \/ offset' = Max(taken) + 1 /\ broken' = broken
     \/ DiskFault /\ offset' = offset
  /\ taken' = {}
  /\ pc' = "idle"
  /\ UNCHANGED <<partial, sourceVars, channel, batch, failed, flushed, acks, spoolVars, kafkaVars, restarts,
                 hinted>>

Chunk == SubSeq(queue, 1, IF Len(queue) <= BatchMax THEN Len(queue) ELSE BatchMax)

(* How many records of the chunk drain_spool takes off the spool. *)
WholeChunk(C) == Len(Chunk)
Acknowledged(C) == Cardinality(C)

(* drain_spool on its tick.  It keeps away for 5 s after a failure. *)
DrainProduce ==
  /\ pc = "idle" /\ Len(batch) < BatchMax
  /\ queue # <<>>
  /\ ~backoff
  /\ \E C \in Outcomes(Chunk) :
       /\ Produce(Chunk, C)
       /\ acks' = Acknowledged(C)
       /\ Note(C = 1..Len(Chunk))
  /\ pc' = "ack"
  /\ UNCHANGED <<partial, broken, sourceVars, channel, flushVars, spoolVars, offset, restarts, hinted>>

(* Spool::ack of the first records of the queue, as many as were confirmed;
   the file is compacted when the queue is empty or its acknowledged part is
   large. *)
Compacts(rest, n) ==
  n > 0 /\ (rest = <<>> \/ n >= (IF Len(rest) >= CompactMin THEN Len(rest) ELSE CompactMin))

(* Spool::compact rewrites the file with rest and reopens it.  It fails before
   the rename and leaves the file, or behind it: the file is replaced, the
   count is not reset, and the writer may have stayed on the old file. *)
compact(rest, n) ==
  \/ /\ file' = rest /\ acked' = 0 /\ linked' = TRUE
     /\ broken' = broken
  \/ /\ DiskFault /\ acked' = n
     /\ \/ file' = file /\ linked' = linked
        \/ file' = rest /\ linked' \in BOOLEAN

DrainAck ==
  LET rest == SubSeq(queue, acks + 1, Len(queue))
      n    == acked + acks
  IN  /\ pc = "ack"
      /\ queue' = rest
      /\ IF acks > 0 /\ Compacts(rest, n)
         THEN compact(rest, n)
         ELSE acked' = n /\ UNCHANGED <<broken, file, linked>>
      /\ acks' = 0
      /\ pc' = "idle"
      /\ UNCHANGED <<partial, sourceVars, channel, flushVars, offset, kafkaVars, restarts, hinted>>

(* The 5 s are over, with or without a successful flush in between. *)
FlushEndsBackoff ==
  /\ backoff /\ queue = <<>>
  /\ backoff' = FALSE
  /\ UNCHANGED <<partial, broken, sourceVars, channel, pc, flushVars, acks, spoolVars, offset, kafka, inflight,
                 restarts, hinted>>

BackoffEnds ==
  /\ backoff
  /\ backoff' = FALSE
  /\ UNCHANGED <<partial, broken, sourceVars, channel, pc, flushVars, acks, spoolVars, offset, kafka, inflight,
                 restarts, hinted>>

(* Spool::open replays the frames up to the first bad one and cuts the rest. *)
Replayed(f) ==
  IF Torn \in ToSet(f) THEN SubSeq(f, 1, SelectInSeq(f, LAMBDA x : x = Torn) - 1) ELSE f

(* The agent dies, an append possibly half written, and starts again. *)
Restart ==
  /\ restarts < MaxRestarts
  /\ restarts' = restarts + 1
  /\ next' = offset /\ hint' = NoHint
  /\ channel' = <<>> /\ batch' = <<>> /\ failed' = <<>>
  /\ pc' = "idle" /\ taken' = {} /\ acks' = 0 /\ acked' = 0
  /\ \E n \in 0..Len(failed) :
       file' = Replayed(IF linked THEN file \o SubSeq(failed, 1, n) ELSE file)
  /\ queue' = file'
  /\ linked' = TRUE
  /\ backoff' = FALSE
  /\ UNCHANGED <<partial, broken, offset, kafka, inflight, hinted, flushed>>
-----------------------------------------------------------------------------
Next ==
  \/ Consume \/ StoreHint \/ Reconnect \/ Receive
  \/ FlushProduce \/ FlushAppend \/ FlushAppendFails \/ FlushCheckpoint
  \/ DrainProduce \/ DrainAck \/ BackoffEnds \/ LateWrite \/ Restart

Spec == Init /\ [][Next]_vars

(* The two tokio tasks keep running, the linger and drain timers keep firing,
   and the uplink is not down at every single attempt. *)
FairSpec ==
  /\ Spec
  /\ WF_vars(Consume) /\ WF_vars(StoreHint) /\ WF_vars(Receive)
  /\ WF_vars(FlushProduce) /\ WF_vars(FlushAppend) /\ WF_vars(FlushCheckpoint)
  /\ WF_vars(DrainAck) /\ WF_vars(BackoffEnds)
  /\ SF_vars(DrainProduce /\ ToSet(Chunk) \subseteq ToSet(kafka') /\ acks' = Len(Chunk))
-----------------------------------------------------------------------------
(* The agent keeps a record that it holds or is yet to read, and one that a
   restart would find in the spool or read again. *)
Kept(o) ==
  \/ o \in ToSet(Replayed(file))
  \/ o >= offset \/ o >= next
  \/ o \in ToSet(channel) \union ToSet(batch) \union ToSet(failed) \union ToSet(queue)

(* A resume hint has passed the record, and no flush has finished with it. *)
AtRisk(o) == o < hinted /\ o \notin flushed

(* The promise of spool.rs, which resume hints break: outages of the whole
   uplink, reconnects and deaths of the agent lose nothing. *)
NoRecordLost ==
  ~partial /\ broken = 0 => \A o \in Offsets : o \in ToSet(kafka) \/ Kept(o)

(* Outages of the whole uplink, reconnects and deaths of the agent at any
   point lose a record in one way only: the source has persisted a resume hint
   past it while it was in the channel, in the batch or in an unfinished
   flush.  A record no hint has passed, and a record whose flush has appended
   to the spool what Kafka did not confirm, is kept until Kafka has it, as
   long as Kafka confirms all or nothing of a batch and no write to the disk
   has failed (consume, flush, drain_spool, Spool::open). *)
OnlyHintsLose ==
  ~partial /\ broken = 0 => \A o \in Offsets : o \in ToSet(kafka) \/ Kept(o) \/ AtRisk(o)

(* Under the same conditions a record reaches Kafka behind every record that
   is a batch or more older, unless that one was lost at risk: nothing fresh
   overtakes the spool, and only records that were sent together may change
   places (flush skips the attempt while the spool holds records). *)
ForwardedInOrder ==
  ~partial /\ broken = 0 =>
    \A i \in DOMAIN kafka, o \in Offsets :
      o + BatchMax <= kafka[i] =>
        o \in ToSet(SubSeq(kafka, 1, i)) \/ (AtRisk(o) /\ ~Kept(o))

(* Whatever fails, a spool with records in it is empty again some time later. *)
SpoolDrains == queue # <<>> ~> queue = <<>>
=============================================================================
