--------------------------- MODULE AuditLogProofs ---------------------------
(***************************************************************************)
(* The audit log is one chain, for any number of writers and entries, any  *)
(* precision of the column and any jsonb normalisation.                    *)
(***************************************************************************)
EXTENDS AuditLog, TLAPS

Rows(s) == {s[i] : i \in DOMAIN s}

LogIsSequence == log \in Seq(Rows(log))

(* A writer that has to read the head, and one that has read it. *)
Task(pc, prev) == [pc : {pc}, actor : Actors, after : Texts, ts : Nat, prev : {prev}]

(* A writer past its SELECT holds the chain lock alone, and the head it read is
   still the head. *)
WritersHoldTheHead ==
  /\ clock \in Nat
  /\ DOMAIN writer = Writers
  /\ \A w \in Writers : writer[w] # NotWriting =>
       writer[w] \in Task("head", NoHash) \union Task("insert", Head0(log))
  /\ \A v, w \in Writers : Serves(v, "insert") /\ Serves(w, "insert") => v = w

AuditInv == LogIsSequence /\ WritersHoldTheHead /\ ChainIsLinked
-----------------------------------------------------------------------------
(* The hash in front of entry k is the one of entry k - 1. *)
LEMMA HeadBefore ==
  ASSUME NEW S, NEW s \in Seq(S), NEW k \in 1..Len(s)
  PROVE  Head0(SubSeq(s, 1, k - 1)) = IF k = 1 THEN NoHash ELSE s[k - 1].hash
<1>1. CASE k = 1
  BY <1>1 DEF Head0
<1>2. CASE k # 1
  <2>1. /\ Len(SubSeq(s, 1, k - 1)) = k - 1
        /\ SubSeq(s, 1, k - 1)[k - 1] = s[k - 1]
        /\ SubSeq(s, 1, k - 1) # <<>>
    BY <1>2
  <2> QED BY <2>1, <1>2 DEF Head0
<1> QED BY <1>1, <1>2

(* A timestamp is within the precision of what the column keeps of it. *)
LEMMA StoredIsClose ==
  ASSUME NEW ts \in Nat
  PROVE  Stored(ts) \in Int /\ ts \in Stored(ts) .. Stored(ts) + Precision - 1
  BY AuditAssumption DEF Stored

(* Reading the head turns the one kind of task into the other. *)
LEMMA TaskWithHead ==
  ASSUME NEW h, NEW e \in Task("head", NoHash)
  PROVE  [e EXCEPT !.pc = "insert", !.prev = h] \in Task("insert", h)
  BY DEF Task

(* The links of a log, without the prefixes. *)
Linked(s) ==
  \A k \in 1..Len(s) :
    /\ s[k].prev = IF k = 1 THEN NoHash ELSE s[k - 1].hash
    /\ \E t \in s[k].ts .. s[k].ts + Precision - 1 :
         s[k].hash = ChainHash(s[k].prev, s[k].actor, s[k].after, t)

(* ChainIsLinked, restated for a sequence of rows. *)
LEMMA LinkedIsChain == LogIsSequence => (ChainIsLinked <=> Linked(log))
<1> SUFFICES ASSUME LogIsSequence PROVE ChainIsLinked <=> Linked(log)
  OBVIOUS
<1>1. DOMAIN log = 1..Len(log)
  BY DEF LogIsSequence
<1>2. \A k \in 1..Len(log) :
        Head0(SubSeq(log, 1, k - 1)) = IF k = 1 THEN NoHash ELSE log[k - 1].hash
  BY HeadBefore DEF LogIsSequence
<1> QED BY <1>1, <1>2 DEF ChainIsLinked, Linked
-----------------------------------------------------------------------------
(* The log is empty and nobody writes at the start. *)
LEMMA AuditInvInit == AuditInit => AuditInv
  BY DEF AuditInit, AuditInv, LogIsSequence, Rows, WritersHoldTheHead, ChainIsLinked, Serves

(* Appending behind the head that was read keeps the chain. *)
LEMMA InsertKeeps ==
  ASSUME AuditInv, NEW w \in Writers, InsertEntry(w)
  PROVE  AuditInv'
<1> DEFINE e == writer[w]
           row == [actor |-> e.actor, after |-> Normal[e.after], ts |-> Stored(e.ts),
                   prev |-> e.prev,
                   hash |-> ChainHash(e.prev, e.actor, Normalized(e.after), e.ts)]
           S == Rows(log) \union {row}
<1>1. /\ log' = Append(log, row) /\ log \in Seq(S) /\ row \in S
      /\ writer' = [writer EXCEPT ![w] = NotWriting] /\ clock' = clock
      /\ e.ts \in Nat /\ e.prev = Head0(log) /\ Serves(w, "insert")
  <2>1. e \in Task("insert", Head0(log)) /\ Serves(w, "insert")
    BY DEF InsertEntry, AuditInv, WritersHoldTheHead, Serves, Task
  <2>2. e.ts \in Nat /\ e.prev = Head0(log)
    BY <2>1 DEF Task
  <2>3. log \in Seq(S)
    <3> HIDE DEF row
    <3> QED BY DEF AuditInv, LogIsSequence
  <2> QED BY <2>1, <2>2, <2>3 DEF InsertEntry, Becomes
<1>2. /\ Len(log) \in Nat /\ Len(log') = Len(log) + 1 /\ DOMAIN log' = 1..Len(log')
      /\ \A i \in 1..Len(log) : log'[i] = log[i]
      /\ log'[Len(log) + 1] = row /\ log' \in Seq(S)
  <2> HIDE DEF row, S
  <2> QED BY <1>1
<1>3. LogIsSequence'
  <2> HIDE DEF row, S
  <2> QED BY <1>2 DEF LogIsSequence, Rows
<1>4. WritersHoldTheHead'
  <2>1. /\ \A v \in Writers : v # w => writer'[v] = writer[v]
        /\ writer'[w] = NotWriting /\ DOMAIN writer' = Writers /\ clock' \in Nat
    BY <1>1 DEF AuditInv, WritersHoldTheHead
  <2>2. \A v \in Writers : writer'[v] # NotWriting =>
          v # w /\ writer[v] # NotWriting /\ ~Serves(v, "insert")
    BY <1>1, <2>1 DEF AuditInv, WritersHoldTheHead
  <2>3. \A v \in Writers : writer'[v] # NotWriting => writer'[v] \in Task("head", NoHash)
    BY <2>1, <2>2 DEF AuditInv, WritersHoldTheHead, Serves, Task
  <2>4. \A v \in Writers : ~Serves(v, "insert")'
    BY <2>3 DEF Serves, Task
  <2> QED BY <2>1, <2>3, <2>4 DEF WritersHoldTheHead
<1>5. row.prev = IF Len(log) = 0 THEN NoHash ELSE log[Len(log)].hash
  BY <1>1 DEF Head0, AuditInv, LogIsSequence
<1>6. row.hash = ChainHash(row.prev, row.actor, row.after, e.ts)
      /\ e.ts \in row.ts .. row.ts + Precision - 1
  BY <1>1, StoredIsClose DEF Normalized
<1>7. Linked(log)
  BY LinkedIsChain DEF AuditInv
<1>8. Linked(log')
  <2> SUFFICES ASSUME NEW k \in 1..Len(log')
               PROVE  /\ log'[k].prev = IF k = 1 THEN NoHash ELSE log'[k - 1].hash
                      /\ \E t \in log'[k].ts .. log'[k].ts + Precision - 1 :
                           log'[k].hash = ChainHash(log'[k].prev, log'[k].actor, log'[k].after, t)
    BY DEF Linked
  <2> HIDE DEF row, S
  <2>1. CASE k <= Len(log)
    <3>1. k \in 1..Len(log) /\ log'[k] = log[k]
      BY <2>1, <1>2
    <3>2. k # 1 => log'[k - 1] = log[k - 1]
      BY <3>1, <1>2
    <3>3. /\ log[k].prev = IF k = 1 THEN NoHash ELSE log[k - 1].hash
          /\ \E t \in log[k].ts .. log[k].ts + Precision - 1 :
               log[k].hash = ChainHash(log[k].prev, log[k].actor, log[k].after, t)
      BY <3>1, <1>7 DEF Linked
    <3> QED BY <3>1, <3>2, <3>3
  <2>2. CASE k = Len(log) + 1
    BY <2>2, <1>2, <1>5, <1>6
  <2> QED BY <2>1, <2>2, <1>2
<1>9. ChainIsLinked'
  <2>1. DOMAIN log' = 1..Len(log') /\ log' \in Seq(Rows(log'))
    BY <1>2, <1>3 DEF LogIsSequence
  <2>2. \A k \in 1..Len(log') :
          Head0(SubSeq(log', 1, k - 1)) = IF k = 1 THEN NoHash ELSE log'[k - 1].hash
    BY <2>1, HeadBefore
  <2> QED BY <2>1, <2>2, <1>8 DEF ChainIsLinked, Linked
<1> QED BY <1>3, <1>4, <1>9 DEF AuditInv

(* Every step keeps the chain and the lock's promise. *)
LEMMA AuditInvStep == AuditInv /\ [AuditNext]_auditVars => AuditInv'
<1> SUFFICES ASSUME AuditInv, [AuditNext]_auditVars PROVE AuditInv'
  OBVIOUS
<1>1. ASSUME UNCHANGED log PROVE LogIsSequence' /\ ChainIsLinked' /\ Head0(log') = Head0(log)
  BY <1>1 DEF AuditInv, LogIsSequence, ChainIsLinked
<1>2. ASSUME NEW w \in Writers, NEW a \in Actors, NEW t \in Texts, Ingest(w, a, t)
      PROVE  AuditInv'
  <2> DEFINE task == [pc |-> "head", actor |-> a, after |-> t, ts |-> clock, prev |-> NoHash]
  <2>1. task \in Task("head", NoHash) /\ task.pc = "head"
    BY DEF Task, AuditInv, WritersHoldTheHead
  <2>2. writer' = [writer EXCEPT ![w] = task] /\ clock' = clock /\ log' = log
    BY <1>2 DEF Ingest, Becomes
  <2> HIDE DEF task
  <2>3. /\ \A v \in Writers : v # w => writer'[v] = writer[v]
        /\ writer'[w] = task /\ DOMAIN writer' = Writers
    BY <2>2 DEF AuditInv, WritersHoldTheHead
  <2>4. \A v \in Writers : Serves(v, "insert")' => v # w /\ Serves(v, "insert")
    BY <2>1, <2>3 DEF Serves
  <2> QED BY <1>1, <2>1, <2>2, <2>3, <2>4 DEF AuditInv, WritersHoldTheHead
<1>3. ASSUME NEW w \in Writers, ReadHead(w)
      PROVE  AuditInv'
  <2> DEFINE task == [writer[w] EXCEPT !.pc = "insert", !.prev = Head0(log)]
  <2>1. /\ writer' = [writer EXCEPT ![w] = task] /\ clock' = clock /\ log' = log
        /\ \A v \in Writers : ~Serves(v, "insert")
    BY <1>3 DEF ReadHead, Becomes, ChainLocked
  <2>2. writer[w] \in Task("head", NoHash)
    BY <1>3, <2>1 DEF ReadHead, Serves, AuditInv, WritersHoldTheHead, Task
  <2>3. task \in Task("insert", Head0(log))
    BY <2>2, TaskWithHead
  <2> HIDE DEF task
  <2>4. /\ \A v \in Writers : v # w => writer'[v] = writer[v]
        /\ writer'[w] = task /\ DOMAIN writer' = Writers
    BY <2>1 DEF AuditInv, WritersHoldTheHead
  <2>5. \A v \in Writers : Serves(v, "insert")' => v = w
    BY <2>1, <2>4 DEF Serves
  <2> QED BY <1>1, <2>1, <2>3, <2>4, <2>5 DEF AuditInv, WritersHoldTheHead
<1>4. ASSUME NEW w \in Writers, AppendFails(w)
      PROVE  AuditInv'
  BY <1>1, <1>4 DEF AppendFails, AuditInv, WritersHoldTheHead, Becomes, Serves
<1>5. CASE ClockTicks
  BY <1>1, <1>5 DEF ClockTicks, AuditInv, WritersHoldTheHead, Serves
<1>6. CASE UNCHANGED auditVars
  BY <1>1, <1>6 DEF auditVars, AuditInv, WritersHoldTheHead, Serves
<1> QED BY <1>2, <1>3, <1>4, <1>5, <1>6, InsertKeeps DEF AuditNext

(* Whatever appends run at once, fail or time out, every entry links to the one
   before it and its hash covers the stored row up to the precision of the
   timestamp (Append). *)
THEOREM AuditChainLinked == AuditSpec => []ChainIsLinked
<1>1. AuditInv => ChainIsLinked
  BY DEF AuditInv
<1> QED BY <1>1, AuditInvInit, AuditInvStep, PTL DEF AuditSpec
=============================================================================
