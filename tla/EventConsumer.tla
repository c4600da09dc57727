---------------------------- MODULE EventConsumer ---------------------------
(***************************************************************************)
(* The Kafka consumer loop that three services share: infra-api            *)
(* consumers/maintenance.go, citizen-api consumers/drt.go and commerce-api *)
(* consumers/carbon.go.  Every record is handled in offset order; a record *)
(* that is handled, or that cannot be parsed, is committed; a handler's    *)
(* error leaves the record uncommitted and the loop goes on with the next. *)
(*                                                                         *)
(* Committing a record commits every offset below it (Kafka); the client   *)
(* reads on from its own position and returns to the committed offset only *)
(* when the process restarts.                                              *)
(***************************************************************************)
EXTENDS Integers, Sequences

CONSTANTS
  Topics,
  Payloads,   \* what records carry
  MaxRecords  \* bound on the records of a topic

ASSUME ConsumerAssumption == MaxRecords \in Nat

VARIABLES
  topic,       \* the records of every topic
  position,    \* records the running client has read
  committed,   \* the group's committed offset
  outcome      \* how the last attempt of every record ended (history)

consumerVars == <<topic, position, committed, outcome>>

Outcomes == {"unseen", "done", "failed"}

ConsumerTypeOK ==
  /\ topic \in [Topics -> Seq(Payloads)]
  /\ position \in [Topics -> Nat]
  /\ committed \in [Topics -> Nat]
  /\ outcome \in [Topics -> Seq(Outcomes)]
  /\ \A t \in Topics : /\ position[t] <= Len(topic[t])
                       /\ committed[t] <= Len(topic[t])
                       /\ Len(outcome[t]) = Len(topic[t])

ConsumerInit ==
  /\ topic = [t \in Topics |-> <<>>]
  /\ position = [t \in Topics |-> 0]
  /\ committed = [t \in Topics |-> 0]
  /\ outcome = [t \in Topics |-> <<>>]

Published(t, payload) ==
  /\ Len(topic[t]) < MaxRecords
  /\ topic' = [topic EXCEPT ![t] = Append(@, payload)]
  /\ outcome' = [outcome EXCEPT ![t] = Append(@, "unseen")]
  /\ UNCHANGED <<position, committed>>

Pending(t) == position[t] < Len(topic[t])
Current(t) == topic[t][position[t] + 1]

(* The mistakes of committing the latest offset, and the one after the next. *)
CommitsLatest(t, commits) ==
  /\ Pending(t)
  /\ outcome' = [outcome EXCEPT ![t][position[t] + 1] = "done"]
  /\ position' = [position EXCEPT ![t] = @ + 1]
  /\ committed' = IF commits THEN [committed EXCEPT ![t] = Len(topic[t])] ELSE committed
  /\ UNCHANGED topic

CommitsTooFar(t, commits) ==
  /\ Pending(t)
  /\ outcome' = [outcome EXCEPT ![t][position[t] + 1] = "done"]
  /\ position' = [position EXCEPT ![t] = @ + 1]
  /\ committed' = IF commits THEN [committed EXCEPT ![t] = position[t] + 2] ELSE committed
  /\ UNCHANGED topic

(* The record is handled or dropped; the commit that follows may fail. *)
Handled(t, commits) ==
  /\ Pending(t)
  /\ outcome' = [outcome EXCEPT ![t][position[t] + 1] = "done"]
  /\ position' = [position EXCEPT ![t] = @ + 1]
  /\ committed' = IF commits THEN [committed EXCEPT ![t] = position[t] + 1] ELSE committed
  /\ UNCHANGED topic

(* The handler returned an error: nothing is committed, nothing is retried. *)
Failed(t) ==
  /\ Pending(t)
  /\ outcome' = [outcome EXCEPT ![t][position[t] + 1] = "failed"]
  /\ position' = [position EXCEPT ![t] = @ + 1]
  /\ UNCHANGED <<topic, committed>>

(* A new process, at any point, also after the effect and before the commit. *)
Restarted(t) ==
  /\ position[t] # committed[t]
  /\ position' = [position EXCEPT ![t] = committed[t]]
  /\ UNCHANGED <<topic, committed, outcome>>
-----------------------------------------------------------------------------
(* Below the committed offset every record was attempted to its end: a crash,
   wherever it strikes, redelivers a record instead of losing it unread (the
   consumers' commit after the handler). *)
CrashLosesNoRecord ==
  \A t \in Topics, i \in 1..MaxRecords :
    i <= committed[t] => outcome[t][i] # "unseen"
=============================================================================
