------------------------------ MODULE Webhooks ------------------------------
(***************************************************************************)
(* Outbound partner webhooks (infra-api handlers/webhooks.go).  A handler  *)
(* records a delivery, POSTs it and records the outcome; an operator may   *)
(* retry a delivery that does not show as delivered, also while the first  *)
(* attempt is still on the wire.                                           *)
(***************************************************************************)
EXTENDS Integers, Sequences, FiniteSets

CONSTANTS
  Subscribers,
  Senders,         \* the handlers that deliver
  MaxDeliveries,   \* bound on the delivery rows
  MaxAttempts,     \* bound on the POSTs of a behaviour
  NotSending

VARIABLES
  subs,         \* infra.webhook_subscriptions
  deliveries,   \* infra.webhook_deliveries, in insertion order
  sender,       \* what each handler is delivering
  posts         \* POSTs so far

webhookVars == <<subs, deliveries, sender, posts>>

Severity == 0..3   \* low, medium, high, critical
Critical == 3

NoSub == [active |-> FALSE, min |-> -1]
Sub == [active : BOOLEAN, min : Severity]
Delivery == [sub : Subscribers, event : {"opened", "resolved"},
             status : {"pending", "delivered", "failed"},
             received : BOOLEAN]   \* the receiver took the payload (history)
Sending == [pc : {"record", "post", "outcome"}, todo : SUBSET Subscribers,
            event : {"opened", "resolved"}, row : 0..MaxDeliveries, ok : BOOLEAN]

WebhooksTypeOK ==
  /\ subs \in [Subscribers -> Sub \union {NoSub}]
  /\ deliveries \in Seq(Delivery)
  /\ sender \in [Senders -> Sending \union {NotSending}]
  /\ posts \in 0..MaxAttempts

WebhooksInit ==
  /\ subs = [b \in Subscribers |-> NoSub]
  /\ deliveries = <<>>
  /\ sender = [w \in Senders |-> NotSending]
  /\ posts = 0

Sends(w, pc) == sender[w] # NotSending /\ sender[w].pc = pc

CreateWebhookSubscription(b, min) ==
  /\ subs[b] = NoSub
  /\ subs' = [subs EXCEPT ![b] = [active |-> TRUE, min |-> min]]
  /\ UNCHANGED <<deliveries, sender, posts>>

DeactivateWebhookSubscription(b) ==
  /\ subs[b].active
  /\ subs' = [subs EXCEPT ![b].active = FALSE]
  /\ UNCHANGED <<deliveries, sender, posts>>

(* The subscriptions an incident of this severity goes to. *)
Meets(severity) == {b \in Subscribers : subs[b].active /\ subs[b].min <= severity}

(* The handler turns to the subscriptions it read; none, and it is done. *)
dispatchIncidentWebhooks(w, event, severity) ==
  sender' = [sender EXCEPT ![w] =
              IF Meets(severity) = {} THEN NotSending
              ELSE [pc |-> "record", todo |-> Meets(severity), event |-> event,
                    row |-> 0, ok |-> FALSE]]

(* What is left to do once a subscription has been served or skipped. *)
Served(w, b) ==
  LET left == sender[w].todo \ {b}
  IN  IF left = {} THEN NotSending
      ELSE [sender[w] EXCEPT !.pc = "record", !.todo = left, !.row = 0]

RecordDelivery(w, b) ==
  /\ Sends(w, "record")
  /\ b \in sender[w].todo
  /\ Len(deliveries) < MaxDeliveries
  /\ deliveries' = Append(deliveries, [sub |-> b, event |-> sender[w].event,
                                       status |-> "pending", received |-> FALSE])
  /\ sender' = [sender EXCEPT ![w].pc = "post", ![w].row = Len(deliveries) + 1]
  /\ UNCHANGED <<subs, posts>>

RecordFails(w, b) ==
  /\ Sends(w, "record")
  /\ b \in sender[w].todo
  /\ sender' = [sender EXCEPT ![w] = Served(w, b)]
  /\ UNCHANGED <<subs, deliveries, posts>>

(* The POST arrives or not; ok is the 2xx answer, which may be lost. *)
attemptWebhookDelivery(w, arrives, ok) ==
  /\ Sends(w, "post")
  /\ posts < MaxAttempts
  /\ ok => arrives
  /\ posts' = posts + 1
  /\ deliveries' = [deliveries EXCEPT ![sender[w].row].received = @ \/ arrives]
  /\ sender' = [sender EXCEPT ![w].pc = "outcome", ![w].ok = ok]
  /\ UNCHANGED subs

(* The mistake of recording every attempt that was made as delivered. *)
AttemptIsDelivery(w) ==
  /\ Sends(w, "outcome")
  /\ deliveries' = [deliveries EXCEPT ![sender[w].row].status = "delivered"]
  /\ sender' = [sender EXCEPT ![w] = Served(w, deliveries[sender[w].row].sub)]
  /\ UNCHANGED <<subs, posts>>

recordDeliveryOutcome(w) ==
  /\ Sends(w, "outcome")
  /\ deliveries' = [deliveries EXCEPT ![sender[w].row].status =
                      IF sender[w].ok THEN "delivered" ELSE "failed"]
  /\ sender' = [sender EXCEPT ![w] = Served(w, deliveries[sender[w].row].sub)]
  /\ UNCHANGED <<subs, posts>>

(* The handler dies, or its UPDATE errs and is only logged. *)
SenderStops(w) ==
  /\ sender[w] # NotSending
  /\ sender' = [sender EXCEPT ![w] = NotSending]
  /\ UNCHANGED <<subs, deliveries, posts>>

RetryWebhookDelivery(w, d) ==
  /\ sender[w] = NotSending
  /\ deliveries[d].status # "delivered"
  /\ sender' = [sender EXCEPT ![w] =
                  [pc |-> "post", todo |-> {deliveries[d].sub},
                   event |-> deliveries[d].event, row |-> d, ok |-> FALSE]]
  /\ UNCHANGED <<subs, deliveries, posts>>

Delivers(w) ==
  \/ \E b \in Subscribers : RecordDelivery(w, b)
  \/ \E arrives, ok \in BOOLEAN : attemptWebhookDelivery(w, arrives, ok)
  \/ recordDeliveryOutcome(w)
-----------------------------------------------------------------------------
(* A delivery that shows as delivered reached its receiver, whichever of the
   first attempt and its retries recorded the outcome last
   (attemptWebhookDelivery, recordDeliveryOutcome). *)
DeliveredWasReceived ==
  \A d \in DOMAIN deliveries :
    deliveries[d].status = "delivered" => deliveries[d].received
=============================================================================
