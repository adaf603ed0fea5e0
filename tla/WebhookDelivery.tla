---------------------------- MODULE WebhookDelivery ----------------------------
(***************************************************************************)
(* The transactional outbox and the webhook workers (internal/event,        *)
(* internal/webhook) for one repository.  Every worker repeats              *)
(* dispatchOutbox; deliver.  Several workers run at once: every process of   *)
(* a rolling deployment has one.  A worker may stop between any two         *)
(* statements (an error, a cancelled context, a crash); superviseWorker      *)
(* starts it again and only the lease of five minutes returns its work.     *)
(*                                                                          *)
(* Abstractions.  A row's clock columns are compared only with "now":       *)
(* available_at becomes the flag due, claimed_at the claim "free", "held"   *)
(* or "stale" (older than the lease).  The identifier of a delivery is the   *)
(* pair (webhook, event) that md5 hashes; a redelivery's event identifier    *)
(* is its own fresh identifier.  A request body is never rewritten, so it    *)
(* is left out.                                                             *)
(***************************************************************************)
EXTENDS Naturals, FiniteSets, FiniteSetsExt

CONSTANTS Workers, Hooks, Events, Redeliveries, None,
          Types,         \* outbox event types in use
          BatchSize,     \* workerBatchSize
          MaxAttempts,   \* maxAttempts
          MaxFaults      \* bound on worker stops and failed statements

ASSUME LimitAssumption ==
  /\ BatchSize \in Nat \ {0} /\ MaxAttempts \in Nat \ {0} /\ MaxFaults \in Nat
  /\ IsFiniteSet(Workers)

VARIABLES
  hooks,        \* core.repository_webhooks
  events,       \* ops.outbox_events
  deliveries,   \* ops.webhook_deliveries
  pc,           \* the next statement of every worker
  batch,        \* what a worker claimed and has not processed
  current,      \* the event or delivery a worker is processing
  faults,       \* stops and failed statements so far
  requests,     \* requests sent for every delivery (what the receiver may have seen)
  accepted,     \* deliveries a receiver answered with 2xx
  owed          \* <<h, e>>: h has subscribed to e ever since e was written

rowVars == <<hooks, events, deliveries>>
workerVars == <<pc, batch, current>>
ghostVars == <<requests, accepted, owed>>
vars == <<hooks, events, deliveries, pc, batch, current, faults, requests, accepted, owed>>

-----------------------------------------------------------------------------
\* webhookEventType: the subscription an outbox event belongs to ("": none).
WebhookEventType(type) ==
  CASE type = "git.push_received" -> "push"
    [] type \in {"git.refs_updated", "pull_request.created", "pull_request.status_changed"} -> "pull_request"
    [] type \in {"issue.created", "issue.status_changed", "issue.comment_created"} -> "issue"
    [] type = "review.created" -> "review"
    [] type = "status.created" -> "status"
    [] type \in {"check_run.created", "check_run.updated"} -> "check_run"
    [] OTHER -> ""

Subscriptions == {WebhookEventType(type) : type \in Types} \ {""}

Claims == {"free", "held", "stale"}
Hook == [state: {"absent", "live", "deleted"}, enabled: BOOLEAN, events: SUBSET Subscriptions]
Event == [state: {"absent", "queued", "completed"}, type: Types \cup {None}, claim: Claims, due: BOOLEAN]
Delivery == [queued: BOOLEAN, attempts: Nat, delivered: BOOLEAN, failed: BOOLEAN, claim: Claims, due: BOOLEAN]
Keys == Hooks \X (Events \cup Redeliveries)
Claimed == [key: Keys, attempts: Nat]
Result == [key: Keys, attempts: Nat, ok: BOOLEAN]
Steps == {"outbox", "dispatch", "completeEvent", "deliveries", "send", "record"}

Fresh == [queued |-> TRUE, attempts |-> 0, delivered |-> FALSE, failed |-> FALSE, claim |-> "free", due |-> TRUE]

Init ==
  /\ hooks = [h \in Hooks |-> [state |-> "absent", enabled |-> FALSE, events |-> {}]]
  /\ events = [e \in Events |-> [state |-> "absent", type |-> None, claim |-> "free", due |-> TRUE]]
  /\ deliveries = [k \in Keys |-> [Fresh EXCEPT !.queued = FALSE]]
  /\ pc = [w \in Workers |-> "outbox"]
  /\ batch = [w \in Workers |-> {}]
  /\ current = [w \in Workers |-> None]
  /\ faults = 0
  /\ requests = [k \in Keys |-> 0] /\ accepted = {} /\ owed = {}

-----------------------------------------------------------------------------
\* Webhooks and the event writer.

\* The webhook receives events of this type (CreateWebhookDeliveriesForEvent).
Matches(hook, type) ==
  /\ hook.state = "live" /\ hook.enabled
  /\ WebhookEventType(type) \in hook.events

\* ClaimWebhookDeliveries joins the webhook.
Sendable(h) == hooks[h].state = "live" /\ hooks[h].enabled

CreateHook(h, subscribed, enabled) ==
  /\ hooks[h].state = "absent" /\ subscribed # {}
  /\ hooks' = [hooks EXCEPT ![h] = [state |-> "live", enabled |-> enabled, events |-> subscribed]]
  /\ UNCHANGED <<events, deliveries, workerVars, faults, ghostVars>>

StillOwed == {p \in owed : Matches(hooks'[p[1]], events[p[2]].type)}

UpdateHook(h, subscribed, enabled) ==
  /\ hooks[h].state = "live" /\ subscribed # {}
  /\ hooks' = [hooks EXCEPT ![h].enabled = enabled, ![h].events = subscribed]
  /\ owed' = StillOwed
  /\ UNCHANGED <<events, deliveries, workerVars, faults, requests, accepted>>

DeleteHook(h) ==
  /\ hooks[h].state = "live"
  /\ hooks' = [hooks EXCEPT ![h].state = "deleted"]
  /\ owed' = StillOwed
  /\ UNCHANGED <<events, deliveries, workerVars, faults, requests, accepted>>

\* GitPushReceived, RepositoryActivity, RepositoryEvent and GitRefsUpdated (ON CONFLICT DO NOTHING).
Emit(e, type) ==
  /\ events[e].state = "absent"
  /\ events' = [events EXCEPT ![e] = [state |-> "queued", type |-> type, claim |-> "free", due |-> TRUE]]
  /\ owed' = owed \cup {<<h, e>> : h \in {g \in Hooks : Matches(hooks[g], type)}}
  /\ UNCHANGED <<hooks, deliveries, workerVars, faults, requests, accepted>>

\* RedeliverWebhookDelivery: a new row; the webhook may be disabled.
Redeliver(k, n) ==
  /\ deliveries[k].queued /\ hooks[k[1]].state = "live"
  /\ \A h \in Hooks : ~deliveries[<<h, n>>].queued
  /\ deliveries' = [deliveries EXCEPT ![<<k[1], n>>] = Fresh]
  /\ UNCHANGED <<hooks, events, workerVars, faults, ghostVars>>

-----------------------------------------------------------------------------
\* The workers: dispatchOutbox.

Goto(w, step) == pc' = [pc EXCEPT ![w] = step]

\* A statement's LIMIT batch_size of the claimable rows.
Batches(claimable) ==
  IF Cardinality(claimable) <= BatchSize THEN {claimable} ELSE kSubset(BatchSize, claimable)

\* Variant: a lease is never taken over.
ClaimableEvents_Free == {e \in Events : events[e].state = "queued" /\ events[e].due /\ events[e].claim = "free"}

ClaimableEvents == {e \in Events : events[e].state = "queued" /\ events[e].due /\ events[e].claim # "held"}

ClaimOutboxEvents(w) ==
  /\ pc[w] = "outbox"
  /\ \E claimed \in Batches(ClaimableEvents) :
       /\ events' = [e \in Events |-> IF e \in claimed THEN [events[e] EXCEPT !.claim = "held"] ELSE events[e]]
       /\ batch' = [batch EXCEPT ![w] = claimed]
       /\ Goto(w, IF claimed = {} THEN "deliveries" ELSE "dispatch")
  /\ UNCHANGED <<hooks, deliveries, current, faults, ghostVars>>

\* The rows ON CONFLICT (webhook_id, event_id) DO NOTHING leaves to insert.
NewDeliveries(e) ==
  {k \in Keys : k[2] = e /\ Matches(hooks[k[1]], events[e].type) /\ ~deliveries[k].queued}

CreateDeliveries(w) ==
  /\ pc[w] = "dispatch"
  /\ \E e \in batch[w] :
       /\ deliveries' = [k \in Keys |-> IF k \in NewDeliveries(e) THEN Fresh ELSE deliveries[k]]
       /\ current' = [current EXCEPT ![w] = e]
       /\ batch' = [batch EXCEPT ![w] = @ \ {e}]
  /\ Goto(w, "completeEvent")
  /\ UNCHANGED <<hooks, events, faults, ghostVars>>

\* Variant: the failed event is dropped instead of retried.
RetryOutbox_Drops(w) ==
  /\ pc[w] = "dispatch" /\ faults < MaxFaults
  /\ \E e \in batch[w] : events' = [events EXCEPT ![e].claim = "free", ![e].state = "completed"]
  /\ batch' = [batch EXCEPT ![w] = {}]
  /\ Goto(w, "deliveries")
  /\ faults' = faults + 1
  /\ UNCHANGED <<hooks, deliveries, current, ghostVars>>

\* A failed insert: retryOutbox, and the rest of the batch is abandoned.
RetryOutbox(w) ==
  /\ pc[w] = "dispatch" /\ faults < MaxFaults
  /\ \E e \in batch[w] :
       /\ WebhookEventType(events[e].type) # ""
       /\ events' = IF events[e].state = "completed" THEN events
                    ELSE [events EXCEPT ![e].claim = "free", ![e].due = FALSE]
  /\ batch' = [batch EXCEPT ![w] = {}]
  /\ Goto(w, "deliveries")
  /\ faults' = faults + 1
  /\ UNCHANGED <<hooks, deliveries, current, ghostVars>>

CompleteOutboxEvent(w) ==
  /\ pc[w] = "completeEvent"
  /\ events' = [events EXCEPT ![current[w]].state = "completed", ![current[w]].claim = "free"]
  /\ current' = [current EXCEPT ![w] = None]
  /\ Goto(w, IF batch[w] = {} THEN "deliveries" ELSE "dispatch")
  /\ UNCHANGED <<hooks, deliveries, batch, faults, ghostVars>>

-----------------------------------------------------------------------------
\* The workers: deliver.

Settled(row) == row.delivered \/ row.failed

\* Variant: a failed delivery is claimed again.
ClaimableDeliveries_Failed ==
  {k \in Keys : /\ deliveries[k].queued /\ ~deliveries[k].delivered
                /\ deliveries[k].due /\ deliveries[k].claim # "held"
                /\ Sendable(k[1])}

\* Variant: a lease is never taken over.
ClaimableDeliveries_Free ==
  {k \in Keys : /\ deliveries[k].queued /\ ~Settled(deliveries[k])
                /\ deliveries[k].due /\ deliveries[k].claim = "free"
                /\ Sendable(k[1])}

ClaimableDeliveries ==
  {k \in Keys : /\ deliveries[k].queued /\ ~Settled(deliveries[k])
                /\ deliveries[k].due /\ deliveries[k].claim # "held"
                /\ Sendable(k[1])}

\* Variant: taking over a stale claim is not a new attempt.
ClaimWebhookDeliveries_TakeOver(w) ==
  /\ pc[w] = "deliveries"
  /\ \E claimed \in Batches(ClaimableDeliveries) :
       LET attempt(k) == deliveries[k].attempts + (IF deliveries[k].claim = "free" THEN 1 ELSE 0) IN
       /\ deliveries' = [k \in Keys |->
                           IF k \in claimed
                           THEN [deliveries[k] EXCEPT !.claim = "held", !.attempts = attempt(k)]
                           ELSE deliveries[k]]
       /\ batch' = [batch EXCEPT ![w] = {[key |-> k, attempts |-> attempt(k)] : k \in claimed}]
       /\ Goto(w, IF claimed = {} THEN "outbox" ELSE "send")
  /\ UNCHANGED <<hooks, events, current, faults, ghostVars>>

ClaimWebhookDeliveries(w) ==
  /\ pc[w] = "deliveries"
  /\ \E claimed \in Batches(ClaimableDeliveries) :
       /\ deliveries' = [k \in Keys |->
                           IF k \in claimed
                           THEN [deliveries[k] EXCEPT !.claim = "held", !.attempts = @ + 1]
                           ELSE deliveries[k]]
       /\ batch' = [batch EXCEPT ![w] = {[key |-> k, attempts |-> deliveries[k].attempts + 1] : k \in claimed}]
       /\ Goto(w, IF claimed = {} THEN "outbox" ELSE "send")
  /\ UNCHANGED <<hooks, events, current, faults, ghostVars>>

\* One POST: ok is a 2xx answer read in full.  Anything else, a receiver that
\* took the request but whose answer was lost included, is an error code.
Send(w, ok) ==
  /\ pc[w] = "send"
  /\ \E item \in batch[w] :
       /\ current' = [current EXCEPT ![w] = [key |-> item.key, attempts |-> item.attempts, ok |-> ok]]
       /\ batch' = [batch EXCEPT ![w] = @ \ {item}]
       /\ requests' = [requests EXCEPT ![item.key] = @ + 1]
       /\ accepted' = IF ok THEN accepted \cup {item.key} ELSE accepted
  /\ Goto(w, "record")
  /\ UNCHANGED <<rowVars, faults, owed>>

\* Variant: the claim is overwritten with a word no query knows.
Recorded_Released(row, result) ==
  IF result.ok THEN [row EXCEPT !.delivered = TRUE, !.claim = "released"]
  ELSE [row EXCEPT !.due = FALSE, !.claim = "free"]

\* Variant: one attempt too few.
Recorded_Early(row, result) ==
  CASE result.ok -> [row EXCEPT !.delivered = TRUE, !.claim = "free"]
    [] ~result.ok /\ result.attempts + 1 >= MaxAttempts -> [row EXCEPT !.failed = TRUE, !.claim = "free"]
    [] ~result.ok /\ result.attempts + 1 < MaxAttempts -> [row EXCEPT !.due = FALSE, !.claim = "free"]

\* CompleteWebhookDelivery, FailWebhookDelivery, RetryWebhookDelivery: by
\* identifier alone, whoever holds the claim by now.
Recorded(row, result) ==
  CASE result.ok -> [row EXCEPT !.delivered = TRUE, !.claim = "free"]
    [] ~result.ok /\ result.attempts >= MaxAttempts -> [row EXCEPT !.failed = TRUE, !.claim = "free"]
    [] ~result.ok /\ result.attempts < MaxAttempts -> [row EXCEPT !.due = FALSE, !.claim = "free"]

Record(w) ==
  /\ pc[w] = "record"
  /\ deliveries' = [deliveries EXCEPT ![current[w].key] = Recorded(@, current[w])]
  /\ current' = [current EXCEPT ![w] = None]
  /\ Goto(w, IF batch[w] = {} THEN "outbox" ELSE "send")
  /\ UNCHANGED <<hooks, events, batch, faults, ghostVars>>

-----------------------------------------------------------------------------
\* process returns an error, the process dies or is replaced: claims stay.
Stop(w) ==
  /\ faults < MaxFaults
  /\ pc[w] # "outbox"
  /\ Goto(w, "outbox")
  /\ batch' = [batch EXCEPT ![w] = {}]
  /\ current' = [current EXCEPT ![w] = None]
  /\ faults' = faults + 1
  /\ UNCHANGED <<rowVars, ghostVars>>

\* Time passes: five minutes since a claim, a back-off over.
EventLeaseExpires(e) ==
  /\ events[e].claim = "held"
  /\ events' = [events EXCEPT ![e].claim = "stale"]
  /\ UNCHANGED <<hooks, deliveries, workerVars, faults, ghostVars>>

EventDue(e) ==
  /\ ~events[e].due
  /\ events' = [events EXCEPT ![e].due = TRUE]
  /\ UNCHANGED <<hooks, deliveries, workerVars, faults, ghostVars>>

DeliveryLeaseExpires(k) ==
  /\ deliveries[k].claim = "held"
  /\ deliveries' = [deliveries EXCEPT ![k].claim = "stale"]
  /\ UNCHANGED <<hooks, events, workerVars, faults, ghostVars>>

DeliveryDue(k) ==
  /\ ~deliveries[k].due
  /\ deliveries' = [deliveries EXCEPT ![k].due = TRUE]
  /\ UNCHANGED <<hooks, events, workerVars, faults, ghostVars>>

-----------------------------------------------------------------------------
\* A worker's own progress, whatever the receiver answers.
WorkerStep(w) ==
  \/ ClaimOutboxEvents(w) \/ CreateDeliveries(w) \/ CompleteOutboxEvent(w)
  \/ ClaimWebhookDeliveries(w) \/ (\E ok \in BOOLEAN : Send(w, ok)) \/ Record(w)

ServiceNext ==
  \/ \E h \in Hooks, subscribed \in SUBSET Subscriptions, enabled \in BOOLEAN :
       CreateHook(h, subscribed, enabled) \/ UpdateHook(h, subscribed, enabled)
  \/ \E h \in Hooks : DeleteHook(h)
  \/ \E e \in Events, type \in Types : Emit(e, type)
  \/ \E k \in Keys, n \in Redeliveries : Redeliver(k, n)

Clock ==
  \/ \E e \in Events : EventLeaseExpires(e) \/ EventDue(e)
  \/ \E k \in Keys : DeliveryLeaseExpires(k) \/ DeliveryDue(k)

Next ==
  \/ ServiceNext
  \/ \E w \in Workers : WorkerStep(w) \/ RetryOutbox(w) \/ Stop(w)
  \/ Clock

Spec == Init /\ [][Next]_vars

\* The ticker and the supervisor keep every worker going, and time passes.
Fairness ==
  /\ \A w \in Workers : WF_vars(WorkerStep(w))
  /\ \A e \in Events : WF_vars(EventLeaseExpires(e)) /\ WF_vars(EventDue(e))
  /\ \A k \in Keys : WF_vars(DeliveryLeaseExpires(k)) /\ WF_vars(DeliveryDue(k))

FairSpec == Spec /\ Fairness

-----------------------------------------------------------------------------
\* Correctness.

\* Every variable keeps its type.
TypeOK ==
  /\ hooks \in [Hooks -> Hook]
  /\ events \in [Events -> Event]
  /\ deliveries \in [Keys -> Delivery]
  /\ pc \in [Workers -> Steps]
  /\ batch \in [Workers -> (SUBSET Events) \cup (SUBSET Claimed)]
  /\ current \in [Workers -> Events \cup Result \cup {None}]
  /\ faults \in 0..MaxFaults
  /\ requests \in [Keys -> Nat] /\ accepted \subseteq Keys /\ owed \subseteq Hooks \X Events

\* No event is lost between the outbox and the deliveries: when an event is
\* completed, every webhook that has subscribed to it ever since it was
\* written has a delivery of it, whatever stopped or was claimed twice.
NoLostEvent ==
  \A p \in owed : events[p[2]].state = "completed" => deliveries[p].queued

\* History never claims more than happened: a delivery shown as delivered was
\* answered with 2xx, and one shown as failed was tried maxAttempts times.
HistoryTruthful ==
  \A k \in Keys : /\ deliveries[k].delivered => k \in accepted
                  /\ deliveries[k].failed => deliveries[k].attempts >= MaxAttempts

\* attempts counts every request, and claims stop soon after maxAttempts: the
\* receiver never sees more requests of a delivery than its history shows, even
\* when leases expire under a slow worker, and beyond the maximum there is at
\* most one claim per worker still holding the delivery and one per stop.
RequestsCounted ==
  \A k \in Keys :
    /\ requests[k] <= deliveries[k].attempts
    /\ deliveries[k].attempts <= MaxAttempts + (Cardinality(Workers) - 1) + faults

\* A settled delivery is final: it stays settled and is never claimed again,
\* although late statements of other workers still reach its row.
SettledFinal ==
  [][\A k \in Keys : Settled(deliveries[k]) =>
       /\ deliveries[k].delivered => deliveries'[k].delivered
       /\ Settled(deliveries'[k]) /\ deliveries'[k].attempts = deliveries[k].attempts]_vars

\* Every event leaves the outbox, although batches are abandoned and leases
\* expire (finitely many faults, every worker restarted).
OutboxDrains == \A e \in Events : events[e].state = "queued" ~> events[e].state = "completed"

\* Every queued delivery is delivered or fails, unless its webhook is disabled
\* or deleted, whatever the receiver answers.
DeliveriesSettle ==
  \A k \in Keys : deliveries[k].queued ~> Settled(deliveries[k]) \/ ~Sendable(k[1])
=============================================================================
