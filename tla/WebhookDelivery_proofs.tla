------------------------- MODULE WebhookDelivery_proofs -------------------------
(* Proofs about WebhookDelivery, for any number of workers, webhooks, events   *)
(* and redeliveries and any batch size, attempt limit and bound on faults.     *)
EXTENDS WebhookDelivery, FiniteSetTheorems, TLAPS

-----------------------------------------------------------------------------
\* The invariants.

\* Every webhook that is owed the event has its delivery.
Dispatched(e) == \A p \in owed : p[2] = e => deliveries[p].queued

\* A worker that dispatches holds events that were written, and completes an
\* event only after its deliveries were inserted.
DispatchInv(w) ==
  /\ pc[w] \in {"outbox", "deliveries"} => batch[w] = {}
  /\ pc[w] \in {"dispatch", "completeEvent"} =>
       batch[w] \in SUBSET Events /\ \A e \in batch[w] : events[e].state # "absent"
  /\ pc[w] = "completeEvent" =>
       /\ current[w] \in Events /\ events[current[w]].state # "absent"
       /\ Dispatched(current[w])

\* What a worker claimed or sent is a numbered attempt of a queued delivery.
Numbered(claim) ==
  /\ claim.key \in Keys /\ claim.attempts \in Nat
  /\ deliveries[claim.key].queued /\ claim.attempts <= deliveries[claim.key].attempts

\* A worker that delivers holds one claim per delivery, and an answer it is
\* about to record was given.
DeliverInv(w) ==
  /\ pc[w] \in {"send", "record"} =>
       /\ batch[w] \in SUBSET Claimed
       /\ \A i \in batch[w] : Numbered(i)
       /\ \A i, j \in batch[w] : i.key = j.key => i = j
  /\ pc[w] = "record" =>
       /\ current[w] \in Result /\ Numbered(current[w])
       /\ current[w].ok => current[w].key \in accepted

\* A webhook that is owed an event still subscribes to it.
OwedInv ==
  \A p \in owed : Matches(hooks[p[1]], events[p[2]].type) /\ events[p[2]].state # "absent"

\* A delivery that was not inserted has no history.
FreshInv ==
  \A k \in Keys : ~deliveries[k].queued =>
    deliveries[k].attempts = 0 /\ ~deliveries[k].delivered /\ ~deliveries[k].failed

Inv ==
  /\ TypeOK /\ OwedInv /\ FreshInv /\ NoLostEvent /\ HistoryTruthful
  /\ \A w \in Workers : DispatchInv(w) /\ DeliverInv(w)

\* Worker w holds a claim of k and has not sent its request.
HoldsUnsent(w, k) == pc[w] \in {"send", "record"} /\ \E i \in batch[w] : i.key = k

\* Worker w holds a claim of k whose failure is final.
HoldsLate(w, k) ==
  \/ pc[w] \in {"send", "record"} /\ \E i \in batch[w] : i.key = k /\ i.attempts >= MaxAttempts
  \/ pc[w] = "record" /\ current[w].key = k /\ current[w].attempts >= MaxAttempts

Unsent(k) == {w \in Workers : HoldsUnsent(w, k)}
Late(k) == {w \in Workers : HoldsLate(w, k)}

\* Every request was claimed, and every claim beyond the maximum of a delivery
\* that is not settled is still held or was lost in a stop.
Counted(k) ==
  /\ requests[k] + Cardinality(Unsent(k)) <= deliveries[k].attempts
  /\ ~Settled(deliveries[k]) =>
       deliveries[k].attempts + 1 <= MaxAttempts + Cardinality(Late(k)) + faults
  /\ Settled(deliveries[k]) =>
       deliveries[k].attempts + 1 <= MaxAttempts + Cardinality(Workers) + faults

CountInv == \A k \in Keys : Counted(k)

-----------------------------------------------------------------------------
\* Facts the steps share.

\* A statement claims claimable rows.
LEMMA BatchesSubset ==
  ASSUME NEW S, NEW b \in Batches(S)
  PROVE  b \in SUBSET S
  BY DEF Batches, kSubset

\* What is owed has a key.
LEMMA OwedKeys ==
  ASSUME TypeOK, NEW p \in owed
  PROVE  p \in Keys /\ p[1] \in Hooks /\ p[2] \in Events /\ p = <<p[1], p[2]>>
  BY DEF TypeOK, Keys

\* A new delivery is a delivery, and it has no history.
LEMMA FreshType ==
  /\ Fresh \in Delivery /\ Fresh.queued /\ Fresh.attempts = 0 /\ ~Fresh.delivered /\ ~Fresh.failed
  /\ [Fresh EXCEPT !.queued = FALSE] \in Delivery
  BY DEF Fresh, Delivery, Claims

\* Fields of an event that a step may replace.
LEMMA EventType ==
  ASSUME NEW x \in Event
  PROVE  /\ \A c \in Claims : [x EXCEPT !.claim = c] \in Event /\ [x EXCEPT !.claim = c].state = x.state
                              /\ [x EXCEPT !.claim = c].type = x.type
         /\ [x EXCEPT !.due = TRUE] \in Event /\ [x EXCEPT !.due = TRUE].state = x.state
         /\ [x EXCEPT !.due = TRUE].type = x.type
         /\ [x EXCEPT !.claim = "free", !.due = FALSE] \in Event
         /\ [x EXCEPT !.claim = "free", !.due = FALSE].state = x.state
         /\ [x EXCEPT !.claim = "free", !.due = FALSE].type = x.type
         /\ [x EXCEPT !.state = "completed", !.claim = "free"] \in Event
         /\ [x EXCEPT !.state = "completed", !.claim = "free"].type = x.type
         /\ [x EXCEPT !.state = "completed", !.claim = "free"].state = "completed"
  BY DEF Event, Claims

\* Fields of a delivery that time may replace.
LEMMA DeliveryType ==
  ASSUME NEW x \in Delivery
  PROVE  /\ [x EXCEPT !.claim = "stale"] \in Delivery /\ [x EXCEPT !.due = TRUE] \in Delivery
         /\ \A y \in {[x EXCEPT !.claim = "stale"], [x EXCEPT !.due = TRUE]} :
              y.queued = x.queued /\ y.attempts = x.attempts /\ y.delivered = x.delivered /\ y.failed = x.failed
  BY DEF Delivery, Claims

\* Rows only move forward: what was written stays, and only an event that was
\* not there is newly owed.
Forward ==
  /\ \A e \in Events : events[e].state # "absent" => events'[e].state # "absent"
  /\ \A p \in owed' : p \in owed \/ events[p[2]].state = "absent"
  /\ \A k \in Keys : deliveries[k].queued =>
       deliveries'[k].queued /\ deliveries[k].attempts <= deliveries'[k].attempts
  /\ accepted \subseteq accepted'

\* A worker that takes no step keeps its invariant when the rows move forward.
LEMMA OthersKeep ==
  ASSUME TypeOK, deliveries' \in [Keys -> Delivery], NEW v \in Workers, DispatchInv(v), DeliverInv(v), Forward,
         pc'[v] = pc[v], batch'[v] = batch[v], current'[v] = current[v]
  PROVE  DispatchInv(v)' /\ DeliverInv(v)'
  <1>1. \A k \in Keys : deliveries[k].attempts \in Nat /\ deliveries'[k].attempts \in Nat
    BY DEF TypeOK, Delivery
  <1>2. ASSUME NEW e \in Events, events[e].state # "absent", Dispatched(e) PROVE Dispatched(e)'
    <2> SUFFICES ASSUME NEW p \in owed', p[2] = e PROVE deliveries'[p].queued
      BY DEF Dispatched
    <2>1. p \in owed
      BY <1>2 DEF Forward
    <2>2. p \in Keys
      BY <2>1, OwedKeys
    <2> QED BY <1>2, <2>1, <2>2 DEF Forward, Dispatched
  <1>3. ASSUME NEW c, Numbered(c) PROVE Numbered(c)'
    BY <1>1, <1>3 DEF Numbered, Forward
  <1>4. DispatchInv(v)'
    BY <1>2 DEF DispatchInv, Forward
  <1>5. DeliverInv(v)'
    BY <1>3 DEF DeliverInv, Forward
  <1> QED BY <1>4, <1>5

\* What stays of the invariant when no worker moves.
LEMMA QuietStep ==
  ASSUME Inv, TypeOK', Forward, UNCHANGED workerVars, OwedInv', FreshInv', NoLostEvent', HistoryTruthful'
  PROVE  Inv'
  <1>1. ASSUME NEW v \in Workers PROVE DispatchInv(v)' /\ DeliverInv(v)'
    BY OthersKeep DEF Inv, TypeOK, workerVars
  <1> QED BY <1>1 DEF Inv

\* What stays of the invariant when worker w moves.
LEMMA MovingStep ==
  ASSUME Inv, TypeOK', Forward, OwedInv', FreshInv', NoLostEvent', HistoryTruthful',
         NEW w \in Workers, DispatchInv(w)', DeliverInv(w)',
         \A v \in Workers \ {w} : pc'[v] = pc[v] /\ batch'[v] = batch[v] /\ current'[v] = current[v]
  PROVE  Inv'
  <1>1. ASSUME NEW v \in Workers \ {w} PROVE DispatchInv(v)' /\ DeliverInv(v)'
    BY OthersKeep DEF Inv, TypeOK
  <1> QED BY <1>1 DEF Inv

\* Rows that keep their fields keep the invariants about them.
LEMMA RowsKeep ==
  ASSUME Inv, owed' = owed, hooks' = hooks, accepted \subseteq accepted',
         \A e \in Events : events'[e].state = events[e].state /\ events'[e].type = events[e].type,
         \A k \in Keys : /\ deliveries'[k].queued = deliveries[k].queued
                         /\ deliveries'[k].attempts = deliveries[k].attempts
                         /\ deliveries'[k].delivered = deliveries[k].delivered
                         /\ deliveries'[k].failed = deliveries[k].failed
  PROVE  Forward /\ OwedInv' /\ FreshInv' /\ NoLostEvent' /\ HistoryTruthful'
  <1>0. TypeOK /\ OwedInv /\ FreshInv /\ NoLostEvent /\ HistoryTruthful
    BY DEF Inv
  <1>1. \A p \in owed : p[2] \in Events /\ p \in Keys
    BY <1>0, OwedKeys
  <1>2. \A k \in Keys : deliveries[k].attempts \in Nat
    BY <1>0 DEF TypeOK, Delivery
  <1>3. Forward
    BY <1>2 DEF Forward
  <1>4. OwedInv'
    BY <1>0, <1>1 DEF OwedInv
  <1>5. FreshInv' /\ HistoryTruthful'
    BY <1>0 DEF FreshInv, HistoryTruthful
  <1>6. NoLostEvent'
    BY <1>0, <1>1 DEF NoLostEvent
  <1> QED BY <1>3, <1>4, <1>5, <1>6

-----------------------------------------------------------------------------
\* The service's own steps.

\* Creating a webhook.
LEMMA CreateHookInv ==
  ASSUME Inv, NEW h \in Hooks, NEW subscribed \in SUBSET Subscriptions, NEW enabled \in BOOLEAN,
         CreateHook(h, subscribed, enabled)
  PROVE  Inv'
  <1>0. TypeOK /\ OwedInv /\ FreshInv /\ NoLostEvent /\ HistoryTruthful
    BY DEF Inv
  <1>1. UNCHANGED <<events, deliveries, pc, batch, current, faults, requests, accepted, owed>>
    BY DEF CreateHook, workerVars, ghostVars
  <1>2. hooks' = [hooks EXCEPT ![h] = [state |-> "live", enabled |-> enabled, events |-> subscribed]]
        /\ hooks[h].state = "absent"
    BY DEF CreateHook
  <1>3. TypeOK'
    BY <1>0, <1>1, <1>2 DEF TypeOK, Hook
  <1>4. OwedInv'
    <2> SUFFICES ASSUME NEW p \in owed PROVE Matches(hooks'[p[1]], events[p[2]].type) /\ events[p[2]].state # "absent"
      BY <1>1 DEF OwedInv
    <2>1. Matches(hooks[p[1]], events[p[2]].type) /\ events[p[2]].state # "absent"
      BY <1>0 DEF OwedInv
    <2>2. p[1] # h
      BY <1>2, <2>1 DEF Matches
    <2> QED BY <1>0, <1>2, <2>1, <2>2 DEF TypeOK
  <1>5. FreshInv' /\ NoLostEvent' /\ HistoryTruthful'
    BY <1>0, <1>1 DEF FreshInv, NoLostEvent, HistoryTruthful
  <1>6. Forward
    BY <1>0, <1>1 DEF Forward, TypeOK, Delivery
  <1> QED BY <1>1, <1>3, <1>4, <1>5, <1>6, QuietStep DEF workerVars

\* Changing or deleting a webhook: what it is no longer owed is forgotten.
LEMMA ChangeHookInv ==
  ASSUME Inv, hooks' \in [Hooks -> Hook], owed' = StillOwed,
         UNCHANGED <<events, deliveries, workerVars, faults, requests, accepted>>
  PROVE  Inv'
  <1>0. TypeOK /\ OwedInv /\ FreshInv /\ NoLostEvent /\ HistoryTruthful
    BY DEF Inv
  <1>1. UNCHANGED <<events, deliveries, pc, batch, current, faults, requests, accepted>>
    BY DEF workerVars
  <1>2. owed' \subseteq owed /\ \A p \in owed' : Matches(hooks'[p[1]], events[p[2]].type)
    BY DEF StillOwed
  <1>3. TypeOK'
    BY <1>0, <1>1, <1>2 DEF TypeOK
  <1>4. OwedInv'
    BY <1>0, <1>1, <1>2 DEF OwedInv
  <1>5. FreshInv' /\ NoLostEvent' /\ HistoryTruthful'
    BY <1>0, <1>1, <1>2 DEF FreshInv, NoLostEvent, HistoryTruthful
  <1>6. Forward
    BY <1>0, <1>1, <1>2 DEF Forward, TypeOK, Delivery
  <1> QED BY <1>1, <1>3, <1>4, <1>5, <1>6, QuietStep DEF workerVars

\* Writing an event: nothing of it was dispatched.
LEMMA EmitInv ==
  ASSUME Inv, NEW e \in Events, NEW type \in Types, Emit(e, type)
  PROVE  Inv'
  <1>0. TypeOK /\ OwedInv /\ FreshInv /\ NoLostEvent /\ HistoryTruthful
    BY DEF Inv
  <1> DEFINE row == [state |-> "queued", type |-> type, claim |-> "free", due |-> TRUE]
             owing == {<<h, e>> : h \in {g \in Hooks : Matches(hooks[g], type)}}
  <1>1. UNCHANGED <<hooks, deliveries, pc, batch, current, faults, requests, accepted>>
    BY DEF Emit, workerVars
  <1>2. events[e].state = "absent" /\ events' = [events EXCEPT ![e] = row] /\ owed' = owed \cup owing
    BY DEF Emit
  <1>3. \A p \in owing : p \in Hooks \X Events /\ p[2] = e /\ Matches(hooks[p[1]], type)
    OBVIOUS
  <1> HIDE DEF owing
  <1>4. TypeOK'
    BY <1>0, <1>1, <1>2, <1>3 DEF TypeOK, Event, Claims
  <1>5. \A p \in owed : p[2] \in Events /\ p[2] # e /\ events'[p[2]] = events[p[2]]
    BY <1>0, <1>2, OwedKeys DEF OwedInv, TypeOK
  <1>6. events'[e].state = "queued" /\ events'[e].type = type
    BY <1>0, <1>2 DEF TypeOK
  <1>7. OwedInv'
    BY <1>0, <1>1, <1>2, <1>3, <1>5, <1>6 DEF OwedInv
  <1>8. NoLostEvent'
    BY <1>0, <1>1, <1>2, <1>3, <1>5, <1>6 DEF NoLostEvent
  <1>9. FreshInv' /\ HistoryTruthful'
    BY <1>0, <1>1 DEF FreshInv, HistoryTruthful
  <1>10. Forward
    <2>1. \A f \in Events : events[f].state # "absent" => events'[f].state # "absent"
      BY <1>0, <1>2 DEF TypeOK
    <2>2. \A p \in owed' : p \in owed \/ events[p[2]].state = "absent"
      BY <1>2, <1>3
    <2> QED BY <1>0, <1>1, <2>1, <2>2 DEF Forward, TypeOK, Delivery
  <1> QED BY <1>1, <1>4, <1>7, <1>8, <1>9, <1>10, QuietStep DEF workerVars

\* Inserting deliveries that were not there, by a worker or for a redelivery.
LEMMA InsertKeeps ==
  ASSUME Inv, NEW new, \A k \in new : k \in Keys /\ ~deliveries[k].queued,
         deliveries' = [k \in Keys |-> IF k \in new THEN Fresh ELSE deliveries[k]],
         UNCHANGED <<hooks, events, accepted, owed>>
  PROVE  /\ deliveries' \in [Keys -> Delivery] /\ Forward
         /\ OwedInv' /\ FreshInv' /\ NoLostEvent' /\ HistoryTruthful'
  <1>0. TypeOK /\ OwedInv /\ FreshInv /\ NoLostEvent /\ HistoryTruthful
    BY DEF Inv
  <1>1. deliveries' \in [Keys -> Delivery]
    BY <1>0, FreshType DEF TypeOK
  <1>2. \A k \in Keys : deliveries'[k] = deliveries[k] \/ (~deliveries[k].queued /\ deliveries'[k] = Fresh)
    OBVIOUS
  <1>3. \A k \in Keys : deliveries[k].attempts \in Nat
    BY <1>0 DEF TypeOK, Delivery
  <1>4. Forward
    BY <1>2, <1>3 DEF Forward
  <1>5. OwedInv'
    BY <1>0 DEF OwedInv
  <1>6. FreshInv'
    BY <1>0, <1>2, FreshType DEF FreshInv
  <1>7. NoLostEvent'
    <2>1. \A p \in owed : p \in Keys
      BY <1>0, OwedKeys
    <2> QED BY <1>0, <1>2, <2>1, FreshType DEF NoLostEvent
  <1>8. HistoryTruthful'
    BY <1>0, <1>2, FreshType DEF HistoryTruthful
  <1> QED BY <1>1, <1>4, <1>5, <1>6, <1>7, <1>8

\* Redelivering.
LEMMA RedeliverInv ==
  ASSUME Inv, NEW k \in Keys, NEW n \in Redeliveries, Redeliver(k, n)
  PROVE  Inv'
  <1>0. TypeOK
    BY DEF Inv
  <1> DEFINE key == <<k[1], n>>
             new == {key}
  <1>1. UNCHANGED <<hooks, events, pc, batch, current, faults, requests, accepted, owed>>
    BY DEF Redeliver, workerVars, ghostVars
  <1>2. key \in Keys /\ ~deliveries[key].queued
    BY DEF Redeliver, Keys
  <1>3. deliveries' = [x \in Keys |-> IF x \in new THEN Fresh ELSE deliveries[x]]
    BY <1>0, <1>2 DEF Redeliver, TypeOK
  <1> HIDE DEF key
  <1>4. /\ deliveries' \in [Keys -> Delivery] /\ Forward
        /\ OwedInv' /\ FreshInv' /\ NoLostEvent' /\ HistoryTruthful'
    <2>1. \A x \in new : x \in Keys /\ ~deliveries[x].queued
      BY <1>2
    <2> HIDE DEF new
    <2>2. UNCHANGED <<hooks, events, accepted, owed>>
      BY <1>1
    <2> QED BY <1>3, <2>1, <2>2, InsertKeeps
  <1>5. TypeOK'
    BY <1>0, <1>1, <1>4 DEF TypeOK
  <1> QED BY <1>1, <1>4, <1>5, QuietStep DEF workerVars

\* The service keeps the invariant.
LEMMA ServiceInv ==
  ASSUME Inv, ServiceNext
  PROVE  Inv'
  <1>1. ASSUME NEW h \in Hooks, NEW subscribed \in SUBSET Subscriptions, NEW enabled \in BOOLEAN,
               UpdateHook(h, subscribed, enabled)
        PROVE  Inv'
    <2>1. hooks' \in [Hooks -> Hook]
      BY <1>1 DEF UpdateHook, Inv, TypeOK, Hook
    <2> QED BY <1>1, <2>1, ChangeHookInv DEF UpdateHook
  <1>2. ASSUME NEW h \in Hooks, DeleteHook(h) PROVE Inv'
    <2>1. hooks' \in [Hooks -> Hook]
      BY <1>2 DEF DeleteHook, Inv, TypeOK, Hook
    <2> QED BY <1>2, <2>1, ChangeHookInv DEF DeleteHook
  <1> QED BY <1>1, <1>2, CreateHookInv, EmitInv, RedeliverInv DEF ServiceNext

\* Time passes.
LEMMA ClockInv ==
  ASSUME Inv, Clock
  PROVE  Inv'
  <1>0. TypeOK
    BY DEF Inv
  <1>1. UNCHANGED <<hooks, pc, batch, current, faults, requests, accepted, owed>>
    BY DEF Clock, EventLeaseExpires, EventDue, DeliveryLeaseExpires, DeliveryDue, workerVars, ghostVars
  <1>2. /\ events' \in [Events -> Event]
        /\ \A e \in Events : events'[e].state = events[e].state /\ events'[e].type = events[e].type
    <2>1. ASSUME NEW e \in Events, NEW x, x \in {[events[e] EXCEPT !.claim = "stale"], [events[e] EXCEPT !.due = TRUE]},
                 events' = [events EXCEPT ![e] = x]
          PROVE  <1>2
      <3>1. events[e] \in Event /\ "stale" \in Claims
        BY <1>0 DEF TypeOK, Claims
      <3>2. x \in Event /\ x.state = events[e].state /\ x.type = events[e].type
        <4>1. CASE x = [events[e] EXCEPT !.claim = "stale"]
          BY <3>1, <4>1, EventType
        <4>2. CASE x = [events[e] EXCEPT !.due = TRUE]
          BY <3>1, <4>2, EventType
        <4> QED BY <2>1, <4>1, <4>2
      <3> QED BY <1>0, <2>1, <3>2 DEF TypeOK
    <2>2. CASE events' = events
      BY <1>0, <2>2 DEF TypeOK
    <2>3. CASE \E e \in Events : EventLeaseExpires(e) \/ EventDue(e)
      BY <2>1, <2>3 DEF EventLeaseExpires, EventDue
    <2> QED BY <2>2, <2>3 DEF Clock, DeliveryLeaseExpires, DeliveryDue
  <1>3. /\ deliveries' \in [Keys -> Delivery]
        /\ \A k \in Keys : /\ deliveries'[k].queued = deliveries[k].queued
                           /\ deliveries'[k].attempts = deliveries[k].attempts
                           /\ deliveries'[k].delivered = deliveries[k].delivered
                           /\ deliveries'[k].failed = deliveries[k].failed
    <2>1. ASSUME NEW j \in Keys, NEW x,
                 x \in {[deliveries[j] EXCEPT !.claim = "stale"], [deliveries[j] EXCEPT !.due = TRUE]},
                 deliveries' = [deliveries EXCEPT ![j] = x]
          PROVE  <1>3
      <3>1. deliveries[j] \in Delivery
        BY <1>0 DEF TypeOK
      <3>2. /\ x \in Delivery /\ x.queued = deliveries[j].queued /\ x.attempts = deliveries[j].attempts
            /\ x.delivered = deliveries[j].delivered /\ x.failed = deliveries[j].failed
        BY <2>1, <3>1, DeliveryType
      <3> QED BY <1>0, <2>1, <3>2 DEF TypeOK
    <2>2. CASE deliveries' = deliveries
      BY <1>0, <2>2 DEF TypeOK
    <2>3. CASE \E k \in Keys : DeliveryLeaseExpires(k) \/ DeliveryDue(k)
      BY <2>1, <2>3 DEF DeliveryLeaseExpires, DeliveryDue
    <2> QED BY <2>2, <2>3 DEF Clock, EventLeaseExpires, EventDue
  <1>4. TypeOK'
    BY <1>0, <1>1, <1>2, <1>3 DEF TypeOK
  <1>5. Forward /\ OwedInv' /\ FreshInv' /\ NoLostEvent' /\ HistoryTruthful'
    BY <1>1, <1>2, <1>3, RowsKeep
  <1> QED BY <1>1, <1>4, <1>5, QuietStep DEF workerVars

-----------------------------------------------------------------------------
\* The workers' steps.

\* ClaimOutboxEvents takes events that are queued.
LEMMA ClaimEventsInv ==
  ASSUME Inv, NEW w \in Workers, ClaimOutboxEvents(w)
  PROVE  Inv'
  <1>0. TypeOK
    BY DEF Inv
  <1>1. PICK claimed \in Batches(ClaimableEvents) :
          /\ events' = [e \in Events |-> IF e \in claimed THEN [events[e] EXCEPT !.claim = "held"] ELSE events[e]]
          /\ batch' = [batch EXCEPT ![w] = claimed]
          /\ Goto(w, IF claimed = {} THEN "deliveries" ELSE "dispatch")
    BY DEF ClaimOutboxEvents
  <1>2. UNCHANGED <<hooks, deliveries, current, faults, requests, accepted, owed>>
    BY DEF ClaimOutboxEvents, ghostVars
  <1>3. claimed \in SUBSET Events /\ \A e \in claimed : events[e].state = "queued"
    BY <1>1, BatchesSubset DEF ClaimableEvents
  <1>4. /\ events' \in [Events -> Event]
        /\ \A e \in Events : events'[e].state = events[e].state /\ events'[e].type = events[e].type
    <2>1. \A e \in Events : events[e] \in Event /\ "held" \in Claims
      BY <1>0 DEF TypeOK, Claims
    <2> QED BY <1>1, <2>1, EventType
  <1>5. Forward /\ OwedInv' /\ FreshInv' /\ NoLostEvent' /\ HistoryTruthful'
    BY <1>2, <1>4, RowsKeep
  <1>6. pc' = [pc EXCEPT ![w] = IF claimed = {} THEN "deliveries" ELSE "dispatch"]
    BY <1>1 DEF Goto
  <1>7. TypeOK'
    <2>1. pc' \in [Workers -> Steps]
      BY <1>0, <1>6 DEF TypeOK, Steps
    <2>2. batch' \in [Workers -> (SUBSET Events) \cup (SUBSET Claimed)]
      BY <1>0, <1>1, <1>3 DEF TypeOK
    <2> QED BY <1>0, <1>2, <1>4, <2>1, <2>2 DEF TypeOK
  <1>8. DispatchInv(w)' /\ DeliverInv(w)'
    <2>1. pc'[w] = (IF claimed = {} THEN "deliveries" ELSE "dispatch") /\ batch'[w] = claimed
      BY <1>0, <1>1, <1>6 DEF TypeOK
    <2> QED BY <1>3, <1>4, <2>1 DEF DispatchInv, DeliverInv
  <1>9. \A v \in Workers \ {w} : pc'[v] = pc[v] /\ batch'[v] = batch[v] /\ current'[v] = current[v]
    BY <1>0, <1>1, <1>2, <1>6 DEF TypeOK
  <1> QED BY <1>5, <1>7, <1>8, <1>9, MovingStep

\* CreateWebhookDeliveriesForEvent serves every webhook that is owed the event.
LEMMA CreateDeliveriesInv ==
  ASSUME Inv, NEW w \in Workers, CreateDeliveries(w)
  PROVE  Inv'
  <1>0. TypeOK /\ OwedInv /\ DispatchInv(w) /\ pc[w] = "dispatch"
    BY DEF Inv, CreateDeliveries
  <1>1. PICK e \in batch[w] :
          /\ deliveries' = [k \in Keys |-> IF k \in NewDeliveries(e) THEN Fresh ELSE deliveries[k]]
          /\ current' = [current EXCEPT ![w] = e]
          /\ batch' = [batch EXCEPT ![w] = batch[w] \ {e}]
    BY DEF CreateDeliveries
  <1>2. UNCHANGED <<hooks, events, faults, requests, accepted, owed>> /\ pc' = [pc EXCEPT ![w] = "completeEvent"]
    BY DEF CreateDeliveries, ghostVars, Goto
  <1>3. batch[w] \in SUBSET Events /\ e \in Events /\ \A f \in batch[w] : events[f].state # "absent"
    BY <1>0 DEF DispatchInv
  <1>4. /\ deliveries' \in [Keys -> Delivery] /\ Forward
        /\ OwedInv' /\ FreshInv' /\ NoLostEvent' /\ HistoryTruthful'
    <2>1. \A k \in NewDeliveries(e) : k \in Keys /\ ~deliveries[k].queued
      BY DEF NewDeliveries
    <2> QED BY <1>1, <1>2, <2>1, InsertKeeps
  <1>5. TypeOK'
    <2>1. pc' \in [Workers -> Steps]
      BY <1>0, <1>2 DEF TypeOK, Steps
    <2>2. batch' \in [Workers -> (SUBSET Events) \cup (SUBSET Claimed)]
      BY <1>0, <1>1, <1>3 DEF TypeOK
    <2>3. current' \in [Workers -> Events \cup Result \cup {None}]
      BY <1>0, <1>1, <1>3 DEF TypeOK
    <2> QED BY <1>0, <1>2, <1>4, <2>1, <2>2, <2>3 DEF TypeOK
  <1>6. Dispatched(e)'
    <2> SUFFICES ASSUME NEW p \in owed, p[2] = e PROVE deliveries'[p].queued
      BY <1>2 DEF Dispatched
    <2>1. p \in Keys /\ Matches(hooks[p[1]], events[e].type)
      BY <1>0, OwedKeys DEF OwedInv
    <2>2. deliveries[p].queued \/ p \in NewDeliveries(e)
      BY <2>1 DEF NewDeliveries
    <2> QED BY <1>1, <2>1, <2>2, FreshType
  <1>7. DispatchInv(w)' /\ DeliverInv(w)'
    <2>1. pc'[w] = "completeEvent" /\ batch'[w] = batch[w] \ {e} /\ current'[w] = e
      BY <1>0, <1>1, <1>2 DEF TypeOK
    <2> QED BY <1>2, <1>3, <1>6, <2>1 DEF DispatchInv, DeliverInv
  <1>8. \A v \in Workers \ {w} : pc'[v] = pc[v] /\ batch'[v] = batch[v] /\ current'[v] = current[v]
    BY <1>0, <1>1, <1>2 DEF TypeOK
  <1> QED BY <1>4, <1>5, <1>7, <1>8, MovingStep

\* A failed insert returns the event to the outbox.
LEMMA RetryOutboxInv ==
  ASSUME Inv, NEW w \in Workers, RetryOutbox(w)
  PROVE  Inv'
  <1>0. TypeOK /\ DispatchInv(w) /\ pc[w] = "dispatch"
    BY DEF Inv, RetryOutbox
  <1>1. PICK e \in batch[w] : events' = IF events[e].state = "completed" THEN events
                                        ELSE [events EXCEPT ![e].claim = "free", ![e].due = FALSE]
    BY DEF RetryOutbox
  <1>2. /\ UNCHANGED <<hooks, deliveries, current, requests, accepted, owed>>
        /\ pc' = [pc EXCEPT ![w] = "deliveries"] /\ batch' = [batch EXCEPT ![w] = {}]
        /\ faults < MaxFaults /\ faults' = faults + 1
    BY DEF RetryOutbox, ghostVars, Goto
  <1>3. e \in Events /\ events[e] \in Event
    BY <1>0 DEF DispatchInv, TypeOK
  <1>4. /\ events' \in [Events -> Event]
        /\ \A f \in Events : events'[f].state = events[f].state /\ events'[f].type = events[f].type
    <2>1. CASE events' = events
      BY <1>0, <2>1 DEF TypeOK
    <2>2. CASE events' = [events EXCEPT ![e] = [events[e] EXCEPT !.claim = "free", !.due = FALSE]]
      BY <1>0, <1>3, <2>2, EventType DEF TypeOK
    <2>3. [events EXCEPT ![e].claim = "free", ![e].due = FALSE]
            = [events EXCEPT ![e] = [events[e] EXCEPT !.claim = "free", !.due = FALSE]]
      BY <1>0, <1>3 DEF TypeOK
    <2> QED BY <1>1, <2>1, <2>2, <2>3
  <1>5. Forward /\ OwedInv' /\ FreshInv' /\ NoLostEvent' /\ HistoryTruthful'
    BY <1>2, <1>4, RowsKeep
  <1>6. TypeOK'
    <2>1. pc' \in [Workers -> Steps] /\ faults' \in 0..MaxFaults
      BY <1>0, <1>2, LimitAssumption DEF TypeOK, Steps
    <2>2. batch' \in [Workers -> (SUBSET Events) \cup (SUBSET Claimed)]
      BY <1>0, <1>2 DEF TypeOK
    <2> QED BY <1>0, <1>2, <1>4, <2>1, <2>2 DEF TypeOK
  <1>7. DispatchInv(w)' /\ DeliverInv(w)'
    <2>1. pc'[w] = "deliveries" /\ batch'[w] = {}
      BY <1>0, <1>2 DEF TypeOK
    <2> QED BY <2>1 DEF DispatchInv, DeliverInv
  <1>8. \A v \in Workers \ {w} : pc'[v] = pc[v] /\ batch'[v] = batch[v] /\ current'[v] = current[v]
    BY <1>0, <1>2 DEF TypeOK
  <1> QED BY <1>5, <1>6, <1>7, <1>8, MovingStep

\* CompleteOutboxEvent comes after the deliveries of the event.
LEMMA CompleteEventInv ==
  ASSUME Inv, NEW w \in Workers, CompleteOutboxEvent(w)
  PROVE  Inv'
  <1>0. /\ TypeOK /\ OwedInv /\ FreshInv /\ NoLostEvent /\ HistoryTruthful
        /\ DispatchInv(w) /\ pc[w] = "completeEvent"
    BY DEF Inv, CompleteOutboxEvent
  <1> DEFINE e == current[w]
             step == IF batch[w] = {} THEN "deliveries" ELSE "dispatch"
  <1>1. /\ UNCHANGED <<hooks, deliveries, batch, faults, requests, accepted, owed>>
        /\ pc' = [pc EXCEPT ![w] = step] /\ current' = [current EXCEPT ![w] = None]
        /\ events' = [events EXCEPT ![e].state = "completed", ![e].claim = "free"]
    BY DEF CompleteOutboxEvent, ghostVars, Goto
  <1>2. e \in Events /\ events[e] \in Event /\ Dispatched(e) /\ batch[w] \in SUBSET Events
    BY <1>0 DEF DispatchInv, TypeOK
  <1> HIDE DEF e
  <1>3. events' = [events EXCEPT ![e] = [events[e] EXCEPT !.state = "completed", !.claim = "free"]]
    BY <1>0, <1>1, <1>2 DEF TypeOK
  <1>4. /\ events' \in [Events -> Event] /\ \A f \in Events : events'[f].type = events[f].type
        /\ events'[e].state = "completed" /\ \A f \in Events \ {e} : events'[f] = events[f]
    BY <1>0, <1>2, <1>3, EventType DEF TypeOK
  <1>5. TypeOK'
    <2>1. pc' \in [Workers -> Steps]
      BY <1>0, <1>1 DEF TypeOK, Steps
    <2>2. current' \in [Workers -> Events \cup Result \cup {None}]
      BY <1>0, <1>1 DEF TypeOK
    <2> QED BY <1>0, <1>1, <1>4, <2>1, <2>2 DEF TypeOK
  <1>6. Forward
    <2>1. \A f \in Events : events[f].state # "absent" => events'[f].state # "absent"
      BY <1>4
    <2> QED BY <1>0, <1>1, <2>1 DEF Forward, TypeOK, Delivery
  <1>7. \A p \in owed : p[2] \in Events
    BY <1>0, OwedKeys
  <1>8. OwedInv'
    BY <1>0, <1>1, <1>4, <1>7 DEF OwedInv
  <1>9. NoLostEvent'
    BY <1>0, <1>1, <1>2, <1>4, <1>7 DEF NoLostEvent, Dispatched
  <1>10. FreshInv' /\ HistoryTruthful'
    BY <1>0, <1>1 DEF FreshInv, HistoryTruthful
  <1>11. DispatchInv(w)' /\ DeliverInv(w)'
    <2>1. pc'[w] = step /\ batch'[w] = batch[w]
      BY <1>0, <1>1 DEF TypeOK
    <2>2. \A f \in batch[w] : events'[f].state # "absent"
      BY <1>0, <1>4 DEF DispatchInv
    <2> QED BY <1>2, <2>1, <2>2 DEF DispatchInv, DeliverInv
  <1>12. \A v \in Workers \ {w} : pc'[v] = pc[v] /\ batch'[v] = batch[v] /\ current'[v] = current[v]
    BY <1>0, <1>1 DEF TypeOK
  <1> QED BY <1>5, <1>6, <1>8, <1>9, <1>10, <1>11, <1>12, MovingStep

\* What ClaimWebhookDeliveries does to one row.
LEMMA ClaimRow ==
  ASSUME NEW x \in Delivery, NEW y, y = [x EXCEPT !.claim = "held", !.attempts = x.attempts + 1]
  PROVE  /\ y \in Delivery /\ y.attempts = x.attempts + 1 /\ x.attempts \in Nat
         /\ y.queued = x.queued /\ y.delivered = x.delivered /\ y.failed = x.failed
  <1>1. x.attempts \in Nat /\ x.attempts + 1 \in Nat
    BY DEF Delivery
  <1> DEFINE n == x.attempts + 1
  <1>2. y = [x EXCEPT !.claim = "held", !.attempts = n] /\ n \in Nat
    BY <1>1
  <1> HIDE DEF n
  <1>3. /\ y \in Delivery /\ y.attempts = n
        /\ y.queued = x.queued /\ y.delivered = x.delivered /\ y.failed = x.failed
    BY <1>2 DEF Delivery, Claims
  <1> QED BY <1>1, <1>3 DEF n

\* ClaimWebhookDeliveries numbers the attempts it hands out.
LEMMA ClaimDeliveriesInv ==
  ASSUME Inv, NEW w \in Workers, ClaimWebhookDeliveries(w)
  PROVE  Inv'
  <1>0. /\ TypeOK /\ OwedInv /\ FreshInv /\ NoLostEvent /\ HistoryTruthful
    BY DEF Inv
  <1>1. PICK claimed \in Batches(ClaimableDeliveries) :
          /\ deliveries' = [k \in Keys |->
                              IF k \in claimed
                              THEN [deliveries[k] EXCEPT !.claim = "held", !.attempts = deliveries[k].attempts + 1]
                              ELSE deliveries[k]]
          /\ batch' = [batch EXCEPT ![w] = {[key |-> k, attempts |-> deliveries[k].attempts + 1] : k \in claimed}]
          /\ Goto(w, IF claimed = {} THEN "outbox" ELSE "send")
    BY DEF ClaimWebhookDeliveries
  <1> DEFINE step == IF claimed = {} THEN "outbox" ELSE "send"
             items == {[key |-> k, attempts |-> deliveries[k].attempts + 1] : k \in claimed}
  <1>2. UNCHANGED <<hooks, events, current, faults, requests, accepted, owed>> /\ pc' = [pc EXCEPT ![w] = step]
    BY <1>1 DEF ClaimWebhookDeliveries, ghostVars, Goto
  <1>3. /\ claimed \in SUBSET Keys
        /\ \A k \in claimed : deliveries[k].queued /\ ~Settled(deliveries[k])
    <2>1. claimed \in SUBSET ClaimableDeliveries
      BY <1>1, BatchesSubset
    <2> QED BY <2>1 DEF ClaimableDeliveries
  <1>4. \A k \in Keys : deliveries[k] \in Delivery
    BY <1>0 DEF TypeOK
  <1>5. \A k \in Keys : /\ deliveries'[k] \in Delivery
                        /\ deliveries'[k].attempts = deliveries[k].attempts + (IF k \in claimed THEN 1 ELSE 0)
                        /\ deliveries[k].attempts \in Nat
                        /\ deliveries'[k].queued = deliveries[k].queued
                        /\ deliveries'[k].delivered = deliveries[k].delivered
                        /\ deliveries'[k].failed = deliveries[k].failed
    <2> TAKE k \in Keys
    <2>0. deliveries[k] \in Delivery /\ deliveries[k].attempts \in Nat
      BY <1>4 DEF Delivery
    <2>1. CASE k \in claimed
      <3>1. deliveries'[k] = [deliveries[k] EXCEPT !.claim = "held", !.attempts = deliveries[k].attempts + 1]
        BY <1>1, <2>1
      <3> QED BY <2>0, <2>1, <3>1, ClaimRow
    <2>2. CASE k \notin claimed
      <3>1. deliveries'[k] = deliveries[k]
        BY <1>1, <2>2
      <3> QED BY <2>0, <2>2, <3>1
    <2> QED BY <2>1, <2>2
  <1>6. deliveries' \in [Keys -> Delivery]
    BY <1>1, <1>5
  <1>7. items \in SUBSET Claimed
    BY <1>3, <1>5 DEF Claimed
  <1>8. TypeOK'
    <2>1. pc' \in [Workers -> Steps]
      BY <1>0, <1>2 DEF TypeOK, Steps
    <2>2. batch' \in [Workers -> (SUBSET Events) \cup (SUBSET Claimed)]
      BY <1>0, <1>1, <1>7 DEF TypeOK
    <2> QED BY <1>0, <1>2, <1>6, <2>1, <2>2 DEF TypeOK
  <1>9. Forward
    BY <1>2, <1>5 DEF Forward
  <1>10. FreshInv' /\ HistoryTruthful'
    <2>1. FreshInv'
      BY <1>0, <1>3, <1>5 DEF FreshInv
    <2>2. HistoryTruthful'
      BY <1>0, <1>2, <1>5, LimitAssumption DEF HistoryTruthful
    <2> QED BY <2>1, <2>2
  <1>11. OwedInv' /\ NoLostEvent'
    <2>1. \A p \in owed : p \in Keys
      BY <1>0, OwedKeys
    <2> QED BY <1>0, <1>2, <1>5, <2>1 DEF OwedInv, NoLostEvent
  <1>12. DispatchInv(w)' /\ DeliverInv(w)'
    <2>1. pc'[w] = step /\ batch'[w] = items
      BY <1>0, <1>1, <1>2 DEF TypeOK
    <2>2. claimed = {} => items = {}
      OBVIOUS
    <2>3. ASSUME NEW i \in items PROVE Numbered(i)'
      <3>1. PICK k \in claimed : i = [key |-> k, attempts |-> deliveries[k].attempts + 1]
        OBVIOUS
      <3>2. i.key = k /\ i.attempts = deliveries[k].attempts + 1
        BY <3>1
      <3> QED BY <1>3, <1>5, <3>2 DEF Numbered
    <2>4. \A i, j \in items : i.key = j.key => i = j
      OBVIOUS
    <2> HIDE DEF items
    <2> QED BY <1>7, <2>1, <2>2, <2>3, <2>4 DEF DispatchInv, DeliverInv
  <1>13. \A v \in Workers \ {w} : pc'[v] = pc[v] /\ batch'[v] = batch[v] /\ current'[v] = current[v]
    BY <1>0, <1>1, <1>2 DEF TypeOK
  <1> QED BY <1>8, <1>9, <1>10, <1>11, <1>12, <1>13, MovingStep

\* A request is sent for a numbered claim, and an accepted one is remembered.
LEMMA SendInv ==
  ASSUME Inv, NEW w \in Workers, NEW ok \in BOOLEAN, Send(w, ok)
  PROVE  Inv'
  <1>0. TypeOK /\ DeliverInv(w) /\ pc[w] = "send"
    BY DEF Inv, Send
  <1>1. PICK item \in batch[w] :
          /\ current' = [current EXCEPT ![w] = [key |-> item.key, attempts |-> item.attempts, ok |-> ok]]
          /\ batch' = [batch EXCEPT ![w] = batch[w] \ {item}]
          /\ requests' = [requests EXCEPT ![item.key] = requests[item.key] + 1]
          /\ accepted' = IF ok THEN accepted \cup {item.key} ELSE accepted
    BY DEF Send
  <1> DEFINE result == [key |-> item.key, attempts |-> item.attempts, ok |-> ok]
  <1>2. UNCHANGED <<hooks, events, deliveries, faults, owed>> /\ pc' = [pc EXCEPT ![w] = "record"]
    BY DEF Send, rowVars, Goto
  <1>3. batch[w] \in SUBSET Claimed /\ item.key \in Keys /\ Numbered(item)
    BY <1>0 DEF DeliverInv, Numbered
  <1>4. result \in Result /\ result.key = item.key /\ result.attempts = item.attempts /\ result.ok = ok
    BY <1>3 DEF Numbered, Result
  <1> HIDE DEF result
  <1>5. TypeOK'
    <2>1. pc' \in [Workers -> Steps]
      BY <1>0, <1>2 DEF TypeOK, Steps
    <2>2. batch' \in [Workers -> (SUBSET Events) \cup (SUBSET Claimed)]
      BY <1>0, <1>1, <1>3 DEF TypeOK
    <2>3. current' \in [Workers -> Events \cup Result \cup {None}]
      BY <1>0, <1>1, <1>4 DEF TypeOK, result
    <2>4. requests' \in [Keys -> Nat] /\ accepted' \subseteq Keys
      BY <1>0, <1>1, <1>3 DEF TypeOK
    <2> QED BY <1>0, <1>2, <2>1, <2>2, <2>3, <2>4 DEF TypeOK
  <1>6. Forward /\ OwedInv' /\ FreshInv' /\ NoLostEvent' /\ HistoryTruthful'
    <2>1. accepted \subseteq accepted'
      BY <1>1
    <2> QED BY <1>2, <2>1, RowsKeep
  <1>7. DispatchInv(w)' /\ DeliverInv(w)'
    <2>1. pc'[w] = "record" /\ batch'[w] = batch[w] \ {item} /\ current'[w] = result
      BY <1>0, <1>1, <1>2 DEF TypeOK, result
    <2>2. \A c : Numbered(c) => Numbered(c)'
      BY <1>2 DEF Numbered
    <2>3. Numbered(result)'
      BY <1>2, <1>3, <1>4 DEF Numbered
    <2>4. result.ok => result.key \in accepted'
      BY <1>1, <1>4
    <2> QED BY <1>0, <1>3, <1>4, <2>1, <2>2, <2>3, <2>4 DEF DispatchInv, DeliverInv
  <1>8. \A v \in Workers \ {w} : pc'[v] = pc[v] /\ batch'[v] = batch[v] /\ current'[v] = current[v]
    BY <1>0, <1>1, <1>2 DEF TypeOK
  <1> QED BY <1>5, <1>6, <1>7, <1>8, MovingStep

\* What the three statements that record an outcome do to the row.
LEMMA RecordedRow ==
  ASSUME NEW x \in Delivery, NEW result \in Result
  PROVE  /\ Recorded(x, result) \in Delivery
         /\ Recorded(x, result).queued = x.queued /\ Recorded(x, result).attempts = x.attempts
         /\ Recorded(x, result).delivered <=> x.delivered \/ result.ok
         /\ Recorded(x, result).failed <=> x.failed \/ (~result.ok /\ result.attempts >= MaxAttempts)
  <1>0. result.ok \in BOOLEAN /\ result.attempts \in Nat /\ MaxAttempts \in Nat
    BY LimitAssumption DEF Result
  <1>1. CASE result.ok
    <2>1. Recorded(x, result) = [x EXCEPT !.delivered = TRUE, !.claim = "free"]
      BY <1>1 DEF Recorded
    <2> QED BY <1>1, <2>1 DEF Delivery, Claims
  <1>2. CASE ~result.ok /\ result.attempts >= MaxAttempts
    <2>1. Recorded(x, result) = [x EXCEPT !.failed = TRUE, !.claim = "free"]
      <3>1. ~(result.attempts < MaxAttempts)
        BY <1>0, <1>2
      <3> QED BY <1>2, <3>1 DEF Recorded
    <2> QED BY <1>2, <2>1 DEF Delivery, Claims
  <1>3. CASE ~result.ok /\ result.attempts < MaxAttempts
    <2>1. Recorded(x, result) = [x EXCEPT !.due = FALSE, !.claim = "free"]
      BY <1>0, <1>3 DEF Recorded
    <2>2. ~(result.attempts >= MaxAttempts)
      BY <1>0, <1>3
    <2> QED BY <1>3, <2>1, <2>2 DEF Delivery, Claims
  <1> QED BY <1>0, <1>1, <1>2, <1>3

\* Recording an outcome changes one row.
LEMMA RecordRows ==
  ASSUME Inv, NEW w \in Workers, Record(w)
  PROVE  /\ current[w] \in Result /\ current[w].key \in Keys /\ Numbered(current[w])
         /\ current[w].ok => current[w].key \in accepted
         /\ deliveries' \in [Keys -> Delivery]
         /\ deliveries'[current[w].key] = Recorded(deliveries[current[w].key], current[w])
         /\ \A k \in Keys \ {current[w].key} : deliveries'[k] = deliveries[k]
  <1>0. TypeOK /\ DeliverInv(w) /\ pc[w] = "record"
    BY DEF Inv, Record
  <1>1. /\ current[w] \in Result /\ current[w].key \in Keys /\ Numbered(current[w])
        /\ current[w].ok => current[w].key \in accepted
    BY <1>0 DEF DeliverInv, Numbered
  <1>2. deliveries[current[w].key] \in Delivery
    BY <1>0, <1>1 DEF TypeOK
  <1>3. Recorded(deliveries[current[w].key], current[w]) \in Delivery
    BY <1>1, <1>2, RecordedRow
  <1>4. deliveries' = [deliveries EXCEPT ![current[w].key] = Recorded(deliveries[current[w].key], current[w])]
    BY DEF Record
  <1> QED BY <1>0, <1>1, <1>3, <1>4 DEF TypeOK

\* An outcome is recorded for what was answered or tried often enough.
LEMMA RecordInv ==
  ASSUME Inv, NEW w \in Workers, Record(w)
  PROVE  Inv'
  <1>0. /\ TypeOK /\ OwedInv /\ FreshInv /\ NoLostEvent /\ HistoryTruthful
        /\ DeliverInv(w) /\ pc[w] = "record"
    BY DEF Inv, Record
  <1> DEFINE result == current[w]
             key == current[w].key
             step == IF batch[w] = {} THEN "outbox" ELSE "send"
  <1>1. /\ UNCHANGED <<hooks, events, batch, faults, requests, accepted, owed>>
        /\ pc' = [pc EXCEPT ![w] = step] /\ current' = [current EXCEPT ![w] = None]
    BY DEF Record, ghostVars, Goto
  <1>2. /\ result \in Result /\ key \in Keys /\ Numbered(result) /\ (result.ok => key \in accepted)
        /\ deliveries' \in [Keys -> Delivery] /\ deliveries'[key] = Recorded(deliveries[key], result)
        /\ \A k \in Keys \ {key} : deliveries'[k] = deliveries[k]
    BY RecordRows
  <1>3. \A k \in Keys : deliveries[k] \in Delivery /\ deliveries[k].attempts \in Nat
    BY <1>0 DEF TypeOK, Delivery
  <1>4. result.key = key /\ deliveries[key].queued /\ result.attempts <= deliveries[key].attempts /\ result.attempts \in Nat
    BY <1>2 DEF Numbered
  <1> HIDE DEF result, key
  <1>5. /\ deliveries'[key].queued = deliveries[key].queued /\ deliveries'[key].attempts = deliveries[key].attempts
        /\ deliveries'[key].delivered <=> deliveries[key].delivered \/ result.ok
        /\ deliveries'[key].failed <=> deliveries[key].failed \/ (~result.ok /\ result.attempts >= MaxAttempts)
    BY <1>2, <1>3, RecordedRow
  <1>6. \A k \in Keys : deliveries'[k].queued = deliveries[k].queued /\ deliveries'[k].attempts = deliveries[k].attempts
    BY <1>2, <1>5
  <1>7. TypeOK'
    <2>1. pc' \in [Workers -> Steps]
      BY <1>0, <1>1 DEF TypeOK, Steps
    <2>2. current' \in [Workers -> Events \cup Result \cup {None}]
      BY <1>0, <1>1 DEF TypeOK
    <2> QED BY <1>0, <1>1, <1>2, <2>1, <2>2 DEF TypeOK
  <1>8. Forward
    BY <1>1, <1>3, <1>6 DEF Forward
  <1>9. OwedInv' /\ NoLostEvent'
    <2>1. \A p \in owed : p \in Keys
      BY <1>0, OwedKeys
    <2> QED BY <1>0, <1>1, <1>6, <2>1 DEF OwedInv, NoLostEvent
  <1>10. FreshInv'
    BY <1>0, <1>2, <1>4, <1>5 DEF FreshInv
  <1>11. HistoryTruthful'
    <2> SUFFICES ASSUME NEW k \in Keys
                 PROVE  /\ deliveries'[k].delivered => k \in accepted
                        /\ deliveries'[k].failed => deliveries'[k].attempts >= MaxAttempts
      BY <1>1 DEF HistoryTruthful
    <2>1. CASE k = key
      BY <1>0, <1>2, <1>3, <1>4, <1>5, <2>1, LimitAssumption DEF HistoryTruthful
    <2>2. CASE k # key
      BY <1>0, <1>2, <2>2 DEF HistoryTruthful
    <2> QED BY <2>1, <2>2
  <1>12. DispatchInv(w)' /\ DeliverInv(w)'
    <2>1. pc'[w] = step /\ batch'[w] = batch[w]
      BY <1>0, <1>1 DEF TypeOK
    <2>2. \A i \in batch[w] : Numbered(i) => Numbered(i)'
      BY <1>6 DEF Numbered
    <2> QED BY <1>0, <2>1, <2>2 DEF DispatchInv, DeliverInv
  <1>13. \A v \in Workers \ {w} : pc'[v] = pc[v] /\ batch'[v] = batch[v] /\ current'[v] = current[v]
    BY <1>0, <1>1 DEF TypeOK
  <1> QED BY <1>7, <1>8, <1>9, <1>10, <1>11, <1>12, <1>13, MovingStep

\* A worker that stops leaves its rows as they are.
LEMMA StopInv ==
  ASSUME Inv, NEW w \in Workers, Stop(w)
  PROVE  Inv'
  <1>0. TypeOK
    BY DEF Inv
  <1>1. /\ UNCHANGED <<hooks, events, deliveries, requests, accepted, owed>>
        /\ pc' = [pc EXCEPT ![w] = "outbox"] /\ batch' = [batch EXCEPT ![w] = {}]
        /\ current' = [current EXCEPT ![w] = None] /\ faults < MaxFaults /\ faults' = faults + 1
    BY DEF Stop, rowVars, ghostVars, Goto
  <1>2. TypeOK'
    <2>1. pc' \in [Workers -> Steps] /\ faults' \in 0..MaxFaults
      BY <1>0, <1>1, LimitAssumption DEF TypeOK, Steps
    <2>2. batch' \in [Workers -> (SUBSET Events) \cup (SUBSET Claimed)]
      BY <1>0, <1>1 DEF TypeOK
    <2>3. current' \in [Workers -> Events \cup Result \cup {None}]
      BY <1>0, <1>1 DEF TypeOK
    <2> QED BY <1>0, <1>1, <2>1, <2>2, <2>3 DEF TypeOK
  <1>3. Forward /\ OwedInv' /\ FreshInv' /\ NoLostEvent' /\ HistoryTruthful'
    BY <1>1, RowsKeep
  <1>4. DispatchInv(w)' /\ DeliverInv(w)'
    <2>1. pc'[w] = "outbox" /\ batch'[w] = {}
      BY <1>0, <1>1 DEF TypeOK
    <2> QED BY <2>1 DEF DispatchInv, DeliverInv
  <1>5. \A v \in Workers \ {w} : pc'[v] = pc[v] /\ batch'[v] = batch[v] /\ current'[v] = current[v]
    BY <1>0, <1>1 DEF TypeOK
  <1> QED BY <1>2, <1>3, <1>4, <1>5, MovingStep

\* The initial state satisfies the invariant.
LEMMA InitInv == Init => Inv
  <1> SUFFICES ASSUME Init PROVE Inv
    OBVIOUS
  <1>1. TypeOK
    BY LimitAssumption, FreshType DEF Init, TypeOK, Hook, Event, Claims, Steps
  <1>2. OwedInv /\ NoLostEvent
    BY DEF Init, OwedInv, NoLostEvent
  <1>3. FreshInv /\ HistoryTruthful
    BY DEF Init, FreshInv, HistoryTruthful, Fresh
  <1>4. \A w \in Workers : DispatchInv(w) /\ DeliverInv(w)
    BY DEF Init, DispatchInv, DeliverInv
  <1> QED BY <1>1, <1>2, <1>3, <1>4 DEF Inv

\* Every step keeps the invariant.
LEMMA NextInv == Inv /\ [Next]_vars => Inv'
  <1> SUFFICES ASSUME Inv, [Next]_vars PROVE Inv'
    OBVIOUS
  <1>1. CASE UNCHANGED vars
    BY <1>1 DEF vars, Inv, TypeOK, OwedInv, FreshInv, NoLostEvent, HistoryTruthful, DispatchInv, DeliverInv,
                Dispatched, Numbered
  <1>2. ASSUME NEW w \in Workers, WorkerStep(w) PROVE Inv'
    BY <1>2, ClaimEventsInv, CreateDeliveriesInv, CompleteEventInv, ClaimDeliveriesInv, SendInv, RecordInv
       DEF WorkerStep
  <1> QED BY <1>1, <1>2, ServiceInv, RetryOutboxInv, StopInv, ClockInv DEF Next

\* Every variable keeps its type.
THEOREM TypeCorrect == Spec => []TypeOK
  <1>1. Inv => TypeOK
    BY DEF Inv
  <1> QED BY <1>1, InitInv, NextInv, PTL DEF Spec

\* No event is lost between the outbox and the deliveries, whatever stopped or
\* was claimed twice: an event is completed only after its deliveries were
\* inserted, and the webhooks that are owed it subscribed all along.
THEOREM EventsDispatched == Spec => []NoLostEvent
  <1>1. Inv => NoLostEvent
    BY DEF Inv
  <1> QED BY <1>1, InitInv, NextInv, PTL DEF Spec

\* A delivery shown as delivered was answered with 2xx, and one shown as failed
\* was tried maxAttempts times, although a statement that records an outcome
\* does not ask who holds the claim.
THEOREM HistoryCorrect == Spec => []HistoryTruthful
  <1>1. Inv => HistoryTruthful
    BY DEF Inv
  <1> QED BY <1>1, InitInv, NextInv, PTL DEF Spec

-----------------------------------------------------------------------------
\* A settled delivery.

\* A settled delivery stays settled, and its attempts are never counted again:
\* ClaimWebhookDeliveries passes it by and late outcomes only add to it.
THEOREM SettledOnce == Spec => SettledFinal
  <1> DEFINE Final(k) == Settled(deliveries[k]) =>
                           /\ deliveries[k].delivered => deliveries'[k].delivered
                           /\ Settled(deliveries'[k]) /\ deliveries'[k].attempts = deliveries[k].attempts
  <1>1. ASSUME Inv, Next, NEW k \in Keys PROVE Final(k)
    <2>0. TypeOK /\ FreshInv /\ (Settled(deliveries[k]) => deliveries[k].queued)
      BY <1>1 DEF Inv, FreshInv, Settled
    <2>1. CASE UNCHANGED deliveries
      BY <2>1
    <2>2. ASSUME NEW w \in Workers, CreateDeliveries(w) PROVE Final(k)
      <3>1. PICK e \in batch[w] : deliveries' = [j \in Keys |-> IF j \in NewDeliveries(e) THEN Fresh ELSE deliveries[j]]
        BY <2>2 DEF CreateDeliveries
      <3> QED BY <2>0, <3>1 DEF NewDeliveries
    <2>3. ASSUME NEW j \in Keys, NEW n \in Redeliveries, Redeliver(j, n) PROVE Final(k)
      <3>1. deliveries' = [deliveries EXCEPT ![<<j[1], n>>] = Fresh] /\ ~deliveries[<<j[1], n>>].queued
        BY <2>3 DEF Redeliver, Keys
      <3>2. CASE k = <<j[1], n>>
        BY <2>0, <3>1, <3>2
      <3>3. CASE k # <<j[1], n>>
        BY <2>0, <3>1, <3>3 DEF TypeOK
      <3> QED BY <3>2, <3>3
    <2>4. ASSUME NEW w \in Workers, ClaimWebhookDeliveries(w) PROVE Final(k)
      <3>1. PICK claimed \in Batches(ClaimableDeliveries) :
              deliveries' = [j \in Keys |->
                               IF j \in claimed
                               THEN [deliveries[j] EXCEPT !.claim = "held", !.attempts = deliveries[j].attempts + 1]
                               ELSE deliveries[j]]
        BY <2>4 DEF ClaimWebhookDeliveries
      <3>2. claimed \in SUBSET ClaimableDeliveries
        BY BatchesSubset
      <3>3. Settled(deliveries[k]) => k \notin claimed
        BY <3>2 DEF ClaimableDeliveries
      <3> QED BY <3>1, <3>3
    <2>5. ASSUME NEW w \in Workers, Record(w) PROVE Final(k)
      <3> DEFINE key == current[w].key
      <3>1. /\ current[w] \in Result /\ key \in Keys /\ deliveries'[key] = Recorded(deliveries[key], current[w])
            /\ \A j \in Keys \ {key} : deliveries'[j] = deliveries[j]
        BY <1>1, <2>5, RecordRows
      <3>2. deliveries[key] \in Delivery
        BY <2>0, <3>1 DEF TypeOK
      <3>3. CASE k = key
        <4>1. /\ deliveries'[k].attempts = deliveries[k].attempts
              /\ deliveries'[k].delivered <=> deliveries[k].delivered \/ current[w].ok
              /\ deliveries[k].failed => deliveries'[k].failed
          BY <3>1, <3>2, <3>3, RecordedRow
        <4> QED BY <4>1 DEF Settled
      <3>4. CASE k # key
        BY <3>1, <3>4
      <3> QED BY <3>3, <3>4
    <2>6. ASSUME NEW j \in Keys, DeliveryLeaseExpires(j) \/ DeliveryDue(j) PROVE Final(k)
      <3>1. deliveries[j] \in Delivery
        BY <2>0 DEF TypeOK
      <3>2. CASE deliveries' = [deliveries EXCEPT ![j] = [deliveries[j] EXCEPT !.claim = "stale"]]
        BY <2>0, <3>1, <3>2, DeliveryType DEF TypeOK, Settled
      <3>3. CASE deliveries' = [deliveries EXCEPT ![j] = [deliveries[j] EXCEPT !.due = TRUE]]
        BY <2>0, <3>1, <3>3, DeliveryType DEF TypeOK, Settled
      <3> QED BY <2>6, <3>2, <3>3 DEF DeliveryLeaseExpires, DeliveryDue
    <2>7. ASSUME ServiceNext PROVE Final(k)
      BY <2>1, <2>3, <2>7 DEF ServiceNext, CreateHook, UpdateHook, DeleteHook, Emit
    <2>8. ASSUME NEW w \in Workers, WorkerStep(w) \/ RetryOutbox(w) \/ Stop(w) PROVE Final(k)
      BY <2>1, <2>2, <2>4, <2>5, <2>8
         DEF WorkerStep, ClaimOutboxEvents, CompleteOutboxEvent, Send, RetryOutbox, Stop, rowVars
    <2>9. ASSUME Clock PROVE Final(k)
      BY <2>1, <2>6, <2>9 DEF Clock, EventLeaseExpires, EventDue
    <2> QED BY <1>1, <2>7, <2>8, <2>9 DEF Next
  <1>2. Inv /\ [Next]_vars => [\A k \in Keys : Final(k)]_vars
    BY <1>1
  <1> QED BY <1>2, InitInv, NextInv, PTL DEF Spec, SettledFinal

-----------------------------------------------------------------------------
\* Counting.

\* Sets of workers are finite.
LEMMA WorkerSets ==
  ASSUME NEW S \in SUBSET Workers, NEW w \in Workers
  PROVE  /\ Cardinality(S) \in Nat /\ Cardinality(Workers) \in Nat /\ Cardinality(S) <= Cardinality(Workers)
         /\ w \notin S => Cardinality(S \cup {w}) = Cardinality(S) + 1
         /\ w \in S => Cardinality(S \ {w}) + 1 = Cardinality(S)
         /\ Cardinality(S \ {w}) \in Nat /\ Cardinality(S) <= Cardinality(S \ {w}) + 1
         /\ Cardinality(S \ {w}) <= Cardinality(S)
  <1>1. IsFiniteSet(S) /\ IsFiniteSet(Workers) /\ IsFiniteSet(S \ {w}) /\ Cardinality(S) <= Cardinality(Workers)
    BY LimitAssumption, FS_Subset, FS_RemoveElement
  <1>2. Cardinality(S) \in Nat /\ Cardinality(Workers) \in Nat /\ Cardinality(S \ {w}) \in Nat
    BY <1>1, FS_CardinalityType
  <1>3. w \notin S => Cardinality(S \cup {w}) = Cardinality(S) + 1
    BY <1>1, FS_AddElement
  <1>4. Cardinality(S \ {w}) = IF w \in S THEN Cardinality(S) - 1 ELSE Cardinality(S)
    BY <1>1, FS_RemoveElement
  <1> QED BY <1>1, <1>2, <1>3, <1>4

\* What the counters of a delivery are made of.
LEMMA CountTypes ==
  ASSUME TypeOK, NEW k \in Keys
  PROVE  /\ requests[k] \in Nat /\ deliveries[k].attempts \in Nat /\ faults \in Nat /\ MaxAttempts \in Nat \ {0}
         /\ Unsent(k) \in SUBSET Workers /\ Late(k) \in SUBSET Workers
  BY LimitAssumption DEF TypeOK, Delivery, Unsent, Late

\* More faults allow more attempts.
LEMMA BoundGrows ==
  ASSUME NEW a \in Nat, NEW m \in Nat, NEW c \in Nat, NEW f \in Nat, NEW g \in Nat, f <= g, a + 1 <= m + c + f
  PROVE  a + 1 <= m + c + g
  OBVIOUS

\* A step that keeps the claims, the attempts and the requests keeps the count.
LEMMA CountSame ==
  ASSUME TypeOK, TypeOK', NEW k \in Keys, Counted(k), Unsent(k)' = Unsent(k), Late(k)' = Late(k),
         requests'[k] = requests[k], deliveries'[k].attempts = deliveries[k].attempts,
         Settled(deliveries'[k]) <=> Settled(deliveries[k]), faults <= faults'
  PROVE  Counted(k)'
  <1>1. faults \in Nat /\ faults' \in Nat /\ deliveries[k].attempts \in Nat /\ MaxAttempts \in Nat
    BY LimitAssumption DEF TypeOK, Delivery
  <1>2. Cardinality(Late(k)) \in Nat /\ Cardinality(Workers) \in Nat
    <2>1. IsFiniteSet(Late(k)) /\ IsFiniteSet(Workers)
      BY LimitAssumption, FS_Subset DEF Late
    <2> QED BY <2>1, FS_CardinalityType
  <1>3. Cardinality(Unsent(k)') = Cardinality(Unsent(k)) /\ Cardinality(Late(k)') = Cardinality(Late(k))
    OBVIOUS
  <1>4. requests'[k] + Cardinality(Unsent(k)') <= deliveries'[k].attempts
    BY <1>3 DEF Counted
  <1>5. ASSUME NEW c \in Nat, deliveries[k].attempts + 1 <= MaxAttempts + c + faults
        PROVE  deliveries[k].attempts + 1 <= MaxAttempts + c + faults'
    BY <1>1, <1>5, BoundGrows
  <1>6. /\ ~Settled(deliveries'[k]) => deliveries[k].attempts + 1 <= MaxAttempts + Cardinality(Late(k)) + faults'
        /\ Settled(deliveries'[k]) => deliveries[k].attempts + 1 <= MaxAttempts + Cardinality(Workers) + faults'
    BY <1>2, <1>5 DEF Counted
  <1> QED BY <1>3, <1>4, <1>6 DEF Counted

\* A worker that does not move keeps what it holds.
LEMMA HoldsSame ==
  ASSUME NEW v \in Workers, NEW k, pc'[v] = pc[v], batch'[v] = batch[v], current'[v] = current[v]
  PROVE  (HoldsUnsent(v, k)' <=> HoldsUnsent(v, k)) /\ (HoldsLate(v, k)' <=> HoldsLate(v, k))
  BY DEF HoldsUnsent, HoldsLate

\* The sets when only worker w moves.
LEMMA SetsMove ==
  ASSUME NEW w \in Workers, NEW k,
         \A v \in Workers \ {w} : pc'[v] = pc[v] /\ batch'[v] = batch[v] /\ current'[v] = current[v]
  PROVE  /\ Unsent(k)' = IF HoldsUnsent(w, k)' THEN Unsent(k) \cup {w} ELSE Unsent(k) \ {w}
         /\ Late(k)' = IF HoldsLate(w, k)' THEN Late(k) \cup {w} ELSE Late(k) \ {w}
  <1>1. \A v \in Workers \ {w} : (HoldsUnsent(v, k)' <=> HoldsUnsent(v, k)) /\ (HoldsLate(v, k)' <=> HoldsLate(v, k))
    BY HoldsSame
  <1> QED BY <1>1 DEF Unsent, Late

\* A worker that moves and holds what it held changes no set.
LEMMA SetsSame ==
  ASSUME NEW w \in Workers, NEW k,
         \A v \in Workers \ {w} : pc'[v] = pc[v] /\ batch'[v] = batch[v] /\ current'[v] = current[v],
         HoldsUnsent(w, k)' <=> HoldsUnsent(w, k), HoldsLate(w, k)' <=> HoldsLate(w, k)
  PROVE  Unsent(k)' = Unsent(k) /\ Late(k)' = Late(k)
  <1>1. \A v \in Workers : (HoldsUnsent(v, k)' <=> HoldsUnsent(v, k)) /\ (HoldsLate(v, k)' <=> HoldsLate(v, k))
    BY HoldsSame
  <1> QED BY <1>1 DEF Unsent, Late

\* Neither the service nor time counts.
LEMMA QuietCounts ==
  ASSUME Inv, Inv', CountInv, ServiceNext \/ Clock
  PROVE  CountInv'
  <1>0. TypeOK /\ TypeOK' /\ FreshInv
    BY DEF Inv
  <1>1. UNCHANGED <<pc, batch, current, faults, requests>>
    BY DEF ServiceNext, Clock, CreateHook, UpdateHook, DeleteHook, Emit, Redeliver, EventLeaseExpires, EventDue,
           DeliveryLeaseExpires, DeliveryDue, workerVars, ghostVars
  <1>2. ASSUME NEW k \in Keys
        PROVE  /\ deliveries'[k].attempts = deliveries[k].attempts
               /\ Settled(deliveries'[k]) <=> Settled(deliveries[k])
    <2>1. CASE UNCHANGED deliveries
      BY <2>1
    <2>2. ASSUME NEW j \in Keys, NEW n \in Redeliveries, Redeliver(j, n) PROVE <1>2!2
      <3>1. deliveries' = [deliveries EXCEPT ![<<j[1], n>>] = Fresh] /\ ~deliveries[<<j[1], n>>].queued
        BY <2>2 DEF Redeliver, Keys
      <3>2. CASE k = <<j[1], n>>
        BY <1>0, <3>1, <3>2, FreshType DEF TypeOK, FreshInv, Settled
      <3>3. CASE k # <<j[1], n>>
        BY <1>0, <3>1, <3>3 DEF TypeOK
      <3> QED BY <3>2, <3>3
    <2>3. ASSUME NEW j \in Keys, DeliveryLeaseExpires(j) \/ DeliveryDue(j) PROVE <1>2!2
      <3>1. deliveries[j] \in Delivery
        BY <1>0 DEF TypeOK
      <3>2. CASE deliveries' = [deliveries EXCEPT ![j] = [deliveries[j] EXCEPT !.claim = "stale"]]
        BY <1>0, <3>1, <3>2, DeliveryType DEF TypeOK, Settled
      <3>3. CASE deliveries' = [deliveries EXCEPT ![j] = [deliveries[j] EXCEPT !.due = TRUE]]
        BY <1>0, <3>1, <3>3, DeliveryType DEF TypeOK, Settled
      <3> QED BY <2>3, <3>2, <3>3 DEF DeliveryLeaseExpires, DeliveryDue
    <2> QED BY <2>1, <2>2, <2>3 DEF ServiceNext, Clock, CreateHook, UpdateHook, DeleteHook, Emit, EventLeaseExpires, EventDue
  <1>3. ASSUME NEW k \in Keys PROVE Counted(k)'
    <2>1. Unsent(k)' = Unsent(k) /\ Late(k)' = Late(k)
      BY <1>1 DEF Unsent, Late, HoldsUnsent, HoldsLate
    <2>2. requests'[k] = requests[k] /\ faults <= faults' /\ Counted(k)
      BY <1>0, <1>1 DEF TypeOK, CountInv
    <2> QED BY <1>0, <1>2, <2>1, <2>2, CountSame
  <1> QED BY <1>3 DEF CountInv

\* A worker that dispatches holds no claim of a delivery.
LEMMA DispatchCounts ==
  ASSUME Inv, Inv', CountInv, NEW w \in Workers,
         ClaimOutboxEvents(w) \/ CreateDeliveries(w) \/ CompleteOutboxEvent(w) \/ RetryOutbox(w)
  PROVE  CountInv'
  <1>0. TypeOK /\ TypeOK' /\ FreshInv
    BY DEF Inv
  <1>1. /\ pc[w] \notin {"send", "record"} /\ pc'[w] \notin {"send", "record"}
        /\ \A v \in Workers \ {w} : pc'[v] = pc[v] /\ batch'[v] = batch[v] /\ current'[v] = current[v]
        /\ requests' = requests /\ faults <= faults'
    <2>0. pc \in [Workers -> Steps] /\ faults \in Nat /\ faults <= faults /\ faults <= faults + 1
      BY <1>0, LimitAssumption DEF TypeOK
    <2>1. CASE ClaimOutboxEvents(w)
      BY <1>0, <2>0, <2>1 DEF ClaimOutboxEvents, Goto, ghostVars, TypeOK
    <2>2. CASE CreateDeliveries(w)
      BY <1>0, <2>0, <2>2 DEF CreateDeliveries, Goto, ghostVars, TypeOK
    <2>3. CASE CompleteOutboxEvent(w)
      BY <1>0, <2>0, <2>3 DEF CompleteOutboxEvent, Goto, ghostVars, TypeOK
    <2>4. CASE RetryOutbox(w)
      BY <1>0, <2>0, <2>4 DEF RetryOutbox, Goto, ghostVars, TypeOK
    <2> QED BY <2>1, <2>2, <2>3, <2>4
  <1>2. ASSUME NEW k \in Keys
        PROVE  /\ deliveries'[k].attempts = deliveries[k].attempts
               /\ Settled(deliveries'[k]) <=> Settled(deliveries[k])
    <2>1. CASE UNCHANGED deliveries
      BY <2>1
    <2>2. CASE CreateDeliveries(w)
      <3>1. PICK e \in batch[w] : deliveries' = [j \in Keys |-> IF j \in NewDeliveries(e) THEN Fresh ELSE deliveries[j]]
        BY <2>2 DEF CreateDeliveries
      <3> QED BY <1>0, <3>1, FreshType DEF NewDeliveries, FreshInv, Settled
    <2> QED BY <2>1, <2>2 DEF ClaimOutboxEvents, CompleteOutboxEvent, RetryOutbox
  <1>3. ASSUME NEW k \in Keys PROVE Counted(k)'
    <2>1. Unsent(k)' = Unsent(k) /\ Late(k)' = Late(k)
      <3>1. ~HoldsUnsent(w, k) /\ ~HoldsUnsent(w, k)' /\ ~HoldsLate(w, k) /\ ~HoldsLate(w, k)'
        BY <1>1 DEF HoldsUnsent, HoldsLate
      <3> QED BY <1>1, <3>1, SetsSame
    <2>2. requests'[k] = requests[k] /\ Counted(k)
      BY <1>1 DEF CountInv
    <2> QED BY <1>0, <1>1, <1>2, <2>1, <2>2, CountSame
  <1> QED BY <1>3 DEF CountInv

\* A claim is an attempt, and its holder is counted.
LEMMA ClaimCounts ==
  ASSUME Inv, Inv', CountInv, NEW w \in Workers, ClaimWebhookDeliveries(w)
  PROVE  CountInv'
  <1>0. TypeOK /\ TypeOK'
    BY DEF Inv
  <1>1. PICK claimed \in Batches(ClaimableDeliveries) :
          /\ deliveries' = [k \in Keys |->
                              IF k \in claimed
                              THEN [deliveries[k] EXCEPT !.claim = "held", !.attempts = deliveries[k].attempts + 1]
                              ELSE deliveries[k]]
          /\ batch' = [batch EXCEPT ![w] = {[key |-> k, attempts |-> deliveries[k].attempts + 1] : k \in claimed}]
          /\ Goto(w, IF claimed = {} THEN "outbox" ELSE "send")
    BY DEF ClaimWebhookDeliveries
  <1> DEFINE items == {[key |-> k, attempts |-> deliveries[k].attempts + 1] : k \in claimed}
  <1>2. /\ requests' = requests /\ faults' = faults /\ pc[w] = "deliveries"
        /\ \A v \in Workers \ {w} : pc'[v] = pc[v] /\ batch'[v] = batch[v] /\ current'[v] = current[v]
        /\ pc'[w] = (IF claimed = {} THEN "outbox" ELSE "send") /\ batch'[w] = items
    BY <1>0, <1>1 DEF ClaimWebhookDeliveries, ghostVars, Goto, TypeOK
  <1>3. \A k \in claimed : ~Settled(deliveries[k])
    <2>1. claimed \in SUBSET ClaimableDeliveries
      BY BatchesSubset
    <2> QED BY <2>1 DEF ClaimableDeliveries
  <1>4. ASSUME NEW k \in Keys PROVE Counted(k)'
    <2>0. ~HoldsUnsent(w, k) /\ ~HoldsLate(w, k) /\ Counted(k) /\ deliveries[k] \in Delivery
      BY <1>0, <1>2 DEF HoldsUnsent, HoldsLate, CountInv, TypeOK
    <2>1. CASE k \notin claimed
      <3>1. deliveries'[k] = deliveries[k]
        BY <1>1, <2>1
      <3>2. \A i \in items : i.key # k
        BY <2>1
      <3>3. ~HoldsUnsent(w, k)' /\ ~HoldsLate(w, k)'
        BY <1>2, <3>2 DEF HoldsUnsent, HoldsLate
      <3>4. Unsent(k)' = Unsent(k) /\ Late(k)' = Late(k)
        BY <1>2, <2>0, <3>3, SetsSame
      <3>5. requests'[k] = requests[k] /\ faults <= faults'
        BY <1>0, <1>2 DEF TypeOK
      <3> QED BY <1>0, <2>0, <3>1, <3>4, <3>5, CountSame
    <2>2. CASE k \in claimed
      <3> DEFINE item == [key |-> k, attempts |-> deliveries[k].attempts + 1]
                 a == deliveries[k].attempts
                 unsent == Cardinality(Unsent(k))
                 late == Cardinality(Late(k))
      <3>1. deliveries'[k] = [deliveries[k] EXCEPT !.claim = "held", !.attempts = deliveries[k].attempts + 1]
        BY <1>1, <2>2
      <3>2. /\ deliveries'[k].attempts = a + 1 /\ a \in Nat /\ ~Settled(deliveries[k]) /\ ~Settled(deliveries'[k])
        BY <1>3, <2>0, <2>2, <3>1, ClaimRow DEF Settled
      <3>3. item \in items /\ item.key = k /\ item.attempts = a + 1 /\ claimed # {}
        BY <2>2
      <3>4. HoldsUnsent(w, k)' /\ (a + 1 >= MaxAttempts => HoldsLate(w, k)')
        BY <1>2, <3>3 DEF HoldsUnsent, HoldsLate
      <3>5. /\ Unsent(k) \in SUBSET Workers /\ Late(k) \in SUBSET Workers /\ requests[k] \in Nat /\ faults \in Nat
            /\ MaxAttempts \in Nat \ {0} /\ w \notin Unsent(k) /\ w \notin Late(k)
        BY <1>0, <2>0, CountTypes DEF Unsent, Late
      <3>6. unsent \in Nat /\ Cardinality(Unsent(k) \cup {w}) = unsent + 1
        BY <3>5, WorkerSets
      <3>7. late \in Nat /\ Cardinality(Late(k) \cup {w}) = late + 1 /\ Cardinality(Late(k) \ {w}) \in Nat
        BY <3>5, WorkerSets
      <3>8. /\ Unsent(k)' = Unsent(k) \cup {w}
            /\ a + 1 >= MaxAttempts => Late(k)' = Late(k) \cup {w}
            /\ Late(k)' \in {Late(k) \cup {w}, Late(k) \ {w}}
        BY <1>2, <3>4, SetsMove
      <3>9. Cardinality(Late(k)') \in Nat /\ (a + 1 >= MaxAttempts => Cardinality(Late(k)') = late + 1)
        BY <3>7, <3>8
      <3>10. requests[k] + unsent <= a /\ a + 1 <= MaxAttempts + late + faults
        BY <2>0, <3>2 DEF Counted
      <3> HIDE DEF a, unsent, late, items, item
      <3>11. requests'[k] + Cardinality(Unsent(k)') <= deliveries'[k].attempts
        BY <1>2, <3>2, <3>5, <3>6, <3>8, <3>10
      <3>12. (a + 1) + 1 <= MaxAttempts + Cardinality(Late(k)') + faults
        <4>1. CASE a + 1 >= MaxAttempts
          BY <3>2, <3>5, <3>7, <3>9, <3>10, <4>1
        <4>2. CASE a + 1 < MaxAttempts
          BY <3>2, <3>5, <3>9, <4>2
        <4> QED BY <3>2, <3>5, <4>1, <4>2
      <3> QED BY <1>2, <3>2, <3>11, <3>12 DEF Counted
    <2> QED BY <2>1, <2>2
  <1> QED BY <1>4 DEF CountInv

\* A request uses up one claim.
LEMMA SendCounts ==
  ASSUME Inv, Inv', CountInv, NEW w \in Workers, NEW ok \in BOOLEAN, Send(w, ok)
  PROVE  CountInv'
  <1>0. TypeOK /\ TypeOK' /\ DeliverInv(w) /\ pc[w] = "send"
    BY DEF Inv, Send
  <1>1. PICK item \in batch[w] :
          /\ current' = [current EXCEPT ![w] = [key |-> item.key, attempts |-> item.attempts, ok |-> ok]]
          /\ batch' = [batch EXCEPT ![w] = batch[w] \ {item}]
          /\ requests' = [requests EXCEPT ![item.key] = requests[item.key] + 1]
    BY DEF Send
  <1>2. /\ deliveries' = deliveries /\ faults' = faults
        /\ \A v \in Workers \ {w} : pc'[v] = pc[v] /\ batch'[v] = batch[v] /\ current'[v] = current[v]
        /\ pc'[w] = "record" /\ batch'[w] = batch[w] \ {item}
        /\ current'[w].key = item.key /\ current'[w].attempts = item.attempts
    BY <1>0, <1>1 DEF Send, rowVars, Goto, TypeOK
  <1>3. item.key \in Keys /\ \A i, j \in batch[w] : i.key = j.key => i = j
    BY <1>0 DEF DeliverInv, Numbered
  <1>4. ASSUME NEW k \in Keys PROVE HoldsLate(w, k)' <=> HoldsLate(w, k)
    BY <1>0, <1>2 DEF HoldsLate
  <1>5. ASSUME NEW k \in Keys PROVE Counted(k)'
    <2>0. Counted(k)
      BY DEF CountInv
    <2>1. CASE k # item.key
      <3>1. HoldsUnsent(w, k)' <=> HoldsUnsent(w, k)
        BY <1>0, <1>2, <2>1 DEF HoldsUnsent
      <3>2. Unsent(k)' = Unsent(k) /\ Late(k)' = Late(k)
        BY <1>2, <1>4, <3>1, SetsSame
      <3>3. requests'[k] = requests[k] /\ faults <= faults'
        BY <1>0, <1>1, <1>2, <2>1 DEF TypeOK
      <3> QED BY <1>0, <1>2, <2>0, <3>2, <3>3, CountSame
    <2>2. CASE k = item.key
      <3>1. HoldsUnsent(w, k) /\ ~HoldsUnsent(w, k)'
        BY <1>0, <1>2, <1>3, <2>2 DEF HoldsUnsent
      <3>2. Unsent(k)' = Unsent(k) \ {w} /\ w \in Unsent(k)
        BY <1>2, <3>1, SetsMove DEF Unsent
      <3>3. Late(k)' = Late(k)
        <4>1. \A v \in Workers : HoldsLate(v, k)' <=> HoldsLate(v, k)
          BY <1>2, <1>4, HoldsSame
        <4> QED BY <4>1 DEF Late
      <3>4. Cardinality(Unsent(k)') + 1 = Cardinality(Unsent(k)) /\ Cardinality(Unsent(k)') \in Nat
        <4>1. Unsent(k) \in SUBSET Workers
          BY DEF Unsent
        <4> QED BY <3>2, <4>1, WorkerSets
      <3>5. requests'[k] = requests[k] + 1 /\ requests[k] \in Nat
        BY <1>0, <1>1, <2>2 DEF TypeOK
      <3>6. requests'[k] + Cardinality(Unsent(k)') = requests[k] + Cardinality(Unsent(k))
        BY <3>4, <3>5
      <3> QED BY <1>2, <2>0, <3>3, <3>6 DEF Counted
    <2> QED BY <2>1, <2>2
  <1> QED BY <1>5 DEF CountInv

\* A recorded outcome ends a claim; when it was a final one, it settles.
LEMMA RecordCounts ==
  ASSUME Inv, Inv', CountInv, NEW w \in Workers, Record(w)
  PROVE  CountInv'
  <1>0. TypeOK /\ TypeOK' /\ pc[w] = "record"
    BY DEF Inv, Record
  <1> DEFINE result == current[w]
             key == current[w].key
  <1>1. /\ requests' = requests /\ faults' = faults /\ pc'[w] = (IF batch[w] = {} THEN "outbox" ELSE "send")
        /\ \A v \in Workers \ {w} : pc'[v] = pc[v] /\ batch'[v] = batch[v] /\ current'[v] = current[v]
        /\ batch'[w] = batch[w]
    BY <1>0 DEF Record, ghostVars, Goto, TypeOK
  <1>2. /\ result \in Result /\ key \in Keys /\ deliveries'[key] = Recorded(deliveries[key], result)
        /\ \A k \in Keys \ {key} : deliveries'[k] = deliveries[k]
    BY RecordRows
  <1>3. ASSUME NEW k \in Keys PROVE Counted(k)'
    <2>0. Counted(k) /\ deliveries[k] \in Delivery /\ faults \in Nat /\ faults <= faults'
      BY <1>0, <1>1, LimitAssumption DEF CountInv, TypeOK
    <2>1. HoldsUnsent(w, k)' <=> HoldsUnsent(w, k)
      BY <1>0, <1>1 DEF HoldsUnsent
    <2>2. Unsent(k)' = Unsent(k)
      <3>1. \A v \in Workers : HoldsUnsent(v, k)' <=> HoldsUnsent(v, k)
        BY <1>1, <2>1, HoldsSame
      <3> QED BY <3>1 DEF Unsent
    <2>3. /\ deliveries'[k].attempts = deliveries[k].attempts
          /\ Settled(deliveries[k]) => Settled(deliveries'[k])
          /\ Settled(deliveries'[k]) /\ ~Settled(deliveries[k]) => k = key
      <3>1. CASE k = key
        BY <1>2, <2>0, <3>1, RecordedRow DEF Settled
      <3>2. CASE k # key
        BY <1>2, <3>2
      <3> QED BY <3>1, <3>2
    <2>4. CASE Settled(deliveries'[k])
      <3> DEFINE a == deliveries[k].attempts
                 late == Cardinality(Late(k))
                 every == Cardinality(Workers)
      <3>1. a \in Nat /\ late \in Nat /\ every \in Nat /\ late <= every /\ MaxAttempts \in Nat
        <4>1. Late(k) \in SUBSET Workers
          BY DEF Late
        <4> QED BY <1>0, <4>1, CountTypes, WorkerSets
      <3>2. a + 1 <= MaxAttempts + late + faults \/ a + 1 <= MaxAttempts + every + faults
        BY <2>0 DEF Counted
      <3> HIDE DEF a, late, every
      <3>3. a + 1 <= MaxAttempts + every + faults
        BY <2>0, <3>1, <3>2
      <3>4. requests'[k] + Cardinality(Unsent(k)') <= deliveries'[k].attempts
        BY <1>1, <2>0, <2>2, <2>3 DEF Counted
      <3> QED BY <1>1, <2>3, <2>4, <3>3, <3>4 DEF Counted, a, every
    <2>5. CASE ~Settled(deliveries'[k])
      <3>1. key = k => ~(result.attempts >= MaxAttempts)
        <4>1. ASSUME key = k PROVE /\ deliveries'[k].delivered <=> deliveries[k].delivered \/ result.ok
                                   /\ deliveries'[k].failed <=> deliveries[k].failed \/ (~result.ok /\ result.attempts >= MaxAttempts)
          BY <1>2, <2>0, <4>1, RecordedRow
        <4> QED BY <2>5, <4>1 DEF Settled
      <3>2. HoldsLate(w, k)' <=> HoldsLate(w, k)
        BY <1>0, <1>1, <3>1 DEF HoldsLate
      <3>3. Late(k)' = Late(k)
        BY <1>1, <2>1, <3>2, SetsSame
      <3>4. requests'[k] = requests[k] /\ ~Settled(deliveries[k])
        BY <1>1, <2>3, <2>5
      <3> QED BY <1>0, <2>0, <2>2, <2>3, <2>5, <3>3, <3>4, CountSame
    <2> QED BY <2>4, <2>5
  <1> QED BY <1>3 DEF CountInv

\* A stop gives up the claims of one worker.
LEMMA StopCounts ==
  ASSUME Inv, Inv', CountInv, NEW w \in Workers, Stop(w)
  PROVE  CountInv'
  <1>0. TypeOK /\ TypeOK'
    BY DEF Inv
  <1>1. /\ deliveries' = deliveries /\ requests' = requests /\ faults' = faults + 1 /\ pc'[w] = "outbox"
        /\ \A v \in Workers \ {w} : pc'[v] = pc[v] /\ batch'[v] = batch[v] /\ current'[v] = current[v]
    BY <1>0 DEF Stop, rowVars, ghostVars, Goto, TypeOK
  <1>2. ASSUME NEW k \in Keys PROVE Counted(k)'
    <2> DEFINE a == deliveries[k].attempts
               late == Cardinality(Late(k))
               unsent == Cardinality(Unsent(k))
               every == Cardinality(Workers)
    <2>0. ~HoldsUnsent(w, k)' /\ ~HoldsLate(w, k)'
      BY <1>1 DEF HoldsUnsent, HoldsLate
    <2>1. Unsent(k)' = Unsent(k) \ {w} /\ Late(k)' = Late(k) \ {w}
      BY <1>1, <2>0, SetsMove
    <2>2. /\ Unsent(k) \in SUBSET Workers /\ Late(k) \in SUBSET Workers /\ requests[k] \in Nat /\ a \in Nat
          /\ faults \in Nat /\ MaxAttempts \in Nat
      BY <1>0, CountTypes
    <2>3. unsent \in Nat /\ every \in Nat /\ Cardinality(Unsent(k)') \in Nat /\ Cardinality(Unsent(k)') <= unsent
      BY <2>1, <2>2, WorkerSets
    <2>4. late \in Nat /\ Cardinality(Late(k)') \in Nat /\ late <= Cardinality(Late(k)') + 1
      BY <2>1, <2>2, WorkerSets
    <2>5. /\ requests[k] + unsent <= a
          /\ ~Settled(deliveries[k]) => a + 1 <= MaxAttempts + late + faults
          /\ Settled(deliveries[k]) => a + 1 <= MaxAttempts + every + faults
      BY DEF CountInv, Counted
    <2> HIDE DEF a, late, unsent, every
    <2>6. requests[k] + Cardinality(Unsent(k)') <= a
      BY <2>2, <2>3, <2>5
    <2>7. ~Settled(deliveries[k]) => a + 1 <= MaxAttempts + Cardinality(Late(k)') + faults'
      BY <1>1, <2>2, <2>4, <2>5
    <2>8. Settled(deliveries[k]) => a + 1 <= MaxAttempts + every + faults'
      BY <1>1, <2>2, <2>3, <2>5
    <2> QED BY <1>1, <2>6, <2>7, <2>8 DEF Counted, a, every
  <1> QED BY <1>2 DEF CountInv

\* The initial state is counted.
LEMMA InitCounts == Init => CountInv
  <1> SUFFICES ASSUME Init, NEW k \in Keys PROVE Counted(k)
    BY DEF CountInv
  <1>1. Unsent(k) = {} /\ Late(k) = {}
    BY DEF Init, Unsent, Late, HoldsUnsent, HoldsLate
  <1>2. requests[k] = 0 /\ deliveries[k].attempts = 0 /\ ~Settled(deliveries[k]) /\ faults = 0
    BY DEF Init, Fresh, Settled
  <1> QED BY <1>1, <1>2, FS_EmptySet, LimitAssumption DEF Counted

\* Every step keeps the count.
LEMMA NextCounts == Inv /\ Inv' /\ CountInv /\ [Next]_vars => CountInv'
  <1> SUFFICES ASSUME Inv, Inv', CountInv, [Next]_vars PROVE CountInv'
    OBVIOUS
  <1>1. CASE UNCHANGED vars
    BY <1>1 DEF vars, CountInv, Counted, Unsent, Late, HoldsUnsent, HoldsLate
  <1>2. ASSUME NEW w \in Workers, WorkerStep(w) PROVE CountInv'
    BY <1>2, DispatchCounts, ClaimCounts, SendCounts, RecordCounts DEF WorkerStep
  <1> QED BY <1>1, <1>2, QuietCounts, DispatchCounts, StopCounts DEF Next

\* attempts counts every request, whoever holds the claim by then, and claims
\* stop soon after maxAttempts: beyond it there is at most one claim for every
\* other worker that still held the delivery and one for every stop.
THEOREM RequestsBounded == Spec => []RequestsCounted
  <1>1. Inv /\ CountInv => RequestsCounted
    <2> SUFFICES ASSUME Inv, CountInv, NEW k \in Keys
                 PROVE  /\ requests[k] <= deliveries[k].attempts
                        /\ deliveries[k].attempts <= MaxAttempts + (Cardinality(Workers) - 1) + faults
      BY DEF RequestsCounted
    <2> DEFINE a == deliveries[k].attempts
               late == Cardinality(Late(k))
               unsent == Cardinality(Unsent(k))
               every == Cardinality(Workers)
    <2>1. /\ requests[k] \in Nat /\ a \in Nat /\ faults \in Nat /\ MaxAttempts \in Nat
          /\ Unsent(k) \in SUBSET Workers /\ Late(k) \in SUBSET Workers
      BY CountTypes DEF Inv
    <2>2. late \in Nat /\ unsent \in Nat /\ every \in Nat /\ late <= every
      <3>1. IsFiniteSet(Late(k)) /\ IsFiniteSet(Unsent(k)) /\ IsFiniteSet(Workers) /\ late <= every
        BY <2>1, LimitAssumption, FS_Subset
      <3> QED BY <3>1, FS_CardinalityType
    <2>3. requests[k] + unsent <= a /\ (a + 1 <= MaxAttempts + late + faults \/ a + 1 <= MaxAttempts + every + faults)
      BY DEF CountInv, Counted
    <2> HIDE DEF a, late, unsent, every
    <2>4. requests[k] <= a /\ a <= MaxAttempts + (every - 1) + faults
      BY <2>1, <2>2, <2>3
    <2> QED BY <2>4 DEF a, every
  <1>2. Inv /\ CountInv /\ [Next]_vars => Inv' /\ CountInv'
    BY NextInv, NextCounts
  <1>3. Init => Inv /\ CountInv
    BY InitInv, InitCounts
  <1> QED BY <1>1, <1>2, <1>3, PTL DEF Spec

=============================================================================
