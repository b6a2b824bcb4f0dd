------------------------------- MODULE Webhooks -------------------------------
(***************************************************************************)
(* The webhook gateway over PostgresWebhookRepository: admission of        *)
(* inbound requests (process_inbound_webhook), the InboundEventDispatcher  *)
(* that turns admitted events into tasks, the OutboundDeliveryWorker that  *)
(* sends deliveries, and the maintenance that takes expired leases back.   *)
(*                                                                         *)
(* One action is one transaction, except that an admission is two: it      *)
(* looks for the provider's event id before it has locked the tenant's     *)
(* capacity row.  A call that raises has had no effect.  Time is abstract: *)
(* a row may be due, and a lease expired, at any moment.  Rows are leased  *)
(* in batches; no statement relates two rows of a batch, so that a batch   *)
(* is one lease after the other.  The lease token of a row is the number   *)
(* of the attempt it was drawn for, 0 is NULL.  One endpoint of one tenant.*)
(***************************************************************************)
EXTENDS Naturals, FiniteSets

CONSTANTS
  Keys,                 \* provider event ids
  Hashes,               \* payload hashes
  Requests,             \* inbound HTTP requests that passed authentication
  KeyOf, HashOf,        \* what a request carries
  Capacity,             \* max_capacity of the tenant
  MaxDispatch,          \* inbound_events.max_attempts
  Deliveries,           \* outbound deliveries
  MaxSend,              \* event_deliveries.max_attempts
  MaxLeases             \* bound on the leases of a row: limits the reclaims

ASSUME WebhookAssumption ==
  /\ KeyOf \in [Requests -> Keys]
  /\ HashOf \in [Requests -> Hashes]
  /\ Hashes # {}
  /\ IsFiniteSet(Keys)
  /\ Capacity \in Nat \ {0}
  /\ MaxDispatch \in Nat \ {0}
  /\ MaxSend \in Nat \ {0}
  /\ MaxLeases \in Nat
  /\ MaxDispatch <= MaxLeases
  /\ MaxSend <= MaxLeases

VARIABLES
  request,    \* where the admission of a request is, and its answer
  inFlight,   \* tenant_webhook_capacities.in_flight_count
  event,      \* inbound_events: [status, hash, attempts, token]
  dispatch,   \* where the dispatch of an event is, by attempt
  delivery,   \* event_deliveries: [status, attempts, token]
  sending,    \* where the execution of a delivery is, by attempt
  sent        \* requests sent for a delivery

inbound  == <<request, inFlight, event, dispatch>>
outbound == <<delivery, sending, sent>>
vars     == <<inbound, outbound>>

Leases == 1..MaxLeases

Open          == {"accepted", "processing", "failed"}
Undelivered   == {"pending", "delivering", "retrying"}
EventStatus   == Open \cup {"absent", "processed", "dead_lettered"}
DeliveryStatus == Undelivered \cup {"absent", "delivered", "failed", "dead_lettered"}
RequestState  == {"received", "checked", "accepted", "duplicate", "collision",
                  "full", "error"}
DispatchState == {"none", "create", "mark", "handle", "done"}
SendingState  == {"none", "begin", "send", "acknowledged", "refused", "disturbed", "done"}

TypeOK ==
  /\ request  \in [Requests -> RequestState]
  /\ inFlight \in 0..Capacity
  /\ event    \in [Keys -> [status : EventStatus, hash : Hashes,
                            attempts : 0..MaxLeases, token : 0..MaxLeases]]
  /\ dispatch \in [Keys -> [Leases -> DispatchState]]
  /\ delivery \in [Deliveries -> [status : DeliveryStatus,
                                  attempts : 0..MaxLeases, token : 0..MaxLeases]]
  /\ sending  \in [Deliveries -> [Leases -> SendingState]]
  /\ sent     \in [Deliveries -> Nat]

Init ==
  /\ request  = [r \in Requests |-> "received"]
  /\ inFlight = 0
  /\ event    = [k \in Keys |-> [status |-> "absent", hash |-> CHOOSE h \in Hashes : TRUE,
                               attempts |-> 0, token |-> 0]]
  /\ dispatch = [k \in Keys |-> [a \in Leases |-> "none"]]
  /\ delivery = [d \in Deliveries |-> [status |-> "absent", attempts |-> 0, token |-> 0]]
  /\ sending  = [d \in Deliveries |-> [a \in Leases |-> "none"]]
  /\ sent     = [d \in Deliveries |-> 0]

-----------------------------------------------------------------------------
(* Admission: reserve_tenant_capacity_and_insert_event.                    *)

Answer(r, from, to) ==
  /\ request[r] = from
  /\ request' = [request EXCEPT ![r] = to]

\* The SELECT ... FOR UPDATE finds nothing to lock when the row is missing.
CheckDuplicate(r) ==
  LET row == event[KeyOf[r]]
  IN
  /\ Answer(r, "received",
            IF row.status = "absent" THEN "checked"
            ELSE IF row.hash = HashOf[r] THEN "duplicate" ELSE "collision")
  /\ UNCHANGED <<inFlight, event, dispatch, outbound>>

\* Mutant: no unique constraint on the provider's event id.
ReserveAndOverwrite(r) ==
  LET k == KeyOf[r]
      admitted == inFlight < Capacity
  IN
  /\ Answer(r, "checked", IF admitted THEN "accepted" ELSE "full")
  /\ inFlight' = IF admitted THEN inFlight + 1 ELSE inFlight
  /\ event' = IF admitted
                THEN [event EXCEPT ![k].status = "accepted", ![k].hash = HashOf[r]]
                ELSE event
  /\ UNCHANGED <<dispatch, outbound>>

\* Under the capacity row's lock.  A row another request inserted meanwhile
\* breaks the unique constraint, and the whole transaction rolls back.
Reserve(r) ==
  LET k == KeyOf[r]
      admitted == inFlight < Capacity /\ event[k].status = "absent"
  IN
  /\ Answer(r, "checked",
            IF inFlight >= Capacity THEN "full"
            ELSE IF admitted THEN "accepted" ELSE "error")
  /\ inFlight' = IF admitted THEN inFlight + 1 ELSE inFlight
  /\ event' = IF admitted
                THEN [event EXCEPT ![k].status = "accepted", ![k].hash = HashOf[r]]
                ELSE event
  /\ UNCHANGED <<dispatch, outbound>>

-----------------------------------------------------------------------------
(* The inbound dispatcher.                                                 *)

\* The lease_token predicate of the three mark_inbound_event_* statements.
Holds(k, a) == event[k].status \in Open /\ event[k].token = a

Settled(k, status) == [event EXCEPT ![k].status = status, ![k].token = 0]

DispatchStep(k, a, from, to) ==
  /\ dispatch[k][a] = from
  /\ dispatch' = [dispatch EXCEPT ![k][a] = to]

LeaseEvent(k) ==
  LET a == event[k].attempts + 1
  IN
  /\ event[k].status \in {"accepted", "failed"}
  /\ event' = [event EXCEPT ![k].status = "processing", ![k].attempts = a, ![k].token = a]
  /\ dispatch' = [dispatch EXCEPT ![k][a] = "create"]
  /\ UNCHANGED <<request, inFlight, outbound>>

\* _dispatch_single_event swallows a failure of create_task: whether there is a task or
\* none, the dispatch goes on in the same way.
CreateTask(k, a) ==
  /\ DispatchStep(k, a, "create", "mark")
  /\ UNCHANGED <<request, inFlight, event, outbound>>

\* A processed or dead-lettered event gives its slot back, in the same
\* transaction and only if the row was still this worker's.
Settle(k, a, status) ==
  /\ event' = IF Holds(k, a) THEN Settled(k, status) ELSE event
  /\ inFlight' = IF Holds(k, a) /\ inFlight > 0 THEN inFlight - 1 ELSE inFlight
  /\ UNCHANGED <<request, outbound>>

MarkProcessed(k, a) ==
  /\ DispatchStep(k, a, "mark", "done")
  /\ Settle(k, a, "processed")

MarkRaises(k, a) ==
  /\ DispatchStep(k, a, "mark", "handle")
  /\ UNCHANGED <<request, inFlight, event, outbound>>

MarkFailed(k, a) ==
  /\ a < MaxDispatch
  /\ DispatchStep(k, a, "handle", "done")
  /\ event' = IF Holds(k, a) THEN Settled(k, "failed") ELSE event
  /\ UNCHANGED <<request, inFlight, outbound>>

\* Mutant: an attempt too early.
MarkDeadLetteredEarly(k, a) ==
  /\ a + 1 >= MaxDispatch
  /\ DispatchStep(k, a, "handle", "done")
  /\ Settle(k, a, "dead_lettered")

MarkDeadLettered(k, a) ==
  /\ a >= MaxDispatch
  /\ DispatchStep(k, a, "handle", "done")
  /\ Settle(k, a, "dead_lettered")

\* The process dies, or the handler's own call raises.
DispatchDies(k, a) ==
  /\ dispatch[k][a] \in {"create", "mark", "handle"}
  /\ dispatch' = [dispatch EXCEPT ![k][a] = "done"]
  /\ UNCHANGED <<request, inFlight, event, outbound>>

-----------------------------------------------------------------------------
(* The outbound delivery worker.                                           *)

CreateDelivery(d) ==
  /\ delivery[d].status = "absent"
  /\ delivery' = [delivery EXCEPT ![d].status = "pending"]
  /\ UNCHANGED <<inbound, sending, sent>>

\* Mutant: a delivery is leased once only.
LeaseNewDelivery(d) ==
  LET a == delivery[d].attempts + 1
  IN
  /\ delivery[d].status = "pending"
  /\ delivery' = [delivery EXCEPT ![d] = [status |-> "delivering", attempts |-> a, token |-> a]]
  /\ sending' = [sending EXCEPT ![d][a] = "begin"]
  /\ UNCHANGED <<inbound, sent>>

LeaseDelivery(d) ==
  LET a == delivery[d].attempts + 1
  IN
  /\ delivery[d].status \in {"pending", "retrying"}
  /\ delivery' = [delivery EXCEPT ![d] = [status |-> "delivering", attempts |-> a, token |-> a]]
  /\ sending' = [sending EXCEPT ![d][a] = "begin"]
  /\ UNCHANGED <<inbound, sent>>

SendingStep(d, a, from, to) ==
  /\ sending[d][a] = from
  /\ sending' = [sending EXCEPT ![d][a] = to]

\* The mark_delivery_* statements: a row that is no longer the worker's, or
\* no longer open, is left alone.
Conclude(d, a, from, status) ==
  /\ SendingStep(d, a, from, "done")
  /\ delivery' = IF delivery[d].status \in Undelivered /\ delivery[d].token = a
                   THEN [delivery EXCEPT ![d].status = status, ![d].token = 0]
                   ELSE delivery
  /\ UNCHANGED <<inbound, sent>>

\* Older than 24 hours, or the attempts are used up.
Expire(d, a) == Conclude(d, a, "begin", "dead_lettered")

RejectTarget(d, a) ==
  /\ a < MaxSend
  /\ Conclude(d, a, "begin", "failed")

\* Mutant: the attempts are not looked at before the request is sent.
PrepareAlways(d, a) ==
  /\ SendingStep(d, a, "begin", "send")
  /\ UNCHANGED <<inbound, delivery, sent>>

Prepare(d, a) ==
  /\ a < MaxSend
  /\ SendingStep(d, a, "begin", "send")
  /\ UNCHANGED <<inbound, delivery, sent>>

\* The answer: 2xx, a final refusal, or something to retry (a timeout too).
Send(d, a, answer) ==
  /\ SendingStep(d, a, "send", answer)
  /\ sent' = [sent EXCEPT ![d] = @ + 1]
  /\ UNCHANGED <<inbound, delivery>>

Retry(d, a) ==
  Conclude(d, a, "disturbed", IF a >= MaxSend THEN "dead_lettered" ELSE "retrying")

\* The process dies, or a mark_delivery_* call raises and is logged.
SendingDies(d, a) ==
  /\ sending[d][a] \notin {"none", "done"}
  /\ sending' = [sending EXCEPT ![d][a] = "done"]
  /\ UNCHANGED <<inbound, delivery, sent>>

-----------------------------------------------------------------------------
(* run_maintenance_cleanup: the leases that expired by now, and the        *)
(* counter recomputed from the rows, in one transaction.                   *)

\* Mutants: a settled event is counted, a failed one is not.
CountedSettled(rows) == Cardinality({k \in Keys : rows[k].status # "absent"})

CountedNotFailed(rows) == Cardinality({k \in Keys : rows[k].status \in Open \ {"failed"}})

Counted(rows) == Cardinality({k \in Keys : rows[k].status \in Open})

Maintain(K, D) ==
  /\ \A k \in K : event[k].status = "processing" /\ event[k].attempts < MaxLeases
  /\ \A d \in D : delivery[d].status = "delivering" /\ delivery[d].attempts < MaxLeases
  /\ event' = [k \in Keys |->
                 IF k \in K THEN [event[k] EXCEPT !.status = "failed", !.token = 0] ELSE event[k]]
  /\ delivery' = [d \in Deliveries |->
                 IF d \in D THEN [delivery[d] EXCEPT !.status = "retrying", !.token = 0]
                            ELSE delivery[d]]
  /\ inFlight' = Counted(event')
  /\ UNCHANGED <<request, dispatch, sending, sent>>

-----------------------------------------------------------------------------
EventNext(k) ==
  \/ LeaseEvent(k)
  \/ \E a \in Leases :
       CreateTask(k, a) \/ MarkProcessed(k, a) \/ MarkRaises(k, a) \/ MarkFailed(k, a)
         \/ MarkDeadLettered(k, a) \/ DispatchDies(k, a)

\* A worker thread that is not killed goes on.
Execute(d, a) ==
  \/ Expire(d, a) \/ RejectTarget(d, a) \/ Prepare(d, a)
  \/ \E answer \in {"acknowledged", "refused", "disturbed"} : Send(d, a, answer)
  \/ Conclude(d, a, "acknowledged", "delivered")
  \/ Conclude(d, a, "refused", "failed")
  \/ Retry(d, a)

DeliveryNext(d) ==
  \/ CreateDelivery(d) \/ LeaseDelivery(d)
  \/ \E a \in Leases : Execute(d, a) \/ SendingDies(d, a)

Next ==
  \/ \E r \in Requests : CheckDuplicate(r) \/ Reserve(r)
  \/ \E k \in Keys : EventNext(k)
  \/ \E d \in Deliveries : DeliveryNext(d)
  \/ \E K \in SUBSET Keys, D \in SUBSET Deliveries : Maintain(K, D)

Spec == Init /\ [][Next]_vars

\* The delivery worker's threads loop for ever.  Nothing loops over the
\* inbound dispatcher or over the maintenance, so that neither is fair.
FairSpec ==
  /\ Spec
  /\ \A d \in Deliveries : WF_vars(LeaseDelivery(d))
  /\ \A d \in Deliveries, a \in Leases : WF_vars(Execute(d, a))

-----------------------------------------------------------------------------
(* Properties.                                                             *)

\* Of the requests that race with one provider event id one is admitted as
\* the event, and 202 is answered only to requests with that payload.
AdmittedOnce ==
  /\ \A r \in Requests : request[r] \in {"accepted", "duplicate"} =>
       /\ event[KeyOf[r]].status # "absent"
       /\ event[KeyOf[r]].hash = HashOf[r]
  /\ \A q, r \in Requests :
       request[q] = "accepted" /\ request[r] = "accepted" /\ KeyOf[q] = KeyOf[r] => q = r

\* M54-F34: the counter is the number of events that hold a slot, through
\* retries, late workers, reclaims and reconciliation, and never above the
\* tenant's capacity.
InFlightExact ==
  /\ inFlight = Cardinality({k \in Keys : event[k].status \in {"accepted", "processing", "failed"}})
  /\ inFlight <= Capacity

\* A dispatcher whose lease was taken back and granted again cannot touch
\* the event: its marks match the token of its own attempt only.
StaleDispatchRejected ==
  [][\A k \in Keys, a \in Leases :
       dispatch[k][a] \in {"mark", "handle"} /\ dispatch'[k][a] # dispatch[k][a]
         /\ event'[k] # event[k] => event[k].token = a]_vars

\* An event is given up only after the promised number of dispatches, the
\* ones that died and were reclaimed included.
DeadLettersUsedTheirAttempts ==
  \A k \in Keys : event[k].status = "dead_lettered" => event[k].attempts >= MaxDispatch

\* M54-F11: a delivery is sent at most max_attempts times, crashes of the
\* worker and reclaimed leases included.
SendsBounded == \A d \in Deliveries : sent[d] <= MaxSend

\* M54-F21, M54-F39: a late worker or the maintenance moves no delivery out
\* of a terminal status.
DeliveredStays ==
  [][\A d \in Deliveries : delivery[d].status \in {"delivered", "failed", "dead_lettered"} =>
       delivery'[d] = delivery[d]]_vars

\* The worker died with the delivery: only the maintenance can reclaim it.
Stranded(d) ==
  delivery[d].status = "delivering" /\ sending[d][delivery[d].token] = "done"

\* A queued delivery comes to an end: retries run out, whatever the target
\* answers, unless a worker dies over it.
DeliveryEnds ==
  \A d \in Deliveries : delivery[d].status \in {"pending", "retrying"} ~>
    \/ delivery[d].status \in {"delivered", "failed", "dead_lettered"}
    \/ Stranded(d)

\* Inbound events and outbound deliveries are each a fenced ledger, whose token is the
\* attempt: however late a worker is, and whatever the maintenance takes back, only the
\* newest attempt of a row ends it, and one that ended stays as it ended.  An attempt
\* given back to be made again was recovered.
InboundVerdict(status) ==
  CASE status = "processing"    -> "running"
    [] status = "processed"     -> "completed"
    [] status = "dead_lettered" -> "failed"
    [] OTHER                    -> "recovered"

OutboundVerdict(status) ==
  CASE status = "delivering"                  -> "running"
    [] status = "delivered"                   -> "completed"
    [] status \in {"failed", "dead_lettered"} -> "failed"
    [] OTHER                                  -> "recovered"

\* The entry of an attempt, by the row's newest attempt and its verdict.
Entry(a, newest, verdict) ==
  IF a > newest THEN "none" ELSE IF a = newest THEN verdict ELSE "recovered"

Inbound == INSTANCE FencedLedger WITH
  Resources <- Keys,
  MaxToken  <- MaxLeases,
  token     <- [k \in Keys |-> event[k].attempts],
  held      <- [k \in Keys |-> event[k].status = "processing"],
  ledger    <- [k \in Keys |-> [a \in Leases |->
                  Entry(a, event[k].attempts, InboundVerdict(event[k].status))]]

Outbound == INSTANCE FencedLedger WITH
  Resources <- Deliveries,
  MaxToken  <- MaxLeases,
  token     <- [d \in Deliveries |-> delivery[d].attempts],
  held      <- [d \in Deliveries |-> delivery[d].status = "delivering"],
  ledger    <- [d \in Deliveries |-> [a \in Leases |->
                  Entry(a, delivery[d].attempts, OutboundVerdict(delivery[d].status))]]

InboundRefined  == Inbound!Spec
OutboundRefined == Outbound!Spec
=============================================================================
