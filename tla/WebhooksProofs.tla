--------------------------- MODULE WebhooksProofs ---------------------------
(***************************************************************************)
(* The safety of Webhooks for every set of requests, event ids and         *)
(* deliveries, every capacity and every limit on the attempts.             *)
(***************************************************************************)
EXTENDS Webhooks, FiniteSetTheorems, TLAPS

EventRow == [status : EventStatus, hash : Hashes,
             attempts : 0..MaxLeases, token : 0..MaxLeases]

DeliveryRow == [status : DeliveryStatus, attempts : 0..MaxLeases, token : 0..MaxLeases]

\* A row carries a token exactly while it is leased, the one of its last
\* attempt, and one that may be leased has a lease left.
Leased(row, status, queued) ==
  /\ row.status = status => row.token = row.attempts /\ row.attempts \in Leases
  /\ row.status # status => row.token = 0
  /\ row.status \in queued => row.attempts < MaxLeases

EventOK(row) ==
  /\ Leased(row, "processing", {"absent", "accepted", "failed"})
  /\ row.status = "dead_lettered" => row.attempts >= MaxDispatch

DeliveryOK(row) == Leased(row, "delivering", {"absent", "pending", "retrying"})

EventInv ==
  \A k \in Keys :
    /\ EventOK(event[k])
    /\ \A a \in Leases : a > event[k].attempts => dispatch[k][a] = "none"

\* The attempts that may still send, the last one excepted: it is given up
\* before it sends.
Unsent(d) == {a \in 1..(MaxSend - 1) : sending[d][a] \in {"none", "begin", "send"}}

DeliveryInv ==
  \A d \in Deliveries :
    /\ DeliveryOK(delivery[d])
    /\ \A a \in Leases : a > delivery[d].attempts => sending[d][a] = "none"
    /\ \A a \in Leases : sending[d][a] = "send" => a < MaxSend
    /\ sent[d] + Cardinality(Unsent(d)) <= MaxSend - 1

InboundInv  == EventInv /\ AdmittedOnce /\ InFlightExact

WebhooksInv == TypeOK /\ InboundInv /\ DeliveryInv

-----------------------------------------------------------------------------
(* The rows.                                                               *)

\* What the four kinds of writes do to a row.
LEMMA SettledRow ==
  ASSUME event \in [Keys -> EventRow], NEW k \in Keys, NEW s \in EventStatus, event' = Settled(k, s)
  PROVE  /\ event' \in [Keys -> EventRow]
         /\ event'[k].status = s /\ event'[k].token = 0
         /\ event'[k].attempts = event[k].attempts /\ event'[k].hash = event[k].hash
         /\ \A j \in Keys \ {k} : event'[j] = event[j]
<1>1. event[k] \in EventRow
  OBVIOUS
<1>2. event' = [event EXCEPT ![k] = [event[k] EXCEPT !.status = s, !.token = 0]]
  BY DEF Settled
<1> DEFINE row == [event[k] EXCEPT !.status = s, !.token = 0]
<1>3. row \in EventRow
  <2>1. 0 \in 0..MaxLeases
    BY WebhookAssumption
  <2>2. QED
    BY <1>1, <2>1 DEF EventRow
<1>4. row.status = s
  BY <1>1 DEF EventRow
<1>5. row.token = 0
  BY <1>1 DEF EventRow
<1>6. row.attempts = event[k].attempts /\ row.hash = event[k].hash
  BY <1>1 DEF EventRow
<1> HIDE DEF row
<1>7. event' = [event EXCEPT ![k] = row]
  BY <1>2 DEF row
<1>8. QED
  BY <1>1, <1>3, <1>4, <1>5, <1>6, <1>7

LEMMA LeasedRow ==
  ASSUME event \in [Keys -> EventRow], EventInv, NEW k \in Keys, LeaseEvent(k)
  PROVE  /\ event[k].attempts + 1 \in Leases
         /\ event' \in [Keys -> EventRow]
         /\ event'[k].status = "processing" /\ event'[k].token = event[k].attempts + 1
         /\ event'[k].attempts = event[k].attempts + 1 /\ event'[k].hash = event[k].hash
         /\ \A j \in Keys \ {k} : event'[j] = event[j]
<1>1. event[k] \in EventRow
  OBVIOUS
<1>2. event[k].attempts + 1 \in 0..MaxLeases /\ event[k].attempts + 1 \in Leases
  BY <1>1, WebhookAssumption DEF LeaseEvent, EventInv, EventOK, Leased, EventRow, Leases
<1>3. QED
  BY <1>1, <1>2 DEF LeaseEvent, EventRow, EventStatus, Open

LEMMA AdmittedRow ==
  ASSUME event \in [Keys -> EventRow], NEW k \in Keys, NEW h \in Hashes,
         event' = [event EXCEPT ![k].status = "accepted", ![k].hash = h]
  PROVE  /\ event' \in [Keys -> EventRow]
         /\ event'[k].status = "accepted" /\ event'[k].token = event[k].token
         /\ event'[k].attempts = event[k].attempts /\ event'[k].hash = h
         /\ \A j \in Keys \ {k} : event'[j] = event[j]
BY DEF EventRow, EventStatus, Open

LEMMA ConcludedRow ==
  ASSUME delivery \in [Deliveries -> DeliveryRow], NEW d \in Deliveries, NEW s \in DeliveryStatus,
         delivery' = [delivery EXCEPT ![d].status = s, ![d].token = 0]
  PROVE  /\ delivery' \in [Deliveries -> DeliveryRow]
         /\ delivery'[d].status = s /\ delivery'[d].token = 0
         /\ delivery'[d].attempts = delivery[d].attempts
         /\ \A e \in Deliveries \ {d} : delivery'[e] = delivery[e]
<1>1. delivery[d] \in DeliveryRow
  OBVIOUS
<1>2. delivery' = [delivery EXCEPT ![d] = [delivery[d] EXCEPT !.status = s, !.token = 0]]
  OBVIOUS
<1> DEFINE row == [delivery[d] EXCEPT !.status = s, !.token = 0]
<1>3. row \in DeliveryRow
  <2>1. 0 \in 0..MaxLeases
    BY WebhookAssumption
  <2>2. QED
    BY <1>1, <2>1 DEF DeliveryRow
<1>4. row.status = s
  BY <1>1 DEF DeliveryRow
<1>5. row.token = 0
  BY <1>1 DEF DeliveryRow
<1>6. row.attempts = delivery[d].attempts
  BY <1>1 DEF DeliveryRow
<1> HIDE DEF row
<1>7. delivery' = [delivery EXCEPT ![d] = row]
  BY <1>2 DEF row
<1>8. QED
  BY <1>1, <1>3, <1>4, <1>5, <1>6, <1>7

-----------------------------------------------------------------------------
(* The counter.                                                            *)

Occupied == {k \in Keys : event[k].status \in {"accepted", "processing", "failed"}}

LEMMA OccupiedFinite == IsFiniteSet(Occupied) /\ Cardinality(Occupied) \in Nat
BY WebhookAssumption, FS_Subset, FS_CardinalityType DEF Occupied

\* A row that changes between two open statuses, opens, or closes.
LEMMA OccupiedStep ==
  ASSUME NEW k \in Keys, \A j \in Keys \ {k} : event'[j] = event[j]
  PROVE  /\ k \in Occupied /\ event'[k].status \in Open => Occupied' = Occupied
         /\ k \notin Occupied /\ event'[k].status \in Open =>
              Cardinality(Occupied') = Cardinality(Occupied) + 1
         /\ k \in Occupied /\ event'[k].status \notin Open =>
              /\ Cardinality(Occupied') = Cardinality(Occupied) - 1
              /\ Cardinality(Occupied) > 0
<1>1. ASSUME k \in Occupied, event'[k].status \in Open
      PROVE  Occupied' = Occupied
  BY <1>1 DEF Occupied, Open
<1>2. ASSUME k \notin Occupied, event'[k].status \in Open
      PROVE  Cardinality(Occupied') = Cardinality(Occupied) + 1
  <2>1. Occupied' = Occupied \cup {k}
    BY <1>2 DEF Occupied, Open
  <2>2. QED
    BY <1>2, <2>1, OccupiedFinite, FS_AddElement
<1>3. ASSUME k \in Occupied, event'[k].status \notin Open
      PROVE  /\ Cardinality(Occupied') = Cardinality(Occupied) - 1
             /\ Cardinality(Occupied) > 0
  <2>1. Occupied' = Occupied \ {k}
    BY <1>3 DEF Occupied, Open
  <2>2. Cardinality(Occupied) # 0
    BY <1>3, OccupiedFinite, FS_EmptySet
  <2>3. Cardinality(Occupied \ {k}) = Cardinality(Occupied) - 1
    BY <1>3, OccupiedFinite, FS_RemoveElement
  <2>4. QED
    BY <2>1, <2>2, <2>3, OccupiedFinite
<1>4. QED
  BY <1>1, <1>2, <1>3

LEMMA CountedIsOccupied == Counted(event) = Cardinality(Occupied)
<1>1. {k \in Keys : event[k].status \in Open} = Occupied
  BY DEF Occupied, Open
<1>2. QED
  BY <1>1 DEF Counted

-----------------------------------------------------------------------------
(* The two halves.                                                         *)

InboundType ==
  /\ request  \in [Requests -> RequestState]
  /\ inFlight \in 0..Capacity
  /\ event    \in [Keys -> EventRow]
  /\ dispatch \in [Keys -> [Leases -> DispatchState]]

OutboundType ==
  /\ delivery \in [Deliveries -> DeliveryRow]
  /\ sending  \in [Deliveries -> [Leases -> SendingState]]
  /\ sent     \in [Deliveries -> Nat]

InboundOK  == InboundType /\ InboundInv
OutboundOK == OutboundType /\ DeliveryInv

LEMMA Halves == WebhooksInv <=> InboundOK /\ OutboundOK
BY DEF WebhooksInv, InboundOK, OutboundOK, TypeOK, InboundType, OutboundType, EventRow, DeliveryRow

LEMMA InboundStays ==
  ASSUME InboundOK, UNCHANGED inbound
  PROVE  InboundOK'
BY DEF InboundOK, InboundType, InboundInv, inbound, EventInv, AdmittedOnce, InFlightExact

LEMMA OutboundStays ==
  ASSUME OutboundOK, UNCHANGED outbound
  PROVE  OutboundOK'
BY DEF OutboundOK, OutboundType, DeliveryInv, outbound, Unsent

LEMMA CounterIsOccupied ==
  ASSUME InboundOK
  PROVE  inFlight = Cardinality(Occupied) /\ Cardinality(Occupied) \in 0..Capacity
BY DEF InboundOK, InboundType, InboundInv, InFlightExact, Occupied

\* What is left to show when one row changes and is not absent.
LEMMA RowChanges ==
  ASSUME InboundOK, NEW k \in Keys, event' \in [Keys -> EventRow],
         \A j \in Keys \ {k} : event'[j] = event[j],
         event[k].status # "absent", event'[k].status # "absent",
         event'[k].hash = event[k].hash,
         EventOK(event'[k]), event'[k].attempts >= event[k].attempts,
         request' = request,
         dispatch' \in [Keys -> [Leases -> DispatchState]],
         \A j \in Keys, a \in Leases : dispatch'[j][a] # dispatch[j][a] =>
           a <= event'[j].attempts,
         inFlight' = Cardinality(Occupied'), inFlight' \in 0..Capacity
  PROVE  InboundOK'
<1>1. InboundType'
  BY DEF InboundOK, InboundType
<1>2. EventInv'
  <2>1. SUFFICES ASSUME NEW j \in Keys
                 PROVE  /\ EventOK(event'[j])
                        /\ \A a \in Leases : a > event'[j].attempts => dispatch'[j][a] = "none"
    BY DEF EventInv
  <2>2. EventOK(event'[j])
    BY DEF InboundOK, InboundInv, EventInv
  <2>3. event'[j].attempts \in 0..MaxLeases /\ event[j].attempts \in 0..MaxLeases
    BY DEF InboundOK, InboundType, EventRow
  <2>4. event'[j].attempts >= event[j].attempts
    BY <2>3, WebhookAssumption
  <2>5. ASSUME NEW a \in Leases, a > event'[j].attempts
        PROVE  dispatch'[j][a] = "none"
    <3>1. a > event[j].attempts /\ ~(a <= event'[j].attempts)
      BY <2>3, <2>4, <2>5, WebhookAssumption DEF Leases
    <3>2. QED
      BY <3>1 DEF InboundOK, InboundInv, EventInv
  <2>6. QED
    BY <2>2, <2>5
<1>3. AdmittedOnce'
  <2>1. \A r \in Requests : KeyOf[r] \in Keys
    BY WebhookAssumption
  <2>2. \A j \in Keys : event[j].status # "absent" =>
          event'[j].status # "absent" /\ event'[j].hash = event[j].hash
    OBVIOUS
  <2>3. QED
    BY <2>1, <2>2 DEF InboundOK, InboundInv, AdmittedOnce
<1>4. InFlightExact'
  BY WebhookAssumption DEF InFlightExact, Occupied
<1>5. QED
  BY <1>1, <1>2, <1>3, <1>4 DEF InboundOK, InboundInv

\* A dispatcher moves on with an attempt that was leased.
LEMMA DispatchMoves ==
  ASSUME InboundOK, NEW k \in Keys, NEW a \in Leases, NEW from, from # "none",
         NEW to \in DispatchState, DispatchStep(k, a, from, to)
  PROVE  /\ dispatch' \in [Keys -> [Leases -> DispatchState]]
         /\ a <= event[k].attempts
         /\ \A j \in Keys, b \in Leases : dispatch'[j][b] # dispatch[j][b] => j = k /\ b = a
<1>1. dispatch \in [Keys -> [Leases -> DispatchState]] /\ event[k].attempts \in 0..MaxLeases
  BY DEF InboundOK, InboundType, EventRow
<1>2. ~(a > event[k].attempts)
  BY DEF InboundOK, InboundInv, EventInv, DispatchStep
<1>3. a <= event[k].attempts
  BY <1>1, <1>2, WebhookAssumption DEF Leases
<1>4. dispatch' = [dispatch EXCEPT ![k] = [dispatch[k] EXCEPT ![a] = to]]
  BY DEF DispatchStep
<1>5. QED
  BY <1>1, <1>3, <1>4

-----------------------------------------------------------------------------
(* Admission.                                                              *)

LEMMA CheckDuplicateSafe ==
  ASSUME InboundOK, NEW r \in Requests, CheckDuplicate(r)
  PROVE  InboundOK'
<1>1. /\ UNCHANGED <<inFlight, event, dispatch>>
      /\ request' \in [Requests -> RequestState]
      /\ \A q \in Requests \ {r} : request'[q] = request[q]
      /\ request'[r] # "accepted"
      /\ request'[r] = "duplicate" =>
           event[KeyOf[r]].status # "absent" /\ event[KeyOf[r]].hash = HashOf[r]
  BY DEF CheckDuplicate, Answer, InboundOK, InboundType, RequestState
<1>2. InboundType'
  BY <1>1 DEF InboundOK, InboundType
<1>3. EventInv' /\ InFlightExact'
  BY <1>1 DEF InboundOK, InboundInv, EventInv, InFlightExact
<1>4. AdmittedOnce'
  BY <1>1 DEF InboundOK, InboundInv, AdmittedOnce
<1>5. QED
  BY <1>2, <1>3, <1>4 DEF InboundOK, InboundInv

LEMMA ReserveSafe ==
  ASSUME InboundOK, NEW r \in Requests, Reserve(r)
  PROVE  InboundOK'
<1> DEFINE k == KeyOf[r]
           admitted == inFlight < Capacity /\ event[k].status = "absent"
<1>0. k \in Keys /\ HashOf[r] \in Hashes
  BY WebhookAssumption
<1>1. CASE ~admitted
  <2>1. /\ UNCHANGED <<inFlight, event, dispatch>>
        /\ request' \in [Requests -> RequestState]
        /\ \A q \in Requests \ {r} : request'[q] = request[q]
        /\ request'[r] \in {"full", "error"}
    BY <1>1 DEF Reserve, Answer, InboundOK, InboundType, RequestState
  <2>2. QED
    BY <2>1 DEF InboundOK, InboundType, InboundInv, EventInv, InFlightExact, AdmittedOnce
<1>2. CASE admitted
  <2>1. /\ UNCHANGED dispatch
        /\ inFlight' = inFlight + 1
        /\ request' = [request EXCEPT ![r] = "accepted"]
        /\ event' = [event EXCEPT ![k].status = "accepted", ![k].hash = HashOf[r]]
    <3>1. ~(inFlight >= Capacity)
      BY <1>2, WebhookAssumption DEF InboundOK, InboundType
    <3>2. QED
      BY <1>2, <3>1 DEF Reserve, Answer
  <2>2. /\ request' \in [Requests -> RequestState]
        /\ \A q \in Requests \ {r} : request'[q] = request[q]
        /\ request'[r] = "accepted"
    BY <2>1 DEF InboundOK, InboundType, RequestState
  <2>3. event \in [Keys -> EventRow]
    BY DEF InboundOK, InboundType
  <2>4. /\ event' \in [Keys -> EventRow]
        /\ event'[k].status = "accepted" /\ event'[k].token = event[k].token
        /\ event'[k].attempts = event[k].attempts /\ event'[k].hash = HashOf[r]
        /\ \A j \in Keys \ {k} : event'[j] = event[j]
    BY <1>0, <2>1, <2>3, AdmittedRow
  <2>5. InFlightExact' /\ inFlight' \in 0..Capacity
    <3>1. k \notin Occupied /\ event'[k].status \in Open
      BY <1>2, <2>4 DEF Occupied, Open
    <3>2. Cardinality(Occupied') = Cardinality(Occupied) + 1
      BY <1>0, <2>4, <3>1, OccupiedStep
    <3>3. inFlight' = Cardinality(Occupied') /\ inFlight' \in 0..Capacity
      BY <1>2, <2>1, <3>2, CounterIsOccupied, WebhookAssumption
    <3>4. QED
      BY <3>3, WebhookAssumption DEF InFlightExact, Occupied
  <2>6. InboundType'
    BY <2>1, <2>2, <2>4, <2>5 DEF InboundOK, InboundType
  <2>7. EventInv'
    <3>1. EventOK(event'[k])
      BY <1>0, <1>2, <2>4 DEF InboundOK, InboundInv, EventInv, EventOK, Leased
    <3>2. \A j \in Keys : event'[j].attempts = event[j].attempts
      BY <2>4
    <3>3. \A j \in Keys : EventOK(event'[j])
      BY <2>4, <3>1 DEF InboundOK, InboundInv, EventInv
    <3>4. QED
      BY <2>1, <3>2, <3>3 DEF InboundOK, InboundInv, EventInv
  <2>8. AdmittedOnce'
    <3>1. \A q \in Requests : KeyOf[q] \in Keys
      BY WebhookAssumption
    <3>2. \A q \in Requests \ {r} : request[q] \in {"accepted", "duplicate"} => KeyOf[q] # k
      BY <1>2 DEF InboundOK, InboundInv, AdmittedOnce
    <3>3. QED
      BY <1>0, <2>2, <2>4, <3>1, <3>2 DEF InboundOK, InboundInv, AdmittedOnce
  <2>9. QED
    BY <2>5, <2>6, <2>7, <2>8 DEF InboundOK, InboundInv
<1>3. QED
  BY <1>1, <1>2

-----------------------------------------------------------------------------
(* The dispatcher.                                                         *)

LEMMA LeaseEventSafe ==
  ASSUME InboundOK, NEW k \in Keys, LeaseEvent(k)
  PROVE  InboundOK'
<1> DEFINE a == event[k].attempts + 1
<1>0. EventInv /\ event[k] \in EventRow /\ event[k].status \in {"accepted", "failed"}
  BY DEF InboundOK, InboundType, InboundInv, LeaseEvent
<1>1. /\ a \in Leases
      /\ event' \in [Keys -> EventRow]
      /\ event'[k].status = "processing" /\ event'[k].token = a
      /\ event'[k].attempts = a /\ event'[k].hash = event[k].hash
      /\ \A j \in Keys \ {k} : event'[j] = event[j]
  BY <1>0, LeasedRow DEF InboundOK, InboundType
<1>2. /\ dispatch' = [dispatch EXCEPT ![k][a] = "create"]
      /\ UNCHANGED <<request, inFlight>>
  BY DEF LeaseEvent
<1>3. /\ dispatch' \in [Keys -> [Leases -> DispatchState]]
      /\ \A j \in Keys, b \in Leases : dispatch'[j][b] # dispatch[j][b] => j = k /\ b = a
  BY <1>1, <1>2 DEF InboundOK, InboundType, DispatchState
<1>4. EventOK(event'[k]) /\ event'[k].attempts >= event[k].attempts
  BY <1>0, <1>1 DEF EventOK, Leased, EventRow
<1>5. inFlight' = Cardinality(Occupied') /\ inFlight' \in 0..Capacity
  <2>1. Occupied' = Occupied
    BY <1>0, <1>1, OccupiedStep DEF Occupied, Open
  <2>2. QED
    BY <1>2, <2>1, CounterIsOccupied
<1>6. \A j \in Keys, b \in Leases : dispatch'[j][b] # dispatch[j][b] => b <= event'[j].attempts
  BY <1>1, <1>3 DEF Leases
<1>7. request' = request
  BY <1>2
<1>8. event[k].status # "absent" /\ event'[k].status # "absent"
  BY <1>0, <1>1
<1>9. QED
  BY <1>1, <1>3, <1>4, <1>5, <1>6, <1>7, <1>8, RowChanges

\* A step of a dispatcher that leaves the rows alone.
LEMMA RowsStay ==
  ASSUME InboundOK, NEW k \in Keys, NEW a \in Leases, NEW from, from # "none",
         NEW to \in DispatchState, DispatchStep(k, a, from, to),
         event' = event, inFlight' = inFlight, request' = request
  PROVE  InboundOK'
<1>1. /\ dispatch' \in [Keys -> [Leases -> DispatchState]]
      /\ a <= event[k].attempts
      /\ \A j \in Keys, b \in Leases : dispatch'[j][b] # dispatch[j][b] => j = k /\ b = a
  BY DispatchMoves
<1>2. InboundType'
  BY <1>1 DEF InboundOK, InboundType
<1>3. EventInv'
  <2>1. event[k].attempts \in 0..MaxLeases
    BY DEF InboundOK, InboundType, EventRow
  <2>2. ~(a > event[k].attempts)
    BY <1>1, <2>1, WebhookAssumption DEF Leases
  <2>3. QED
    BY <1>1, <2>2 DEF InboundOK, InboundInv, EventInv
<1>4. AdmittedOnce' /\ InFlightExact'
  BY DEF InboundOK, InboundInv, AdmittedOnce, InFlightExact
<1>5. QED
  BY <1>2, <1>3, <1>4 DEF InboundOK, InboundInv

\* A mark of the holder of the token.
LEMMA MarkSafe ==
  ASSUME InboundOK, NEW k \in Keys, NEW a \in Leases, NEW from, from # "none",
         DispatchStep(k, a, from, "done"), Holds(k, a),
         NEW s \in {"processed", "failed", "dead_lettered"},
         s = "failed" => a < MaxDispatch,
         s = "dead_lettered" => a >= MaxDispatch,
         event' = Settled(k, s), request' = request,
         inFlight' = IF s = "failed" THEN inFlight
                     ELSE IF inFlight > 0 THEN inFlight - 1 ELSE inFlight
  PROVE  InboundOK'
<1>0. /\ event[k] \in EventRow /\ event[k].status \in Open /\ event[k].token = a
      /\ event[k].status = "processing" /\ event[k].attempts = a
  BY DEF InboundOK, InboundType, InboundInv, EventInv, EventOK, Leased, Holds, Leases, Open
<1>1. /\ event' \in [Keys -> EventRow]
      /\ event'[k].status = s /\ event'[k].token = 0
      /\ event'[k].attempts = event[k].attempts /\ event'[k].hash = event[k].hash
      /\ \A j \in Keys \ {k} : event'[j] = event[j]
  <2>1. s \in EventStatus
    BY DEF EventStatus, Open
  <2>2. QED
    BY <2>1, SettledRow DEF InboundOK, InboundType
<1>2. /\ dispatch' \in [Keys -> [Leases -> DispatchState]]
      /\ \A j \in Keys, b \in Leases : dispatch'[j][b] # dispatch[j][b] => j = k /\ b = a
  BY DispatchMoves DEF DispatchState
<1>3. EventOK(event'[k]) /\ event'[k].attempts >= event[k].attempts
  BY <1>0, <1>1, WebhookAssumption DEF EventOK, Leased, Leases, EventRow
<1>4. inFlight' = Cardinality(Occupied') /\ inFlight' \in 0..Capacity
  <2>1. k \in Occupied
    BY <1>0 DEF Occupied
  <2>2. CASE s = "failed"
    BY <1>1, <2>1, <2>2, OccupiedStep, CounterIsOccupied DEF Open
  <2>3. CASE s # "failed"
    <3>1. /\ Cardinality(Occupied') = Cardinality(Occupied) - 1
          /\ Cardinality(Occupied) > 0
      BY <1>1, <2>1, <2>3, OccupiedStep DEF Open
    <3>2. QED
      BY <2>3, <3>1, CounterIsOccupied, WebhookAssumption
  <2>4. QED
    BY <2>2, <2>3
<1>5. \A j \in Keys, b \in Leases : dispatch'[j][b] # dispatch[j][b] => b <= event'[j].attempts
  BY <1>0, <1>1, <1>2 DEF Leases
<1>6. event[k].status # "absent" /\ event'[k].status # "absent"
  BY <1>0, <1>1
<1>7. QED
  BY <1>1, <1>2, <1>3, <1>4, <1>5, <1>6, RowChanges

LEMMA DispatchSafe ==
  ASSUME InboundOK, NEW k \in Keys, NEW a \in Leases,
         \/ CreateTask(k, a) \/ MarkProcessed(k, a) \/ MarkRaises(k, a)
         \/ MarkFailed(k, a) \/ MarkDeadLettered(k, a) \/ DispatchDies(k, a)
  PROVE  InboundOK'
<1>1. CASE CreateTask(k, a)
  <2>1. DispatchStep(k, a, "create", "mark")
        /\ event' = event /\ inFlight' = inFlight /\ request' = request
    BY <1>1 DEF CreateTask
  <2>2. QED
    BY <2>1, RowsStay DEF DispatchState
<1>2. CASE MarkProcessed(k, a)
  <2>1. DispatchStep(k, a, "mark", "done") /\ Settle(k, a, "processed")
    BY <1>2 DEF MarkProcessed
  <2>2. CASE Holds(k, a)
    BY <2>1, <2>2, MarkSafe DEF Settle
  <2>3. CASE ~Holds(k, a)
    BY <2>1, <2>3, RowsStay DEF Settle, DispatchState
  <2>4. QED
    BY <2>2, <2>3
<1>3. CASE MarkRaises(k, a)
  BY <1>3, RowsStay DEF MarkRaises, DispatchState
<1>4. CASE MarkFailed(k, a)
  <2>1. DispatchStep(k, a, "handle", "done") /\ a < MaxDispatch
        /\ request' = request /\ inFlight' = inFlight
        /\ event' = IF Holds(k, a) THEN Settled(k, "failed") ELSE event
    BY <1>4 DEF MarkFailed
  <2>2. CASE Holds(k, a)
    BY <2>1, <2>2, MarkSafe
  <2>3. CASE ~Holds(k, a)
    BY <2>1, <2>3, RowsStay DEF DispatchState
  <2>4. QED
    BY <2>2, <2>3
<1>5. CASE MarkDeadLettered(k, a)
  <2>1. DispatchStep(k, a, "handle", "done") /\ a >= MaxDispatch
        /\ Settle(k, a, "dead_lettered")
    BY <1>5 DEF MarkDeadLettered
  <2>2. CASE Holds(k, a)
    BY <2>1, <2>2, MarkSafe DEF Settle
  <2>3. CASE ~Holds(k, a)
    BY <2>1, <2>3, RowsStay DEF Settle, DispatchState
  <2>4. QED
    BY <2>2, <2>3
<1>6. CASE DispatchDies(k, a)
  <2>1. PICK from \in {"create", "mark", "handle"} : DispatchStep(k, a, from, "done")
    BY <1>6 DEF DispatchDies, DispatchStep
  <2>2. from # "none"
    OBVIOUS
  <2>3. QED
    BY <1>6, <2>1, <2>2, RowsStay DEF DispatchDies, DispatchState
<1>7. QED
  BY <1>1, <1>2, <1>3, <1>4, <1>5, <1>6

LEMMA EventSafe ==
  ASSUME InboundOK, NEW k \in Keys, EventNext(k)
  PROVE  InboundOK'
BY LeaseEventSafe, DispatchSafe DEF EventNext

\* The maintenance on the rows of events: leases that ran out, and the counter.
LEMMA ReclaimEventsSafe ==
  ASSUME InboundOK, NEW K \in SUBSET Keys, NEW D \in SUBSET Deliveries, Maintain(K, D)
  PROVE  InboundOK'
<1>0. /\ event \in [Keys -> EventRow]
      /\ \A k \in K : event[k].status = "processing" /\ event[k].attempts < MaxLeases
      /\ event' = [k \in Keys |->
           IF k \in K THEN [event[k] EXCEPT !.status = "failed", !.token = 0] ELSE event[k]]
      /\ inFlight' = Counted(event')
      /\ UNCHANGED <<request, dispatch>>
  BY DEF Maintain, InboundOK, InboundType
<1>1. ASSUME NEW k \in Keys
      PROVE  /\ event'[k] \in EventRow
             /\ event'[k].attempts = event[k].attempts /\ event'[k].hash = event[k].hash
             /\ k \notin K => event'[k] = event[k]
             /\ k \in K => event'[k].status = "failed" /\ event'[k].token = 0
  <2>1. CASE k \notin K
    BY <1>0, <2>1
  <2>2. CASE k \in K
    <3>0. 0 \in 0..MaxLeases
      BY WebhookAssumption
    <3>1. event[k] \in EventRow /\ "failed" \in EventStatus
      BY <1>0 DEF EventStatus, Open
    <3>2. event'[k] = [event[k] EXCEPT !.status = "failed", !.token = 0]
      BY <1>0, <2>2
    <3>3. [event[k] EXCEPT !.status = "failed", !.token = 0] \in EventRow
      BY <3>0, <3>1 DEF EventRow
    <3>4. /\ event'[k].attempts = event[k].attempts /\ event'[k].hash = event[k].hash
          /\ event'[k].status = "failed" /\ event'[k].token = 0
      BY <3>1, <3>2 DEF EventRow
    <3>5. QED
      BY <2>2, <3>2, <3>3, <3>4
  <2>3. QED
    BY <2>1, <2>2
<1>2. event' \in [Keys -> EventRow]
  BY <1>0, <1>1
<1>3. Occupied' = Occupied
  BY <1>0, <1>1 DEF Occupied
<1>4. inFlight' = Cardinality(Occupied')
  BY <1>0, <1>3 DEF Counted, Occupied, Open
<1>5. InFlightExact' /\ inFlight' \in 0..Capacity
  <2>1. inFlight' \in 0..Capacity
    BY <1>3, <1>4, CounterIsOccupied
  <2>2. inFlight' <= Capacity
    BY <2>1, WebhookAssumption
  <2>3. QED
    BY <1>4, <2>1, <2>2 DEF InFlightExact, Occupied
<1>6. EventInv'
  <2>1. \A k \in Keys : EventOK(event'[k])
    <3>1. SUFFICES ASSUME NEW k \in Keys
                   PROVE  EventOK(event'[k])
      OBVIOUS
    <3>2. EventOK(event[k])
      BY DEF InboundOK, InboundInv, EventInv
    <3>3. QED
      BY <1>0, <1>1, <3>2 DEF EventOK, Leased
  <2>2. QED
    BY <1>0, <1>1, <2>1 DEF InboundOK, InboundInv, EventInv
<1>7. AdmittedOnce'
  <2>1. \A r \in Requests : KeyOf[r] \in Keys
    BY WebhookAssumption
  <2>2. \A k \in Keys : event[k].status # "absent" =>
          event'[k].status # "absent" /\ event'[k].hash = event[k].hash
    BY <1>1
  <2>3. QED
    BY <1>0, <2>1, <2>2 DEF InboundOK, InboundInv, AdmittedOnce
<1>8. InboundType'
  BY <1>0, <1>2, <1>5 DEF InboundOK, InboundType
<1>9. QED
  BY <1>5, <1>6, <1>7, <1>8 DEF InboundOK, InboundInv

-----------------------------------------------------------------------------
(* Deliveries.                                                             *)

LEMMA UnsentFinite ==
  ASSUME NEW d \in Deliveries
  PROVE  IsFiniteSet(Unsent(d)) /\ Cardinality(Unsent(d)) \in Nat
<1>1. IsFiniteSet(1..(MaxSend - 1))
  BY FS_Interval, WebhookAssumption
<1>2. QED
  BY <1>1, FS_Subset, FS_CardinalityType DEF Unsent

\* A sender moves on: it leaves Unsent, or stays in it; only a send counts.
LEMMA SenderMoves ==
  ASSUME OutboundOK, NEW d \in Deliveries, NEW a \in Leases, NEW to \in SendingState,
         sending' = [sending EXCEPT ![d][a] = to], sending[d][a] # "none",
         to = "send" => a < MaxSend,
         sent' = sent, to \notin {"none", "begin"}, to = "send" => sending[d][a] = "begin",
         delivery' \in [Deliveries -> DeliveryRow],
         \A e \in Deliveries \ {d} : delivery'[e] = delivery[e],
         DeliveryOK(delivery'[d]), delivery'[d].attempts = delivery[d].attempts
  PROVE  OutboundOK'
<1>1. sending \in [Deliveries -> [Leases -> SendingState]] /\ sent \in [Deliveries -> Nat]
  BY DEF OutboundOK, OutboundType
<1>2. /\ sending' \in [Deliveries -> [Leases -> SendingState]]
      /\ \A e \in Deliveries, b \in Leases :
           sending'[e][b] = IF e = d /\ b = a THEN to ELSE sending[e][b]
  BY <1>1
<1>3. OutboundType'
  BY <1>2 DEF OutboundOK, OutboundType
<1>4. SUFFICES ASSUME NEW e \in Deliveries
               PROVE  /\ DeliveryOK(delivery'[e])
                      /\ \A b \in Leases : b > delivery'[e].attempts => sending'[e][b] = "none"
                      /\ \A b \in Leases : sending'[e][b] = "send" => b < MaxSend
                      /\ sent'[e] + Cardinality(Unsent(e)') <= MaxSend - 1
  BY <1>3 DEF OutboundOK, DeliveryInv
<1>5. /\ DeliveryOK(delivery[e])
      /\ \A b \in Leases : b > delivery[e].attempts => sending[e][b] = "none"
      /\ \A b \in Leases : sending[e][b] = "send" => b < MaxSend
      /\ sent[e] + Cardinality(Unsent(e)) <= MaxSend - 1
  BY DEF OutboundOK, DeliveryInv
<1>6. 1..(MaxSend - 1) \subseteq Leases
  BY WebhookAssumption DEF Leases
<1>7. Unsent(e)' \subseteq Unsent(e)
  BY <1>2, <1>6 DEF Unsent
<1>8. Cardinality(Unsent(e)') <= Cardinality(Unsent(e)) /\ Cardinality(Unsent(e)') \in Nat
  BY <1>7, UnsentFinite, FS_Subset, FS_CardinalityType
<1>9. sent'[e] + Cardinality(Unsent(e)') <= MaxSend - 1
  BY <1>1, <1>5, <1>8, UnsentFinite, WebhookAssumption
<1>10. delivery'[e].attempts = delivery[e].attempts /\ DeliveryOK(delivery'[e])
  BY <1>5
<1>11. QED
  BY <1>2, <1>5, <1>9, <1>10

LEMMA ConcludeSafe ==
  ASSUME OutboundOK, NEW d \in Deliveries, NEW a \in Leases, NEW from, from # "none",
         NEW s \in {"delivered", "failed", "dead_lettered", "retrying"},
         s = "retrying" => a < MaxSend, Conclude(d, a, from, s)
  PROVE  OutboundOK'
<1>0. /\ delivery \in [Deliveries -> DeliveryRow] /\ DeliveryOK(delivery[d])
      /\ delivery[d] \in DeliveryRow
  BY DEF OutboundOK, OutboundType, DeliveryInv
<1>1. /\ sending' = [sending EXCEPT ![d][a] = "done"] /\ sending[d][a] # "none"
      /\ sent' = sent
  BY DEF Conclude, SendingStep
<1>2. CASE delivery[d].status \in Undelivered /\ delivery[d].token = a
  <2>1. delivery' = [delivery EXCEPT ![d].status = s, ![d].token = 0]
    BY <1>2 DEF Conclude
  <2>2. s \in DeliveryStatus
    BY DEF DeliveryStatus, Undelivered
  <2>3. /\ delivery' \in [Deliveries -> DeliveryRow]
        /\ delivery'[d].status = s /\ delivery'[d].token = 0
        /\ delivery'[d].attempts = delivery[d].attempts
        /\ \A e \in Deliveries \ {d} : delivery'[e] = delivery[e]
    BY <1>0, <2>1, <2>2, ConcludedRow
  <2>4. delivery[d].status = "delivering" /\ delivery[d].attempts = a
    BY <1>0, <1>2 DEF DeliveryOK, Leased, Leases
  <2>5. DeliveryOK(delivery'[d])
    BY <2>3, <2>4, WebhookAssumption DEF DeliveryOK, Leased, Leases
  <2>6. QED
    BY <1>1, <2>3, <2>5, SenderMoves DEF SendingState
<1>3. CASE ~(delivery[d].status \in Undelivered /\ delivery[d].token = a)
  <2>1. delivery' = delivery
    BY <1>3 DEF Conclude
  <2>2. QED
    BY <1>0, <1>1, <2>1, SenderMoves DEF SendingState
<1>4. QED
  BY <1>2, <1>3

\* Only an attempt below max_attempts sends, and it does so once.
LEMMA SendSafe ==
  ASSUME OutboundOK, NEW d \in Deliveries, NEW a \in Leases,
         NEW answer \in {"acknowledged", "refused", "disturbed"}, Send(d, a, answer)
  PROVE  OutboundOK'
<1>1. /\ sending \in [Deliveries -> [Leases -> SendingState]] /\ sent \in [Deliveries -> Nat]
      /\ delivery' = delivery /\ sending[d][a] = "send"
      /\ sending' = [sending EXCEPT ![d][a] = answer]
      /\ sent' = [sent EXCEPT ![d] = sent[d] + 1]
  BY DEF OutboundOK, OutboundType, Send, SendingStep, inbound
<1>2. /\ sending' \in [Deliveries -> [Leases -> SendingState]]
      /\ \A e \in Deliveries, b \in Leases :
           sending'[e][b] = IF e = d /\ b = a THEN answer ELSE sending[e][b]
  BY <1>1 DEF SendingState
<1>3. /\ sent' \in [Deliveries -> Nat] /\ sent'[d] = sent[d] + 1
      /\ \A e \in Deliveries \ {d} : sent'[e] = sent[e]
  BY <1>1
<1>4. OutboundType'
  BY <1>1, <1>2, <1>3 DEF OutboundOK, OutboundType
<1>5. 1..(MaxSend - 1) \subseteq Leases
  BY WebhookAssumption DEF Leases
<1>6. sent'[d] + Cardinality(Unsent(d)') <= MaxSend - 1
  <2>1. a \in 1..(MaxSend - 1)
    BY <1>1, WebhookAssumption DEF OutboundOK, DeliveryInv, Leases
  <2>2. a \in Unsent(d)
    BY <1>1, <2>1 DEF Unsent
  <2>3. Unsent(d)' = Unsent(d) \ {a}
    BY <1>2, <1>5, <2>1 DEF Unsent
  <2>4. Cardinality(Unsent(d)') = Cardinality(Unsent(d)) - 1
    BY <2>2, <2>3, UnsentFinite, FS_RemoveElement
  <2>5. sent[d] + Cardinality(Unsent(d)) <= MaxSend - 1 /\ sent[d] \in Nat
    BY <1>1 DEF OutboundOK, DeliveryInv
  <2>6. QED
    BY <1>3, <2>4, <2>5, UnsentFinite, WebhookAssumption
<1>7. \A e \in Deliveries \ {d} : Unsent(e)' = Unsent(e)
  BY <1>2, <1>5 DEF Unsent
<1>8. DeliveryInv'
  <2>1. SUFFICES ASSUME NEW e \in Deliveries
                 PROVE  /\ DeliveryOK(delivery'[e])
                        /\ \A b \in Leases : b > delivery'[e].attempts => sending'[e][b] = "none"
                        /\ \A b \in Leases : sending'[e][b] = "send" => b < MaxSend
                        /\ sent'[e] + Cardinality(Unsent(e)') <= MaxSend - 1
    BY DEF DeliveryInv
  <2>2. /\ DeliveryOK(delivery[e])
        /\ \A b \in Leases : b > delivery[e].attempts => sending[e][b] = "none"
        /\ \A b \in Leases : sending[e][b] = "send" => b < MaxSend
        /\ sent[e] + Cardinality(Unsent(e)) <= MaxSend - 1
    BY DEF OutboundOK, DeliveryInv
  <2>3. sent'[e] + Cardinality(Unsent(e)') <= MaxSend - 1
    <3>1. CASE e = d
      BY <1>6, <3>1
    <3>2. CASE e # d
      BY <1>3, <1>7, <2>2, <3>2
    <3>3. QED
      BY <3>1, <3>2
  <2>4. QED
    BY <1>1, <1>2, <2>2, <2>3
<1>9. QED
  BY <1>4, <1>8 DEF OutboundOK

LEMMA ExecuteSafe ==
  ASSUME OutboundOK, NEW d \in Deliveries, NEW a \in Leases, Execute(d, a) \/ SendingDies(d, a)
  PROVE  OutboundOK'
<1>0. /\ delivery \in [Deliveries -> DeliveryRow] /\ DeliveryOK(delivery[d])
  BY DEF OutboundOK, OutboundType, DeliveryInv
<1>1. CASE Expire(d, a)
  BY <1>1, ConcludeSafe DEF Expire
<1>2. CASE RejectTarget(d, a)
  BY <1>2, ConcludeSafe DEF RejectTarget
<1>3. CASE Prepare(d, a)
  <2>1. /\ sending' = [sending EXCEPT ![d][a] = "send"] /\ sending[d][a] = "begin"
        /\ sent' = sent /\ delivery' = delivery /\ a < MaxSend
    BY <1>3 DEF Prepare, SendingStep
  <2>2. QED
    BY <1>0, <2>1, SenderMoves DEF SendingState
<1>4. CASE \E answer \in {"acknowledged", "refused", "disturbed"} : Send(d, a, answer)
  BY <1>4, SendSafe
<1>5. CASE Conclude(d, a, "acknowledged", "delivered") \/ Conclude(d, a, "refused", "failed")
  BY <1>5, ConcludeSafe
<1>6. CASE Retry(d, a)
  <2>1. CASE a >= MaxSend
    BY <1>6, <2>1, ConcludeSafe DEF Retry
  <2>2. CASE ~(a >= MaxSend)
    <3>1. a < MaxSend
      BY <2>2, WebhookAssumption DEF Leases
    <3>2. QED
      BY <1>6, <2>2, <3>1, ConcludeSafe DEF Retry
  <2>3. QED
    BY <2>1, <2>2
<1>7. CASE SendingDies(d, a)
  <2>1. /\ sending' = [sending EXCEPT ![d][a] = "done"] /\ sending[d][a] # "none"
        /\ sent' = sent /\ delivery' = delivery
    BY <1>7 DEF SendingDies
  <2>2. QED
    BY <1>0, <2>1, SenderMoves DEF SendingState
<1>8. QED
  BY <1>1, <1>2, <1>3, <1>4, <1>5, <1>6, <1>7 DEF Execute

LEMMA CreateDeliverySafe ==
  ASSUME OutboundOK, NEW d \in Deliveries, CreateDelivery(d)
  PROVE  OutboundOK'
<1>0. /\ delivery \in [Deliveries -> DeliveryRow] /\ delivery[d] \in DeliveryRow
      /\ DeliveryOK(delivery[d]) /\ delivery[d].status = "absent"
      /\ delivery' = [delivery EXCEPT ![d] = [delivery[d] EXCEPT !.status = "pending"]]
      /\ UNCHANGED <<sending, sent>>
  BY DEF OutboundOK, OutboundType, DeliveryInv, CreateDelivery
<1> DEFINE row == [delivery[d] EXCEPT !.status = "pending"]
<1>1. /\ row \in DeliveryRow /\ row.status = "pending"
      /\ row.token = delivery[d].token /\ row.attempts = delivery[d].attempts
  BY <1>0 DEF DeliveryRow, DeliveryStatus, Undelivered
<1>2. DeliveryOK(row)
  BY <1>0, <1>1 DEF DeliveryOK, Leased
<1> HIDE DEF row
<1>3. /\ delivery' \in [Deliveries -> DeliveryRow]
      /\ \A e \in Deliveries : /\ delivery'[e].attempts = delivery[e].attempts
                               /\ DeliveryOK(delivery'[e])
  <2>1. delivery' = [delivery EXCEPT ![d] = row]
    BY <1>0 DEF row
  <2>2. \A e \in Deliveries : DeliveryOK(delivery[e])
    BY DEF OutboundOK, DeliveryInv
  <2>3. QED
    BY <1>0, <1>1, <1>2, <2>1, <2>2
<1>4. QED
  BY <1>0, <1>3 DEF OutboundOK, OutboundType, DeliveryInv, Unsent

LEMMA LeaseDeliverySafe ==
  ASSUME OutboundOK, NEW d \in Deliveries, LeaseDelivery(d)
  PROVE  OutboundOK'
<1> DEFINE a == delivery[d].attempts + 1
           row == [status |-> "delivering", attempts |-> a, token |-> a]
<1>0. /\ delivery \in [Deliveries -> DeliveryRow] /\ delivery[d] \in DeliveryRow
      /\ DeliveryOK(delivery[d]) /\ delivery[d].status \in {"pending", "retrying"}
      /\ delivery' = [delivery EXCEPT ![d] = row]
      /\ sending \in [Deliveries -> [Leases -> SendingState]]
      /\ sending' = [sending EXCEPT ![d][a] = "begin"]
      /\ sent' = sent
  BY DEF OutboundOK, OutboundType, DeliveryInv, LeaseDelivery
<1>1. a \in Leases /\ a \in 0..MaxLeases /\ a > delivery[d].attempts
  BY <1>0, WebhookAssumption DEF DeliveryOK, Leased, DeliveryRow, Leases
<1>2. row \in DeliveryRow /\ DeliveryOK(row)
  BY <1>1 DEF DeliveryRow, DeliveryStatus, Undelivered, DeliveryOK, Leased
<1>3. /\ delivery' \in [Deliveries -> DeliveryRow] /\ delivery'[d].attempts = a
      /\ \A e \in Deliveries : DeliveryOK(delivery'[e])
      /\ \A e \in Deliveries \ {d} : delivery'[e] = delivery[e]
  <2>1. \A e \in Deliveries : DeliveryOK(delivery[e])
    BY DEF OutboundOK, DeliveryInv
  <2>2. QED
    BY <1>0, <1>2, <2>1
<1>4. /\ sending' \in [Deliveries -> [Leases -> SendingState]]
      /\ \A e \in Deliveries, b \in Leases :
           sending'[e][b] = IF e = d /\ b = a THEN "begin" ELSE sending[e][b]
  BY <1>0, <1>1 DEF SendingState
<1>5. sending[d][a] = "none"
  BY <1>1 DEF OutboundOK, DeliveryInv
<1>6. \A e \in Deliveries : Unsent(e)' = Unsent(e)
  <2>1. 1..(MaxSend - 1) \subseteq Leases
    BY WebhookAssumption DEF Leases
  <2>2. QED
    BY <1>4, <1>5, <2>1 DEF Unsent
<1>7. DeliveryInv'
  <2>1. SUFFICES ASSUME NEW e \in Deliveries
                 PROVE  /\ DeliveryOK(delivery'[e])
                        /\ \A b \in Leases : b > delivery'[e].attempts => sending'[e][b] = "none"
                        /\ \A b \in Leases : sending'[e][b] = "send" => b < MaxSend
                        /\ sent'[e] + Cardinality(Unsent(e)') <= MaxSend - 1
    BY DEF DeliveryInv
  <2>2. /\ \A b \in Leases : b > delivery[e].attempts => sending[e][b] = "none"
        /\ \A b \in Leases : sending[e][b] = "send" => b < MaxSend
        /\ sent[e] + Cardinality(Unsent(e)) <= MaxSend - 1
    BY DEF OutboundOK, DeliveryInv
  <2>3. \A b \in Leases : b > delivery'[e].attempts => sending'[e][b] = "none"
    <3>1. CASE e = d
      <4>1. \A b \in Leases : b > a => b > delivery[d].attempts /\ b # a
        BY <1>0, <1>1, WebhookAssumption DEF Leases, DeliveryRow
      <4>2. QED
        BY <1>3, <1>4, <2>2, <3>1, <4>1
    <3>2. CASE e # d
      BY <1>3, <1>4, <2>2, <3>2
    <3>3. QED
      BY <3>1, <3>2
  <2>4. \A b \in Leases : sending'[e][b] = "send" => b < MaxSend
    BY <1>4, <2>2
  <2>5. QED
    BY <1>0, <1>3, <1>6, <2>2, <2>3, <2>4
<1>8. QED
  BY <1>0, <1>3, <1>4, <1>7 DEF OutboundOK, OutboundType

LEMMA DeliverySafe ==
  ASSUME OutboundOK, NEW d \in Deliveries, DeliveryNext(d)
  PROVE  OutboundOK'
BY CreateDeliverySafe, LeaseDeliverySafe, ExecuteSafe DEF DeliveryNext

LEMMA ReclaimDeliveriesSafe ==
  ASSUME OutboundOK, NEW K \in SUBSET Keys, NEW D \in SUBSET Deliveries, Maintain(K, D)
  PROVE  OutboundOK'
<1>0. /\ delivery \in [Deliveries -> DeliveryRow]
      /\ \A d \in D : delivery[d].status = "delivering" /\ delivery[d].attempts < MaxLeases
      /\ delivery' = [d \in Deliveries |->
           IF d \in D THEN [delivery[d] EXCEPT !.status = "retrying", !.token = 0]
                      ELSE delivery[d]]
      /\ UNCHANGED <<sending, sent>>
  BY DEF Maintain, OutboundOK, OutboundType
<1>1. ASSUME NEW d \in Deliveries
      PROVE  /\ delivery'[d] \in DeliveryRow
             /\ delivery'[d].attempts = delivery[d].attempts
             /\ DeliveryOK(delivery'[d])
  <2>0. delivery[d] \in DeliveryRow /\ DeliveryOK(delivery[d])
    BY <1>0 DEF OutboundOK, DeliveryInv
  <2>1. CASE d \notin D
    BY <1>0, <2>0, <2>1
  <2>2. CASE d \in D
    <3>0. 0 \in 0..MaxLeases
      BY WebhookAssumption
    <3>1. delivery'[d] = [delivery[d] EXCEPT !.status = "retrying", !.token = 0]
      BY <1>0, <2>2
    <3>2. [delivery[d] EXCEPT !.status = "retrying", !.token = 0] \in DeliveryRow
      BY <2>0, <3>0 DEF DeliveryRow, DeliveryStatus, Undelivered
    <3>3. /\ delivery'[d].attempts = delivery[d].attempts
          /\ delivery'[d].status = "retrying" /\ delivery'[d].token = 0
      BY <2>0, <3>1 DEF DeliveryRow
    <3>4. DeliveryOK(delivery'[d])
      BY <1>0, <2>2, <3>3 DEF DeliveryOK, Leased
    <3>5. QED
      BY <3>1, <3>2, <3>3, <3>4
  <2>3. QED
    BY <2>1, <2>2
<1>2. delivery' \in [Deliveries -> DeliveryRow]
  BY <1>0, <1>1
<1>3. QED
  BY <1>0, <1>1, <1>2 DEF OutboundOK, OutboundType, DeliveryInv, Unsent

-----------------------------------------------------------------------------
(* The invariant.                                                          *)

LEMMA InitSafe == Init => WebhooksInv
<1> SUFFICES ASSUME Init
             PROVE  WebhooksInv
  OBVIOUS
<1>1. (CHOOSE h \in Hashes : TRUE) \in Hashes
  BY WebhookAssumption
<1>2. /\ 0 \in 0..MaxLeases /\ 0 \in 0..Capacity /\ 0 < MaxLeases /\ 0 <= Capacity
      /\ MaxSend - 1 \in Nat
  <2>1. Capacity \in Nat /\ MaxLeases \in Nat /\ MaxSend \in Nat \ {0} /\ MaxSend <= MaxLeases
    BY WebhookAssumption
  <2>2. QED
    BY <2>1
<1>3. InboundType
  <2>1. event \in [Keys -> EventRow]
    BY <1>1, <1>2 DEF Init, EventRow, EventStatus
  <2>2. QED
    BY <1>2, <2>1 DEF Init, InboundType, RequestState, DispatchState
<1>4. EventInv
  BY <1>2 DEF Init, EventInv, EventOK, Leased
<1>5. AdmittedOnce
  BY DEF Init, AdmittedOnce
<1>6. InFlightExact
  <2>1. Occupied = {}
    BY DEF Init, Occupied
  <2>2. inFlight = Cardinality(Occupied)
    BY <2>1, FS_EmptySet DEF Init
  <2>3. inFlight <= Capacity
    BY <1>2 DEF Init
  <2>4. QED
    BY <2>2, <2>3 DEF InFlightExact, Occupied
<1>7. OutboundType
  BY <1>2 DEF Init, OutboundType, DeliveryRow, DeliveryStatus, SendingState
<1>8. DeliveryInv
  <2>1. SUFFICES ASSUME NEW d \in Deliveries
                 PROVE  sent[d] + Cardinality(Unsent(d)) <= MaxSend - 1
    BY <1>2 DEF Init, DeliveryInv, DeliveryOK, Leased
  <2>2. IsFiniteSet(1..(MaxSend - 1)) /\ Cardinality(1..(MaxSend - 1)) = MaxSend - 1
    BY <1>2, FS_Interval, WebhookAssumption
  <2>3. Cardinality(Unsent(d)) <= MaxSend - 1
    BY <2>2, FS_Subset DEF Unsent
  <2>4. QED
    BY <1>2, <2>3, UnsentFinite DEF Init
<1>9. QED
  BY <1>3, <1>4, <1>5, <1>6, <1>7, <1>8, Halves DEF InboundOK, InboundInv, OutboundOK

LEMMA NextSafe == WebhooksInv /\ [Next]_vars => WebhooksInv'
<1> SUFFICES ASSUME WebhooksInv, [Next]_vars
             PROVE  WebhooksInv'
  OBVIOUS
<1>0. InboundOK /\ OutboundOK
  BY Halves
<1>1. SUFFICES InboundOK' /\ OutboundOK'
  <2>1. (InboundOK /\ OutboundOK => WebhooksInv)'
    BY DEF WebhooksInv, InboundOK, OutboundOK, TypeOK, InboundType, OutboundType,
           EventRow, DeliveryRow
  <2>2. QED
    BY <2>1
<1>2. ASSUME NEW r \in Requests, CheckDuplicate(r) \/ Reserve(r)
      PROVE  InboundOK' /\ OutboundOK'
  BY <1>0, <1>2, CheckDuplicateSafe, ReserveSafe, OutboundStays DEF CheckDuplicate, Reserve
<1>3. ASSUME NEW k \in Keys, EventNext(k)
      PROVE  InboundOK' /\ OutboundOK'
  <2>1. UNCHANGED outbound
    BY <1>3 DEF EventNext, LeaseEvent, CreateTask, MarkProcessed, MarkRaises, MarkFailed,
                MarkDeadLettered, Settle, DispatchDies
  <2>2. QED
    BY <1>0, <1>3, <2>1, EventSafe, OutboundStays
<1>4. ASSUME NEW d \in Deliveries, DeliveryNext(d)
      PROVE  InboundOK' /\ OutboundOK'
  <2>1. UNCHANGED inbound
    BY <1>4 DEF DeliveryNext, CreateDelivery, LeaseDelivery, Execute, Expire, RejectTarget,
                Prepare, Send, Retry, Conclude, SendingDies
  <2>2. QED
    BY <1>0, <1>4, <2>1, DeliverySafe, InboundStays
<1>5. ASSUME NEW K \in SUBSET Keys, NEW D \in SUBSET Deliveries, Maintain(K, D)
      PROVE  InboundOK' /\ OutboundOK'
  BY <1>0, <1>5, ReclaimEventsSafe, ReclaimDeliveriesSafe
<1>6. CASE UNCHANGED vars
  BY <1>0, <1>6, InboundStays, OutboundStays DEF vars
<1>7. QED
  BY <1>2, <1>3, <1>4, <1>5, <1>6 DEF Next

THEOREM WebhooksInvariant == Spec => []WebhooksInv
BY InitSafe, NextSafe, PTL DEF Spec

\* The webhook tables, the counter and the attempts are of their types.
THEOREM WebhookTypes == Spec => []TypeOK
<1>1. WebhooksInv => TypeOK
  BY DEF WebhooksInv
<1>2. QED
  BY WebhooksInvariant, <1>1, PTL

\* Of racing requests with one provider event id one is admitted
\* (reserve_tenant_capacity_and_insert_event), and 202 says that the event is stored
\* with that payload.
THEOREM EventsAreAdmittedOnce == Spec => []AdmittedOnce
<1>1. WebhooksInv => AdmittedOnce
  BY DEF WebhooksInv, InboundInv
<1>2. QED
  BY WebhooksInvariant, <1>1, PTL

\* in_flight_count is the number of events that hold a slot, and within the
\* tenant's capacity.
THEOREM CounterIsExact == Spec => []InFlightExact
<1>1. WebhooksInv => InFlightExact
  BY DEF WebhooksInv, InboundInv
<1>2. QED
  BY WebhooksInvariant, <1>1, PTL

\* dispatch_batch gives an event up only after max_attempts dispatches.
THEOREM DeadLettersAreLate == Spec => []DeadLettersUsedTheirAttempts
<1>1. WebhooksInv => DeadLettersUsedTheirAttempts
  BY DEF WebhooksInv, InboundInv, EventInv, EventOK, DeadLettersUsedTheirAttempts
<1>2. QED
  BY WebhooksInvariant, <1>1, PTL

\* _execute_delivery sends at most max_attempts requests, whatever is reclaimed.
THEOREM SendsAreBounded == Spec => []SendsBounded
<1>1. WebhooksInv => SendsBounded
  <2>1. SUFFICES ASSUME WebhooksInv, NEW d \in Deliveries
                 PROVE  sent[d] <= MaxSend
    BY DEF SendsBounded
  <2>2. OutboundType /\ DeliveryInv
    BY <2>1, Halves DEF OutboundOK
  <2>3. sent[d] \in Nat
    BY <2>2 DEF OutboundType
  <2>4. sent[d] + Cardinality(Unsent(d)) <= MaxSend - 1
    BY <2>2 DEF DeliveryInv
  <2>5. QED
    BY <2>3, <2>4, UnsentFinite, WebhookAssumption
<1>2. QED
  BY WebhooksInvariant, <1>1, PTL

\* The mark_inbound_event_* statements of a dispatcher whose lease was taken over
\* match no row.
THEOREM StaleDispatchesAreRejected == Spec => StaleDispatchRejected
<1>1. ASSUME WebhooksInv, [Next]_vars, NEW k \in Keys, NEW a \in Leases,
             dispatch[k][a] \in {"mark", "handle"}, dispatch'[k][a] # dispatch[k][a],
             event'[k] # event[k]
      PROVE  event[k].token = a
  <2>0. InboundOK
    BY <1>1, Halves
  <2>1. ASSUME NEW r \in Requests, CheckDuplicate(r) \/ Reserve(r)
        PROVE  FALSE
    BY <1>1, <2>1 DEF CheckDuplicate, Reserve
  <2>2. ASSUME NEW j \in Keys, EventNext(j)
        PROVE  event[k].token = a
    <3>1. CASE LeaseEvent(j)
      <4>1. event[j].attempts + 1 \in Leases /\ event[j].attempts \in 0..MaxLeases
        BY <2>0, <3>1, LeasedRow DEF InboundOK, InboundInv, InboundType, EventRow
      <4>2. dispatch[j][event[j].attempts + 1] = "none"
        BY <2>0, <4>1 DEF InboundOK, InboundInv, EventInv
      <4>3. dispatch' = [dispatch EXCEPT ![j][event[j].attempts + 1] = "create"]
        BY <3>1 DEF LeaseEvent
      <4>4. k = j /\ a = event[j].attempts + 1
        BY <1>1, <2>0, <4>1, <4>3 DEF InboundOK, InboundType
      <4>5. QED
        BY <1>1, <4>2, <4>4
    <3>2. ASSUME NEW b \in Leases,
                 \/ MarkProcessed(j, b) \/ MarkFailed(j, b) \/ MarkDeadLettered(j, b)
          PROVE  event[k].token = a
      <4>1. PICK from : DispatchStep(j, b, from, "done")
        BY <3>2 DEF MarkProcessed, MarkFailed, MarkDeadLettered
      <4>2. k = j /\ a = b
        BY <1>1, <2>0, <4>1 DEF DispatchStep, InboundOK, InboundType
      <4>3. Holds(k, a)
        BY <1>1, <3>2, <4>2 DEF MarkProcessed, MarkFailed, MarkDeadLettered, Settle
      <4>4. QED
        BY <4>3 DEF Holds
    <3>3. ASSUME NEW b \in Leases, CreateTask(j, b) \/ MarkRaises(j, b) \/ DispatchDies(j, b)
          PROVE  FALSE
      BY <1>1, <3>3 DEF CreateTask, MarkRaises, DispatchDies
    <3>4. QED
      BY <2>2, <3>1, <3>2, <3>3 DEF EventNext
  <2>3. ASSUME NEW d \in Deliveries, DeliveryNext(d)
        PROVE  event' = event
    BY <2>3 DEF DeliveryNext, CreateDelivery, LeaseDelivery, Execute, Expire, RejectTarget,
                Prepare, Send, Retry, Conclude, SendingDies, inbound
  <2>4. ASSUME NEW K \in SUBSET Keys, NEW D \in SUBSET Deliveries, Maintain(K, D)
        PROVE  dispatch' = dispatch
    BY <2>4 DEF Maintain
  <2>5. QED
    BY <1>1, <2>1, <2>2, <2>3, <2>4 DEF Next, vars, inbound
<1>2. WebhooksInv /\ [Next]_vars =>
        [\A k \in Keys, a \in Leases :
           dispatch[k][a] \in {"mark", "handle"} /\ dispatch'[k][a] # dispatch[k][a]
             /\ event'[k] # event[k] => event[k].token = a]_vars
  BY <1>1
<1>3. QED
  BY WebhooksInvariant, <1>2, PTL DEF Spec, StaleDispatchRejected

\* No late mark_delivery_* and no reclaim moves a delivery out of a terminal status.
THEOREM DeliveriesStay == Spec => DeliveredStays
<1>1. ASSUME WebhooksInv, [Next]_vars, NEW d \in Deliveries,
             delivery[d].status \in {"delivered", "failed", "dead_lettered"}
      PROVE  delivery'[d] = delivery[d]
  <2>0. delivery \in [Deliveries -> DeliveryRow]
    BY <1>1, Halves DEF OutboundOK, OutboundType
  <2>1. ASSUME NEW e \in Deliveries, DeliveryNext(e)
        PROVE  delivery'[d] = delivery[d]
    <3>1. CASE CreateDelivery(e) \/ LeaseDelivery(e)
      BY <1>1, <2>0, <3>1 DEF CreateDelivery, LeaseDelivery
    <3>2. ASSUME NEW a \in Leases, NEW from, NEW s, Conclude(e, a, from, s)
          PROVE  delivery'[d] = delivery[d]
      BY <1>1, <2>0, <3>2 DEF Conclude, Undelivered
    <3>3. ASSUME NEW a \in Leases, NEW answer,
                 Prepare(e, a) \/ Send(e, a, answer) \/ SendingDies(e, a)
          PROVE  delivery'[d] = delivery[d]
      BY <3>3 DEF Prepare, Send, SendingDies
    <3>4. QED
      BY <2>1, <3>1, <3>2, <3>3 DEF DeliveryNext, Execute, Expire, RejectTarget, Retry
  <2>2. ASSUME NEW K \in SUBSET Keys, NEW D \in SUBSET Deliveries, Maintain(K, D)
        PROVE  delivery'[d] = delivery[d]
    BY <1>1, <2>2 DEF Maintain
  <2>3. ASSUME UNCHANGED outbound
        PROVE  delivery'[d] = delivery[d]
    BY <2>3 DEF outbound
  <2>4. ASSUME NEW r \in Requests, CheckDuplicate(r) \/ Reserve(r)
        PROVE  UNCHANGED outbound
    BY <2>4 DEF CheckDuplicate, Reserve
  <2>5. ASSUME NEW k \in Keys, EventNext(k)
        PROVE  UNCHANGED outbound
    BY <2>5 DEF EventNext, LeaseEvent, CreateTask, MarkProcessed, MarkRaises, MarkFailed,
                MarkDeadLettered, Settle, DispatchDies
  <2>6. QED
    BY <1>1, <2>1, <2>2, <2>3, <2>4, <2>5 DEF Next, vars
<1>2. WebhooksInv /\ [Next]_vars =>
        [\A d \in Deliveries : delivery[d].status \in {"delivered", "failed", "dead_lettered"} =>
           delivery'[d] = delivery[d]]_vars
  BY <1>1
<1>3. QED
  BY WebhooksInvariant, <1>2, PTL DEF Spec, DeliveredStays

-----------------------------------------------------------------------------
(* Refinement of FencedLedger: rows that keep only their newest attempt    *)
(* behave as ledgers with one entry per attempt.                           *)

\* The ledger of rows whose newest attempts are n, with the verdicts v.
Entries(R, n, v) == [r \in R |-> [a \in Leases |-> Entry(a, n[r], v[r])]]

\* What the steps of FencedLedger do to a ledger L whose tokens are n.
AfterGrant(L, n, r) == [L EXCEPT ![r] = [L[r] EXCEPT ![n[r] + 1] = "running"]]

AfterConclude(L, n, r, verdict) == [L EXCEPT ![r] = [L[r] EXCEPT ![n[r]] = verdict]]

AfterWithdraw(L, n, R, S) ==
  [q \in R |-> [a \in Leases |->
     IF q \in S /\ a = n[q] /\ L[q][a] = "running" THEN "recovered" ELSE L[q][a]]]

\* The attempt that is leased next is a new entry, and the ones before it stay withdrawn.
LEMMA GrantedEntries ==
  ASSUME NEW R, NEW n, NEW n2, NEW v, NEW v2, NEW r \in R, n[r] \in Nat, v[r] = "recovered",
         \A q \in R : n2[q] = IF q = r THEN n[r] + 1 ELSE n[q],
         \A q \in R : v2[q] = IF q = r THEN "running" ELSE v[q]
  PROVE  Entries(R, n2, v2) = AfterGrant(Entries(R, n, v), n, r)
<1> DEFINE E  == Entries(R, n, v)
           E2 == Entries(R, n2, v2)
<1>1. ASSUME NEW q \in R, q # r
      PROVE  E2[q] = E[q]
  BY <1>1 DEF Entries
<1>2. E2[r] = [E[r] EXCEPT ![n[r] + 1] = "running"]
  <2>1. ASSUME NEW a \in Leases
        PROVE  Entry(a, n2[r], v2[r]) =
                 IF a = n[r] + 1 THEN "running" ELSE Entry(a, n[r], v[r])
    BY WebhookAssumption DEF Leases, Entry
  <2>2. E[r] = [a \in Leases |-> Entry(a, n[r], v[r])]
    BY DEF Entries
  <2>3. E2[r] = [a \in Leases |-> Entry(a, n2[r], v2[r])]
    BY DEF Entries
  <2>4. QED
    BY <2>1, <2>2, <2>3
<1>3. E = [q \in R |-> E[q]] /\ E2 = [q \in R |-> E2[q]]
  BY DEF Entries
<1> HIDE DEF E, E2
<1>4. E2 = [E EXCEPT ![r] = [E[r] EXCEPT ![n[r] + 1] = "running"]]
  BY <1>1, <1>2, <1>3
<1>5. QED
  BY <1>4 DEF E, E2, AfterGrant

\* The verdict of the newest attempt is the last entry.
LEMMA ConcludedEntries ==
  ASSUME NEW R, NEW n, NEW v, NEW v2, NEW r \in R, NEW verdict, n[r] \in Leases,
         \A q \in R : v2[q] = IF q = r THEN verdict ELSE v[q]
  PROVE  /\ Entries(R, n, v2) = AfterConclude(Entries(R, n, v), n, r, verdict)
         /\ Entries(R, n, v)[r][n[r]] = v[r]
<1> DEFINE E  == Entries(R, n, v)
           E2 == Entries(R, n, v2)
<1>1. ASSUME NEW q \in R, q # r
      PROVE  E2[q] = E[q]
  BY <1>1 DEF Entries
<1>2. E2[r] = [E[r] EXCEPT ![n[r]] = verdict]
  <2>1. ASSUME NEW a \in Leases
        PROVE  Entry(a, n[r], v2[r]) = IF a = n[r] THEN verdict ELSE Entry(a, n[r], v[r])
    BY WebhookAssumption DEF Leases, Entry
  <2>2. E[r] = [a \in Leases |-> Entry(a, n[r], v[r])]
    BY DEF Entries
  <2>3. E2[r] = [a \in Leases |-> Entry(a, n[r], v2[r])]
    BY DEF Entries
  <2>4. QED
    BY <2>1, <2>2, <2>3
<1>3. E = [q \in R |-> E[q]] /\ E2 = [q \in R |-> E2[q]]
  BY DEF Entries
<1>4. E[r][n[r]] = v[r]
  BY WebhookAssumption DEF Entries, Entry, Leases
<1> HIDE DEF E, E2
<1>5. E2 = [E EXCEPT ![r] = [E[r] EXCEPT ![n[r]] = verdict]]
  BY <1>1, <1>2, <1>3
<1>6. QED
  BY <1>4, <1>5 DEF E, E2, AfterConclude

\* Withdrawn attempts are closed as recovered.
LEMMA WithdrawnEntries ==
  ASSUME NEW R, NEW n, NEW v, NEW v2, NEW S \in SUBSET R, \A q \in R : n[q] \in Nat,
         \A q \in S : v[q] = "running",
         \A q \in R : v2[q] = IF q \in S THEN "recovered" ELSE v[q]
  PROVE  Entries(R, n, v2) = AfterWithdraw(Entries(R, n, v), n, R, S)
<1>1. ASSUME NEW q \in R, NEW a \in Leases
      PROVE  /\ Entries(R, n, v)[q][a] = Entry(a, n[q], v[q])
             /\ Entry(a, n[q], v2[q]) =
                  IF q \in S /\ a = n[q] /\ Entry(a, n[q], v[q]) = "running"
                    THEN "recovered" ELSE Entry(a, n[q], v[q])
  <2>1. Entries(R, n, v)[q][a] = Entry(a, n[q], v[q])
    BY DEF Entries
  <2>2. CASE q \in S
    BY <2>1, <2>2, WebhookAssumption DEF Leases, Entry
  <2>3. CASE q \notin S
    BY <2>1, <2>3
  <2>4. QED
    BY <2>1, <2>2, <2>3
<1>2. Entries(R, n, v2) = [q \in R |-> [a \in Leases |-> Entry(a, n[q], v2[q])]]
  BY DEF Entries
<1>3. QED
  BY <1>1, <1>2 DEF AfterWithdraw

\* The refinement mapping of the events, as Webhooks' Inbound instance substitutes it.
EventAttempts == [k \in Keys |-> event[k].attempts]
EventHeld     == [k \in Keys |-> event[k].status = "processing"]
EventEntries  == [k \in Keys |-> [a \in Leases |->
                    Entry(a, event[k].attempts, InboundVerdict(event[k].status))]]
EventVerdicts == [k \in Keys |-> InboundVerdict(event[k].status)]

LEMMA EventMapping == EventEntries = Entries(Keys, EventAttempts, EventVerdicts)
BY DEF EventEntries, Entries, EventAttempts, EventVerdicts

LEMMA NewEventMapping == EventEntries' = Entries(Keys, EventAttempts', EventVerdicts')
BY DEF EventEntries, Entries, EventAttempts, EventVerdicts

LEMMA InboundTokens == Inbound!Tokens = Leases
BY DEF Inbound!Tokens, Leases

LEMMA InboundVerdicts ==
  /\ InboundVerdict("processing") = "running"
  /\ InboundVerdict("processed") = "completed"
  /\ InboundVerdict("dead_lettered") = "failed"
  /\ \A s \in {"absent", "accepted", "failed"} : InboundVerdict(s) = "recovered"
BY DEF InboundVerdict

\* Nothing the ledger shows has changed.
LEMMA EventsStutter ==
  ASSUME \A k \in Keys : /\ event'[k].attempts = event[k].attempts
                         /\ (event'[k].status = "processing") = (event[k].status = "processing")
                         /\ InboundVerdict(event'[k].status) = InboundVerdict(event[k].status)
  PROVE  UNCHANGED Inbound!vars
<1>1. EventAttempts' = EventAttempts
  BY DEF EventAttempts
<1>2. EventHeld' = EventHeld
  BY DEF EventHeld
<1>3. EventEntries' = EventEntries
  BY DEF EventEntries
<1>4. QED
  BY <1>1, <1>2, <1>3 DEF Inbound!vars, EventAttempts, EventHeld, EventEntries

\* A lease takes the next token.
LEMMA EventGranted ==
  ASSUME event \in [Keys -> EventRow], NEW k \in Keys, event[k].attempts < MaxLeases,
         event[k].status \in {"accepted", "failed"},
         event'[k].status = "processing", event'[k].attempts = event[k].attempts + 1,
         \A j \in Keys \ {k} : event'[j] = event[j]
  PROVE  Inbound!Next
<1>1. event[k].attempts \in Nat /\ event[k].attempts = EventAttempts[k]
  BY WebhookAssumption DEF EventRow, EventAttempts
<1>2. \A q \in Keys : EventAttempts'[q] = IF q = k THEN EventAttempts[k] + 1 ELSE EventAttempts[q]
  BY DEF EventAttempts
<1>3. \A q \in Keys : EventVerdicts'[q] = IF q = k THEN "running" ELSE EventVerdicts[q]
  BY InboundVerdicts DEF EventVerdicts
<1>4. EventVerdicts[k] = "recovered"
  BY InboundVerdicts DEF EventVerdicts
<1>5. EventEntries' = [EventEntries EXCEPT ![k] =
                         [EventEntries[k] EXCEPT ![EventAttempts[k] + 1] = "running"]]
  <2>1. Entries(Keys, EventAttempts', EventVerdicts') =
          AfterGrant(Entries(Keys, EventAttempts, EventVerdicts), EventAttempts, k)
    BY <1>1, <1>2, <1>3, <1>4, GrantedEntries
  <2>2. QED
    BY <2>1, EventMapping, NewEventMapping DEF AfterGrant
<1>6. EventAttempts' = [EventAttempts EXCEPT ![k] = EventAttempts[k] + 1]
  BY <1>2 DEF EventAttempts
<1>7. EventHeld' = [EventHeld EXCEPT ![k] = TRUE]
  BY DEF EventHeld
<1>8. EventAttempts[k] < MaxLeases
  BY <1>1
<1>9. Inbound!Grant(k)
  BY <1>5, <1>6, <1>7, <1>8 DEF Inbound!Grant, EventAttempts, EventHeld, EventEntries
<1>10. QED
  BY <1>9, Zenon DEF Inbound!Next

\* The newest attempt ends with the event.
LEMMA EventConcluded ==
  ASSUME event \in [Keys -> EventRow], NEW k \in Keys, event[k].attempts \in Leases,
         event[k].status = "processing", event'[k].attempts = event[k].attempts,
         event'[k].status \in {"processed", "dead_lettered"},
         \A j \in Keys \ {k} : event'[j] = event[j]
  PROVE  Inbound!Next
<1> DEFINE verdict == InboundVerdict(event'[k].status)
<1>1. \A q \in Keys : EventVerdicts'[q] = IF q = k THEN verdict ELSE EventVerdicts[q]
  BY DEF EventVerdicts
<1>2. EventAttempts' = EventAttempts /\ EventAttempts[k] \in Leases
  BY DEF EventAttempts
<1>3. EventVerdicts[k] = "running" /\ EventHeld[k]
  BY InboundVerdicts DEF EventVerdicts, EventHeld
<1>4. verdict \in Inbound!Closed
  BY InboundVerdicts DEF Inbound!Closed
<1> HIDE DEF verdict
<1>5. /\ EventEntries' = [EventEntries EXCEPT ![k] =
                            [EventEntries[k] EXCEPT ![EventAttempts[k]] = verdict]]
      /\ EventEntries[k][EventAttempts[k]] = "running"
  <2>1. /\ Entries(Keys, EventAttempts, EventVerdicts') =
             AfterConclude(Entries(Keys, EventAttempts, EventVerdicts), EventAttempts, k, verdict)
        /\ Entries(Keys, EventAttempts, EventVerdicts)[k][EventAttempts[k]] = EventVerdicts[k]
    BY <1>1, <1>2, ConcludedEntries
  <2>2. QED
    BY <1>2, <1>3, <2>1, EventMapping, NewEventMapping DEF AfterConclude
<1>6. EventHeld' = [EventHeld EXCEPT ![k] = FALSE]
  BY DEF EventHeld
<1>7. ASSUME NEW s, s = verdict
      PROVE  Inbound!Conclude(k, s)
  BY <1>2, <1>3, <1>5, <1>6, <1>7 DEF Inbound!Conclude, EventAttempts, EventHeld, EventEntries
<1>8. \E s \in Inbound!Closed : Inbound!Conclude(k, s)
  BY <1>4, <1>7
<1>9. QED
  BY <1>8, Zenon DEF Inbound!Next

\* The attempts of some events are withdrawn.
LEMMA EventsWithdrawn ==
  ASSUME event \in [Keys -> EventRow], NEW K \in SUBSET Keys,
         \A k \in Keys : event'[k].attempts = event[k].attempts,
         \A k \in K : event[k].status = "processing" /\ event'[k].status = "failed",
         \A k \in Keys \ K : event'[k].status = event[k].status
  PROVE  Inbound!Next
<1>1. \A k \in Keys : EventAttempts[k] \in Nat
  BY WebhookAssumption DEF EventRow, EventAttempts
<1>2. EventAttempts' = EventAttempts
  BY DEF EventAttempts
<1>3. \A k \in K : EventVerdicts[k] = "running" /\ EventHeld[k]
  BY InboundVerdicts DEF EventVerdicts, EventHeld
<1>4. \A k \in Keys : EventVerdicts'[k] = IF k \in K THEN "recovered" ELSE EventVerdicts[k]
  BY InboundVerdicts DEF EventVerdicts
<1>5. EventEntries' = [k \in Keys |-> [a \in Leases |->
                         IF k \in K /\ a = EventAttempts[k] /\ EventEntries[k][a] = "running"
                           THEN "recovered" ELSE EventEntries[k][a]]]
  <2>1. Entries(Keys, EventAttempts, EventVerdicts') =
          AfterWithdraw(Entries(Keys, EventAttempts, EventVerdicts), EventAttempts, Keys, K)
    BY <1>1, <1>3, <1>4, WithdrawnEntries
  <2>2. QED
    BY <1>2, <2>1, EventMapping, NewEventMapping DEF AfterWithdraw
<1>6. EventHeld' = [k \in Keys |-> EventHeld[k] /\ k \notin K]
  BY DEF EventHeld
<1>7. Inbound!Withdraw(K)
  BY <1>2, <1>3, <1>5, <1>6, InboundTokens
     DEF Inbound!Withdraw, EventAttempts, EventHeld, EventEntries
<1>8. QED
  BY <1>7, Zenon DEF Inbound!Next

LEMMA InboundInit == Init => Inbound!Init
<1> SUFFICES ASSUME Init
             PROVE  Inbound!Init
  OBVIOUS
<1>1. \A k \in Keys : event[k].attempts = 0 /\ event[k].status = "absent"
  BY DEF Init
<1>2. EventAttempts = [k \in Keys |-> 0]
  BY <1>1 DEF EventAttempts
<1>3. EventHeld = [k \in Keys |-> FALSE]
  BY <1>1 DEF EventHeld
<1>4. EventEntries = [k \in Keys |-> [a \in Leases |-> "none"]]
  <2>1. \A k \in Keys, a \in Leases :
          Entry(a, event[k].attempts, InboundVerdict(event[k].status)) = "none"
    BY <1>1, WebhookAssumption DEF Entry, Leases
  <2>2. QED
    BY <2>1 DEF EventEntries
<1>5. QED
  BY <1>2, <1>3, <1>4, InboundTokens DEF Inbound!Init, EventAttempts, EventHeld, EventEntries

\* A dispatcher whose mark counts is the holder of the newest attempt.
LEMMA HolderIsNewest ==
  ASSUME InboundOK, NEW k \in Keys, NEW a \in Leases, Holds(k, a)
  PROVE  event[k].status = "processing" /\ event[k].attempts = a
<1>1. EventOK(event[k]) /\ a # 0 /\ event[k].token = a
  BY WebhookAssumption DEF InboundOK, InboundInv, EventInv, Holds, Leases
<1>2. QED
  BY <1>1 DEF EventOK, Leased

\* What an event's actors do to its ledger.
LEMMA EventActs ==
  ASSUME InboundOK, NEW k \in Keys, EventNext(k)
  PROVE  [Inbound!Next]_Inbound!vars
<1>0. event \in [Keys -> EventRow] /\ EventInv
  BY DEF InboundOK, InboundType, InboundInv
<1>1. CASE event' = event
  BY <1>1, EventsStutter
<1>2. CASE LeaseEvent(k)
  <2>1. event[k].attempts < MaxLeases /\ event[k].status \in {"accepted", "failed"}
    BY <1>0, <1>2 DEF LeaseEvent, EventInv, EventOK, Leased
  <2>2. QED
    BY <1>0, <1>2, <2>1, LeasedRow, EventGranted
<1>3. ASSUME NEW a \in Leases, Holds(k, a), NEW s \in {"processed", "dead_lettered", "failed"},
             event' = Settled(k, s)
      PROVE  Inbound!Next
  <2>1. event[k].status = "processing" /\ event[k].attempts \in Leases
    BY <1>3, HolderIsNewest
  <2>2. /\ event'[k].status = s /\ event'[k].attempts = event[k].attempts
        /\ \A j \in Keys \ {k} : event'[j] = event[j]
    <3>1. s \in EventStatus
      BY DEF EventStatus, Open
    <3>2. QED
      BY <1>0, <1>3, <3>1, SettledRow
  <2>3. CASE s = "failed"
    BY <1>0, <2>1, <2>2, <2>3, EventsWithdrawn
  <2>4. CASE s # "failed"
    BY <1>0, <2>1, <2>2, <2>4, EventConcluded
  <2>5. QED
    BY <2>3, <2>4
<1>4. ASSUME NEW a \in Leases, MarkProcessed(k, a) \/ MarkFailed(k, a) \/ MarkDeadLettered(k, a)
      PROVE  [Inbound!Next]_Inbound!vars
  <2>1. \/ event' = event
        \/ Holds(k, a) /\ \E s \in {"processed", "dead_lettered", "failed"} : event' = Settled(k, s)
    BY <1>4 DEF MarkProcessed, MarkFailed, MarkDeadLettered, Settle
  <2>2. QED
    BY <1>1, <1>3, <2>1
<1>5. ASSUME NEW a \in Leases, CreateTask(k, a) \/ MarkRaises(k, a) \/ DispatchDies(k, a)
      PROVE  event' = event
  BY <1>5 DEF CreateTask, MarkRaises, DispatchDies
<1>6. QED
  BY <1>1, <1>2, <1>4, <1>5 DEF EventNext

\* A request that opens a row grants nothing.
LEMMA AdmissionsStutter ==
  ASSUME InboundOK, NEW r \in Requests, CheckDuplicate(r) \/ Reserve(r)
  PROVE  UNCHANGED Inbound!vars
<1>1. CASE event' = event
  BY <1>1, EventsStutter
<1>2. CASE event' # event
  <2>1. PICK k \in Keys : k = KeyOf[r]
    BY WebhookAssumption
  <2>2. /\ event[k].status = "absent"
        /\ event' = [event EXCEPT ![k].status = "accepted", ![k].hash = HashOf[r]]
    BY <1>2, <2>1 DEF CheckDuplicate, Reserve
  <2>3. /\ event'[k].status = "accepted" /\ event'[k].attempts = event[k].attempts
        /\ \A j \in Keys \ {k} : event'[j] = event[j]
    BY <2>2, AdmittedRow, WebhookAssumption DEF InboundOK, InboundType
  <2>4. QED
    BY <2>2, <2>3, EventsStutter, InboundVerdicts
<1>3. QED
  BY <1>1, <1>2

LEMMA InboundStep ==
  ASSUME WebhooksInv, [Next]_vars
  PROVE  [Inbound!Next]_Inbound!vars
<1>0. InboundOK
  BY Halves
<1>1. CASE event' = event
  BY <1>1, EventsStutter
<1>2. ASSUME NEW d \in Deliveries, DeliveryNext(d)
      PROVE  event' = event
  BY <1>2 DEF DeliveryNext, CreateDelivery, LeaseDelivery, Execute, Expire, RejectTarget,
              Prepare, Send, Retry, Conclude, SendingDies, inbound
<1>3. ASSUME NEW K \in SUBSET Keys, NEW D \in SUBSET Deliveries, Maintain(K, D)
      PROVE  Inbound!Next
  <2>1. event \in [Keys -> EventRow]
    BY <1>0 DEF InboundOK, InboundType
  <2>2. \A k \in Keys : event'[k].attempts = event[k].attempts
    BY <1>3, <2>1 DEF Maintain, EventRow
  <2>3. \A k \in K : event[k].status = "processing" /\ event'[k].status = "failed"
    BY <1>3, <2>1 DEF Maintain, EventRow
  <2>4. \A k \in Keys \ K : event'[k].status = event[k].status
    BY <1>3 DEF Maintain
  <2>5. QED
    BY <2>1, <2>2, <2>3, <2>4, EventsWithdrawn
<1>4. CASE UNCHANGED vars
  BY <1>1, <1>4 DEF vars, inbound
<1>5. QED
  BY <1>0, <1>1, <1>2, <1>3, <1>4, EventActs, AdmissionsStutter DEF Next

\* However dispatchers, late marks and the maintenance interleave, an event's
\* row is a fenced ledger: attempts are granted one after the other, only the
\* newest is held, and the verdict of an attempt is given once
\* (lease_due_inbound_events, mark_inbound_event_*).
THEOREM InboundIsFenced == Spec => InboundRefined
<1>1. WebhooksInv /\ [Next]_vars => [Inbound!Next]_Inbound!vars
  BY InboundStep
<1>2. QED
  BY InboundInit, <1>1, WebhooksInvariant, PTL DEF Spec, Inbound!Spec, InboundRefined

\* The refinement mapping of the deliveries, as Webhooks' Outbound instance substitutes it.
DeliveryAttempts == [d \in Deliveries |-> delivery[d].attempts]
DeliveryHeld     == [d \in Deliveries |-> delivery[d].status = "delivering"]
DeliveryEntries  == [d \in Deliveries |-> [a \in Leases |->
                    Entry(a, delivery[d].attempts, OutboundVerdict(delivery[d].status))]]
DeliveryVerdicts == [d \in Deliveries |-> OutboundVerdict(delivery[d].status)]

LEMMA DeliveryMapping == DeliveryEntries = Entries(Deliveries, DeliveryAttempts, DeliveryVerdicts)
BY DEF DeliveryEntries, Entries, DeliveryAttempts, DeliveryVerdicts

LEMMA NewDeliveryMapping ==
  DeliveryEntries' = Entries(Deliveries, DeliveryAttempts', DeliveryVerdicts')
BY DEF DeliveryEntries, Entries, DeliveryAttempts, DeliveryVerdicts

LEMMA OutboundTokens == Outbound!Tokens = Leases
BY DEF Outbound!Tokens, Leases

LEMMA OutboundVerdicts ==
  /\ OutboundVerdict("delivering") = "running"
  /\ OutboundVerdict("delivered") = "completed"
  /\ \A s \in {"failed", "dead_lettered"} : OutboundVerdict(s) = "failed"
  /\ \A s \in {"absent", "pending", "retrying"} : OutboundVerdict(s) = "recovered"
BY DEF OutboundVerdict

\* Nothing the ledger shows has changed.
LEMMA DeliveriesStutter ==
  ASSUME \A d \in Deliveries :
           /\ delivery'[d].attempts = delivery[d].attempts
           /\ (delivery'[d].status = "delivering") = (delivery[d].status = "delivering")
           /\ OutboundVerdict(delivery'[d].status) = OutboundVerdict(delivery[d].status)
  PROVE  UNCHANGED Outbound!vars
<1>1. DeliveryAttempts' = DeliveryAttempts
  BY DEF DeliveryAttempts
<1>2. DeliveryHeld' = DeliveryHeld
  BY DEF DeliveryHeld
<1>3. DeliveryEntries' = DeliveryEntries
  BY DEF DeliveryEntries
<1>4. QED
  BY <1>1, <1>2, <1>3 DEF Outbound!vars, DeliveryAttempts, DeliveryHeld, DeliveryEntries

\* A lease takes the next token.
LEMMA DeliveryGranted ==
  ASSUME delivery \in [Deliveries -> DeliveryRow],
         NEW d \in Deliveries, delivery[d].attempts < MaxLeases,
         delivery[d].status \in {"pending", "retrying"},
         delivery'[d].status = "delivering", delivery'[d].attempts = delivery[d].attempts + 1,
         \A e \in Deliveries \ {d} : delivery'[e] = delivery[e]
  PROVE  Outbound!Next
<1>1. delivery[d].attempts \in Nat /\ delivery[d].attempts = DeliveryAttempts[d]
  BY WebhookAssumption DEF DeliveryRow, DeliveryAttempts
<1>2. \A q \in Deliveries :
        DeliveryAttempts'[q] = IF q = d THEN DeliveryAttempts[d] + 1 ELSE DeliveryAttempts[q]
  BY DEF DeliveryAttempts
<1>3. \A q \in Deliveries : DeliveryVerdicts'[q] = IF q = d THEN "running" ELSE DeliveryVerdicts[q]
  BY OutboundVerdicts DEF DeliveryVerdicts
<1>4. DeliveryVerdicts[d] = "recovered"
  BY OutboundVerdicts DEF DeliveryVerdicts
<1>5. DeliveryEntries' = [DeliveryEntries EXCEPT ![d] =
                         [DeliveryEntries[d] EXCEPT ![DeliveryAttempts[d] + 1] = "running"]]
  <2>1. Entries(Deliveries, DeliveryAttempts', DeliveryVerdicts') =
          AfterGrant(Entries(Deliveries, DeliveryAttempts, DeliveryVerdicts), DeliveryAttempts, d)
    BY <1>1, <1>2, <1>3, <1>4, GrantedEntries
  <2>2. QED
    BY <2>1, DeliveryMapping, NewDeliveryMapping DEF AfterGrant
<1>6. DeliveryAttempts' = [DeliveryAttempts EXCEPT ![d] = DeliveryAttempts[d] + 1]
  BY <1>2 DEF DeliveryAttempts
<1>7. DeliveryHeld' = [DeliveryHeld EXCEPT ![d] = TRUE]
  BY DEF DeliveryHeld
<1>8. DeliveryAttempts[d] < MaxLeases
  BY <1>1
<1>9. Outbound!Grant(d)
  BY <1>5, <1>6, <1>7, <1>8 DEF Outbound!Grant, DeliveryAttempts, DeliveryHeld, DeliveryEntries
<1>10. QED
  BY <1>9, Zenon DEF Outbound!Next

\* The newest attempt ends with the delivery.
LEMMA DeliveryConcluded ==
  ASSUME delivery \in [Deliveries -> DeliveryRow],
         NEW d \in Deliveries, delivery[d].attempts \in Leases,
         delivery[d].status = "delivering", delivery'[d].attempts = delivery[d].attempts,
         delivery'[d].status \in {"delivered", "failed", "dead_lettered"},
         \A e \in Deliveries \ {d} : delivery'[e] = delivery[e]
  PROVE  Outbound!Next
<1> DEFINE verdict == OutboundVerdict(delivery'[d].status)
<1>1. \A q \in Deliveries : DeliveryVerdicts'[q] = IF q = d THEN verdict ELSE DeliveryVerdicts[q]
  BY DEF DeliveryVerdicts
<1>2. DeliveryAttempts' = DeliveryAttempts /\ DeliveryAttempts[d] \in Leases
  BY DEF DeliveryAttempts
<1>3. DeliveryVerdicts[d] = "running" /\ DeliveryHeld[d]
  BY OutboundVerdicts DEF DeliveryVerdicts, DeliveryHeld
<1>4. verdict \in Outbound!Closed
  BY OutboundVerdicts DEF Outbound!Closed
<1> HIDE DEF verdict
<1>5. /\ DeliveryEntries' = [DeliveryEntries EXCEPT ![d] =
                            [DeliveryEntries[d] EXCEPT ![DeliveryAttempts[d]] = verdict]]
      /\ DeliveryEntries[d][DeliveryAttempts[d]] = "running"
  <2>1. /\ Entries(Deliveries, DeliveryAttempts, DeliveryVerdicts') =
             AfterConclude(Entries(Deliveries, DeliveryAttempts, DeliveryVerdicts),
                           DeliveryAttempts, d, verdict)
        /\ Entries(Deliveries, DeliveryAttempts, DeliveryVerdicts)[d][DeliveryAttempts[d]]
             = DeliveryVerdicts[d]
    BY <1>1, <1>2, ConcludedEntries
  <2>2. QED
    BY <1>2, <1>3, <2>1, DeliveryMapping, NewDeliveryMapping DEF AfterConclude
<1>6. DeliveryHeld' = [DeliveryHeld EXCEPT ![d] = FALSE]
  BY DEF DeliveryHeld
<1>7. ASSUME NEW s, s = verdict
      PROVE  Outbound!Conclude(d, s)
  BY <1>2, <1>3, <1>5, <1>6, <1>7
     DEF Outbound!Conclude, DeliveryAttempts, DeliveryHeld, DeliveryEntries
<1>8. \E s \in Outbound!Closed : Outbound!Conclude(d, s)
  BY <1>4, <1>7
<1>9. QED
  BY <1>8, Zenon DEF Outbound!Next

\* The attempts of some deliveries are withdrawn.
LEMMA DeliveriesWithdrawn ==
  ASSUME delivery \in [Deliveries -> DeliveryRow], NEW D \in SUBSET Deliveries,
         \A d \in Deliveries : delivery'[d].attempts = delivery[d].attempts,
         \A d \in D : delivery[d].status = "delivering" /\ delivery'[d].status = "retrying",
         \A d \in Deliveries \ D : delivery'[d].status = delivery[d].status
  PROVE  Outbound!Next
<1>1. \A d \in Deliveries : DeliveryAttempts[d] \in Nat
  BY WebhookAssumption DEF DeliveryRow, DeliveryAttempts
<1>2. DeliveryAttempts' = DeliveryAttempts
  BY DEF DeliveryAttempts
<1>3. \A d \in D : DeliveryVerdicts[d] = "running" /\ DeliveryHeld[d]
  BY OutboundVerdicts DEF DeliveryVerdicts, DeliveryHeld
<1>4. \A d \in Deliveries :
        DeliveryVerdicts'[d] = IF d \in D THEN "recovered" ELSE DeliveryVerdicts[d]
  BY OutboundVerdicts DEF DeliveryVerdicts
<1>5. DeliveryEntries' = [d \in Deliveries |-> [a \in Leases |->
                         IF d \in D /\ a = DeliveryAttempts[d] /\ DeliveryEntries[d][a] = "running"
                           THEN "recovered" ELSE DeliveryEntries[d][a]]]
  <2>1. Entries(Deliveries, DeliveryAttempts, DeliveryVerdicts') =
          AfterWithdraw(Entries(Deliveries, DeliveryAttempts, DeliveryVerdicts),
                        DeliveryAttempts, Deliveries, D)
    BY <1>1, <1>3, <1>4, WithdrawnEntries
  <2>2. QED
    BY <1>2, <2>1, DeliveryMapping, NewDeliveryMapping DEF AfterWithdraw
<1>6. DeliveryHeld' = [d \in Deliveries |-> DeliveryHeld[d] /\ d \notin D]
  BY DEF DeliveryHeld
<1>7. Outbound!Withdraw(D)
  BY <1>2, <1>3, <1>5, <1>6, OutboundTokens
     DEF Outbound!Withdraw, DeliveryAttempts, DeliveryHeld, DeliveryEntries
<1>8. QED
  BY <1>7, Zenon DEF Outbound!Next

LEMMA OutboundInit == Init => Outbound!Init
<1> SUFFICES ASSUME Init
             PROVE  Outbound!Init
  OBVIOUS
<1>1. \A d \in Deliveries : delivery[d].attempts = 0 /\ delivery[d].status = "absent"
  BY DEF Init
<1>2. DeliveryAttempts = [d \in Deliveries |-> 0]
  BY <1>1 DEF DeliveryAttempts
<1>3. DeliveryHeld = [d \in Deliveries |-> FALSE]
  BY <1>1 DEF DeliveryHeld
<1>4. DeliveryEntries = [d \in Deliveries |-> [a \in Leases |-> "none"]]
  <2>1. \A d \in Deliveries, a \in Leases :
          Entry(a, delivery[d].attempts, OutboundVerdict(delivery[d].status)) = "none"
    BY <1>1, WebhookAssumption DEF Entry, Leases
  <2>2. QED
    BY <2>1 DEF DeliveryEntries
<1>5. QED
  BY <1>2, <1>3, <1>4, OutboundTokens
     DEF Outbound!Init, DeliveryAttempts, DeliveryHeld, DeliveryEntries

\* A mark_delivery_* call closes the attempt it was drawn for, or changes nothing.
LEMMA DeliveryMarked ==
  ASSUME OutboundOK, NEW d \in Deliveries, NEW a \in Leases, NEW from,
         NEW s \in {"delivered", "failed", "dead_lettered", "retrying"}, Conclude(d, a, from, s)
  PROVE  [Outbound!Next]_Outbound!vars
<1>0. delivery \in [Deliveries -> DeliveryRow] /\ DeliveryOK(delivery[d])
  BY DEF OutboundOK, OutboundType, DeliveryInv
<1>1. CASE delivery' = delivery
  BY <1>1, DeliveriesStutter
<1>2. CASE delivery' # delivery
  <2>1. /\ delivery[d].token = a
        /\ delivery' = [delivery EXCEPT ![d].status = s, ![d].token = 0]
    BY <1>2 DEF Conclude
  <2>2. delivery[d].status = "delivering" /\ delivery[d].attempts \in Leases
    BY <1>0, <2>1, WebhookAssumption DEF DeliveryOK, Leased, Leases
  <2>3. /\ delivery'[d].status = s /\ delivery'[d].attempts = delivery[d].attempts
        /\ \A e \in Deliveries \ {d} : delivery'[e] = delivery[e]
    <3>1. s \in DeliveryStatus
      BY DEF DeliveryStatus, Undelivered
    <3>2. QED
      BY <1>0, <2>1, <3>1, ConcludedRow
  <2>4. CASE s = "retrying"
    BY <1>0, <2>2, <2>3, <2>4, DeliveriesWithdrawn
  <2>5. CASE s # "retrying"
    BY <1>0, <2>2, <2>3, <2>5, DeliveryConcluded
  <2>6. QED
    BY <2>4, <2>5
<1>3. QED
  BY <1>1, <1>2

\* What a delivery's actors do to its ledger.
LEMMA DeliveryActs ==
  ASSUME OutboundOK, NEW d \in Deliveries, DeliveryNext(d)
  PROVE  [Outbound!Next]_Outbound!vars
<1>0. delivery \in [Deliveries -> DeliveryRow] /\ DeliveryInv
  BY DEF OutboundOK, OutboundType
<1>1. CASE delivery' = delivery
  BY <1>1, DeliveriesStutter
<1>2. CASE CreateDelivery(d)
  <2>1. /\ delivery[d].status = "absent" /\ delivery'[d].status = "pending"
        /\ delivery'[d].attempts = delivery[d].attempts
        /\ \A e \in Deliveries \ {d} : delivery'[e] = delivery[e]
    BY <1>0, <1>2 DEF CreateDelivery, DeliveryRow
  <2>2. QED
    BY <2>1, DeliveriesStutter, OutboundVerdicts
<1>3. CASE LeaseDelivery(d)
  <2>1. delivery[d].attempts < MaxLeases /\ delivery[d].status \in {"pending", "retrying"}
    BY <1>0, <1>3 DEF LeaseDelivery, DeliveryInv, DeliveryOK, Leased
  <2>2. /\ delivery'[d].status = "delivering" /\ delivery'[d].attempts = delivery[d].attempts + 1
        /\ \A e \in Deliveries \ {d} : delivery'[e] = delivery[e]
    BY <1>0, <1>3 DEF LeaseDelivery
  <2>3. QED
    BY <1>0, <2>1, <2>2, DeliveryGranted
<1>4. ASSUME NEW a \in Leases,
             \/ Expire(d, a) \/ RejectTarget(d, a) \/ Retry(d, a)
             \/ Conclude(d, a, "acknowledged", "delivered")
             \/ Conclude(d, a, "refused", "failed")
      PROVE  [Outbound!Next]_Outbound!vars
  <2>1. \E from \in {"begin", "acknowledged", "refused", "disturbed"},
           s \in {"delivered", "failed", "dead_lettered", "retrying"} : Conclude(d, a, from, s)
    BY <1>4 DEF Expire, RejectTarget, Retry
  <2>2. QED
    BY <2>1, DeliveryMarked
<1>5. ASSUME NEW a \in Leases, NEW answer, Prepare(d, a) \/ Send(d, a, answer) \/ SendingDies(d, a)
      PROVE  delivery' = delivery
  BY <1>5 DEF Prepare, Send, SendingDies
<1>6. QED
  BY <1>1, <1>2, <1>3, <1>4, <1>5 DEF DeliveryNext, Execute

LEMMA OutboundStep ==
  ASSUME WebhooksInv, [Next]_vars
  PROVE  [Outbound!Next]_Outbound!vars
<1>0. OutboundOK
  BY Halves
<1>1. CASE delivery' = delivery
  BY <1>1, DeliveriesStutter
<1>2. ASSUME NEW r \in Requests, CheckDuplicate(r) \/ Reserve(r)
      PROVE  delivery' = delivery
  BY <1>2 DEF CheckDuplicate, Reserve, outbound
<1>3. ASSUME NEW k \in Keys, EventNext(k)
      PROVE  delivery' = delivery
  BY <1>3 DEF EventNext, LeaseEvent, CreateTask, MarkProcessed, MarkRaises, MarkFailed,
              MarkDeadLettered, Settle, DispatchDies, outbound
<1>4. ASSUME NEW K \in SUBSET Keys, NEW D \in SUBSET Deliveries, Maintain(K, D)
      PROVE  Outbound!Next
  <2>1. delivery \in [Deliveries -> DeliveryRow]
    BY <1>0 DEF OutboundOK, OutboundType
  <2>2. \A d \in Deliveries : delivery'[d].attempts = delivery[d].attempts
    BY <1>4, <2>1 DEF Maintain, DeliveryRow
  <2>3. \A d \in D : delivery[d].status = "delivering" /\ delivery'[d].status = "retrying"
    BY <1>4, <2>1 DEF Maintain, DeliveryRow
  <2>4. \A d \in Deliveries \ D : delivery'[d].status = delivery[d].status
    BY <1>4 DEF Maintain
  <2>5. QED
    BY <2>1, <2>2, <2>3, <2>4, DeliveriesWithdrawn
<1>5. CASE UNCHANGED vars
  BY <1>1, <1>5 DEF vars, outbound
<1>6. QED
  BY <1>0, <1>1, <1>2, <1>3, <1>4, <1>5, DeliveryActs DEF Next

\* The same of a delivery: whoever retries it, the mark of an attempt that is
\* no longer the newest one is void (lease_due_deliveries, mark_delivery_*).
THEOREM OutboundIsFenced == Spec => OutboundRefined
<1>1. WebhooksInv /\ [Next]_vars => [Outbound!Next]_Outbound!vars
  BY OutboundStep
<1>2. QED
  BY OutboundInit, <1>1, WebhooksInvariant, PTL DEF Spec, Outbound!Spec, OutboundRefined
=============================================================================
