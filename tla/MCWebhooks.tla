------------------------------ MODULE MCWebhooks ------------------------------
(* Webhooks on small instances. *)
EXTENDS Webhooks

CONSTANTS k1, k2, h1, h2, r1, r2, r3, r4, d1

\* Two requests race for one event id with different payloads, and a third
\* repeats the first; a fourth brings another event.
Keyed  == [r \in Requests |-> IF r = r4 THEN k2 ELSE k1]
Hashed == [r \in Requests |-> IF r = r2 THEN h2 ELSE h1]

\* Inbound events and outbound deliveries share no state but the transaction of
\* the maintenance, so one behaviour moves one of them: their states add up
\* instead of multiplying.  The first event is leased three times at
\* most, the other one twice.
OneHalf ==
  /\ \A k \in Keys : event'[k].attempts <= IF k = k1 THEN 3 ELSE 2
  /\ (\E r \in Requests : request[r] # "received") => UNCHANGED outbound
  /\ (\E d \in Deliveries : delivery[d].status # "absent") => UNCHANGED inbound
=============================================================================
