------------------------------ MODULE JobQueue ------------------------------
(***************************************************************************)
(* The durable RabbitMQ queue cmda.jobs.v1 as RabbitMqService uses it: a   *)
(* job is published when a channel can be had, delivered to a handler that *)
(* acknowledges it or, when it throws, rejects it into the dead-letter     *)
(* queue; what is neither is delivered again when its connection closes.   *)
(* Jobs have no order that a handler could rely on.                        *)
(***************************************************************************)
EXTENDS Naturals, FiniteSets

CONSTANTS
  Jobs,        \* what a job names: outbox entries, e-mail logs
  Handlers,    \* handler calls in progress, at most RABBITMQ_PREFETCH of them
  NoJob,       \* a handler call that holds no message
  MaxOutages,  \* bound: broker outages, and publishes that get lost
  MaxFaults    \* bound: handler calls that die or whose last update fails

\* The broker hands out a bounded number of messages at a time.
ASSUME QueueAssumption == IsFiniteSet(Handlers)

VARIABLES
  broker,    \* can a channel be had: "up" or "down"
  ready,     \* ready[j]: messages waiting for job j
  unacked,   \* the message each handler call has not acknowledged yet
  dead,      \* jobs in the dead-letter queue
  outages, faults  \* counters for the bounds, kept by the users of the queue

queueVars == <<broker, ready, unacked, dead>>

QueueTypeOK ==
  /\ broker \in {"up", "down"}
  /\ ready \in [Jobs -> Nat]
  /\ unacked \in [Handlers -> Jobs \union {NoJob}]
  /\ dead \subseteq Jobs

-----------------------------------------------------------------------------
QueueInit ==
  /\ broker = "up"
  /\ ready = [j \in Jobs |-> 0]
  /\ unacked = [h \in Handlers |-> NoJob]
  /\ dead = {}

\* publish returned true: the message is in the queue ...
Publish(j) ==
  /\ broker = "up"
  /\ ready' = [ready EXCEPT ![j] = @ + 1]
  /\ UNCHANGED <<broker, unacked, dead>>

\* ... or, as the channel asks for no publisher confirms, it never got there.
PublishLost ==
  /\ broker = "up"
  /\ UNCHANGED queueVars

\* publish returned false.
PublishRefused ==
  /\ broker = "down"
  /\ UNCHANGED queueVars

Receive(h, j) ==
  /\ broker = "up"
  /\ ready[j] > 0
  /\ ready' = [ready EXCEPT ![j] = @ - 1]
  /\ unacked' = [unacked EXCEPT ![h] = j]
  /\ UNCHANGED <<broker, dead>>

\* The handler returned.  A call that came without a message has none to ack.
Ack(h) ==
  /\ unacked' = [unacked EXCEPT ![h] = NoJob]
  /\ UNCHANGED <<broker, ready, dead>>

\* The handler threw: nack without requeue, so the broker dead-letters it.
Nack(h) ==
  /\ dead' = dead \union ({unacked[h]} \ {NoJob})
  /\ unacked' = [unacked EXCEPT ![h] = NoJob]
  /\ UNCHANGED <<broker, ready>>

\* The process that held h's message is gone: the broker delivers it again.
Redeliver(h) ==
  /\ ready' = [j \in Jobs |-> IF unacked[h] = j THEN ready[j] + 1 ELSE ready[j]]
  /\ unacked' = [unacked EXCEPT ![h] = NoJob]
  /\ UNCHANGED <<broker, dead>>

\* The connection closes: every unacknowledged message is back in the queue,
\* while the handler calls run on without it.
ConnectionCloses ==
  /\ broker = "up"
  /\ broker' = "down"
  /\ ready' = [j \in Jobs |-> ready[j] + Cardinality({h \in Handlers : unacked[h] = j})]
  /\ unacked' = [h \in Handlers |-> NoJob]
  /\ UNCHANGED dead

\* The next getChannel connects; consumers come back after 5 seconds.
Reconnect ==
  /\ broker = "down"
  /\ broker' = "up"
  /\ UNCHANGED <<ready, unacked, dead>>
=============================================================================
