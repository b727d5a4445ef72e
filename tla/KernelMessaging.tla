---------------------------- MODULE KernelMessaging ----------------------------
(***************************************************************************)
(* The transactional outbox and inbox of the kernel                         *)
(* (internal/kernel/messaging.go and the outbox and inbox of both stores).  *)
(* Dispatchers claim events of the outbox under a lease, hand them to the   *)
(* broker outside any transaction and mark them in another one; consumers   *)
(* run their handler and record the event in the inbox in one transaction.  *)
(*                                                                         *)
(* A dispatcher may crash, and its transactions may fail, between any two   *)
(* steps; a lease may expire while its holder is still working; a Publish   *)
(* that returns an error may have reached the broker; the broker delivers   *)
(* what it holds any number of times.  Leases are compared with clocks of   *)
(* different processes, so any live lease may be found expired.  The        *)
(* attempts counter and the last error are written and never read.          *)
(***************************************************************************)
EXTENDS Integers, FiniteSets

CONSTANTS
  Event,        \* event ids, numbered in the order of created_at
  Dispatcher,   \* concurrent OutboxDispatcher.Dispatch calls
  Consumer,     \* concurrent InboxProcessor.Process calls
  Limit,        \* the limit of one Dispatch call
  Reused        \* events whose id another producer uses for a second payload

ASSUME EventAssumption == Event \subseteq Nat \ {0}
ASSUME LimitAssumption == Limit \in Nat \ {0}
ASSUME ReusedAssumption == Reused \subseteq Event

Payloads == {"recorded", "other"}
Messages == [event : Event, payload : Payloads]
Message(e) == [event |-> e, payload |-> "recorded"]

VARIABLES
  outbox,    \* [Event -> its outbox row: state and lease]
  batch,     \* [Dispatcher -> events it has claimed and not yet published]
  sent,      \* [Dispatcher -> the event it must mark next, and how]
  topic,     \* external: the messages the broker has accepted
  inbox,     \* [Event -> payload its inbox row has the fingerprint of]
  handling,  \* [Consumer -> the message whose handler its transaction runs]
  effects    \* [Messages -> how often its handler's effects were committed]

vars == <<outbox, batch, sent, topic, inbox, handling, effects>>

None == 0
Rows == [state : {"absent", "PENDING", "DISPATCHING", "PUBLISHED"},
         lease : {"none", "live", "expired"}]
Row(s, l) == [state |-> s, lease |-> l]
NothingSent == [event |-> None, mark |-> "none"]
NoMessage == [event |-> None, payload |-> "none"]

TypeOK ==
  /\ outbox \in [Event -> Rows]
  /\ batch \in [Dispatcher -> SUBSET Event]
  /\ sent \in [Dispatcher -> [event : Event, mark : {"published", "pending"}]
                               \cup {NothingSent}]
  /\ topic \subseteq Messages
  /\ inbox \in [Event -> Payloads \cup {"none"}]
  /\ handling \in [Consumer -> Messages \cup {NoMessage}]
  /\ effects \in [Messages -> Nat]

Init ==
  /\ outbox = [e \in Event |-> Row("absent", "none")]
  /\ batch = [d \in Dispatcher |-> {}]
  /\ sent = [d \in Dispatcher |-> NothingSent]
  /\ topic = {[event |-> e, payload |-> "other"] : e \in Reused}
  /\ inbox = [e \in Event |-> "none"]
  /\ handling = [c \in Consumer |-> NoMessage]
  /\ effects = [m \in Messages |-> 0]

producerVars == <<inbox, handling, effects>>
consumerVars == <<outbox, batch, sent, topic>>

-----------------------------------------------------------------------------
(* appendEvent, in the transaction of the change that the event reports.    *)
AppendOutbox(e) ==
  /\ outbox[e].state = "absent"
  /\ \A f \in Event : f < e => outbox[f].state # "absent"
  /\ outbox' = [outbox EXCEPT ![e] = Row("PENDING", "none")]
  /\ UNCHANGED <<batch, sent, topic, producerVars>>

(* Time passes a lease.                                                     *)
Expire(e) ==
  /\ outbox[e].lease = "live"
  /\ outbox' = [outbox EXCEPT ![e].lease = "expired"]
  /\ UNCHANGED <<batch, sent, topic, producerVars>>

EligibleOnce == {e \in Event : outbox[e].state = "PENDING"}   \* mutant

Eligible == {e \in Event : \/ outbox[e].state = "PENDING"
                           \/ /\ outbox[e].state = "DISPATCHING"
                              /\ outbox[e].lease = "expired"}

(* ClaimOutbox: the oldest eligible events, at most Limit of them.          *)
ClaimOutbox(d) ==
  LET claimed == {e \in Eligible : Cardinality({f \in Eligible : f < e}) < Limit}
  IN /\ batch[d] = {}
     /\ sent[d] = NothingSent
     /\ claimed # {}
     /\ batch' = [batch EXCEPT ![d] = claimed]
     /\ outbox' = [e \in Event |-> IF e \in claimed
                                     THEN Row("DISPATCHING", "live") ELSE outbox[e]]
     /\ UNCHANGED <<sent, topic, producerVars>>

(* Publisher.Publish.  An error says nothing about whether the broker has   *)
(* the event.  (The rows of a PostgreSQL claim come in no fixed order.)     *)
Publish(d, e) ==
  /\ sent[d] = NothingSent
  /\ e \in batch[d]
  /\ batch' = [batch EXCEPT ![d] = @ \ {e}]
  /\ topic' = topic \cup {Message(e)}
  /\ sent' = [sent EXCEPT ![d] = [event |-> e, mark |-> "published"]]
  /\ UNCHANGED <<outbox, producerVars>>

PublishError(d, e) ==
  /\ sent[d] = NothingSent
  /\ e \in batch[d]
  /\ batch' = [batch EXCEPT ![d] = @ \ {e}]
  /\ topic' \in {topic, topic \cup {Message(e)}}
  /\ sent' = [sent EXCEPT ![d] = [event |-> e, mark |-> "pending"]]
  /\ UNCHANGED <<outbox, producerVars>>

(* MarkOutboxPublished: of an event that is already published, a no-op.     *)
MarkOutboxPublished(d) ==
  /\ sent[d].mark = "published"
  /\ outbox' = [outbox EXCEPT ![sent[d].event] = Row("PUBLISHED", "none")]
  /\ sent' = [sent EXCEPT ![d] = NothingSent]
  /\ UNCHANGED <<batch, topic, producerVars>>

(* MarkOutboxPending: refused for an event that somebody has published; the *)
(* lease that somebody else may hold by now is not compared.                *)
MarkOutboxPending(d) ==
  /\ sent[d].mark = "pending"
  /\ outbox' = IF outbox[sent[d].event].state = "PUBLISHED" THEN outbox
               ELSE [outbox EXCEPT ![sent[d].event] = Row("PENDING", "none")]
  /\ sent' = [sent EXCEPT ![d] = NothingSent]
  /\ UNCHANGED <<batch, topic, producerVars>>

(* The transaction of a mark fails; the loop goes on with the next event.   *)
MarkFails(d) ==
  /\ sent[d] # NothingSent
  /\ sent' = [sent EXCEPT ![d] = NothingSent]
  /\ UNCHANGED <<outbox, batch, topic, producerVars>>

DispatcherStops(d) ==
  /\ batch[d] # {} \/ sent[d] # NothingSent
  /\ batch' = [batch EXCEPT ![d] = {}]
  /\ sent' = [sent EXCEPT ![d] = NothingSent]
  /\ UNCHANGED <<outbox, topic, producerVars>>

-----------------------------------------------------------------------------
(* InboxProcessor.Process, up to the handler: an event that is in the inbox *)
(* is a duplicate, or a conflict when its fingerprint differs; neither      *)
(* changes anything.                                                        *)
Process(c, m) ==
  /\ handling[c] = NoMessage
  /\ m \in topic
  /\ inbox[m.event] = "none"
  /\ handling' = [handling EXCEPT ![c] = m]
  /\ UNCHANGED <<inbox, effects, consumerVars>>

(* The handler, InsertInbox and the commit.  When another transaction has   *)
(* inserted the event meanwhile, the insert fails and the effects of the    *)
(* handler are rolled back with it.                                         *)
InsertInbox(c) ==
  LET m == handling[c] IN
  /\ m # NoMessage
  /\ IF inbox[m.event] = "none"
       THEN /\ inbox' = [inbox EXCEPT ![m.event] = m.payload]
            /\ effects' = [effects EXCEPT ![m] = @ + 1]
       ELSE UNCHANGED <<inbox, effects>>
  /\ handling' = [handling EXCEPT ![c] = NoMessage]
  /\ UNCHANGED consumerVars

HandlerCommits(c) ==    \* mutant
  /\ handling[c] # NoMessage
  /\ effects' = [effects EXCEPT ![handling[c]] = @ + 1]
  /\ handling' = [handling EXCEPT ![c] = NoMessage]
  /\ UNCHANGED <<inbox, consumerVars>>

(* The handler fails or the consumer crashes: everything is rolled back.    *)
HandlerFails(c) ==
  /\ handling[c] # NoMessage
  /\ handling' = [handling EXCEPT ![c] = NoMessage]
  /\ UNCHANGED <<inbox, effects, consumerVars>>

-----------------------------------------------------------------------------
(* Everything but the producers' own transactions.                          *)
Delivery ==
  \/ \E e \in Event : Expire(e)
  \/ \E d \in Dispatcher :
       \/ ClaimOutbox(d)
       \/ \E e \in Event : Publish(d, e) \/ PublishError(d, e)
       \/ MarkOutboxPublished(d) \/ MarkOutboxPending(d)
       \/ MarkFails(d) \/ DispatcherStops(d)
  \/ \E c \in Consumer :
       \/ \E m \in topic : Process(c, m)
       \/ InsertInbox(c) \/ HandlerFails(c)

Next == Delivery \/ \E e \in Event : AppendOutbox(e)

Spec == Init /\ [][Next]_vars

(* What at-least-once delivery needs of the surroundings, which the code    *)
(* leaves to its caller: Dispatch and Process are called again and again,   *)
(* time passes, and the broker, the store and the handler do not fail every *)
(* time they are asked about the same event.  Any single dispatcher or      *)
(* consumer may stop for good.                                              *)
Fairness ==
  /\ WF_vars(\E d \in Dispatcher : ClaimOutbox(d))
  /\ WF_vars(\E d \in Dispatcher : MarkOutboxPending(d) \/ MarkFails(d))
  /\ WF_vars(\E c \in Consumer : handling[c].payload = "other" /\ InsertInbox(c))
  /\ \A e \in Event :
       /\ WF_vars(Expire(e))
       /\ SF_vars(\E d \in Dispatcher : Publish(d, e))
       /\ SF_vars(\E d \in Dispatcher :
                     sent[d].event = e /\ MarkOutboxPublished(d))
       /\ SF_vars(\E c \in Consumer : Process(c, Message(e)))
       /\ SF_vars(\E c \in Consumer :
                     handling[c] = Message(e) /\ InsertInbox(c))

-----------------------------------------------------------------------------
(* Whatever is published twice, delivered twice, handled by two consumers   *)
(* at once or retried: the effects of one event id are committed at most    *)
(* once, for one payload.                                                   *)
HandledAtMostOnce ==
  \A m, n \in Messages :
    (m.event = n.event /\ effects[m] > 0 /\ effects[n] > 0)
      => m = n /\ effects[m] = 1

(* An event that the outbox will never send again has reached the broker.   *)
PublishedWasSent ==
  \A e \in Event : outbox[e].state = "PUBLISHED" => Message(e) \in topic

(* A recorded event is eventually handled, unless another payload has taken *)
(* its id, although dispatchers stop while they hold it, publishes fail and *)
(* marks are lost.                                                          *)
EventuallyHandled ==
  \A e \in Event : outbox[e].state # "absent" ~>
                    \E m \in Messages : m.event = e /\ effects[m] = 1
=============================================================================
