----------------------- MODULE KernelOperations_proofs -----------------------
(***************************************************************************)
(* The outbox loses nothing it has marked published, and the inbox commits  *)
(* the effects of an event at most once, for any number of events,          *)
(* dispatchers and consumers; and with any number of concurrent transitions *)
(* and cancellations the events of an operation are its history, and the    *)
(* answers of the cancellations stay true.                                  *)
(***************************************************************************)
EXTENDS KernelOperations, TLAPS

-----------------------------------------------------------------------------
(* The inductive invariant.                                                 *)

(* An event that a dispatcher is about to mark published is at the broker.  *)
MarksAreTrue ==
  \A d \in Dispatcher :
    sent[d].mark = "published" => Message(sent[d].event) \in topic

(* The inbox knows exactly which payload of an event has been handled.      *)
InboxCounts ==
  \A m \in Messages :
    effects[m] = IF inbox[m.event] = m.payload THEN 1 ELSE 0

IInv == TypeOK /\ MarksAreTrue /\ PublishedWasSent /\ InboxCounts

-----------------------------------------------------------------------------
(* A message has an event and one of the two payloads; the record that      *)
(* stands for "no message" is none.                                         *)
LEMMA MessageFacts ==
  /\ \A e \in Event : /\ Message(e) \in Messages
                      /\ Message(e).event = e
                      /\ [event |-> e, payload |-> "other"] \in Messages
  /\ \A m \in Messages : m.event \in Event /\ m.payload \in Payloads /\ m # NoMessage
  /\ "none" \notin Payloads
BY EventAssumption DEF Message, Messages, Payloads, NoMessage, None

(* What a dispatcher has to mark next is an event, unless there is nothing. *)
LEMMA SentFacts ==
  ASSUME TypeOK, NEW d \in Dispatcher
  PROVE  /\ NothingSent.mark = "none"
         /\ sent[d].mark \in {"published", "pending"} => sent[d].event \in Event
BY DEF TypeOK, NothingSent

LEMMA InitIInv == Init => IInv
<1> SUFFICES ASSUME Init PROVE IInv
  OBVIOUS
<1>1. TypeOK
  <2>1. topic \subseteq Messages
    BY ReusedAssumption DEF Init, Messages, Payloads
  <2> QED
    BY <2>1 DEF Init, TypeOK, Rows, Row, NothingSent, NoMessage, Payloads
<1>2. MarksAreTrue /\ PublishedWasSent
  BY DEF Init, MarksAreTrue, PublishedWasSent, NothingSent, Row
<1>3. InboxCounts
  BY MessageFacts DEF Init, InboxCounts
<1> QED
  BY <1>1, <1>2, <1>3 DEF IInv

(* The steps of producers and dispatchers leave the inbox alone.            *)
LEMMA InboxUnchanged ==
  ASSUME InboxCounts, UNCHANGED producerVars
  PROVE  InboxCounts'
BY DEF InboxCounts, producerVars

(* The steps of consumers leave the outbox alone.                           *)
LEMMA OutboxUnchanged ==
  ASSUME MarksAreTrue, PublishedWasSent, UNCHANGED consumerVars
  PROVE  MarksAreTrue' /\ PublishedWasSent'
BY DEF MarksAreTrue, PublishedWasSent, consumerVars

LEMMA NextIInv == IInv /\ [Next]_vars => IInv'
<1> SUFFICES ASSUME IInv, [Next]_vars PROVE IInv'
  OBVIOUS
<1> USE DEF IInv
<1>1. ASSUME NEW e \in Event, AppendOutbox(e) PROVE IInv'
  <2>1. TypeOK'
    BY <1>1 DEF AppendOutbox, producerVars, TypeOK, Rows, Row
  <2>2. MarksAreTrue' /\ PublishedWasSent'
    BY <1>1 DEF AppendOutbox, MarksAreTrue, PublishedWasSent, TypeOK, Row
  <2> QED  BY <1>1, <2>1, <2>2, InboxUnchanged DEF AppendOutbox
<1>2. ASSUME NEW e \in Event, Expire(e) PROVE IInv'
  <2>1. outbox' = [outbox EXCEPT ![e] = [outbox[e] EXCEPT !.lease = "expired"]]
    BY <1>2 DEF Expire
  <2>2. /\ [outbox[e] EXCEPT !.lease = "expired"] \in Rows
        /\ [outbox[e] EXCEPT !.lease = "expired"].state = outbox[e].state
    BY DEF TypeOK, Rows
  <2>3. TypeOK'
    BY <1>2, <2>1, <2>2 DEF Expire, producerVars, TypeOK
  <2>4. MarksAreTrue' /\ PublishedWasSent'
    BY <1>2, <2>1, <2>2 DEF Expire, MarksAreTrue, PublishedWasSent, TypeOK
  <2> QED  BY <1>2, <2>3, <2>4, InboxUnchanged DEF Expire
<1>3. ASSUME NEW d \in Dispatcher, ClaimOutbox(d) PROVE IInv'
  <2> DEFINE claimed ==
        {e \in Eligible : Cardinality({f \in Eligible : f < e}) < Limit}
  <2>1. /\ batch' = [batch EXCEPT ![d] = claimed]
        /\ outbox' = [e \in Event |-> IF e \in claimed
                        THEN Row("DISPATCHING", "live") ELSE outbox[e]]
        /\ UNCHANGED <<sent, topic, producerVars>>
    BY <1>3 DEF ClaimOutbox
  <2>2. claimed \in SUBSET Event
    BY DEF Eligible
  <2> HIDE DEF claimed
  <2>3. TypeOK'
    BY <2>1, <2>2 DEF producerVars, TypeOK, Rows, Row
  <2>4. MarksAreTrue' /\ PublishedWasSent'
    BY <2>1 DEF MarksAreTrue, PublishedWasSent, Row
  <2> QED  BY <2>1, <2>3, <2>4, InboxUnchanged
<1>4. ASSUME NEW d \in Dispatcher, NEW e \in Event, Publish(d, e) PROVE IInv'
  <2>1. TypeOK'
    BY <1>4, MessageFacts DEF Publish, producerVars, TypeOK
  <2>2. MarksAreTrue'
    BY <1>4 DEF Publish, MarksAreTrue, TypeOK
  <2>3. PublishedWasSent'
    BY <1>4 DEF Publish, PublishedWasSent
  <2> QED  BY <1>4, <2>1, <2>2, <2>3, InboxUnchanged DEF Publish
<1>5. ASSUME NEW d \in Dispatcher, NEW e \in Event, PublishError(d, e) PROVE IInv'
  <2>1. TypeOK'
    BY <1>5, MessageFacts DEF PublishError, producerVars, TypeOK
  <2>2. MarksAreTrue'
    BY <1>5 DEF PublishError, MarksAreTrue, TypeOK
  <2>3. PublishedWasSent'
    BY <1>5 DEF PublishError, PublishedWasSent
  <2> QED  BY <1>5, <2>1, <2>2, <2>3, InboxUnchanged DEF PublishError
<1>6. ASSUME NEW d \in Dispatcher, MarkOutboxPublished(d) PROVE IInv'
  <2>1. sent[d].event \in Event /\ Message(sent[d].event) \in topic
    BY <1>6, SentFacts DEF MarkOutboxPublished, MarksAreTrue
  <2>2. TypeOK'
    BY <1>6 DEF MarkOutboxPublished, producerVars, TypeOK, Rows, Row
  <2>3. MarksAreTrue'
    BY <1>6 DEF MarkOutboxPublished, MarksAreTrue, TypeOK, NothingSent
  <2>4. PublishedWasSent'
    BY <1>6, <2>1 DEF MarkOutboxPublished, PublishedWasSent, TypeOK
  <2> QED  BY <1>6, <2>2, <2>3, <2>4, InboxUnchanged DEF MarkOutboxPublished
<1>7. ASSUME NEW d \in Dispatcher, MarkOutboxPending(d) PROVE IInv'
  <2>1. TypeOK'
    BY <1>7 DEF MarkOutboxPending, producerVars, TypeOK, Rows, Row
  <2>2. MarksAreTrue'
    BY <1>7 DEF MarkOutboxPending, MarksAreTrue, TypeOK, NothingSent
  <2>3. PublishedWasSent'
    BY <1>7 DEF MarkOutboxPending, PublishedWasSent, TypeOK, Row
  <2> QED  BY <1>7, <2>1, <2>2, <2>3, InboxUnchanged DEF MarkOutboxPending
<1>8. ASSUME NEW d \in Dispatcher, MarkFails(d) \/ DispatcherStops(d) PROVE IInv'
  <2>1. TypeOK'
    BY <1>8 DEF MarkFails, DispatcherStops, producerVars, TypeOK
  <2>2. MarksAreTrue' /\ PublishedWasSent'
    BY <1>8 DEF MarkFails, DispatcherStops, MarksAreTrue, PublishedWasSent, TypeOK,
                NothingSent
  <2> QED  BY <1>8, <2>1, <2>2, InboxUnchanged DEF MarkFails, DispatcherStops
<1>9. ASSUME NEW c \in Consumer, NEW m \in topic, Process(c, m) PROVE IInv'
  <2>1. TypeOK'
    BY <1>9 DEF Process, consumerVars, TypeOK
  <2>2. InboxCounts'
    BY <1>9 DEF Process, InboxCounts
  <2> QED  BY <1>9, <2>1, <2>2, OutboxUnchanged DEF Process
<1>10. ASSUME NEW c \in Consumer, InsertInbox(c) PROVE IInv'
  <2> DEFINE m == handling[c]
  <2>1. m \in Messages /\ m.event \in Event /\ m.payload \in Payloads
    BY <1>10, MessageFacts DEF InsertInbox, TypeOK
  <2>2. CASE inbox[m.event] # "none"
    <3>1. UNCHANGED <<inbox, effects>>
          /\ handling' = [handling EXCEPT ![c] = NoMessage] /\ UNCHANGED consumerVars
      BY <1>10, <2>2 DEF InsertInbox
    <3>2. TypeOK'
      BY <3>1 DEF consumerVars, TypeOK
    <3>3. InboxCounts'
      BY <3>1 DEF InboxCounts
    <3> QED  BY <3>1, <3>2, <3>3, OutboxUnchanged
  <2>3. CASE inbox[m.event] = "none"
    <3>1. /\ inbox' = [inbox EXCEPT ![m.event] = m.payload]
          /\ effects' = [effects EXCEPT ![m] = @ + 1]
          /\ handling' = [handling EXCEPT ![c] = NoMessage] /\ UNCHANGED consumerVars
      BY <1>10, <2>3 DEF InsertInbox
    <3> HIDE DEF m
    <3>2. TypeOK'
      BY <2>1, <3>1 DEF consumerVars, TypeOK
    <3>3. effects[m] = 0
      BY <2>1, <2>3, MessageFacts DEF InboxCounts
    <3>4. ASSUME NEW n \in Messages
          PROVE  effects'[n] = IF inbox'[n.event] = n.payload THEN 1 ELSE 0
      <4>1. n.event \in Event /\ n.payload \in Payloads
        BY MessageFacts
      <4>2. CASE n = m
        BY <2>1, <3>1, <3>3, <4>2 DEF TypeOK
      <4>3. CASE n # m /\ n.event = m.event
        <5>1. n.payload # m.payload
          BY <2>1, <4>3 DEF Messages
        <5>2. effects[n] = 0
          BY <2>3, <4>1, <4>3, MessageFacts DEF InboxCounts
        <5> QED  BY <2>1, <3>1, <4>3, <5>1, <5>2 DEF TypeOK
      <4>4. CASE n.event # m.event
        BY <2>1, <3>1, <4>1, <4>4 DEF InboxCounts, TypeOK
      <4> QED  BY <4>2, <4>3, <4>4
    <3>5. InboxCounts'
      BY <3>4 DEF InboxCounts
    <3> QED  BY <3>1, <3>2, <3>5, OutboxUnchanged
  <2> QED  BY <2>2, <2>3
<1>11. ASSUME NEW c \in Consumer, HandlerFails(c) PROVE IInv'
  <2>1. TypeOK'
    BY <1>11 DEF HandlerFails, consumerVars, TypeOK
  <2>2. InboxCounts'
    BY <1>11 DEF HandlerFails, InboxCounts
  <2> QED  BY <1>11, <2>1, <2>2, OutboxUnchanged DEF HandlerFails
<1>12. CASE UNCHANGED vars
  BY <1>12 DEF vars, TypeOK, MarksAreTrue, PublishedWasSent, InboxCounts
<1> QED
  BY <1>1, <1>2, <1>3, <1>4, <1>5, <1>6, <1>7, <1>8, <1>9, <1>10, <1>11, <1>12
  DEF Next, Delivery

(* The inductive invariant holds in every reachable state.                  *)
THEOREM MessagingInvariance == Spec => []IInv
BY InitIInv, NextIInv, PTL DEF Spec

(* The effects of one event id are committed at most once.                  *)
THEOREM EffectsAtMostOnce == Spec => []HandledAtMostOnce
<1>1. IInv => HandledAtMostOnce
  BY DEF IInv, InboxCounts, HandledAtMostOnce, Messages
<1> QED
  BY <1>1, MessagingInvariance, PTL

(* An event the outbox will never send again has reached the broker.        *)
THEOREM NothingIsLost == Spec => []PublishedWasSent
<1>1. IInv => PublishedWasSent
  BY DEF IInv
<1> QED
  BY <1>1, MessagingInvariance, PTL

-----------------------------------------------------------------------------
(* Every step of the composition is a step of the messaging or leaves it    *)
(* alone.                                                                   *)
LEMMA OperationStepIsMessaging == [OperationNext]_allVars => [Next]_vars
<1> SUFFICES ASSUME [OperationNext]_allVars PROVE [Next]_vars
  OBVIOUS
<1>1. CASE Delivery
  BY <1>1 DEF Next
<1>2. ASSUME NEW c \in Caller \cup Canceler, SaveOperation(c)
      PROVE  [Next]_vars
  BY <1>2 DEF SaveOperation, AppendOperationEvent, Next
<1>3. ASSUME \/ \E c \in Caller, to \in {"RUNNING", "WAITING_EXTERNAL"} \cup Terminal :
                   Transition(c, to)
             \/ \E c \in Canceler, k \in CancelKey : CancelOperation(c, k)
             \/ \E c \in Caller \cup Canceler : Rollback(c)
      PROVE  UNCHANGED vars
  BY <1>3, Zenon DEF Transition, CancelOperation, Rollback
<1>4. CASE UNCHANGED allVars
  BY <1>4 DEF allVars
<1> QED
  BY <1>1, <1>2, <1>3, <1>4 DEF OperationNext

(* The messaging's invariant holds of the composition.                      *)
LEMMA MessagingInComposition == OperationSpec => []IInv
<1>1. OperationInit => IInv
  BY InitIInv DEF OperationInit
<1>2. IInv /\ [OperationNext]_allVars => IInv'
  BY NextIInv, OperationStepIsMessaging
<1> QED
  BY <1>1, <1>2, PTL DEF OperationSpec

(* The effects of an event are committed at most once in the composition    *)
(* too.                                                                     *)
THEOREM OperationEventsHandledAtMostOnce == OperationSpec => []HandledAtMostOnce
<1>1. IInv => HandledAtMostOnce
  BY DEF IInv, InboxCounts, HandledAtMostOnce, Messages
<1> QED
  BY <1>1, MessagingInComposition, PTL

(* An event of an operation that the outbox will never send again has       *)
(* reached the broker.                                                      *)
THEOREM OperationEventsAreSent == OperationSpec => []PublishedWasSent
<1>1. IInv => PublishedWasSent
  BY DEF IInv
<1> QED
  BY <1>1, MessagingInComposition, PTL

-----------------------------------------------------------------------------
(* The inductive invariant of the operation.                                *)

States == {"PENDING", "RUNNING", "WAITING_EXTERNAL"} \cup Terminal
Operations == [state : States, version : Nat \ {0}]
Transactions == [at : {"decided"}, to : States, key : CancelKey \cup {"none"},
                 read : Operations]

OperationTypeOK ==
  /\ operation \in Operations
  /\ tx \in [Caller \cup Canceler -> Transactions \cup {NoTx}]
  /\ reply \in [CancelKey -> {"none", "CANCELED", "FAILED"}]
  /\ report \in [Event -> Operations \cup {NoReport}]

(* What a transaction has read is the operation until it has changed; what  *)
(* it decided was allowed.                                                  *)
DecisionsAreSound ==
  \A c \in Caller \cup Canceler :
    tx[c] # NoTx =>
      /\ tx[c].read.version <= operation.version
      /\ tx[c].read.version = operation.version => tx[c].read = operation
      /\ tx[c].to \in AllowedOperationTransition(tx[c].read.state)
      /\ tx[c].key # "none" => tx[c].to = "CANCELED"

(* Dispatchers hold recorded events only.                                   *)
HeldIsRecorded ==
  \A d \in Dispatcher :
    /\ batch[d] \subseteq Recorded
    /\ sent[d] # NothingSent => sent[d].event \in Recorded

OInv ==
  /\ OperationTypeOK
  /\ DecisionsAreSound
  /\ HeldIsRecorded
  /\ operation.version = 1 => operation.state = "PENDING"
  /\ EventsAreHistory
  /\ CancelRepliesStayTrue

(* Delivery neither records an event nor forgets one.                       *)
LEMMA DeliveryKeepsRecorded ==
  ASSUME TypeOK, HeldIsRecorded, Delivery
  PROVE  Recorded' = Recorded /\ HeldIsRecorded'
<1>1. ASSUME NEW e \in Event, Expire(e) PROVE Recorded' = Recorded /\ HeldIsRecorded'
  BY <1>1 DEF Expire, TypeOK, Rows, Recorded, HeldIsRecorded
<1>2. ASSUME NEW d \in Dispatcher, ClaimOutbox(d)
      PROVE  Recorded' = Recorded /\ HeldIsRecorded'
  <2> DEFINE claimed ==
        {e \in Eligible : Cardinality({f \in Eligible : f < e}) < Limit}
  <2>1. /\ batch' = [batch EXCEPT ![d] = claimed]
        /\ outbox' = [e \in Event |-> IF e \in claimed
                        THEN Row("DISPATCHING", "live") ELSE outbox[e]]
        /\ UNCHANGED sent
    BY <1>2 DEF ClaimOutbox
  <2>2. claimed \subseteq Recorded
    BY DEF Eligible, Recorded
  <2> HIDE DEF claimed
  <2>3. Recorded' = Recorded
    BY <2>1, <2>2 DEF Recorded, Row
  <2> QED  BY <2>1, <2>2, <2>3 DEF HeldIsRecorded, TypeOK, NothingSent, None
<1>3. ASSUME NEW d \in Dispatcher, NEW e \in Event, Publish(d, e) \/ PublishError(d, e)
      PROVE  Recorded' = Recorded /\ HeldIsRecorded'
  <2>1. Recorded' = Recorded
    BY <1>3 DEF Publish, PublishError, Recorded
  <2>2. /\ e \in batch[d]
        /\ batch' = [batch EXCEPT ![d] = @ \ {e}]
        /\ sent'[d] = [event |-> e, mark |-> sent'[d].mark]
        /\ \A f \in Dispatcher \ {d} : sent'[f] = sent[f]
    BY <1>3 DEF Publish, PublishError, TypeOK
  <2> QED  BY <2>1, <2>2 DEF HeldIsRecorded, TypeOK, NothingSent, None
<1>4. ASSUME NEW d \in Dispatcher, MarkOutboxPublished(d) \/ MarkOutboxPending(d)
      PROVE  Recorded' = Recorded /\ HeldIsRecorded'
  <2>1. sent[d].event \in Recorded
    <3>1. sent[d] # NothingSent
      BY <1>4 DEF MarkOutboxPublished, MarkOutboxPending, NothingSent
    <3> QED  BY <3>1 DEF HeldIsRecorded
  <2>2. Recorded' = Recorded
    BY <1>4, <2>1 DEF MarkOutboxPublished, MarkOutboxPending, Recorded, Row, TypeOK
  <2> QED
    BY <1>4, <2>2 DEF MarkOutboxPublished, MarkOutboxPending, HeldIsRecorded, TypeOK
<1>5. ASSUME NEW d \in Dispatcher, MarkFails(d) \/ DispatcherStops(d)
      PROVE  Recorded' = Recorded /\ HeldIsRecorded'
  BY <1>5 DEF MarkFails, DispatcherStops, TypeOK, Recorded, HeldIsRecorded
<1>6. ASSUME NEW c \in Consumer,
             \/ \E m \in topic : Process(c, m)
             \/ InsertInbox(c) \/ HandlerFails(c)
      PROVE  Recorded' = Recorded /\ HeldIsRecorded'
  <2>1. UNCHANGED consumerVars
    BY <1>6 DEF Process, InsertInbox, HandlerFails
  <2> QED  BY <2>1 DEF consumerVars, Recorded, HeldIsRecorded
<1> QED
  BY <1>1, <1>2, <1>3, <1>4, <1>5, <1>6 DEF Delivery

(* The invariant depends on nothing else of the messaging.                  *)
LEMMA SameRecorded ==
  ASSUME OInv, Recorded' = Recorded, UNCHANGED operationVars
  PROVE  /\ OperationTypeOK' /\ DecisionsAreSound'
         /\ (operation.version = 1 => operation.state = "PENDING")'
         /\ EventsAreHistory' /\ CancelRepliesStayTrue'
<1>1. \A v : EventsOf(v)' = EventsOf(v)
  BY DEF EventsOf, operationVars
<1> QED
  BY <1>1 DEF OInv, operationVars, OperationTypeOK, DecisionsAreSound,
              EventsAreHistory, CancelRepliesStayTrue

LEMMA AllowedFacts ==
  /\ \A st : AllowedOperationTransition(st) \subseteq States
  /\ \A st \in Terminal : AllowedOperationTransition(st) = {}
  /\ States \ Terminal = {"PENDING", "RUNNING", "WAITING_EXTERNAL"}
  /\ \A st \in States \ Terminal : "CANCELED" \in AllowedOperationTransition(st)
BY DEF AllowedOperationTransition, States, Terminal

LEMMA InitOInv == OperationInit => OInv
<1> SUFFICES ASSUME OperationInit PROVE OInv
  OBVIOUS
<1>1. OperationTypeOK
  BY DEF OperationInit, OperationTypeOK, Operations, States
<1>2. Recorded = {}
  BY DEF OperationInit, Init, Recorded, Row
<1>3. HeldIsRecorded
  BY DEF OperationInit, Init, HeldIsRecorded
<1>4. DecisionsAreSound
  BY DEF OperationInit, DecisionsAreSound
<1>5. EventsAreHistory /\ CancelRepliesStayTrue
  BY <1>2 DEF OperationInit, EventsAreHistory, CancelRepliesStayTrue
<1> QED
  BY <1>1, <1>3, <1>4, <1>5 DEF OperationInit, OInv

(* A step that changes nothing but what transactions have decided.          *)
LEMMA DecisionStep ==
  ASSUME OInv, UNCHANGED <<vars, operation, report>>,
         NEW c \in Caller \cup Canceler, NEW t \in Transactions \cup {NoTx},
         tx' = [tx EXCEPT ![c] = t], UNCHANGED reply,
         t # NoTx => /\ t.read = operation
                     /\ t.to \in AllowedOperationTransition(operation.state)
                     /\ t.key # "none" => t.to = "CANCELED"
  PROVE  OInv'
<1>1. OperationTypeOK'
  BY DEF OInv, OperationTypeOK
<1>2. DecisionsAreSound'
  BY DEF OInv, OperationTypeOK, DecisionsAreSound, Operations
<1>3. Recorded' = Recorded /\ \A v : EventsOf(v)' = EventsOf(v)
  BY DEF vars, Recorded, EventsOf
<1>4. HeldIsRecorded'
  BY <1>3 DEF OInv, HeldIsRecorded, vars
<1>5. EventsAreHistory' /\ CancelRepliesStayTrue'
  BY <1>3 DEF OInv, EventsAreHistory, CancelRepliesStayTrue
<1> QED
  BY <1>1, <1>2, <1>4, <1>5 DEF OInv

(* A change and its event.                                                  *)
LEMMA SaveStep ==
  ASSUME OInv, TypeOK, NEW c \in Caller \cup Canceler, SaveOperation(c),
         operation.version = tx[c].read.version
  PROVE  OInv'
<1> DEFINE t == tx[c]
<1>1. /\ t \in Transactions /\ t.read = operation
      /\ t.to \in AllowedOperationTransition(operation.state)
      /\ t.key # "none" => t.to = "CANCELED"
  BY DEF OInv, OperationTypeOK, DecisionsAreSound, SaveOperation
<1>2. /\ operation' = [state |-> t.to, version |-> operation.version + 1]
      /\ reply' = [k \in CancelKey |-> IF k = t.key THEN "CANCELED" ELSE reply[k]]
      /\ tx' = [tx EXCEPT ![c] = NoTx]
      /\ AppendOperationEvent
  BY DEF SaveOperation
<1>3. PICK e \in Event : AppendOutbox(e) /\ report' = [report EXCEPT ![e] = operation']
  BY <1>2 DEF AppendOperationEvent
<1>4. operation \in Operations /\ operation' \in Operations
  BY <1>1, <1>2 DEF OInv, OperationTypeOK, Operations, Transactions
<1> HIDE DEF t
<1>5. operation.version \in Nat \ {0} /\ operation'.version = operation.version + 1
      /\ operation'.state = t.to
  BY <1>2, <1>4 DEF Operations
<1>6. e \notin Recorded /\ Recorded' = Recorded \cup {e}
  BY <1>3 DEF AppendOutbox, Recorded, Row, TypeOK
<1>7. report'[e] = operation' /\ \A f \in Recorded : report'[f] = report[f]
  BY <1>3, <1>6 DEF OInv, OperationTypeOK, Recorded
<1>8. OperationTypeOK'
  <2>1. reply' \in [CancelKey -> {"none", "CANCELED", "FAILED"}]
    BY <1>2 DEF OInv, OperationTypeOK
  <2> QED
    BY <1>2, <1>3, <1>4, <2>1 DEF OInv, OperationTypeOK
<1>9. DecisionsAreSound'
  <2> SUFFICES ASSUME NEW b \in Caller \cup Canceler, tx'[b] # NoTx
               PROVE  /\ tx'[b].read.version <= operation'.version
                      /\ tx'[b].read.version # operation'.version
                      /\ tx'[b].to \in AllowedOperationTransition(tx'[b].read.state)
                      /\ tx'[b].key # "none" => tx'[b].to = "CANCELED"
    BY DEF DecisionsAreSound
  <2>1. tx'[b] = tx[b] /\ tx[b] # NoTx
    BY <1>2 DEF OInv, OperationTypeOK
  <2>2. tx[b].read \in Operations
    BY <2>1 DEF OInv, OperationTypeOK, Transactions
  <2> QED
    BY <1>5, <2>1, <2>2 DEF OInv, DecisionsAreSound, Operations
<1>10. HeldIsRecorded'
  BY <1>3, <1>6 DEF OInv, HeldIsRecorded, AppendOutbox
<1>11. EventsAreHistory'
  <2>1. \A f \in Recorded : report[f].version \in 2..operation.version
    BY DEF OInv, EventsAreHistory
  <2>2. \A v : v = operation.version + 1 => EventsOf(v)' = {e}
    BY <1>5, <1>6, <1>7, <2>1 DEF EventsOf
  <2>3. \A v \in 2..operation.version : EventsOf(v)' = EventsOf(v)
    BY <1>5, <1>6, <1>7 DEF EventsOf
  <2>4. \A v : v = operation.version + 2 => EventsOf(v)' = {}
    BY <1>5, <1>6, <1>7, <2>1 DEF EventsOf
  <2>5. \A f \in Recorded' : report'[f].version \in 2..operation'.version
    BY <1>5, <1>6, <1>7, <2>1
  <2>6. ASSUME NEW v \in 2..operation'.version
        PROVE  \E g \in Recorded' :
                 /\ EventsOf(v)' = {g}
                 /\ v = operation'.version => report'[g] = operation'
                 /\ v = 2 => report'[g].state \in AllowedOperationTransition("PENDING")
                 /\ \A f \in EventsOf(v + 1)' :
                      report'[f].state \in AllowedOperationTransition(report'[g].state)
    <3>1. CASE v = operation'.version
      <4>1. v = 2 => operation.state = "PENDING"
        BY <1>5, <3>1 DEF OInv
      <4>2. v = 2 => report'[e].state \in AllowedOperationTransition("PENDING")
        BY <1>1, <1>5, <1>7, <4>1
      <4> QED
        BY <1>5, <1>6, <1>7, <2>2, <2>4, <3>1, <4>2
    <3>2. CASE v # operation'.version
      <4>1. v \in 2..operation.version
        BY <1>5, <3>2
      <4>2. PICK g \in Recorded :
              /\ EventsOf(v) = {g}
              /\ v = operation.version => report[g] = operation
              /\ v = 2 => report[g].state \in AllowedOperationTransition("PENDING")
              /\ \A f \in EventsOf(v + 1) :
                   report[f].state \in AllowedOperationTransition(report[g].state)
        BY <4>1 DEF OInv, EventsAreHistory
      <4>3. g \in Recorded' /\ report'[g] = report[g] /\ EventsOf(v)' = {g}
        BY <1>6, <1>7, <2>3, <4>1, <4>2
      <4>4. \A f \in EventsOf(v + 1)' :
              report'[f].state \in AllowedOperationTransition(report'[g].state)
        <5>1. CASE v = operation.version
          <6>1. report[g].state = operation.state /\ v + 1 = operation'.version
            BY <1>5, <4>2, <5>1
          <6> QED
            BY <1>1, <1>5, <1>7, <2>2, <4>3, <6>1
        <5>2. CASE v # operation.version
          <6>1. v + 1 \in 2..operation.version
            BY <1>5, <4>1, <5>2
          <6>2. EventsOf(v + 1)' = EventsOf(v + 1) /\ EventsOf(v + 1) \subseteq Recorded
            BY <2>3, <6>1 DEF EventsOf
          <6> QED
            BY <1>7, <4>2, <4>3, <6>2
        <5> QED
          BY <5>1, <5>2
      <4> QED
        BY <3>2, <4>2, <4>3, <4>4
    <3> QED
      BY <3>1, <3>2
  <2> QED
    BY <2>5, <2>6 DEF EventsAreHistory
<1>12. CancelRepliesStayTrue'
  <2>1. operation.state \notin Terminal
    BY <1>1, AllowedFacts
  <2>2. \A k \in CancelKey : reply[k] = "none"
    BY <2>1 DEF OInv, OperationTypeOK, CancelRepliesStayTrue, Terminal
  <2>3. \A k \in CancelKey : reply'[k] # "none" => t.to = "CANCELED" /\ reply'[k] = "CANCELED"
    BY <1>1, <1>2, <2>2, CancelKeyAssumption
  <2> QED
    BY <1>5, <2>3 DEF CancelRepliesStayTrue
<1>13. operation'.version # 1
  BY <1>5
<1> QED
  BY <1>8, <1>9, <1>10, <1>11, <1>12, <1>13 DEF OInv

LEMMA NextOInv == OInv /\ IInv /\ [OperationNext]_allVars => OInv'
<1> SUFFICES ASSUME OInv, TypeOK, [OperationNext]_allVars PROVE OInv'
  BY DEF IInv
<1>1. CASE Delivery /\ UNCHANGED operationVars
  <2>1. Recorded' = Recorded /\ HeldIsRecorded'
    BY <1>1, DeliveryKeepsRecorded DEF OInv
  <2> QED
    BY <1>1, <2>1, SameRecorded DEF OInv
<1>2. ASSUME NEW c \in Caller, NEW to \in {"RUNNING", "WAITING_EXTERNAL"} \cup Terminal,
             Transition(c, to)
      PROVE  OInv'
  <2> DEFINE t == [at |-> "decided", to |-> to, key |-> "none", read |-> operation]
  <2>1. t \in Transactions
    BY DEF OInv, OperationTypeOK, Transactions, States, Terminal
  <2>2. /\ tx' = [tx EXCEPT ![c] = t] /\ UNCHANGED <<vars, operation, reply, report>>
        /\ to \in AllowedOperationTransition(operation.state)
    BY <1>2 DEF Transition
  <2>3. t.read = operation /\ t.to = to /\ t.key = "none"
    OBVIOUS
  <2> HIDE DEF t
  <2> QED
    BY <2>1, <2>2, <2>3, DecisionStep
<1>3. ASSUME NEW c \in Canceler, NEW k \in CancelKey, CancelOperation(c, k) PROVE OInv'
  <2>1. CASE operation.state \in Terminal
    <3>1. /\ reply' = [reply EXCEPT ![k] =
                         IF operation.state = "CANCELED" THEN "CANCELED" ELSE "FAILED"]
          /\ UNCHANGED <<vars, operation, tx, report>>
      BY <1>3, <2>1 DEF CancelOperation
    <3>2. OperationTypeOK' /\ CancelRepliesStayTrue'
      BY <2>1, <3>1 DEF OInv, OperationTypeOK, CancelRepliesStayTrue
    <3>3. Recorded' = Recorded /\ \A v : EventsOf(v)' = EventsOf(v)
      BY <3>1 DEF vars, Recorded, EventsOf
    <3>4. HeldIsRecorded' /\ EventsAreHistory'
      BY <3>1, <3>3 DEF OInv, HeldIsRecorded, EventsAreHistory, vars
    <3> QED
      BY <3>1, <3>2, <3>4 DEF OInv, DecisionsAreSound
  <2>2. CASE operation.state \notin Terminal
    <3> DEFINE t == [at |-> "decided", to |-> "CANCELED", key |-> k, read |-> operation]
    <3>1. t \in Transactions
      BY DEF OInv, OperationTypeOK, Transactions, States, Terminal
    <3>2. tx' = [tx EXCEPT ![c] = t] /\ UNCHANGED <<vars, operation, reply, report>>
      BY <1>3, <2>2 DEF CancelOperation
    <3>3. "CANCELED" \in AllowedOperationTransition(operation.state)
      BY <2>2, AllowedFacts DEF OInv, OperationTypeOK, Operations
    <3>4. t.read = operation /\ t.to = "CANCELED"
      OBVIOUS
    <3> HIDE DEF t
    <3> QED
      BY <3>1, <3>2, <3>3, <3>4, DecisionStep
  <2> QED
    BY <2>1, <2>2
<1>4. ASSUME NEW c \in Caller \cup Canceler, SaveOperation(c) PROVE OInv'
  <2>1. CASE operation.version # tx[c].read.version
    <3>1. UNCHANGED <<vars, operation, reply, report>> /\ tx' = [tx EXCEPT ![c] = NoTx]
      BY <1>4, <2>1 DEF SaveOperation
    <3> QED
      BY <3>1, DecisionStep
  <2> QED
    BY <1>4, <2>1, SaveStep
<1>5. ASSUME NEW c \in Caller \cup Canceler, Rollback(c) PROVE OInv'
  BY <1>5, DecisionStep DEF Rollback
<1>6. CASE UNCHANGED allVars
  <2>1. Recorded' = Recorded /\ HeldIsRecorded'
    BY <1>6 DEF allVars, vars, Recorded, OInv, HeldIsRecorded
  <2> QED
    BY <1>6, <2>1, SameRecorded DEF OInv, allVars
<1> QED
  BY <1>1, <1>2, <1>3, <1>4, <1>5, <1>6 DEF OperationNext

LEMMA OperationInvariance == OperationSpec => []OInv
BY InitOInv, NextOInv, MessagingInComposition, PTL DEF OperationSpec

(* With any number of racing transitions and cancellations, the events of   *)
(* an operation are the history of its versions, in allowed steps.          *)
THEOREM EventsTellTheHistory == OperationSpec => []EventsAreHistory
<1>1. OInv => EventsAreHistory
  BY DEF OInv
<1> QED
  BY <1>1, OperationInvariance, PTL

(* A cancellation that was answered stays what it was answered to be.       *)
THEOREM CancellationsAreFinal == OperationSpec => []CancelRepliesStayTrue
<1>1. OInv => CancelRepliesStayTrue
  BY DEF OInv
<1> QED
  BY <1>1, OperationInvariance, PTL
=============================================================================
