---------------------------- MODULE KernelOperations ----------------------------
(***************************************************************************)
(* An operation of the kernel (internal/kernel/operation.go; Start,         *)
(* Transition and CancelOperation of internal/kernel/service.go), whose     *)
(* changes are reported through the outbox.                                 *)
(*                                                                         *)
(* A transaction is READ COMMITTED: it reads the operation, decides, and    *)
(* updates the row where its version is still the one read.  From that      *)
(* update to the commit the row is locked, so update, event, stored reply   *)
(* and commit are one step here.  One operation is modelled, with the       *)
(* events of its changes; the event of each audit record is left out, and   *)
(* so are the refusals that read nothing of the operation.                  *)
(***************************************************************************)
EXTENDS KernelMessaging

CONSTANTS
  Caller,     \* concurrent transactions of Transition
  Canceler,   \* concurrent transactions of CancelOperation
  CancelKey   \* idempotency keys of CancelOperation

ASSUME CancelKeyAssumption == "none" \notin CancelKey

VARIABLES
  operation,  \* the operation's row
  tx,         \* [Caller \cup Canceler -> what its transaction has read and is about to write]
  reply,      \* [CancelKey -> the stored response]
  report      \* [Event -> what the event says of the operation]

operationVars == <<operation, tx, reply, report>>
allVars == <<vars, operationVars>>

Terminal == {"SUCCEEDED", "FAILED", "CANCELED"}
NoTx == [at |-> "idle"]
NoReport == [state |-> "none", version |-> 0]

(* Start has made the operation, and its first event has been delivered.    *)
OperationInit ==
  /\ Init
  /\ operation = [state |-> "PENDING", version |-> 1]
  /\ tx = [c \in Caller \cup Canceler |-> NoTx]
  /\ reply = [k \in CancelKey |-> "none"]
  /\ report = [e \in Event |-> NoReport]

TransitionAgain(from) ==    \* mutant
  CASE from = "PENDING"          -> {"RUNNING", "FAILED", "CANCELED"}
    [] from = "RUNNING"          -> {"WAITING_EXTERNAL"} \cup Terminal
    [] from = "FAILED"           -> {"RUNNING"}
    [] from = "WAITING_EXTERNAL" -> {"RUNNING"} \cup Terminal
    [] OTHER                     -> {}

AllowedOperationTransition(from) ==
  CASE from = "PENDING"          -> {"RUNNING", "FAILED", "CANCELED"}
    [] from = "RUNNING"          -> {"WAITING_EXTERNAL"} \cup Terminal
    [] from = "WAITING_EXTERNAL" -> {"RUNNING"} \cup Terminal
    [] OTHER                     -> {}

-----------------------------------------------------------------------------
(* appendOperationEvent, of the row as it is after the change.              *)
AppendOperationEvent ==
  \E e \in Event :
    /\ AppendOutbox(e)
    /\ report' = [report EXCEPT ![e] = operation']

(* Transition up to its decision.  What is not allowed is an error.  (An    *)
(* operation changes as often as there are events to report it.)            *)
Transition(c, to) ==
  /\ tx[c] = NoTx
  /\ to \in AllowedOperationTransition(operation.state)
  /\ operation.version <= Cardinality(Event)
  /\ tx' = [tx EXCEPT ![c] = [at |-> "decided", to |-> to, key |-> "none",
                              read |-> operation]]
  /\ UNCHANGED <<vars, operation, reply, report>>

(* CancelOperation: the claim of its key, which waits for another           *)
(* transaction that has claimed it, and its decision.                       *)
CancelOperation(c, k) ==
  /\ tx[c] = NoTx
  /\ reply[k] = "none"
  /\ operation.state \in Terminal \/ operation.version <= Cardinality(Event)
  /\ \A d \in Canceler : tx[d] # NoTx => tx[d].key # k
  /\ IF operation.state \in Terminal
       THEN (* canceled before, or recorded as a failure; it stays one *)
            /\ reply' = [reply EXCEPT ![k] =
                           IF operation.state = "CANCELED" THEN "CANCELED" ELSE "FAILED"]
            /\ UNCHANGED tx
       ELSE /\ tx' = [tx EXCEPT ![c] = [at |-> "decided", to |-> "CANCELED", key |-> k,
                                        read |-> operation]]
            /\ UNCHANGED reply
  /\ UNCHANGED <<vars, operation, report>>

SaveBlindly(c) ==    \* mutant
  LET t == tx[c] IN
  /\ t # NoTx
  /\ operation' = [state |-> t.to, version |-> t.read.version + 1]
  /\ AppendOperationEvent
  /\ reply' = [k \in CancelKey |-> IF k = t.key THEN "CANCELED" ELSE reply[k]]
  /\ tx' = [tx EXCEPT ![c] = NoTx]

(* SaveOperation and the rest.  After another change nothing is written,    *)
(* and a cancellation's key is free again.                                  *)
SaveOperation(c) ==
  LET t == tx[c] IN
  /\ t # NoTx
  /\ IF operation.version = t.read.version
       THEN /\ operation' = [state |-> t.to, version |-> operation.version + 1]
            /\ AppendOperationEvent
            /\ reply' = [k \in CancelKey |-> IF k = t.key THEN "CANCELED" ELSE reply[k]]
       ELSE UNCHANGED <<vars, operation, reply, report>>
  /\ tx' = [tx EXCEPT ![c] = NoTx]

(* An error of the store or a crash before the commit.                      *)
Rollback(c) ==
  /\ tx[c] # NoTx
  /\ tx' = [tx EXCEPT ![c] = NoTx]
  /\ UNCHANGED <<vars, operation, reply, report>>

OperationNext ==
  \/ Delivery /\ UNCHANGED operationVars
  \/ \E c \in Caller, to \in {"RUNNING", "WAITING_EXTERNAL"} \cup Terminal : Transition(c, to)
  \/ \E c \in Canceler, k \in CancelKey : CancelOperation(c, k)
  \/ \E c \in Caller \cup Canceler : SaveOperation(c) \/ Rollback(c)

OperationSpec == OperationInit /\ [][OperationNext]_allVars /\ Fairness

-----------------------------------------------------------------------------
Recorded == {e \in Event : outbox[e].state # "absent"}
EventsOf(v) == {e \in Recorded : report[e].version = v}

(* However cancellations and transitions race, the events after the first   *)
(* are the operation's history: one for each version, the last one telling  *)
(* its state, each the end of an allowed transition from the one before.    *)
EventsAreHistory ==
  /\ \A e \in Recorded : report[e].version \in 2..operation.version
  /\ \A v \in 2..operation.version :
       \E e \in Recorded :
         /\ EventsOf(v) = {e}
         /\ v = operation.version => report[e] = operation
         /\ v = 2 => report[e].state \in AllowedOperationTransition("PENDING")
         /\ \A f \in EventsOf(v + 1) :
              report[f].state \in AllowedOperationTransition(report[e].state)

(* What CancelOperation has answered stays true: an operation that was      *)
(* canceled under some key is canceled, and one that could not be canceled  *)
(* has ended otherwise.                                                     *)
CancelRepliesStayTrue ==
  \A k \in CancelKey :
    /\ reply[k] = "CANCELED" => operation.state = "CANCELED"
    /\ reply[k] = "FAILED" => operation.state \in Terminal \ {"CANCELED"}
=============================================================================
