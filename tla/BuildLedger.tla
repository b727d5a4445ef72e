------------------------------ MODULE BuildLedger ------------------------------
(***************************************************************************)
(* What the build service promises of the attempts at one identity          *)
(* (docs/iteration-3/IMPLEMENTATION.md): concurrent requests converge on    *)
(* one attempt, a retry follows only an attempt that is over without        *)
(* success, and a released artifact ends the attempts.                      *)
(***************************************************************************)
EXTENDS Integers

CONSTANTS Identity, Key

VARIABLES
  attempts,   \* [Identity -> how many attempts were made]
  stage,      \* [Identity -> what has become of the last of them]
  named       \* [Key -> the attempt its caller was told of, <<>> if none]

ledger == <<attempts, stage, named>>

Init ==
  /\ attempts = [i \in Identity |-> 0]
  /\ stage = [i \in Identity |-> "none"]
  /\ named = [k \in Key |-> <<>>]

Tell(k, i, n) ==
  /\ named[k] = <<>>
  /\ named' = [named EXCEPT ![k] = <<i, n>>]

(* The next attempt, where none is queued, running or released.             *)
Attempt(k, i) ==
  /\ stage[i] \in {"none", "over"}
  /\ attempts' = [attempts EXCEPT ![i] = @ + 1]
  /\ stage' = [stage EXCEPT ![i] = "queued"]
  /\ Tell(k, i, attempts[i] + 1)

(* A request that converges on the last attempt.                            *)
Converge(k, i) ==
  /\ stage[i] # "none"
  /\ Tell(k, i, attempts[i])
  /\ UNCHANGED <<attempts, stage>>

Move(i, from, to) ==
  /\ stage[i] \in from
  /\ stage' = [stage EXCEPT ![i] = to]
  /\ UNCHANGED <<attempts, named>>

Start(i)   == Move(i, {"queued"}, "running")
Release(i) == Move(i, {"running"}, "released")
End(i)     == Move(i, {"queued", "running"}, "over")

Next ==
  \E i \in Identity :
    \/ \E k \in Key : Attempt(k, i) \/ Converge(k, i)
    \/ Start(i) \/ Release(i) \/ End(i)

Spec == Init /\ [][Next]_ledger
=============================================================================
