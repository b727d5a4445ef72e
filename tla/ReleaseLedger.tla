---------------------------- MODULE ReleaseLedger ----------------------------
(***************************************************************************)
(* What the delivery control plane promises its callers about releases,     *)
(* without transactions, manifests or observations: a command is answered   *)
(* with one release for good, a release goes live at most once, at most one *)
(* release of an environment is live, and a retired release stays retired.  *)
(* RuntimeDelivery implements it.                                           *)
(***************************************************************************)
CONSTANTS Env, Release, Key, None

VARIABLES
  answer,   \* [Key -> the release the command was answered with]
  home,     \* [Release -> the environment it belongs to]
  stage     \* [Release -> how far it got]

vars == <<answer, home, stage>>

Stages == {"absent", "candidate", "live", "retired"}

Init ==
  /\ answer = [k \in Key |-> None]
  /\ home = [r \in Release |-> None]
  /\ stage = [r \in Release |-> "absent"]

(* A command creates a release.                                             *)
Accept(k, e, r) ==
  /\ answer[k] = None
  /\ stage[r] = "absent"
  /\ answer' = [answer EXCEPT ![k] = r]
  /\ home' = [home EXCEPT ![r] = e]
  /\ stage' = [stage EXCEPT ![r] = "candidate"]

(* A command is answered with a release that another command created.       *)
Join(k, r) ==
  /\ answer[k] = None
  /\ stage[r] # "absent"
  /\ answer' = [answer EXCEPT ![k] = r]
  /\ UNCHANGED <<home, stage>>

LiveIn(e) == {r \in Release : stage[r] = "live" /\ home[r] = e}

(* A candidate goes live and replaces the live release of its environment.  *)
GoLive(r) ==
  /\ stage[r] = "candidate"
  /\ stage' = [s \in Release |->
       IF s = r THEN "live"
       ELSE IF s \in LiveIn(home[r]) THEN "retired" ELSE stage[s]]
  /\ UNCHANGED <<answer, home>>

(* The live release of an environment is retired without a successor.       *)
Retire(e) ==
  /\ stage' = [s \in Release |->
       IF s \in LiveIn(e) THEN "retired" ELSE stage[s]]
  /\ UNCHANGED <<answer, home>>

Next ==
  \/ \E k \in Key, e \in Env, r \in Release : Accept(k, e, r)
  \/ \E k \in Key, r \in Release : Join(k, r)
  \/ \E r \in Release : GoLive(r)
  \/ \E e \in Env : Retire(e)

Spec == Init /\ [][Next]_vars

-----------------------------------------------------------------------------
(* At most one release of an environment is live: the promise behind the    *)
(* unique index runtime_releases_one_active_uq.                             *)
OneLivePerEnvironment ==
  \A e \in Env : \A r, s \in LiveIn(e) : r = s
=============================================================================
