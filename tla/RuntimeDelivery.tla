--------------------------- MODULE RuntimeDelivery ---------------------------
(***************************************************************************)
(* The runtime-delivery control plane (internal/runtime/application).  A     *)
(* Deploy or Rollback call creates an immutable release in one transaction, *)
(* its deployment in a second, pushes a manifest to the GitOps repository   *)
(* outside any transaction and records the commit in a third.  A status     *)
(* reconciler observes the PaaSApp that Argo CD and the operator maintain   *)
(* and applies what it saw in a later transaction.                          *)
(*                                                                         *)
(* Calls run concurrently, may stop at any point between two transactions   *)
(* (an error return, a cancelled request, a crash) and may be retried with  *)
(* their idempotency key.  A transaction is one step: the memory store runs *)
(* it under a mutex on a copy of the state, the PostgreSQL store as a       *)
(* SERIALIZABLE transaction.                                                *)
(***************************************************************************)
EXTENDS Integers, FiniteSets

CONSTANTS
  Env,          \* environments, each with its application
  Cell,         \* runtime cells, numbered in the order of their ids
  Content,      \* what can be released: an artifact with a configuration
  Release,      \* the release ids that IDs.New may return
  Key,          \* idempotency keys, each used for one command
  Worker,       \* concurrent Deploy and Rollback calls
  Observer,     \* concurrent ReconcileDeploymentStatus calls
  Command,      \* [Key -> the command that callers send with the key]
  Units,        \* [Content -> requestedUnits of its configuration]
  Class,        \* [Content -> the region and isolation it asks for]
  CellClass,    \* [Cell -> the regions and isolations it supports]
  Capacity,     \* [Cell -> CapacityUnits]
  None,         \* the empty id ""
  NotCommitted  \* the repository holds no index file for the release

Deploys   == [kind : {"deploy"}, env : Env, content : Content]
Rollbacks == [kind : {"rollback"}, env : Env, target : Key]

ASSUME CommandAssumption == Command \in [Key -> Deploys \cup Rollbacks]
ASSUME EnvAssumption     == IsFiniteSet(Env)
ASSUME UnitsAssumption   == \A s \in Content : Units[s] \in Nat \ {0}
ASSUME CellAssumption    == Cell \subseteq Nat /\ Capacity \in [Cell -> Nat]
ASSUME NoneAssumption    ==
  /\ None \notin Release \cup Env \cup Content \cup Key \cup Cell
  /\ NotCommitted \notin Release \cup {None}

VARIABLES
  placement,   \* [Env -> the current placement: its cell, units and class]
  allocated,   \* [Cell -> AllocatedUnits]
  release,     \* [Release -> the release row]
  idem,        \* [Key -> the release its idempotency record names]
  active,      \* [Env -> ActiveReleaseID]
  deployment,  \* [Release -> the deployment of the release]
  recorded,    \* [Release -> the manifest its GitOpsCommitRecord names]
  index,       \* GitOps repository: [Release -> the manifest committed for it]
  head,        \* GitOps repository: [Env -> release whose manifest is at HEAD]
  paasapp,     \* cluster: [Env -> the PaaSApp object]
  call,        \* [Worker -> its Deploy or Rollback call in progress]
  obs          \* [Observer -> an observation not applied yet]

store == <<placement, allocated, release, idem, active, deployment, recorded>>
repo  == <<index, head>>
vars  == <<placement, allocated, release, idem, active, deployment, recorded,
           index, head, paasapp, call, obs>>

ReleaseOrNone == Release \cup {None}

(* The manifest of a release is fixed by the release, which is immutable,   *)
(* and by the release that was active when it was rendered: it is           *)
(* represented by that previous release.                                    *)
Manifest == ReleaseOrNone \cup {NotCommitted}

ReleaseStates == {"NONE", "VALIDATED", "COMMITTED_TO_GITOPS", "DEPLOYING",
                  "ACTIVE", "SUPERSEDED"}
Phases == {"NONE", "PENDING", "GIT_COMMITTED", "ARGO_SYNCING", "ROLLING_OUT",
           "DEGRADED", "READY"}
Sights == {"missing", "rolling", "ready", "degraded", "other"}

Classes == {Class[s] : s \in Content}
Placements == [cell : Cell \cup {None}, units : Nat, class : Classes \cup {None}]
NoPlacement == [cell |-> None, units |-> 0, class |-> None]
NoReleaseRow == [state |-> "NONE", env |-> None, content |-> None,
                 rollbackOf |-> None]
NoDeployment == [phase |-> "NONE", previous |-> None]
NoPaaSApp == [release |-> None, previous |-> None, current |-> FALSE,
              phase |-> "other"]
IdleCall == [pc |-> "idle", key |-> None, release |-> None, previous |-> None]
NoSight  == [release |-> None, sight |-> "missing"]

TypeOK ==
  /\ placement \in [Env -> Placements]
  /\ allocated \in [Cell -> Nat]
  /\ release \in [Release -> [state : ReleaseStates, env : Env \cup {None},
                              content : Content \cup {None},
                              rollbackOf : ReleaseOrNone]]
  /\ idem \in [Key -> ReleaseOrNone]
  /\ active \in [Env -> ReleaseOrNone]
  /\ deployment \in [Release -> [phase : Phases, previous : ReleaseOrNone]]
  /\ recorded \in [Release -> Manifest]
  /\ index \in [Release -> Manifest]
  /\ head \in [Env -> ReleaseOrNone]
  /\ paasapp \in [Env -> [release : ReleaseOrNone, previous : ReleaseOrNone,
                          current : BOOLEAN, phase : Sights]]
  /\ call \in [Worker -> [pc : {"idle", "create", "deploy", "commit", "record"},
                          key : Key \cup {None}, release : ReleaseOrNone,
                          previous : ReleaseOrNone]]
  /\ obs \in [Observer -> [release : ReleaseOrNone, sight : Sights]]

Init ==
  /\ placement = [e \in Env |-> NoPlacement]
  /\ allocated = [c \in Cell |-> 0]
  /\ release = [r \in Release |-> NoReleaseRow]
  /\ idem = [k \in Key |-> None]
  /\ active = [e \in Env |-> None]
  /\ deployment = [r \in Release |-> NoDeployment]
  /\ recorded = [r \in Release |-> NotCommitted]
  /\ index = [r \in Release |-> NotCommitted]
  /\ head = [e \in Env |-> None]
  /\ paasapp = [e \in Env |-> NoPaaSApp]
  /\ call = [w \in Worker |-> IdleCall]
  /\ obs = [o \in Observer |-> NoSight]

-----------------------------------------------------------------------------
(* Capacity and placement                                                   *)

CanPlace(c, s) ==
  /\ Class[s] \in CellClass[c]
  /\ allocated[c] + Units[s] <= Capacity[c]

(* DeterministicScheduler.Select: the compatible cell with the most free    *)
(* units, the smallest id among equals.                                     *)
Free(c) == Capacity[c] - allocated[c]
Selected(c, s) ==
  /\ CanPlace(c, s)
  /\ \A d \in Cell : CanPlace(d, s) =>
        Free(d) < Free(c) \/ (Free(d) = Free(c) /\ c <= d)

(* Content s asks for the region and isolation of the current placement     *)
(* itself, which only an explicit migration may change: that its cell       *)
(* supports another one does not matter.                                    *)
Compatible(e, s) == Class[s] = placement[e].class

ReallocatedOnGrowth(c, old, new) ==                       \* mutant
  IF new > old THEN [allocated EXCEPT ![c] = @ + new - old] ELSE allocated
Reallocated(c, old, new) == [allocated EXCEPT ![c] = @ + new - old]

(* resizePlacement: allocate or release the difference on the cell.         *)
ResizePlacement(e, units) ==
  LET c == placement[e].cell IN
  /\ units > placement[e].units =>
        allocated[c] + (units - placement[e].units) <= Capacity[c]
  /\ units < placement[e].units =>
        placement[e].units - units <= allocated[c]
  /\ allocated' = Reallocated(c, placement[e].units, units)
  /\ placement' = [placement EXCEPT ![e].units = units]

(* NewPlacement, Allocate and SetPlacement for an environment without one.  *)
PlaceEnvironment(e, s) ==
  \E c \in Cell :
    /\ Selected(c, s)
    /\ allocated' = [allocated EXCEPT ![c] = @ + Units[s]]
    /\ placement' = [placement EXCEPT ![e] =
          [cell |-> c, units |-> Units[s], class |-> Class[s]]]

-----------------------------------------------------------------------------
(* Deploy and Rollback calls                                                *)

Continue(w, pc, r) ==
  call' = [call EXCEPT ![w].pc = pc, ![w].release = r]
Return(w) == call' = [call EXCEPT ![w] = IdleCall]

(* The transaction that looks for a replay, before the artifact policy is   *)
(* consulted: an accepted command continues with the release it created.  A *)
(* rollback needs its target and a placement.                               *)
Begin(w, k) ==
  /\ call[w].pc = "idle"
  /\ idem[k] = None /\ Command[k].kind = "rollback" =>
        LET target == idem[Command[k].target] IN
        /\ target # None
        /\ release[target].env = Command[k].env
  /\ call' = [call EXCEPT ![w] =
        [pc |-> IF idem[k] = None THEN "create" ELSE "deploy", key |-> k,
         release |-> idem[k], previous |-> None]]
  /\ UNCHANGED <<store, repo, paasapp, obs>>

(* A call ends without further effect: the artifact policy rejects, a       *)
(* guard of a transaction returns an error, the GitOps commit fails, the    *)
(* request is cancelled or the process crashes.                             *)
Abort(w) ==
  /\ call[w].pc # "idle"
  /\ Return(w)
  /\ UNCHANGED <<store, repo, paasapp, obs>>

InsertRelease(w, r, e, s, rollbackOf) ==
  /\ release[r].state = "NONE"
  /\ release' = [release EXCEPT ![r] = [state |-> "VALIDATED", env |-> e,
                                        content |-> s,
                                        rollbackOf |-> rollbackOf]]
  /\ idem' = [idem EXCEPT ![call[w].key] = r]
  /\ Continue(w, "deploy", r)

(* Write transaction, the key was used meanwhile: a concurrent retry won.   *)
CreateReplayed(w) ==
  LET k == call[w].key IN
  /\ call[w].pc = "create"
  /\ idem[k] # None
  /\ Continue(w, "deploy", idem[k])
  /\ UNCHANGED <<store, repo, paasapp, obs>>

SameIdentity(r, e, s) ==
  /\ release[r].state # "NONE"
  /\ release[r].env = e
  /\ release[r].content = s
  /\ release[r].rollbackOf = None

NewIdentityOfPending(e, s) ==                             \* mutant
  \A r \in Release : release[r].state = "VALIDATED" => ~SameIdentity(r, e, s)
NewIdentity(e, s) == \A r \in Release : ~SameIdentity(r, e, s)

(* Write transaction of CreateRelease, the identity (environment, artifact  *)
(* and configuration) exists: the key is bound to the existing release and  *)
(* the placement is left as it is.                                          *)
CreateDeduplicated(w) ==
  LET k == call[w].key IN
  /\ call[w].pc = "create"
  /\ idem[k] = None
  /\ Command[k].kind = "deploy"
  /\ placement[Command[k].env] # NoPlacement
  /\ Compatible(Command[k].env, Command[k].content)
  /\ \E r \in Release :
       /\ SameIdentity(r, Command[k].env, Command[k].content)
       /\ idem' = [idem EXCEPT ![k] = r]
       /\ Continue(w, "deploy", r)
  /\ UNCHANGED <<placement, allocated, release, active, deployment, recorded,
                 repo, paasapp, obs>>

(* Write transaction of CreateRelease for a new identity.                   *)
CreateRelease(w) ==
  LET k == call[w].key
      e == Command[k].env
      s == Command[k].content IN
  /\ call[w].pc = "create"
  /\ idem[k] = None
  /\ Command[k].kind = "deploy"
  /\ NewIdentity(e, s)
  /\ \/ /\ placement[e] # NoPlacement
        /\ Compatible(e, s)
        /\ ResizePlacement(e, Units[s])
     \/ /\ placement[e] = NoPlacement
        /\ PlaceEnvironment(e, s)
  /\ \E r \in Release : InsertRelease(w, r, e, s, None)
  /\ UNCHANGED <<active, deployment, recorded, repo, paasapp, obs>>

(* Write transaction of RollbackWithRequest: a new release with the content *)
(* of the target, whatever the target's state.                              *)
CreateRollback(w) ==
  LET k == call[w].key
      e == Command[k].env
      target == idem[Command[k].target]
      s == release[target].content IN
  /\ call[w].pc = "create"
  /\ idem[k] = None
  /\ Command[k].kind = "rollback"
  /\ ResizePlacement(e, Units[s])
  /\ \E r \in Release : InsertRelease(w, r, e, s, target)
  /\ UNCHANGED <<active, deployment, recorded, repo, paasapp, obs>>

DeploymentAlwaysNew(r) ==                                 \* mutant
  [phase |-> "PENDING", previous |-> active[release[r].env]]
FoundOrNewDeployment(r) ==
  IF deployment[r] = NoDeployment
  THEN [phase |-> "PENDING", previous |-> active[release[r].env]]
  ELSE deployment[r]

(* The transaction that finds or inserts the deployment.  The environment   *)
(* it reads, with its active release, is what the manifest is rendered      *)
(* from; a deployment that is past PENDING ends the call.                   *)
EnsureDeployment(w) ==
  LET r == call[w].release
      e == release[r].env IN
  /\ call[w].pc = "deploy"
  /\ deployment' = [deployment EXCEPT ![r] = FoundOrNewDeployment(r)]
  /\ IF deployment'[r].phase = "PENDING"
     THEN call' = [call EXCEPT ![w].pc = "commit", ![w].previous = active[e]]
     ELSE Return(w)
  /\ UNCHANGED <<placement, allocated, release, idem, active, recorded,
                 repo, paasapp, obs>>

IndexWritten(r, manifest) == [index EXCEPT ![r] = manifest]

(* GitOpsRepository.Commit, idempotent by release: the first manifest is    *)
(* committed, the same manifest again returns its commit, another is        *)
(* refused (the call aborts).                                               *)
CommitGitOps(w) ==
  LET r == call[w].release IN
  /\ call[w].pc = "commit"
  /\ index[r] \in {NotCommitted, call[w].previous}
  /\ IF index[r] = NotCommitted
     THEN /\ index' = IndexWritten(r, call[w].previous)
          /\ head' = [head EXCEPT ![release[r].env] = r]
     ELSE UNCHANGED repo
  /\ call' = [call EXCEPT ![w].pc = "record"]
  /\ UNCHANGED <<store, paasapp, obs>>

(* recordGitCommit with the commit found in the repository.                 *)
RecordGitCommit(r) ==
  IF recorded[r] # NotCommitted
  THEN /\ recorded[r] = index[r]
       /\ UNCHANGED <<release, deployment, recorded>>
  ELSE /\ deployment[r].phase = "PENDING"
       /\ release[r].state = "VALIDATED"
       /\ deployment' = [deployment EXCEPT ![r].phase = "GIT_COMMITTED"]
       /\ release' = [release EXCEPT ![r].state = "COMMITTED_TO_GITOPS"]
       /\ recorded' = [recorded EXCEPT ![r] = index[r]]

RecordCommit(w) ==
  /\ call[w].pc = "record"
  /\ RecordGitCommit(call[w].release)
  /\ Return(w)
  /\ UNCHANGED <<placement, allocated, idem, active, repo, paasapp, obs>>

(* ReconcileGitOps: what it reads outside the recording transaction (the    *)
(* deployment's existence and the committed manifest) never changes back,   *)
(* so the call is one step.                                                 *)
ReconcileGitOps(r) ==
  /\ recorded[r] = NotCommitted
  /\ deployment[r] # NoDeployment
  /\ index[r] # NotCommitted
  /\ RecordGitCommit(r)
  /\ UNCHANGED <<placement, allocated, idem, active, repo, paasapp, call, obs>>

-----------------------------------------------------------------------------
(* The cluster                                                              *)

(* Argo CD applies the manifest at HEAD; the generation moves on.           *)
ArgoSync(e) ==
  LET r == head[e] IN
  /\ r # None
  /\ \/ paasapp[e].release # r
     \/ paasapp[e].previous # index[r]
  /\ paasapp' = [paasapp EXCEPT ![e].release = r, ![e].previous = index[r],
                                ![e].current = FALSE]
  /\ UNCHANGED <<store, repo, call, obs>>

(* The operator writes the status of the current generation: Ready once     *)
(* every process is, Degraded after a failure or a timeout, otherwise       *)
(* Deploying.                                                               *)
OperatorReport(e, phase) ==
  /\ paasapp[e].release # None
  /\ paasapp' = [paasapp EXCEPT ![e].current = TRUE, ![e].phase = phase]
  /\ UNCHANGED <<store, repo, call, obs>>

-----------------------------------------------------------------------------
(* Status reconciliation                                                    *)

(* validateObservedPaaSApp: the object is that of the deployment's release, *)
(* with the spec the deployment expects.                                    *)
Matches(e, r) ==
  /\ paasapp[e].release = r
  /\ paasapp[e].previous = deployment[r].previous

(* The reading transaction and the observation of ReconcileDeploymentStatus *)
(* (the rows it reads are immutable in what the observation depends on).    *)
Observe(o, r) ==
  LET e == release[r].env IN
  /\ obs[o] = NoSight
  /\ deployment[r] # NoDeployment
  /\ \/ /\ paasapp[e].release = None
        /\ obs' = [obs EXCEPT ![o] = [release |-> r, sight |-> "missing"]]
     \/ /\ paasapp[e].release # None
        /\ Matches(e, r)
        /\ obs' = [obs EXCEPT ![o] =
              [release |-> r, sight |-> IF paasapp[e].current
                                        THEN paasapp[e].phase ELSE "rolling"]]
  /\ UNCHANGED <<store, repo, paasapp, call>>

(* The observation is dropped: an error of the applying transaction, which  *)
(* rolls it back, or a crash.                                               *)
DropObservation(o) ==
  /\ obs[o] # NoSight
  /\ obs' = [obs EXCEPT ![o] = NoSight]
  /\ UNCHANGED <<store, repo, paasapp, call>>

Applying(o, sight) ==
  /\ obs[o].release # None
  /\ obs[o].sight = sight
  /\ obs' = [obs EXCEPT ![o] = NoSight]
  /\ UNCHANGED <<placement, allocated, idem, recorded, repo, paasapp, call>>

(* markArgoSyncing                                                          *)
ApplyMissing(o) ==
  LET r == obs[o].release IN
  /\ Applying(o, "missing")
  /\ deployment' = IF deployment[r].phase = "GIT_COMMITTED"
                   THEN [deployment EXCEPT ![r].phase = "ARGO_SYNCING"]
                   ELSE deployment
  /\ UNCHANGED <<release, active>>

Deploying(state) == IF state = "COMMITTED_TO_GITOPS" THEN "DEPLOYING" ELSE state

(* markRollingOut                                                           *)
ApplyRolling(o) ==
  LET r == obs[o].release IN
  /\ Applying(o, "rolling")
  /\ deployment' = IF deployment[r].phase \in {"GIT_COMMITTED", "ARGO_SYNCING",
                                               "DEGRADED"}
                   THEN [deployment EXCEPT ![r].phase = "ROLLING_OUT"]
                   ELSE deployment
  /\ release' = [release EXCEPT ![r].state = Deploying(@)]
  /\ UNCHANGED active

(* applyObservedStatus first moves the deployment on to ROLLING_OUT.        *)
RollingOutAgain(phase) ==                                 \* mutant
  IF phase # "PENDING" THEN "ROLLING_OUT" ELSE phase
RollingOut(phase) ==
  IF phase \in {"GIT_COMMITTED", "ARGO_SYNCING"} THEN "ROLLING_OUT" ELSE phase

(* The releases that release r of environment e supersedes.                 *)
ReplacesPrevious(e, r, s) ==                              \* mutant
  s = deployment[r].previous /\ release[s].state = "ACTIVE"
Replaces(e, r, s) ==
  s # r /\ release[s].env = e /\ release[s].state = "ACTIVE"

ActivatedAgain(state) == "ACTIVE"                         \* mutant
Activated(state) ==
  IF Deploying(state) = "DEPLOYING" THEN "ACTIVE" ELSE state

(* applyObservedStatus of a Ready object: every other ACTIVE release of the *)
(* environment is superseded, the release becomes ACTIVE if it was          *)
(* DEPLOYING, and the environment's active release is set in any case.      *)
ApplyReady(o) ==
  LET r == obs[o].release
      e == release[r].env IN
  /\ Applying(o, "ready")
  /\ RollingOut(deployment[r].phase) \in {"ROLLING_OUT", "DEGRADED", "READY"}
  /\ deployment' = [deployment EXCEPT ![r].phase = "READY"]
  /\ release' = [s \in Release |->
       IF s = r THEN [release[s] EXCEPT !.state = Activated(@)]
       ELSE IF Replaces(e, r, s)
            THEN [release[s] EXCEPT !.state = "SUPERSEDED"]
            ELSE release[s]]
  /\ active' = [active EXCEPT ![e] = r]

DegradableWhenReady == {"ROLLING_OUT", "DEGRADED", "READY"}   \* mutant
Degradable == {"ROLLING_OUT", "DEGRADED"}

(* applyObservedStatus of a Degraded object; a READY deployment cannot      *)
(* become DEGRADED (the transaction fails).                                 *)
ApplyDegraded(o) ==
  LET r == obs[o].release IN
  /\ Applying(o, "degraded")
  /\ RollingOut(deployment[r].phase) \in Degradable
  /\ deployment' = [deployment EXCEPT ![r].phase = "DEGRADED"]
  /\ release' = [release EXCEPT ![r].state = Deploying(@)]
  /\ UNCHANGED active

(* applyObservedStatus of any other phase.                                  *)
ApplyOther(o) ==
  LET r == obs[o].release IN
  /\ Applying(o, "other")
  /\ deployment' = [deployment EXCEPT ![r].phase =
        IF @ = "DEGRADED" THEN "ROLLING_OUT" ELSE RollingOut(@)]
  /\ release' = [release EXCEPT ![r].state = Deploying(@)]
  /\ UNCHANGED active

-----------------------------------------------------------------------------
CallStep(w) ==
  \/ \E k \in Key : Begin(w, k)
  \/ Abort(w)
  \/ CreateReplayed(w)
  \/ CreateDeduplicated(w)
  \/ CreateRelease(w)
  \/ CreateRollback(w)
  \/ EnsureDeployment(w)
  \/ CommitGitOps(w)
  \/ RecordCommit(w)

StatusStep(o) ==
  \/ \E r \in Release : Observe(o, r)
  \/ DropObservation(o)
  \/ ApplyMissing(o)
  \/ ApplyRolling(o)
  \/ ApplyReady(o)
  \/ ApplyDegraded(o)
  \/ ApplyOther(o)

ClusterStep ==
  \/ \E e \in Env : ArgoSync(e)
  \/ \E e \in Env, phase \in {"ready", "degraded", "other"} :
        OperatorReport(e, phase)

Next ==
  \/ \E w \in Worker : CallStep(w)
  \/ \E r \in Release : ReconcileGitOps(r)
  \/ ClusterStep
  \/ \E o \in Observer : StatusStep(o)

Spec == Init /\ [][Next]_vars
-----------------------------------------------------------------------------
(* Properties                                                               *)

(* At most one release of an environment is ACTIVE, whatever the order in   *)
(* which observations of several deployments are applied                    *)
(* (applyObservedStatus, runtime_releases_one_active_uq).                   *)
OnlyOneActiveRelease ==
  \A r, s \in Release :
    /\ release[r].state = "ACTIVE" /\ release[s].state = "ACTIVE"
    /\ release[r].env = release[s].env
    => r = s

(* The release, its deployment, its recorded commit and the repository stay *)
(* in step although four different transactions and the push write them:    *)
(* a commit is recorded exactly from GIT_COMMITTED on and is the one in the *)
(* repository, and the phase of the deployment tells the release's state.   *)
Agrees(r) ==
  LET d == deployment[r].phase
      s == release[r].state IN
  /\ recorded[r] # NotCommitted => recorded[r] = index[r]
  /\ recorded[r] = NotCommitted <=> d \in {"NONE", "PENDING"}
  /\ d = "NONE" => s \in {"NONE", "VALIDATED"}
  /\ d = "PENDING" => s = "VALIDATED"
  /\ d \in {"GIT_COMMITTED", "ARGO_SYNCING"} => s = "COMMITTED_TO_GITOPS"
  /\ d \in {"ROLLING_OUT", "DEGRADED"} => s = "DEPLOYING"
  /\ d = "READY" => s \in {"ACTIVE", "SUPERSEDED"}

SagaAgreement == \A r \in Release : Agrees(r)

(* The environment only ever points at one of its own releases whose        *)
(* deployment was seen Ready, never at a candidate.                         *)
ActiveReleaseWasReady ==
  \A e \in Env : active[e] # None =>
    /\ release[active[e]].env = e
    /\ deployment[active[e]].phase = "READY"

(* One command, one release: every release row is owned by some key, and    *)
(* two plain releases never share environment and content, although retries *)
(* and different callers race between the replay check and the insert.      *)
ReleasesAreOwnedAndUnique ==
  /\ \A r \in Release : release[r].state # "NONE" =>
        \E k \in Key : idem[k] = r
  /\ \A r, s \in Release :
        /\ release[r].state # "NONE" /\ release[r].rollbackOf = None
        /\ SameIdentity(s, release[r].env, release[r].content)
        => r = s

(* The units that the placements on a cell hold, one by one.                *)
UnitsOn(c) ==
  UNION {{e} \X (1..placement[e].units) : e \in {f \in Env : placement[f].cell = c}}

(* A cell's AllocatedUnits is the sum of the placements on it and within    *)
(* its capacity, through placement, growth, shrinking and rollback.         *)
CapacityAccounted ==
  \A c \in Cell :
    /\ allocated[c] = Cardinality(UnitsOn(c))
    /\ allocated[c] <= Capacity[c]

StateRank == [s \in ReleaseStates |->
  CASE s = "NONE" -> 0 [] s = "VALIDATED" -> 1 [] s = "COMMITTED_TO_GITOPS" -> 2
    [] s = "DEPLOYING" -> 3 [] s = "ACTIVE" -> 4 [] s = "SUPERSEDED" -> 5]

ReleaseKept(r) ==
  /\ StateRank[release[r].state] <= StateRank[release'[r].state]
  /\ release[r].state # "NONE" =>
        release'[r] = [release[r] EXCEPT !.state = release'[r].state]
  /\ deployment[r].phase = "READY" => deployment'[r] = deployment[r]
  /\ deployment[r] # NoDeployment =>
        deployment'[r].previous = deployment[r].previous
  /\ recorded[r] # NotCommitted => recorded'[r] = recorded[r]
  /\ index[r] # NotCommitted => index'[r] = index[r]

(* No step takes back what is final: a release never moves backwards or     *)
(* changes its content, a READY deployment stays READY, a key keeps its     *)
(* release, a recorded commit and a committed manifest keep their content,  *)
(* and a placement keeps its cell.                                          *)
NothingIsTakenBack ==
  [][/\ \A r \in Release : ReleaseKept(r)
     /\ \A k \in Key : idem[k] # None => idem'[k] = idem[k]
     /\ \A e \in Env : placement[e] # NoPlacement =>
          /\ placement'[e].cell = placement[e].cell
          /\ placement'[e].class = placement[e].class]_vars

(* The control plane implements the ledger of releases: however calls,      *)
(* retries and observations interleave, a key keeps its release, a release  *)
(* goes live once and at most one per environment is live.                  *)
Stage(r) ==
  CASE release[r].state = "NONE"       -> "absent"
    [] release[r].state = "ACTIVE"     -> "live"
    [] release[r].state = "SUPERSEDED" -> "retired"
    [] OTHER                           -> "candidate"

Ledger == INSTANCE ReleaseLedger WITH
  answer <- idem,
  home   <- [r \in Release |-> release[r].env],
  stage  <- [r \in Release |-> Stage(r)]

ImplementsLedger == Ledger!Spec

(* The release an environment names as active is ACTIVE (what               *)
(* TestStatus_PaaSAppReadyMarksDeploymentReady asserts of both rows).       *)
ActiveReleaseIsActive ==
  \A e \in Env : active[e] # None => release[active[e]].state = "ACTIVE"
=============================================================================
