---------------------------- MODULE RuntimeOperator ----------------------------
(***************************************************************************)
(* The PaaSApp operator (internal/runtime/operator/reconciler.go) as        *)
(* cmd/runtime-operator runs it: every replica lists the PaaSApps and       *)
(* reconciles them one by one against a copy of the object that it took     *)
(* when the pass began, one call to the Kubernetes API at a time.           *)
(*                                                                         *)
(* One PaaSApp.  Between any two calls the manifest may change, workloads   *)
(* come and go, another replica may act, and the pass may end: by an error  *)
(* of a call, whose effect may have taken place, by its deadline or by a    *)
(* crash.  Deletion is asynchronous: an object is gone at once or stays     *)
(* "terminating" until the cluster removes it.  A backend is the service of *)
(* a release, and is named by it.  An HPA shares name, labels and fate with *)
(* its deployment and is not a variable; ports, hostnames and conditions    *)
(* are left out, and whether a rollout has timed out is any answer.         *)
(***************************************************************************)
EXTENDS Integers, FiniteSets

CONSTANTS
  Operator,       \* replicas of cmd/runtime-operator
  MaxRelease,     \* bound: releases are 1 .. MaxRelease, in their order
  MaxVariant,     \* bound: contents a manifest has under one release id
  MaxGeneration,  \* bound: metadata.generation, one for each change of the manifest
  LastProcess,    \* processes are 1 .. LastProcess, in the order of names
  RouteProcess,   \* the process that the route serves
  Migrating       \* releases that have a migration command

ASSUME BoundsAssumption ==
  MaxRelease \in Nat \ {0} /\ MaxVariant \in Nat \ {0} /\ MaxGeneration \in Nat \ {0}
ASSUME ProcessAssumption == LastProcess \in Nat \ {0} /\ RouteProcess \in 1 .. LastProcess
ASSUME MigratingAssumption == Migrating \subseteq 1 .. MaxRelease

Release == 1 .. MaxRelease
Variant == 1 .. MaxVariant
Generation == 1 .. MaxGeneration
Process == 1 .. LastProcess
None == 0

(* The children of a release; the migration job runs before the others.     *)
Deployment(r, p) == [kind |-> "deployment", release |-> r, process |-> p]
Service(r) == [kind |-> "service", release |-> r, process |-> None]
Job(r) == [kind |-> "job", release |-> r, process |-> None]
Object == [kind : {"deployment"}, release : Release, process : Process]
            \cup [kind : {"service", "job"}, release : Release, process : {None}]

Lifecycle == {"Active", "Suspending", "Suspended", "Resuming",
              "DeletingRuntime", "Retaining", "Deleted"}
Deleting == {"DeletingRuntime", "Retaining", "Deleted"}
Runs(life) == life \in {"Active", "Resuming"}
Phase == {"", "Deploying", "Degraded", "Ready", "Suspending", "Suspended",
          "DeletingRoute", "DeletingWorkloads", "DeletingPolicy", "Retaining", "Deleted"}

VARIABLES
  spec,      \* external: the manifest that Argo CD has applied
  generation,  \* external: its metadata.generation
  status,    \* PaaSApp.status
  route,     \* the HTTPRoute: its state, and the release that gets the traffic
  policy,    \* the default-deny NetworkPolicy
  objects,   \* [Object -> state]; a job is "ready" when it has succeeded
  proven,    \* history: the objects that have been "ready"
  crossed,   \* history: what other replicas have brought back during each pass
  pass       \* [Operator -> its current pass over the PaaSApp]

vars == <<spec, generation, status, route, policy, objects, proven, crossed, pass>>
manifestVars == <<spec, generation>>
clusterVars == <<route, policy, objects, proven, crossed>>

Spaces == [release : Release, variant : Variant, life : Lifecycle]
Statuses == [phase : Phase, observed : Generation \cup {None}, active : Release \cup {None},
             backend : Release \cup {None}, candidate : Release \cup {None},
             hash : Variant \cup {None}, migrated : Release \cup {None}]
Routes == [state : {"absent", "live", "terminating"}, backend : Release \cup {None}]
States == {"absent", "new", "ready", "failed", "terminating"}
Calls == {"idle", "policy", "route", "job", "getjob", "deploy", "observe", "service",
          "check", "active", "putroute", "putstatus", "findroute", "deleteroute",
          "list", "delete", "recheck", "findpolicy", "deletepolicy", "checkpolicy"}
Kinds == {"deployment", "service", "job"}
Crossings == {"route", "policy", "objects"}

(* at: the next call; spec, status: the copy of the PaaSApp, status as the  *)
(* pass will write it; backend: where the route points or will point;       *)
(* process, kind, doomed: the positions of the loops; failed: a workload    *)
(* reports failure; serving: wasAlreadyServingCurrent.                      *)
Passes == [at : Calls, spec : Spaces, status : Statuses, backend : Release \cup {None},
           process : Process, kind : Kinds, doomed : SUBSET Object,
           failed : BOOLEAN, serving : BOOLEAN]

NoStatus == [phase |-> "", observed |-> None, active |-> None, backend |-> None,
             candidate |-> None, hash |-> None, migrated |-> None]
FirstSpec == [release |-> 1, variant |-> 1, life |-> "Active"]
NoPass == [at |-> "idle", spec |-> FirstSpec, status |-> NoStatus, backend |-> None,
           process |-> 1, kind |-> "deployment", doomed |-> {},
           failed |-> FALSE, serving |-> FALSE]

TypeOK ==
  /\ spec \in Spaces
  /\ generation \in Generation
  /\ status \in Statuses
  /\ route \in Routes
  /\ policy \in {"absent", "live", "terminating"}
  /\ objects \in [Object -> States]
  /\ proven \subseteq Object
  /\ crossed \in [Operator -> SUBSET Crossings]
  /\ pass \in [Operator -> Passes]

Init ==
  /\ spec = FirstSpec
  /\ generation = 1
  /\ status = NoStatus
  /\ route = [state |-> "absent", backend |-> None]
  /\ policy = "absent"
  /\ objects = [x \in Object |-> "absent"]
  /\ proven = {}
  /\ crossed = [o \in Operator |-> {}]
  /\ pass = [o \in Operator |-> NoPass]

-----------------------------------------------------------------------------
(* Server-side apply creates an object or leaves its state as it is; what   *)
(* is terminating goes on terminating.                                      *)
Applied(s, created) == IF s = "absent" THEN created ELSE s
Apply(x) == objects' = [objects EXCEPT ![x] = Applied(@, "new")]
Exists(x) == objects[x] # "absent"

(* What reading an object may report of it: one that terminates still has   *)
(* the status it had.                                                       *)
Reports(x) ==
  IF objects[x] = "terminating"
    THEN {"new"} \cup {s \in {"ready"} : x \in proven} ELSE {objects[x]}

Goto(o, at) == pass' = [pass EXCEPT ![o].at = at]
Becomes(o, w) == pass' = [pass EXCEPT ![o] = w]

(* History: a call of o that creates or reroutes crosses the passes of the  *)
(* other replicas, which may have seen the cluster without it.              *)
Crosses(o, what, changes) ==
  crossed' = [q \in Operator |-> crossed[q] \cup {w \in {what} : changes /\ q # o}]

(* ListPaaSApps, and the choice among the three kinds of pass.              *)
ListPaaSApps(o) ==
  /\ pass[o].at = "idle"
  /\ Becomes(o, [NoPass EXCEPT
       !.spec = spec, !.status = [status EXCEPT !.observed = generation],
       !.at = IF Runs(spec.life) THEN "policy" ELSE "findroute"])
  /\ crossed' = [crossed EXCEPT ![o] = {}]
  /\ UNCHANGED <<manifestVars, status, route, policy, objects, proven>>

UpsertNetworkPolicy(o) ==
  /\ pass[o].at = "policy"
  /\ policy' = Applied(policy, "live")
  /\ Crosses(o, "policy", policy' # policy)
  /\ Goto(o, "route")
  /\ UNCHANGED <<manifestVars, status, route, objects, proven>>

(* Not ready: the previous release keeps the traffic, where there is one    *)
(* and the application is not resuming; otherwise nobody gets it.           *)
NotReady(w, phase) ==
  LET previous == w.status.active # None /\ w.spec.life # "Resuming"
  IN [w EXCEPT !.status.phase = phase, !.failed = FALSE, !.process = 1,
               !.at = IF previous THEN "active" ELSE "putroute",
               !.backend = IF previous THEN @ ELSE None]

NotReadyPhases(failed) == IF failed THEN {"Degraded"} ELSE {"Degraded", "Deploying"}

(* The route is read.  A manifest that has changed under the release id of  *)
(* the candidate is rejected; any other becomes the candidate.              *)
Conflicting(manifest, known) ==
  /\ known.candidate = manifest.release
  /\ known.hash \notin {None, manifest.variant}

RejectManifest(o) ==
  LET w == pass[o] IN
  /\ w.at = "route"
  /\ Conflicting(w.spec, w.status)
  /\ Becomes(o, [w EXCEPT
       !.status.phase = "Degraded",
       !.at = IF w.status.active # None THEN "active" ELSE "putroute",
       !.backend = IF w.status.active # None THEN route.backend ELSE None])
  /\ UNCHANGED <<manifestVars, status, clusterVars>>

AcceptManifest(o) ==
  LET w == pass[o]
      r == w.spec.release
  IN /\ w.at = "route"
     /\ ~Conflicting(w.spec, w.status)
     /\ Becomes(o, [w EXCEPT
          !.status.candidate = r, !.status.hash = w.spec.variant,
          !.backend = route.backend,
          !.at = IF r \in Migrating /\ w.status.migrated # r THEN "job" ELSE "deploy"])
     /\ UNCHANGED <<manifestVars, status, clusterVars>>

(* ensureMigration: candidate workloads wait for the job.                   *)
UpsertJob(o) ==
  /\ pass[o].at = "job"
  /\ Apply(Job(pass[o].spec.release))
  /\ Crosses(o, "objects", objects' # objects)
  /\ Goto(o, "getjob")
  /\ UNCHANGED <<manifestVars, status, route, policy, proven>>

GetRunningJob(o) ==    \* mutant
  LET w == pass[o] IN
  /\ w.at = "getjob"
  /\ \E s \in Reports(Job(w.spec.release)) :
       IF s # "failed"
         THEN Becomes(o, [w EXCEPT !.at = "deploy"])
         ELSE \E phase \in NotReadyPhases(TRUE) : Becomes(o, NotReady(w, phase))
  /\ UNCHANGED <<manifestVars, status, clusterVars>>

GetJob(o) ==
  LET w == pass[o] IN
  /\ w.at = "getjob"
  /\ \E s \in Reports(Job(w.spec.release)) :
       IF s = "ready"
         THEN Becomes(o, [w EXCEPT !.at = "deploy", !.status.migrated = w.spec.release])
         ELSE \E phase \in NotReadyPhases(s = "failed") : Becomes(o, NotReady(w, phase))
  /\ UNCHANGED <<manifestVars, status, clusterVars>>

-----------------------------------------------------------------------------
(* The loop over the processes, then the same loop of allProcessesReady.    *)

NextProcess(w) ==
  IF w.process < LastProcess
    THEN [w EXCEPT !.at = "deploy", !.process = @ + 1]
    ELSE [w EXCEPT !.at = "check", !.process = 1]

UpsertDeployment(o) ==
  LET w == pass[o] IN
  /\ w.at = "deploy"
  /\ Apply(Deployment(w.spec.release, w.process))
  /\ Crosses(o, "objects", objects' # objects)
  /\ Goto(o, "observe")
  /\ UNCHANGED <<manifestVars, status, route, policy, proven>>

GetDeployment(o) ==
  LET w == pass[o] IN
  /\ w.at = "observe"
  /\ \E s \in Reports(Deployment(w.spec.release, w.process)) :
       LET v == [w EXCEPT !.failed = @ \/ s = "failed"]
       IN Becomes(o, IF w.process = RouteProcess THEN [v EXCEPT !.at = "service"]
                                                 ELSE NextProcess(v))
  /\ UNCHANGED <<manifestVars, status, clusterVars>>

UpsertService(o) ==
  LET w == pass[o] IN
  /\ w.at = "service"
  /\ Apply(Service(w.spec.release))
  /\ Crosses(o, "objects", objects' # objects)
  /\ Becomes(o, NextProcess(w))
  /\ UNCHANGED <<manifestVars, status, route, policy, proven>>

(* Every process is ready: the candidate becomes the active release.        *)
RolloutCompleteUncleaned(w) ==    \* mutant
  LET r == w.spec.release
  IN [w EXCEPT !.at = "putroute", !.backend = r, !.process = 1, !.serving = FALSE,
               !.status.phase = "Ready", !.status.active = r, !.status.backend = r]

RolloutComplete(w) ==
  LET r == w.spec.release
  IN [w EXCEPT !.at = "putroute", !.backend = r, !.process = 1,
               !.serving = w.status.phase = "Ready" /\ w.status.active = r /\ w.backend = r,
               !.status.phase = "Ready", !.status.active = r, !.status.backend = r]

CheckNotFailed(o) ==    \* mutant
  LET w == pass[o] IN
  /\ w.at = "check"
  /\ \E s \in Reports(Deployment(w.spec.release, w.process)) :
       IF w.failed \/ s = "failed"
         THEN \E phase \in NotReadyPhases(w.failed) : Becomes(o, NotReady(w, phase))
         ELSE Becomes(o, IF w.process < LastProcess THEN [w EXCEPT !.process = @ + 1]
                                                    ELSE RolloutComplete(w))
  /\ UNCHANGED <<manifestVars, status, clusterVars>>

CheckReady(o) ==
  LET w == pass[o] IN
  /\ w.at = "check"
  /\ \E s \in Reports(Deployment(w.spec.release, w.process)) :
       IF w.failed \/ s # "ready"
         THEN \E phase \in NotReadyPhases(w.failed) : Becomes(o, NotReady(w, phase))
         ELSE Becomes(o, IF w.process < LastProcess THEN [w EXCEPT !.process = @ + 1]
                                                    ELSE RolloutComplete(w))
  /\ UNCHANGED <<manifestVars, status, clusterVars>>

(* routeToActive: the recorded backend, or the one the route has, provided  *)
(* that it is the service of the active release.                            *)
RouteToActive(o) ==
  LET w == pass[o]
      backend == IF w.status.backend # None THEN w.status.backend ELSE w.backend
      available == /\ backend # None
                   /\ backend = w.status.active
                   /\ Exists(Service(backend))
  IN /\ w.at = "active"
     /\ Becomes(o, IF available
          THEN [w EXCEPT !.at = "putroute", !.backend = backend, !.status.backend = backend]
          ELSE [w EXCEPT !.at = "putroute", !.backend = None, !.status.phase = "Degraded"])
     /\ UNCHANGED <<manifestVars, status, clusterVars>>

UpsertHTTPRoute(o) ==
  /\ pass[o].at = "putroute"
  /\ route' = [state |-> Applied(route.state, "live"), backend |-> pass[o].backend]
  /\ Crosses(o, "route", route' # route)
  /\ Becomes(o, [pass[o] EXCEPT !.at = "putstatus", !.backend = None])
  /\ UNCHANGED <<manifestVars, status, policy, objects, proven>>

(* UpdatePaaSAppStatus sends a merge patch without the fields that are      *)
(* empty: it overwrites and never clears.                                   *)
Patched(old, new) ==
  [phase |-> new.phase, observed |-> new.observed,
   active |-> IF new.active = None THEN old.active ELSE new.active,
   backend |-> IF new.backend = None THEN old.backend ELSE new.backend,
   candidate |-> IF new.candidate = None THEN old.candidate ELSE new.candidate,
   hash |-> IF new.hash = None THEN old.hash ELSE new.hash,
   migrated |-> IF new.migrated = None THEN old.migrated ELSE new.migrated]

UpdateCurrentStatus(o) ==    \* mutant
  LET w == pass[o] IN
  /\ w.at = "putstatus"
  /\ status' = Patched(status, [w.status EXCEPT !.observed = generation])
  /\ Becomes(o, IF w.serving THEN [NoPass EXCEPT !.at = "list", !.spec = w.spec] ELSE NoPass)
  /\ UNCHANGED <<manifestVars, clusterVars>>

UpdateStatus(o) ==
  LET w == pass[o] IN
  /\ w.at = "putstatus"
  /\ status' = Patched(status, w.status)
  /\ Becomes(o, IF w.serving THEN [NoPass EXCEPT !.at = "list", !.spec = w.spec] ELSE NoPass)
  /\ UNCHANGED <<manifestVars, clusterVars>>

-----------------------------------------------------------------------------
(* deleteWorkloads: list and delete one kind after the other.  A rollout    *)
(* that is served deletes what other releases left; the result of its       *)
(* second look at the cluster is dropped.                                   *)
Doomed(w) == {x \in Object : /\ x.kind = w.kind
                             /\ Exists(x)
                             /\ Runs(w.spec.life) => x.release # w.spec.release}

NextKind(w, then) ==
  IF w.kind = "job" THEN then
  ELSE [w EXCEPT !.kind = IF @ = "deployment" THEN "service" ELSE "job", !.at = "list"]

AllListed(w) ==
  NextKind(w, IF Runs(w.spec.life) THEN NoPass ELSE [w EXCEPT !.at = "recheck", !.kind = "deployment"])

ListObjects(o) ==
  LET w == pass[o] IN
  /\ w.at = "list"
  /\ Becomes(o, IF Doomed(w) = {} THEN AllListed(w)
                ELSE [w EXCEPT !.at = "delete", !.doomed = Doomed(w)])
  /\ UNCHANGED <<manifestVars, status, clusterVars>>

DeleteObject(o, x) ==
  LET w == pass[o]
      left == w.doomed \ {x}
      rest == [w EXCEPT !.doomed = left]
  IN /\ w.at = "delete"
     /\ x \in w.doomed
     /\ \E s \in {"absent", "terminating"} :
          objects' = [objects EXCEPT ![x] = IF @ = "absent" THEN @ ELSE s]
     /\ Becomes(o, IF left = {} THEN AllListed(rest) ELSE rest)
     /\ UNCHANGED <<manifestVars, status, route, policy, proven, crossed>>

(* matchingWorkloadsExist, one list after the other.                        *)
RecheckNothing(o) ==    \* mutant
  LET w == pass[o] IN
  /\ w.at = "recheck"
  /\ Becomes(o, IF w.spec.life \in Deleting THEN [w EXCEPT !.at = "findpolicy"]
                ELSE [w EXCEPT !.at = "putstatus", !.status.phase = "Suspended"])
  /\ UNCHANGED <<manifestVars, status, clusterVars>>

Recheck(o) ==
  LET w == pass[o]
      pending == IF w.spec.life \in Deleting THEN "DeletingWorkloads" ELSE "Suspending"
      done == IF w.spec.life \in Deleting THEN [w EXCEPT !.at = "findpolicy", !.kind = "deployment"]
              ELSE [w EXCEPT !.at = "putstatus", !.kind = "deployment", !.status.phase = "Suspended",
                             !.status.backend = None, !.status.candidate = None,
                             !.status.hash = None]
      next == NextKind(w, done)
  IN /\ w.at = "recheck"
     /\ Becomes(o, IF Doomed(w) # {}
                     THEN [w EXCEPT !.at = "putstatus", !.kind = "deployment",
                                    !.status.phase = pending]
                     ELSE IF w.kind = "job" THEN done ELSE [next EXCEPT !.at = "recheck"])
     /\ UNCHANGED <<manifestVars, status, clusterVars>>

(* reconcileDeletion and reconcileSuspension: the route goes first, in a    *)
(* pass of its own.                                                         *)
FindRoute(o) ==
  /\ pass[o].at = "findroute"
  /\ Goto(o, IF route.state = "absent" THEN "list" ELSE "deleteroute")
  /\ UNCHANGED <<manifestVars, status, clusterVars>>

DeleteRouteAndGoOn(o) ==    \* mutant
  /\ pass[o].at = "deleteroute"
  /\ route' \in {[state |-> "absent", backend |-> None],
                 [route EXCEPT !.state = IF @ = "absent" THEN @ ELSE "terminating"]}
  /\ Goto(o, "list")
  /\ UNCHANGED <<manifestVars, status, policy, objects, proven, crossed>>

DeleteHTTPRoute(o) ==
  LET w == pass[o] IN
  /\ w.at = "deleteroute"
  /\ route' \in {[state |-> "absent", backend |-> None],
                 [route EXCEPT !.state = IF @ = "absent" THEN @ ELSE "terminating"]}
  /\ Becomes(o, [w EXCEPT !.at = "putstatus",
       !.status.phase = IF w.spec.life \in Deleting THEN "DeletingRoute" ELSE "Suspending"])
  /\ UNCHANGED <<manifestVars, status, policy, objects, proven, crossed>>

Deleted(w) ==
  [w EXCEPT !.at = "putstatus",
            !.status = [NoStatus EXCEPT !.observed = w.status.observed,
               !.phase = IF w.spec.life = "Deleted" THEN "Deleted" ELSE "Retaining"]]

FindNetworkPolicy(o) ==
  LET w == pass[o] IN
  /\ w.at = "findpolicy"
  /\ Becomes(o, IF policy = "absent" THEN Deleted(w) ELSE [w EXCEPT !.at = "deletepolicy"])
  /\ UNCHANGED <<manifestVars, status, clusterVars>>

DeleteNetworkPolicy(o) ==
  /\ pass[o].at = "deletepolicy"
  /\ policy' \in {"absent", IF policy = "absent" THEN policy ELSE "terminating"}
  /\ Goto(o, "checkpolicy")
  /\ UNCHANGED <<manifestVars, status, route, objects, proven, crossed>>

CheckNetworkPolicy(o) ==
  LET w == pass[o] IN
  /\ w.at = "checkpolicy"
  /\ Becomes(o, IF policy = "absent" THEN Deleted(w)
                ELSE [w EXCEPT !.at = "putstatus", !.status.phase = "DeletingPolicy"])
  /\ UNCHANGED <<manifestVars, status, clusterVars>>

(* An error, the deadline of the pass, or a crash.                          *)
StopPass(o) ==
  /\ pass[o].at # "idle"
  /\ Becomes(o, NoPass)
  /\ UNCHANGED <<manifestVars, status, clusterVars>>

-----------------------------------------------------------------------------
(* External: the manifest.  A release id is committed once and a later one  *)
(* replaces it; a retry may render other contents under the id.             *)
Renew(manifest) ==
  /\ generation < MaxGeneration
  /\ generation' = generation + 1
  /\ spec' = manifest
  /\ UNCHANGED <<status, clusterVars, pass>>

NextRelease ==
  /\ spec.release < MaxRelease
  /\ Renew([spec EXCEPT !.release = @ + 1, !.variant = 1])

ChangeManifest ==
  /\ spec.variant < MaxVariant
  /\ Renew([spec EXCEPT !.variant = @ + 1])

Transitions ==
  {<<"Active", "Suspending">>, <<"Active", "DeletingRuntime">>,
   <<"Suspending", "Suspended">>, <<"Suspending", "Active">>,
   <<"Suspended", "Resuming">>, <<"Suspended", "DeletingRuntime">>,
   <<"Resuming", "Active">>, <<"Resuming", "Suspended">>,
   <<"DeletingRuntime", "Retaining">>, <<"DeletingRuntime", "Active">>,
   <<"Retaining", "Deleted">>}

TransitionLifecycle ==
  \E to \in Lifecycle :
    /\ <<spec.life, to>> \in Transitions
    /\ Renew([spec EXCEPT !.life = to])

(* External: the cluster.  Workloads become ready, lose readiness and fail; *)
(* a job that has ended stays as it is; what terminates goes away.          *)
BecomeReady(x) ==
  /\ \/ objects[x] = "new" /\ x.kind \in {"deployment", "job"}
     \/ objects[x] = "failed" /\ x.kind = "deployment"
  /\ objects' = [objects EXCEPT ![x] = "ready"]
  /\ proven' = proven \cup {x}
  /\ UNCHANGED <<manifestVars, status, route, policy, crossed, pass>>

Fail(x) ==
  /\ objects[x] = "new"
  /\ x.kind \in {"deployment", "job"}
  /\ objects' = [objects EXCEPT ![x] = "failed"]
  /\ UNCHANGED <<manifestVars, status, route, policy, proven, crossed, pass>>

LoseReadiness(x) ==
  /\ objects[x] = "ready"
  /\ x.kind = "deployment"
  /\ objects' = [objects EXCEPT ![x] = "new"]
  /\ UNCHANGED <<manifestVars, status, route, policy, proven, crossed, pass>>

Remove(x) ==
  /\ objects[x] = "terminating"
  /\ objects' = [objects EXCEPT ![x] = "absent"]
  /\ UNCHANGED <<manifestVars, status, route, policy, proven, crossed, pass>>

RemoveRoute ==
  /\ route.state = "terminating"
  /\ route' = [state |-> "absent", backend |-> None]
  /\ UNCHANGED <<manifestVars, status, policy, objects, proven, crossed, pass>>

RemovePolicy ==
  /\ policy = "terminating"
  /\ policy' = "absent"
  /\ UNCHANGED <<manifestVars, status, route, objects, proven, crossed, pass>>

-----------------------------------------------------------------------------
Reconcile(o) ==
  \/ ListPaaSApps(o) \/ UpsertNetworkPolicy(o) \/ RejectManifest(o) \/ AcceptManifest(o)
  \/ UpsertJob(o) \/ GetJob(o)
  \/ UpsertDeployment(o) \/ GetDeployment(o) \/ UpsertService(o) \/ CheckReady(o)
  \/ RouteToActive(o) \/ UpsertHTTPRoute(o) \/ UpdateStatus(o)
  \/ ListObjects(o) \/ (\E x \in Object : DeleteObject(o, x)) \/ Recheck(o)
  \/ FindRoute(o) \/ DeleteHTTPRoute(o)
  \/ FindNetworkPolicy(o) \/ DeleteNetworkPolicy(o) \/ CheckNetworkPolicy(o)

Manifest == NextRelease \/ ChangeManifest \/ TransitionLifecycle
Trouble(x) == Fail(x) \/ LoseReadiness(x)

Next ==
  \/ \E o \in Operator : Reconcile(o) \/ StopPass(o)
  \/ Manifest
  \/ \E x \in Object : BecomeReady(x) \/ Trouble(x) \/ Remove(x)
  \/ RemoveRoute \/ RemovePolicy

Spec == Init /\ [][Next]_vars

(* The operator polls and its passes go on; the cluster brings workloads up *)
(* and carries deletions out.                                               *)
Fairness ==
  /\ \A o \in Operator : WF_vars(Reconcile(o))
  /\ WF_vars(\E x \in Object : BecomeReady(x))
  /\ WF_vars((\E x \in Object : Remove(x)) \/ RemoveRoute \/ RemovePolicy)

FairSpec == Spec /\ Fairness

-----------------------------------------------------------------------------
(* The gateway sends traffic only to a release that has once been ready in  *)
(* every process, after its migration if it has one, whatever the operators *)
(* remember of older manifests and statuses.                                *)
TrafficWasReady ==
  route.backend # None =>
    /\ \A p \in Process : Deployment(route.backend, p) \in proven
    /\ route.backend \in Migrating => Job(route.backend) \in proven

(* No workload of a release exists before its migration has succeeded.      *)
MigrationGate ==
  \A r \in Migrating :
    (\/ Exists(Service(r))
     \/ \E p \in Process : Exists(Deployment(r, p))) => Job(r) \in proven

(* The control plane takes a Ready status for the manifest when it reports  *)
(* that generation: then the manifest wants the release that is reported    *)
(* active, and wants it to run.                                             *)
ReadyIsOfTheManifest ==
  (status.phase = "Ready" /\ status.observed = generation) =>
    status.active = spec.release /\ Runs(spec.life)

(* No child of the release that has the traffic is asked to be deleted:     *)
(* cleanup spares it, suspension and deletion remove the route first and    *)
(* see it gone.  With any number of replicas: what remains, and nothing in  *)
(* the code prevents, is that another replica has moved the route since the *)
(* deleting pass began.                                                     *)
DeletionRequested(x) == /\ objects[x] \notin {"absent", "terminating"}
                        /\ objects'[x] \in {"absent", "terminating"}
ServedIsNotDeleted ==
  [][\A x \in Object : (DeletionRequested(x) /\ x.release = route.backend) =>
       \E o \in Operator : DeleteObject(o, x) /\ "route" \in crossed[o]]_vars

(* Suspended, Retaining and Deleted are reported when nothing is left.  With*)
(* any number of replicas: left can only be what another replica has brought*)
(* back since the reporting pass began, which nothing prevents either.      *)
NothingIsLeft ==
  [][(status' # status /\ status'.phase \in {"Suspended", "Retaining", "Deleted"}) =>
       \E o \in Operator :
         /\ UpdateStatus(o)
         /\ route.state = "absent" \/ "route" \in crossed[o]
         /\ (\A x \in Object : ~Exists(x)) \/ "objects" \in crossed[o]
         /\ status'.phase = "Suspended" \/ policy = "absent" \/ "policy" \in crossed[o]]_vars

(* When the manifest no longer changes, workloads no longer fail and passes *)
(* are no longer interrupted, the operator gets where the manifest says: the*)
(* release serves and the others are gone; nothing runs and the status says *)
(* so; nothing is left.  Only a failed migration and a rejected manifest    *)
(* keep a rollout from completing.                                          *)
Disturbed ==
  \/ Manifest
  \/ \E x \in Object : Trouble(x)
  \/ \E o \in Operator : StopPass(o) /\ ~Reconcile(o)
Calm == [][~Disturbed]_vars

Serving ==
  /\ route = [state |-> "live", backend |-> spec.release]
  /\ status.phase = "Ready" /\ status.active = spec.release
  /\ \A x \in Object : Exists(x) => x.release = spec.release
Suspended == status.phase = "Suspended" /\ \A x \in Object : ~Exists(x)
Gone == /\ status.phase \in {"Retaining", "Deleted"}
        /\ policy = "absent"
        /\ \A x \in Object : ~Exists(x)

MustServe ==
  /\ Runs(spec.life)
  /\ objects[Job(spec.release)] # "failed"
  /\ ~Conflicting(spec, status)

ManifestIsReached ==
  <>Calm => <>[](\/ MustServe /\ Serving
                 \/ Runs(spec.life) /\ ~MustServe
                 \/ spec.life \in {"Suspending", "Suspended"} /\ Suspended
                 \/ spec.life \in Deleting /\ Gone)
=============================================================================
